----------------------------- MODULE WireProofs -----------------------------
(***************************************************************************)
(* Proofs about Wire: whatever is on the bus, however it is cut into       *)
(* batches, lost, recorded and played again, all decoders read the same    *)
(* frames, which are those of the bus, and the phone's tiles and gauge     *)
(* show what the payloads that reached it say.                             *)
(*                                                                         *)
(* A frame that is still on its way is known by its place on the bus       *)
(* (Genuine). What the phone has heard is followed frame by frame.         *)
(***************************************************************************)
EXTENDS Wire, SequenceTheorems, WellFoundedInduction, TLAPS

-----------------------------------------------------------------------------
(* Frames, encoded and decoded. *)

\* A frame as it may be on the bus, but for its place.
IsFrame(f) ==
  /\ f.t \in Int /\ f.id \in 0 .. IdMod - 1
  /\ f.ext \in BOOLEAN /\ f.err \in BOOLEAN /\ f.rtr \in BOOLEAN
  /\ f.dlc \in 0 .. MaxDlc /\ f.data \in Seq(0 .. Byte - 1)
  /\ Len(f.data) = IF f.rtr THEN 0 ELSE f.dlc

IsFrames(frames) == (\E S : frames \in Seq(S)) /\ \A i \in DOMAIN frames : IsFrame(frames[i])

\* A payload filled up is as long as a payload can be.
LEMMA PaddedLen ==
  ASSUME NEW x
  PROVE  /\ Padded(x) \in Seq({Padded(x)[i] : i \in 1 .. MaxDlc}) /\ Len(Padded(x)) = MaxDlc
         /\ \A i \in 1 .. MaxDlc : Padded(x)[i] = IF i <= Len(x) THEN x[i] ELSE 0
<1> DEFINE V == {Padded(x)[i] : i \in 1 .. MaxDlc}
<1>1. MaxDlc \in Nat
  BY CodecAssumption
<1>2. Padded(x) = [i \in 1 .. MaxDlc |-> IF i <= Len(x) THEN x[i] ELSE 0]
  BY DEF Padded
<1>3. Padded(x) \in [1 .. MaxDlc -> V]
  BY <1>2
<1> HIDE DEF V
<1>4. Padded(x) \in Seq(V) /\ Len(Padded(x)) = MaxDlc
  BY <1>1, <1>3
<1> QED BY <1>2, <1>4 DEF V

\* A frame's bytes are as many as its length says, or none.
LEMMA WholeData ==
  ASSUME NEW f, IsFrame(f)
  PROVE  SubSeq(f.data, 1, Lesser(f.dlc, Len(f.data))) = f.data
<1>1. f.data \in Seq(0 .. Byte - 1) /\ Len(f.data) \in Nat /\ f.dlc \in Nat
  BY CodecAssumption DEF IsFrame
<1>2. Lesser(f.dlc, Len(f.data)) = Len(f.data)
  BY <1>1 DEF IsFrame, Lesser
<1> QED BY <1>1, <1>2, SubSeqFull

\* So a record says all there is to a frame.
LEMMA RecordOfFrame ==
  ASSUME NEW f, IsFrame(f), NEW base
  PROVE  EncodeRecord(f, base) =
           [dt |-> f.t - base, word |-> [id |-> f.id, ext |-> f.ext, err |-> f.err],
            dlc |-> f.dlc, rtr |-> f.rtr, data |-> Padded(f.data)]
<1>1. f.id % IdMod = f.id
  BY SMTT(60), CodecAssumption DEF IsFrame
<1> QED BY <1>1, WholeData DEF EncodeRecord, EncodedCanId

\* What is cut off and filled up again begins as before.
LEMMA CutAndFilled ==
  ASSUME NEW x, NEW d \in 0 .. MaxDlc
  PROVE  SubSeq(Padded(SubSeq(Padded(x), 1, d)), 1, d) = SubSeq(Padded(x), 1, d)
<1> DEFINE p == Padded(x)
           c == SubSeq(p, 1, d)
           q == Padded(c)
           e == SubSeq(q, 1, d)
<1>1. d \in Nat /\ MaxDlc \in Nat /\ d <= MaxDlc
  BY CodecAssumption
<1>2. PICK S : p \in Seq(S) /\ Len(p) = MaxDlc
  BY PaddedLen
<1>3. PICK T : q \in Seq(T) /\ Len(q) = MaxDlc
  BY PaddedLen
<1>4. \A i \in 1 .. MaxDlc : q[i] = IF i <= Len(c) THEN c[i] ELSE 0
  BY PaddedLen
<1> HIDE DEF p, q
<1>5. c = [i \in 1 .. d |-> p[i]] /\ Len(c) = d
  BY <1>1, <1>2
<1>6. e = [i \in 1 .. d |-> q[i]]
  BY <1>1, <1>3
<1>7. \A i \in 1 .. d : q[i] = p[i]
  BY <1>1, <1>4, <1>5
<1> QED BY <1>5, <1>6, <1>7 DEF p, q

\* What fills the phone's payload is the frame's bytes, whatever was there.
LEMMA ScratchFilled ==
  ASSUME NEW f, IsFrame(f), NEW base, NEW before
  PROVE  ScratchAfter(before, EncodeRecord(f, base)) = Padded(f.data)
<1> DEFINE r == EncodeRecord(f, base)
<1>1. r.dlc = f.dlc /\ r.data = Padded(f.data)
  BY RecordOfFrame
<1>2. MaxDlc \in Nat /\ f.dlc \in 0 .. MaxDlc /\ Len(f.data) \in Nat
  BY CodecAssumption DEF IsFrame
<1>3. Lesser(r.dlc, MaxDlc) = f.dlc
  BY <1>1, <1>2 DEF Lesser
<1>4. ASSUME NEW i \in 1 .. MaxDlc
      PROVE  (IF i <= f.dlc THEN Padded(f.data)[i] ELSE 0) = IF i <= Len(f.data) THEN f.data[i] ELSE 0
  <2>1. Padded(f.data)[i] = IF i <= Len(f.data) THEN f.data[i] ELSE 0
    BY PaddedLen
  <2>2. i > f.dlc => ~(i <= Len(f.data))
    BY <1>2 DEF IsFrame
  <2> QED BY <2>1, <2>2, <1>2
<1> HIDE DEF r
<1>5. ScratchAfter(before, r) = [i \in 1 .. MaxDlc |-> IF i <= f.dlc THEN Padded(f.data)[i] ELSE 0]
  BY <1>1, <1>3 DEF ScratchAfter
<1>6. Padded(f.data) = [i \in 1 .. MaxDlc |-> IF i <= Len(f.data) THEN f.data[i] ELSE 0]
  BY DEF Padded
<1>7. ScratchAfter(before, r) = Padded(f.data)
  BY <1>4, <1>5, <1>6
<1> QED BY <1>7 DEF r

-----------------------------------------------------------------------------
(* A batch and its readers. *)

\* The frame a decoder makes of one that was sent, with the bytes it holds.
Received(f, bytes) ==
  [t |-> f.t, id |-> f.id, ext |-> f.ext, err |-> f.err, rtr |-> f.rtr, dlc |-> f.dlc, data |-> bytes]

\* A batch has as many records as there are frames.
LEMMA BatchOf ==
  ASSUME NEW frames, IsFrames(frames), NEW base, NEW replay
  PROVE  LET b == EncodeBatch(frames, base, replay)
         IN  /\ b.version = Version /\ b.base = base /\ b.count = Len(frames)
             /\ b.count \in Nat /\ Len(b.records) = b.count /\ DOMAIN frames = 1 .. b.count
             /\ \A i \in 1 .. b.count : b.records[i] = EncodeRecord(frames[i], base)
<1> DEFINE rec == [i \in DOMAIN frames |-> EncodeRecord(frames[i], base)]
           R == {rec[i] : i \in DOMAIN frames}
<1>1. Len(frames) \in Nat /\ DOMAIN frames = 1 .. Len(frames)
  BY DEF IsFrames
<1>2. rec \in [1 .. Len(frames) -> R]
  BY <1>1
<1> HIDE DEF R
<1>3. Len(rec) = Len(frames)
  BY <1>1, <1>2
<1> QED BY <1>1, <1>3 DEF EncodeBatch

\* A stamp is a base and a distance from it.
LEMMA StampKept ==
  ASSUME NEW f, IsFrame(f), NEW base \in Int
  PROVE  base + EncodeRecord(f, base).dt = f.t
<1>1. EncodeRecord(f, base).dt = f.t - base
  BY RecordOfFrame
<1> QED BY <1>1 DEF IsFrame

\* The cockpit reads each frame with the bytes it has.
LEMMA CockpitReads ==
  ASSUME NEW frames, IsFrames(frames), NEW base \in Int, NEW replay
  PROVE  ParseCockpit(EncodeBatch(frames, base, replay))
           = [i \in 1 .. Len(frames) |->
                Received(frames[i], SubSeq(Padded(frames[i].data), 1, frames[i].dlc))]
<1> DEFINE b == EncodeBatch(frames, base, replay)
<1>1. /\ b.version = Version /\ b.base = base /\ b.count = Len(frames)
      /\ b.count \in Nat /\ Len(b.records) = b.count /\ DOMAIN frames = 1 .. b.count
      /\ \A i \in 1 .. b.count : b.records[i] = EncodeRecord(frames[i], base)
  BY BatchOf
<1> HIDE DEF b
<1>2. ASSUME NEW i \in 1 .. b.count
      PROVE  LET r == b.records[i]
             IN  Decoded(r, b.base, Lesser(r.dlc, MaxDlc), SubSeq(r.data, 1, Lesser(r.dlc, MaxDlc)))
                   = Received(frames[i], SubSeq(Padded(frames[i].data), 1, frames[i].dlc))
  <2> DEFINE f == frames[i]
             r == b.records[i]
  <2>1. IsFrame(f)
    BY <1>1 DEF IsFrames
  <2>2. r = EncodeRecord(f, base)
    BY <1>1
  <2> HIDE DEF f, r
  <2>3. /\ r.word = [id |-> f.id, ext |-> f.ext, err |-> f.err]
        /\ r.dlc = f.dlc /\ r.rtr = f.rtr /\ r.data = Padded(f.data)
    BY <2>1, <2>2, RecordOfFrame
  <2>4. base + r.dt = f.t
    BY <2>1, <2>2, StampKept
  <2>5. Lesser(r.dlc, MaxDlc) = f.dlc
    BY <2>1, <2>3, CodecAssumption DEF IsFrame, Lesser
  <2> DEFINE bytes == SubSeq(Padded(f.data), 1, f.dlc)
  <2>6. SubSeq(r.data, 1, Lesser(r.dlc, MaxDlc)) = bytes /\ b.base = base
    BY <1>1, <2>3, <2>5
  <2> HIDE DEF bytes
  <2>7. Decoded(r, base, f.dlc, bytes) = Received(f, bytes)
    BY <2>3, <2>4 DEF Decoded, Received
  <2>8. Decoded(r, b.base, Lesser(r.dlc, MaxDlc), SubSeq(r.data, 1, Lesser(r.dlc, MaxDlc)))
          = Received(f, SubSeq(Padded(f.data), 1, f.dlc))
    BY <2>5, <2>6, <2>7 DEF bytes
  <2> QED BY <2>8 DEF f, r
<1>3. ParseCockpit(b) = [i \in 1 .. b.count |->
                           Decoded(b.records[i], b.base, Lesser(b.records[i].dlc, MaxDlc),
                                   SubSeq(b.records[i].data, 1, Lesser(b.records[i].dlc, MaxDlc)))]
  BY <1>1 DEF ParseCockpit
<1> QED BY <1>1, <1>2, <1>3 DEF b

\* The reference decoder reads the same.
LEMMA SharedReads ==
  ASSUME NEW frames, IsFrames(frames), NEW base \in Int, NEW replay
  PROVE  LET b == EncodeBatch(frames, base, replay) IN DecodeShared(b) = ParseCockpit(b)
<1> DEFINE b == EncodeBatch(frames, base, replay)
<1>1. b.version = Version /\ Len(b.records) = b.count /\ b.count \in Nat
  BY BatchOf
<1> HIDE DEF b
<1>2. DecodeShared(b) = ParseCockpit(b)
  BY <1>1 DEF DecodeShared, ParseCockpit
<1> QED BY <1>2 DEF b

\* So does the backend's own.
LEMMA BackendReads ==
  ASSUME NEW frames, IsFrames(frames), NEW base \in Int, NEW replay
  PROVE  LET b == EncodeBatch(frames, base, replay) IN DecodeBackend(b) = ParseCockpit(b)
<1> DEFINE b == EncodeBatch(frames, base, replay)
<1>1. /\ b.version = Version /\ b.base = base /\ b.count = Len(frames)
      /\ b.count \in Nat /\ Len(b.records) = b.count /\ DOMAIN frames = 1 .. b.count
      /\ \A i \in 1 .. b.count : b.records[i] = EncodeRecord(frames[i], base)
  BY BatchOf
<1> HIDE DEF b
<1>2. ASSUME NEW i \in 1 .. b.count
      PROVE  Lesser(b.records[i].dlc, MaxDlc) = b.records[i].dlc
  <2>1. IsFrame(frames[i]) /\ b.records[i] = EncodeRecord(frames[i], base)
    BY <1>1 DEF IsFrames
  <2>2. b.records[i].dlc = frames[i].dlc
    BY <2>1, RecordOfFrame
  <2> QED BY <2>1, <2>2, CodecAssumption DEF IsFrame, Lesser
<1>3. DecodeBackend(b) = [i \in 1 .. b.count |-> DecodeRecord(b.records[i], b.base)]
  BY <1>1 DEF DecodeBackend
<1>4. ParseCockpit(b) = [i \in 1 .. b.count |->
                           Decoded(b.records[i], b.base, Lesser(b.records[i].dlc, MaxDlc),
                                   SubSeq(b.records[i].data, 1, Lesser(b.records[i].dlc, MaxDlc)))]
  BY <1>1 DEF ParseCockpit
<1>5. DecodeBackend(b) = ParseCockpit(b)
  BY <1>2, <1>3, <1>4 DEF DecodeRecord
<1> QED BY <1>5 DEF b

\* The phone hands on each frame with all of its payload, filled up.
LEMMA PhoneReads ==
  ASSUME NEW frames, IsFrames(frames), NEW base \in Int, NEW replay, NEW before
  PROVE  ParsePhone(EncodeBatch(frames, base, replay), before)
           = [i \in 1 .. Len(frames) |-> Received(frames[i], Padded(frames[i].data))]
<1> DEFINE b == EncodeBatch(frames, base, replay)
           Is(h) == h = [i \in 1 .. b.count |->
                           Decoded(b.records[i], b.base, Lesser(b.records[i].dlc, MaxDlc),
                                   ScratchAfter(IF i = 1 THEN before ELSE h[i - 1].data, b.records[i]))]
           all == [i \in 1 .. b.count |-> Received(frames[i], Padded(frames[i].data))]
<1>1. /\ b.version = Version /\ b.base = base /\ b.count = Len(frames)
      /\ b.count \in Nat /\ Len(b.records) = b.count /\ DOMAIN frames = 1 .. b.count
      /\ \A i \in 1 .. b.count : b.records[i] = EncodeRecord(frames[i], base)
  BY BatchOf
<1> HIDE DEF b
<1>2. ASSUME NEW i \in 1 .. b.count, NEW x
      PROVE  Decoded(b.records[i], b.base, Lesser(b.records[i].dlc, MaxDlc), ScratchAfter(x, b.records[i]))
               = Received(frames[i], Padded(frames[i].data))
  <2> DEFINE f == frames[i]
             r == b.records[i]
  <2>1. IsFrame(f)
    BY <1>1 DEF IsFrames
  <2>2. r = EncodeRecord(f, base)
    BY <1>1
  <2> HIDE DEF f, r
  <2>3. /\ r.word = [id |-> f.id, ext |-> f.ext, err |-> f.err]
        /\ r.dlc = f.dlc /\ r.rtr = f.rtr
    BY <2>1, <2>2, RecordOfFrame
  <2>4. base + r.dt = f.t
    BY <2>1, <2>2, StampKept
  <2>5. Lesser(r.dlc, MaxDlc) = f.dlc
    BY <2>1, <2>3, CodecAssumption DEF IsFrame, Lesser
  <2>6. ScratchAfter(x, r) = Padded(f.data)
    BY <2>1, <2>2, ScratchFilled
  <2>7. Decoded(r, b.base, Lesser(r.dlc, MaxDlc), ScratchAfter(x, r)) = Received(f, Padded(f.data))
    BY <1>1, <2>3, <2>4, <2>5, <2>6 DEF Decoded, Received
  <2> QED BY <2>7 DEF f, r
<1>3. ASSUME NEW h PROVE Is(h) <=> h = all
  <2>1. [i \in 1 .. b.count |->
           Decoded(b.records[i], b.base, Lesser(b.records[i].dlc, MaxDlc),
                   ScratchAfter(IF i = 1 THEN before ELSE h[i - 1].data, b.records[i]))] = all
    BY <1>2
  <2> QED BY <2>1
<1>4. ParsePhone(b, before) = CHOOSE h : Is(h)
  BY <1>1 DEF ParsePhone
<1>5. Is(CHOOSE h : Is(h))
  <2> HIDE DEF Is
  <2>1. Is(all)
    BY <1>3
  <2> QED BY <2>1
<1>6. ParsePhone(b, before) = all
  <2> HIDE DEF Is, all
  <2> QED BY <1>3, <1>4, <1>5
<1> QED BY <1>1, <1>6 DEF b

\* The contract's reference encoder agrees with the backend's.
LEMMA SharedEncodes ==
  ASSUME NEW frames, IsFrames(frames), NEW base \in Int, NEW replay, Fits(frames, base)
  PROVE  EncodeShared(frames, base, replay) = EncodeBatch(frames, base, replay)
<1>1. Len(frames) \in Nat /\ CountMod \in Nat /\ ~(Len(frames) >= CountMod)
  BY CodecAssumption DEF IsFrames, Fits
<1>2. \A i \in DOMAIN frames : ~(frames[i].dlc > MaxDlc)
  BY CodecAssumption DEF IsFrames, IsFrame
<1>3. ASSUME NEW i \in DOMAIN frames PROVE (frames[i].t - base) % DtMod = frames[i].t - base
  <2>1. frames[i].t - base \in 0 .. DtMod - 1 /\ DtMod \in Nat \ {0}
    BY CodecAssumption DEF Fits
  <2> QED BY <2>1
<1> QED BY <1>1, <1>2, <1>3 DEF EncodeShared, EncodeBatch, EncodeRecord

-----------------------------------------------------------------------------
(* Induction over numbers, by sets. *)

\* Every set of numbers that is not empty has a least one.
LEMMA LeastNumber ==
  ASSUME NEW T \in SUBSET Nat, T # {}
  PROVE  \E n \in T : \A m \in T : n <= m
<1> DEFINE R == {p \in Nat \X Nat : p[1] < p[2]}
<1>1. IsWellFoundedOn(R, Nat)
  BY NatLessThanWellFounded DEF OpToRel
<1>2. PICK x \in T : \A y \in T : ~(<<y, x>> \in R)
  BY <1>1, WFMin
<1>3. ASSUME NEW m \in T PROVE x <= m
  <2>1. x \in Nat /\ m \in Nat
    BY <1>2
  <2>2. ~(<<m, x>> \in R)
    BY <1>2
  <2>3. ~(m < x)
    BY <2>1, <2>2
  <2> HIDE DEF R
  <2> QED BY <2>1, <2>3
<1> HIDE DEF R
<1> QED BY <1>2, <1>3

\* A set of numbers that has 0, and with every number the next, is all of them.
LEMMA Induction ==
  ASSUME NEW T \in SUBSET Nat, 0 \in T, \A n \in T : n + 1 \in T
  PROVE  T = Nat
<1> SUFFICES ASSUME Nat \ T # {} PROVE FALSE
  OBVIOUS
<1>1. PICK n \in Nat \ T : \A m \in Nat \ T : n <= m
  BY LeastNumber
<1>2. n # 0 /\ n - 1 \in Nat /\ n - 1 < n /\ (n - 1) + 1 = n
  BY <1>1
<1> QED BY <1>1, <1>2

-----------------------------------------------------------------------------
(* What is done frame by frame. *)

\* The phone takes a frame, or a watch reads the frame at a place of the bus.
Turn(onPhone, w, x, y) ==
  IF onPhone THEN OnRecord(x, y)
  ELSE IF MatchesFrame(w, Original(y))
  THEN Append(x, ExtractWatched(Padded(Original(y).data), w)) ELSE x

\* The functions that say what there is after each turn.
AreTurns(f, n, onPhone, w, start, list) ==
  f = [i \in 0 .. n |-> IF i = 0 THEN start ELSE Turn(onPhone, w, f[i - 1], list[i])]

\* What such a function does from turn to turn.
Turns(f, n, onPhone, w, start, list) ==
  f[0] = start /\ \A i \in 1 .. n : f[i] = Turn(onPhone, w, f[i - 1], list[i])

\* There is such a function, for every number of turns.
LEMMA TurnsExist ==
  ASSUME NEW onPhone, NEW w, NEW start, NEW list, NEW N \in Nat
  PROVE  \E f : AreTurns(f, N, onPhone, w, start, list)
<1> DEFINE Of(h, i) == IF i = 0 THEN start ELSE Turn(onPhone, w, h[i - 1], list[i])
           Is(f, n) == f = [i \in 0 .. n |-> Of(f, i)]
           T == {n \in Nat : \E f : Is(f, n)}
<1>1. 0 \in T
  <2> DEFINE f == [i \in 0 .. 0 |-> start]
  <2>1. f = [i \in 0 .. 0 |-> Of(f, i)]
    OBVIOUS
  <2> QED BY <2>1
<1>2. ASSUME NEW n \in T PROVE n + 1 \in T
  <2>1. PICK f : Is(f, n)
    OBVIOUS
  <2> DEFINE g == [i \in 0 .. (n + 1) |-> IF i <= n THEN f[i] ELSE Of(f, n + 1)]
  <2>2. ASSUME NEW i \in 0 .. (n + 1) PROVE g[i] = Of(g, i)
    <3>1. CASE i = 0
      <4>1. g[i] = f[0] /\ 0 \in 0 .. n
        BY <3>1
      <4>2. f[0] = Of(f, 0)
        <5> HIDE DEF Of, g
        <5> QED BY <2>1, <4>1
      <4> QED BY <3>1, <4>1, <4>2
    <3>2. CASE i > 0 /\ i <= n
      <4>1. i \in 0 .. n /\ g[i] = f[i]
        BY <3>2
      <4>2. f[i] = Of(f, i)
        <5> HIDE DEF Of, g
        <5> QED BY <2>1, <4>1
      <4>3. i - 1 \in 0 .. (n + 1) /\ i - 1 <= n
        BY <3>2
      <4>4. g[i - 1] = f[i - 1]
        BY <4>3
      <4> QED BY <3>2, <4>1, <4>2, <4>4
    <3>3. CASE i = n + 1
      <4>1. g[i] = Of(f, n + 1)
        BY <3>3
      <4>2. n \in 0 .. (n + 1) /\ i - 1 = n /\ i # 0
        BY <3>3
      <4>3. g[i - 1] = f[n]
        BY <4>2
      <4>4. Of(f, n + 1) = Of(g, i)
        BY <3>3, <4>2, <4>3
      <4> QED BY <4>1, <4>4
    <3> QED BY <3>1, <3>2, <3>3
  <2>3. g = [i \in 0 .. (n + 1) |-> Of(g, i)]
    <3> HIDE DEF Of
    <3> QED BY <2>2
  <2>4. Is(g, n + 1)
    BY <2>3
  <2> HIDE DEF g, Is
  <2>5. n + 1 \in Nat
    OBVIOUS
  <2> QED BY <2>4, <2>5
<1> HIDE DEF Is
<1>3. T = Nat
  <2> HIDE DEF T
  <2>1. T \in SUBSET Nat
    BY DEF T
  <2> QED BY <1>1, <1>2, <2>1, Induction
<1>4. PICK f : Is(f, N)
  BY <1>3
<1> QED BY <1>4 DEF Is, AreTurns

\* It goes turn by turn.
LEMMA TurnsGo ==
  ASSUME NEW onPhone, NEW w, NEW start, NEW list, NEW N \in Nat, NEW f,
         AreTurns(f, N, onPhone, w, start, list)
  PROVE  Turns(f, N, onPhone, w, start, list)
<1> DEFINE Of(i) == IF i = 0 THEN start ELSE Turn(onPhone, w, f[i - 1], list[i])
<1>1. f = [i \in 0 .. N |-> Of(i)]
  BY DEF AreTurns
<1> HIDE DEF Of
<1>2. \A i \in 0 .. N : f[i] = Of(i)
  BY <1>1
<1>3. f[0] = start
  <2>1. 0 \in 0 .. N
    OBVIOUS
  <2> QED BY <1>2, <2>1 DEF Of
<1>4. ASSUME NEW i \in 1 .. N PROVE f[i] = Turn(onPhone, w, f[i - 1], list[i])
  <2>1. i \in 0 .. N /\ i # 0
    OBVIOUS
  <2> QED BY <1>2, <2>1 DEF Of
<1> QED BY <1>3, <1>4 DEF Turns

\* So what the phone has heard is there.
LEMMA HeardGoes ==
  ASSUME NEW start, NEW frames, Len(frames) \in Nat
  PROVE  \E f : /\ Turns(f, Len(frames), TRUE, {}, start, frames)
                /\ Heard(start, frames) = f[Len(frames)]
<1> DEFINE Is(f) == AreTurns(f, Len(frames), TRUE, {}, start, frames)
           h == CHOOSE f : Is(f)
<1>1. Heard(start, frames) = h[Len(frames)]
  BY DEF Heard, AreTurns, Turn
<1>2. \E f : Is(f)
  BY TurnsExist
<1>3. Is(h)
  <2> HIDE DEF Is
  <2> QED BY <1>2
<1> HIDE DEF h
<1>4. Turns(h, Len(frames), TRUE, {}, start, frames)
  BY <1>3, TurnsGo
<1> QED BY <1>1, <1>4

\* And what a watch has read.
LEMMA ReadGoes ==
  ASSUME NEW w, NEW came, Len(came) \in Nat
  PROVE  \E f : /\ Turns(f, Len(came), FALSE, w, <<>>, came)
                /\ ValuesIn(w, came) = f[Len(came)]
<1> DEFINE Is(f) == AreTurns(f, Len(came), FALSE, w, <<>>, came)
           h == CHOOSE f : Is(f)
<1>1. ValuesIn(w, came) = h[Len(came)]
  BY DEF ValuesIn, AreTurns, Turn
<1>2. \E f : Is(f)
  BY TurnsExist
<1>3. Is(h)
  <2> HIDE DEF Is
  <2> QED BY <1>2
<1> HIDE DEF h
<1>4. Turns(h, Len(came), FALSE, w, <<>>, came)
  BY <1>3, TurnsGo
<1> QED BY <1>1, <1>4

\* One more place is read after all others.
LEMMA ReadAppend ==
  ASSUME NEW w, NEW came \in Seq(Nat), NEW n \in Nat
  PROVE  ValuesIn(w, Append(came, n)) = Turn(FALSE, w, ValuesIn(w, came), n)
<1> DEFINE L == Len(came)
           more == Append(came, n)
<1>1. L \in Nat /\ L + 1 \in Nat /\ Len(more) = L + 1 /\ more[L + 1] = n /\ \A i \in 1 .. L : more[i] = came[i]
  OBVIOUS
<1> HIDE DEF L, more
<1>2. PICK f : Turns(f, L, FALSE, w, <<>>, came) /\ ValuesIn(w, came) = f[L]
  BY <1>1, ReadGoes DEF L
<1>3. PICK g : Turns(g, L + 1, FALSE, w, <<>>, more) /\ ValuesIn(w, more) = g[L + 1]
  BY <1>1, ReadGoes
<1> DEFINE T == {i \in Nat : i <= L => g[i] = f[i]}
<1>4. 0 \in T
  BY <1>2, <1>3 DEF Turns
<1>5. ASSUME NEW i \in T PROVE i + 1 \in T
  <2>1. CASE i + 1 <= L
    <3>1. g[i] = f[i] /\ i + 1 \in 1 .. L /\ i + 1 \in 1 .. L + 1 /\ (i + 1) - 1 = i
      BY <1>1, <2>1
    <3>2. f[i + 1] = Turn(FALSE, w, f[i], came[i + 1])
      BY <1>2, <3>1 DEF Turns
    <3>3. g[i + 1] = Turn(FALSE, w, g[i], more[i + 1])
      BY <1>3, <3>1 DEF Turns
    <3>4. more[i + 1] = came[i + 1]
      BY <1>1, <3>1
    <3>5. g[i + 1] = f[i + 1]
      BY <3>1, <3>2, <3>3, <3>4
    <3> QED BY <3>5
  <2>2. CASE ~(i + 1 <= L)
    BY <2>2
  <2> QED BY <2>1, <2>2
<1>6. T = Nat
  <2> HIDE DEF T
  <2>1. T \in SUBSET Nat
    BY DEF T
  <2> QED BY <1>4, <1>5, <2>1, Induction
<1>7. g[L] = f[L] /\ L + 1 \in 1 .. L + 1 /\ (L + 1) - 1 = L
  BY <1>1, <1>6
<1>8. g[L + 1] = Turn(FALSE, w, g[(L + 1) - 1], more[L + 1])
  BY <1>3, <1>7 DEF Turns
<1> QED BY <1>1, <1>2, <1>3, <1>7, <1>8 DEF more

\* What a watch may read.
Readable(w) == {ExtractWatched(Padded(Original(n).data), w) : n \in Nat}

\* It reads a sequence of such values, and nothing where nothing came.
LEMMA ReadType ==
  ASSUME NEW w, NEW came \in Seq(Nat)
  PROVE  ValuesIn(w, came) \in Seq(Readable(w)) /\ ValuesIn(w, <<>>) = <<>>
<1>1. Len(came) \in Nat /\ \A i \in 1 .. Len(came) : came[i] \in Nat
  OBVIOUS
<1>2. PICK f : Turns(f, Len(came), FALSE, w, <<>>, came) /\ ValuesIn(w, came) = f[Len(came)]
  BY <1>1, ReadGoes
<1> DEFINE T == {i \in Nat : i <= Len(came) => f[i] \in Seq(Readable(w))}
<1>3. 0 \in T
  <2>1. f[0] = <<>> /\ <<>> \in Seq(Readable(w))
    BY <1>2 DEF Turns
  <2> QED BY <2>1
<1>4. ASSUME NEW i \in T PROVE i + 1 \in T
  <2>1. CASE i + 1 <= Len(came)
    <3>1. f[i] \in Seq(Readable(w)) /\ i + 1 \in 1 .. Len(came) /\ (i + 1) - 1 = i
      BY <1>1, <2>1
    <3>2. f[i + 1] = Turn(FALSE, w, f[(i + 1) - 1], came[i + 1])
      BY <1>2, <3>1 DEF Turns
    <3>3. ExtractWatched(Padded(Original(came[i + 1]).data), w) \in Readable(w)
      BY <1>1, <3>1 DEF Readable
    <3>4. f[i + 1] \in Seq(Readable(w))
      BY <3>1, <3>2, <3>3 DEF Turn
    <3> QED BY <3>4
  <2> QED BY <2>1, <1>1
<1>5. T = Nat
  <2> HIDE DEF T
  <2>1. T \in SUBSET Nat
    BY DEF T
  <2> QED BY <1>3, <1>4, <2>1, Induction
<1>6. ValuesIn(w, came) \in Seq(Readable(w))
  BY <1>1, <1>2, <1>5
<1>7. Len(<<>>) = 0 /\ 0 \in Nat
  OBVIOUS
<1>8. PICK g : Turns(g, 0, FALSE, w, <<>>, <<>>) /\ ValuesIn(w, <<>>) = g[0]
  BY <1>7, ReadGoes
<1> QED BY <1>6, <1>8 DEF Turns

\* The gauge's line goes on as the last values of all.
LEMMA LineGoesOn ==
  ASSUME NEW S, NEW s \in Seq(S), NEW v \in S
  PROVE  LastOf(Append(s, v), GaugeCap) = GaugePush(LastOf(s, GaugeCap), v)
<1> DEFINE L == Len(s)
           s2 == Append(s, v)
           line == LastOf(s, GaugeCap)
           line2 == LastOf(s2, GaugeCap)
           old == GaugePush(line, v)
<1>1. /\ GaugeCap \in Nat \ {0} /\ L \in Nat /\ s2 \in Seq(S) /\ Len(s2) = L + 1
      /\ s2[L + 1] = v /\ \A i \in 1 .. L : s2[i] = s[i]
  BY PhoneAssumption
<1>2. CASE L < GaugeCap
  <2>1. LastOf(s, GaugeCap) = s
    <3>1. L - Lesser(GaugeCap, L) + 1 = 1
      BY <1>1, <1>2 DEF Lesser
    <3> QED BY <3>1, SubSeqFull DEF LastOf
  <2>2. LastOf(s2, GaugeCap) = s2
    <3>1. Len(s2) - Lesser(GaugeCap, Len(s2)) + 1 = 1
      BY <1>1, <1>2 DEF Lesser
    <3> QED BY <1>1, <3>1, SubSeqFull DEF LastOf
  <2> QED BY <2>1, <2>2, <1>2 DEF GaugePush
<1>3. CASE ~(L < GaugeCap)
  <2> DEFINE m == L - GaugeCap + 1
  <2>1. m \in Nat \ {0} /\ m <= L /\ GaugeCap = L - m + 1
    BY <1>1, <1>3
  <2>2. line = SubSeq(s, m, L)
    <3>1. Lesser(GaugeCap, L) = GaugeCap
      BY <1>1, <1>3 DEF Lesser
    <3>2. L - Lesser(GaugeCap, L) + 1 = m
      BY <3>1
    <3> QED BY <3>2 DEF LastOf
  <2>3. line2 = SubSeq(s2, m + 1, L + 1)
    <3>1. Lesser(GaugeCap, Len(s2)) = GaugeCap
      BY <1>1, <1>3 DEF Lesser
    <3>2. Len(s2) - Lesser(GaugeCap, Len(s2)) + 1 = m + 1
      BY <1>1, <3>1
    <3> QED BY <1>1, <3>2 DEF LastOf
  <2> HIDE DEF m, line, line2, L, s2
  <2>4. line \in Seq(S) /\ Len(line) = GaugeCap /\ \A i \in 1 .. GaugeCap : line[i] = s[m + i - 1]
    BY <1>1, <2>1, <2>2, SubSeqProperties DEF L
  <2>5. line2 \in Seq(S) /\ Len(line2) = GaugeCap /\ \A i \in 1 .. GaugeCap : line2[i] = s2[m + i]
    <3>1. m + 1 \in 1 .. Len(s2) + 1 /\ L + 1 \in m .. Len(s2)
      BY <1>1, <2>1
    <3>2. Len(line2) = (L + 1) - (m + 1) + 1 /\ line2 \in Seq(S)
      BY <1>1, <2>1, <2>3, <3>1, SubSeqProperties
    <3>3. Len(line2) = GaugeCap
      BY <1>1, <2>1, <3>2
    <3>4. ASSUME NEW i \in 1 .. GaugeCap PROVE line2[i] = s2[m + i]
      <4>1. i \in 1 .. (L + 1) - (m + 1) + 1 /\ (m + 1) + i - 1 = m + i
        BY <1>1, <2>1
      <4>2. line2[i] = s2[(m + 1) + i - 1]
        BY <1>1, <2>1, <2>3, <3>1, <4>1, SubSeqProperties
      <4> QED BY <4>1, <4>2
    <3> QED BY <3>2, <3>3, <3>4
  <2>6. old = Append(Tail(line), v)
    BY <1>1, <2>4 DEF GaugePush
  <2>7. Tail(line) \in Seq(S) /\ Len(Tail(line)) = GaugeCap - 1
        /\ \A i \in 1 .. GaugeCap - 1 : Tail(line)[i] = line[i + 1]
    BY <1>1, <2>4
  <2>8. /\ old \in Seq(S) /\ Len(old) = GaugeCap /\ old[GaugeCap] = v
        /\ \A i \in 1 .. GaugeCap - 1 : old[i] = line[i + 1]
    BY <1>1, <2>6, <2>7
  <2> HIDE DEF old
  <2>9. ASSUME NEW i \in 1 .. GaugeCap PROVE line2[i] = old[i]
    <3>1. CASE i = GaugeCap
      <4>1. m + i = L + 1
        BY <1>1, <2>1, <3>1
      <4> QED BY <1>1, <2>5, <2>8, <3>1, <4>1
    <3>2. CASE i # GaugeCap
      <4>1. i \in 1 .. GaugeCap - 1 /\ i + 1 \in 1 .. GaugeCap /\ m + (i + 1) - 1 = m + i /\ m + i \in 1 .. L
        BY <1>1, <2>1, <3>2
      <4>2. line2[i] = s2[m + i] /\ s2[m + i] = s[m + i]
        BY <1>1, <2>5, <4>1
      <4>3. old[i] = line[i + 1]
        BY <2>8, <4>1
      <4>4. line[i + 1] = s[m + (i + 1) - 1]
        BY <2>4, <4>1
      <4> QED BY <4>1, <4>2, <4>3, <4>4
    <3> QED BY <3>1, <3>2
  <2>10. line2 = old
    BY <1>1, <2>5, <2>8, <2>9, SeqEqual
  <2> QED BY <2>10 DEF line2, old, line, s2
<1> QED BY <1>2, <1>3

-----------------------------------------------------------------------------
(* The phone. *)

\* What a watch reads in frames, whatever the state of things.
Reads(frames, w, came) ==
  LET read[i \in 0 .. Len(came)] ==
        IF i = 0 THEN <<>>
        ELSE IF MatchesFrame(w, frames[came[i]])
        THEN Append(read[i - 1], ExtractWatched(Padded(frames[came[i]].data), w)) ELSE read[i - 1]
  IN  read[Len(came)]

\* It is what the property reads on the bus.
LEMMA ReadsAre == ASSUME NEW w, NEW came PROVE Reads(bus.frames, w, came) = ValuesIn(w, came)
BY DEF Reads, ValuesIn, Original

\* The value of a tile, and the line of the gauge, when the frames at those places came.
Latest(w, came) ==
  LET values == Reads(bus.frames, w, came) IN IF values = <<>> THEN NoValue ELSE Last(values)
Line(w, came) == LastOf(Reads(bus.frames, w, came), GaugeCap)

\* Tiles, told apart by the keys of their watches, and a gauge.
AreTiles(tiles, g) ==
  /\ \E S : tiles \in Seq(S)
  /\ \A i \in DOMAIN tiles :
       tiles[i] \in [watch : Watches, value : {tiles[i].value}, came : Seq(Nat)]
  /\ \A i, j \in DOMAIN tiles : tiles[i].watch.key = tiles[j].watch.key => i = j
  /\ g \in [key : {g.key}, line : {g.line}, came : Seq(Nat)]

\* The phone, once it has taken the frames at the places told, after all that had come to the
\* tiles and the gauge before.
Shows(phone, tiles, g, told) ==
  /\ phone = [entries |-> [i \in DOMAIN tiles |->
                             [watch |-> tiles[i].watch,
                              value |-> Latest(tiles[i].watch, tiles[i].came \o told),
                              came |-> tiles[i].came]],
              gauge |-> [key |-> g.key, line |-> phone.gauge.line, came |-> g.came]]
  /\ \A i \in DOMAIN tiles :
       tiles[i].watch.key = g.key => phone.gauge.line = Line(tiles[i].watch, g.came \o told)

\* One more place after two lists of them.
LEMMA OneMore ==
  ASSUME NEW came \in Seq(Nat), NEW told \in Seq(Nat), NEW n \in Nat
  PROVE  /\ came \o Append(told, n) = Append(came \o told, n)
         /\ came \o told \in Seq(Nat) /\ Append(told, n) \in Seq(Nat)
OBVIOUS

\* A frame that is the watch's sets the value, and another leaves it.
LEMMA LatestGoesOn ==
  ASSUME NEW w, NEW came \in Seq(Nat), NEW n \in Nat
  PROVE  Latest(w, Append(came, n)) = IF MatchesFrame(w, Original(n))
                                      THEN ExtractWatched(Padded(Original(n).data), w)
                                      ELSE Latest(w, came)
<1> DEFINE values == Reads(bus.frames, w, came)
           x == ExtractWatched(Padded(Original(n).data), w)
           more == Reads(bus.frames, w, Append(came, n))
<1>1. more = IF MatchesFrame(w, Original(n)) THEN Append(values, x) ELSE values
  <2>1. more = ValuesIn(w, Append(came, n)) /\ values = ValuesIn(w, came)
    BY ReadsAre
  <2>2. ValuesIn(w, Append(came, n)) = Turn(FALSE, w, ValuesIn(w, came), n)
    BY ReadAppend
  <2> HIDE DEF more, values
  <2> QED BY <2>1, <2>2 DEF Turn
<1>2. values \in Seq(Readable(w)) /\ x \in Readable(w)
  BY ReadsAre, ReadType DEF Readable
<1> HIDE DEF values, x, more
<1>3. Append(values, x) # <<>> /\ Last(Append(values, x)) = x
  BY SMTT(60), <1>2 DEF Last
<1>4. (IF more = <<>> THEN NoValue ELSE Last(more))
        = IF MatchesFrame(w, Original(n)) THEN x ELSE IF values = <<>> THEN NoValue ELSE Last(values)
  BY <1>1, <1>3
<1> QED BY <1>4 DEF Latest, values, x, more

\* The line likewise.
LEMMA LineFollows ==
  ASSUME NEW w, NEW came \in Seq(Nat), NEW n \in Nat
  PROVE  Line(w, Append(came, n)) = IF MatchesFrame(w, Original(n))
                                    THEN GaugePush(Line(w, came), ExtractWatched(Padded(Original(n).data), w))
                                    ELSE Line(w, came)
<1> DEFINE values == Reads(bus.frames, w, came)
           x == ExtractWatched(Padded(Original(n).data), w)
           more == Reads(bus.frames, w, Append(came, n))
<1>1. more = IF MatchesFrame(w, Original(n)) THEN Append(values, x) ELSE values
  <2>1. more = ValuesIn(w, Append(came, n)) /\ values = ValuesIn(w, came)
    BY ReadsAre
  <2>2. ValuesIn(w, Append(came, n)) = Turn(FALSE, w, ValuesIn(w, came), n)
    BY ReadAppend
  <2> HIDE DEF more, values
  <2> QED BY <2>1, <2>2 DEF Turn
<1>2. values \in Seq(Readable(w)) /\ x \in Readable(w)
  BY ReadsAre, ReadType DEF Readable
<1> HIDE DEF values, x, more
<1>3. LastOf(Append(values, x), GaugeCap) = GaugePush(LastOf(values, GaugeCap), x)
  BY <1>2, LineGoesOn
<1>4. LastOf(more, GaugeCap) = IF MatchesFrame(w, Original(n)) THEN GaugePush(LastOf(values, GaugeCap), x)
                               ELSE LastOf(values, GaugeCap)
  BY <1>1, <1>3
<1> QED BY <1>4 DEF Line, values, x, more

\* The greatest of one.
LEMMA MaxOfOne == ASSUME NEW i \in Int PROVE Max({i}) = i
BY DEF Max

\* The phone takes a frame that has the id, the kind and the bytes of one of the bus.
LEMMA TakesFrame ==
  ASSUME NEW tiles, NEW g, AreTiles(tiles, g), NEW phone, NEW told \in Seq(Nat),
         Shows(phone, tiles, g, told), NEW n \in Nat, NEW f,
         f.id = Original(n).id, f.ext = Original(n).ext, f.data = Padded(Original(n).data)
  PROVE  Shows(OnRecord(phone, f), tiles, g, Append(told, n))
<1> DEFINE x(w) == ExtractWatched(f.data, w)
           next == OnRecord(phone, f)
           shown == {i \in DOMAIN phone.entries : phone.entries[i].watch.key = phone.gauge.key
                                                  /\ MatchesFrame(phone.entries[i].watch, f)}
           after == [i \in DOMAIN tiles |->
                       [watch |-> tiles[i].watch,
                        value |-> Latest(tiles[i].watch, tiles[i].came \o Append(told, n)),
                        came |-> tiles[i].came]]
<1>1. \A w : MatchesFrame(w, f) <=> MatchesFrame(w, Original(n))
  BY DEF MatchesFrame
<1>2. /\ DOMAIN phone.entries = DOMAIN tiles
      /\ \A i \in DOMAIN tiles :
           phone.entries[i] = [watch |-> tiles[i].watch,
                               value |-> Latest(tiles[i].watch, tiles[i].came \o told),
                               came |-> tiles[i].came]
      /\ phone.gauge = [key |-> g.key, line |-> phone.gauge.line, came |-> g.came]
  BY DEF Shows
<1>3. ApplyRecord(phone.entries, f) = after
  <2>1. ASSUME NEW i \in DOMAIN tiles
        PROVE  (IF MatchesFrame(phone.entries[i].watch, f)
                THEN [phone.entries[i] EXCEPT !.value = ExtractWatched(f.data, phone.entries[i].watch)]
                ELSE phone.entries[i]) = after[i]
    <3> DEFINE w == tiles[i].watch
               c == tiles[i].came
    <3>1. c \in Seq(Nat)
      BY <2>1 DEF AreTiles
    <3>2. c \o Append(told, n) = Append(c \o told, n) /\ c \o told \in Seq(Nat)
      BY <3>1, OneMore
    <3>3. Latest(w, c \o Append(told, n)) = IF MatchesFrame(w, Original(n)) THEN x(w) ELSE Latest(w, c \o told)
      <4> HIDE DEF w, c, after, next, shown
      <4> DEFINE came == c \o told
      <4>1. came \in Seq(Nat) /\ c \o Append(told, n) = Append(came, n)
        BY <3>2
      <4> HIDE DEF came
      <4>2. Latest(w, Append(came, n)) = IF MatchesFrame(w, Original(n))
                                         THEN ExtractWatched(Padded(Original(n).data), w) ELSE Latest(w, came)
        BY <4>1, LatestGoesOn
      <4>3. x(w) = ExtractWatched(Padded(Original(n).data), w)
        OBVIOUS
      <4> HIDE DEF x
      <4> QED BY <4>1, <4>2, <4>3 DEF came
    <3>4. phone.entries[i] = [watch |-> w, value |-> Latest(w, c \o told), came |-> c]
      BY <1>2, <2>1
    <3>5. after[i] = [watch |-> w, value |-> Latest(w, c \o Append(told, n)), came |-> c]
      BY <2>1
    <3> HIDE DEF w, c, after
    <3> QED BY <1>1, <3>3, <3>4, <3>5
  <2>2. ApplyRecord(phone.entries, f)
          = [i \in DOMAIN tiles |-> IF MatchesFrame(phone.entries[i].watch, f)
                THEN [phone.entries[i] EXCEPT !.value = ExtractWatched(f.data, phone.entries[i].watch)]
                ELSE phone.entries[i]]
    BY <1>2 DEF ApplyRecord
  <2>3. after = [i \in DOMAIN tiles |-> after[i]]
    OBVIOUS
  <2> HIDE DEF after
  <2> QED BY <2>1, <2>2, <2>3
<1>4. next = [entries |-> after,
              gauge |-> IF shown = {} THEN phone.gauge
                        ELSE [phone.gauge EXCEPT !.line =
                                GaugePush(@, ExtractWatched(f.data, phone.entries[Max(shown)].watch))]]
  BY <1>3 DEF OnRecord
<1> HIDE DEF after
<1>5. next.entries = after /\ next.gauge = [key |-> g.key, line |-> next.gauge.line, came |-> g.came]
  <2> HIDE DEF shown
  <2> QED BY SMTT(60), <1>2, <1>4
<1>6. ASSUME NEW i \in DOMAIN tiles, tiles[i].watch.key = g.key
      PROVE  next.gauge.line = Line(tiles[i].watch, g.came \o Append(told, n))
  <2> DEFINE w == tiles[i].watch
  <2>1. g.came \in Seq(Nat)
    BY DEF AreTiles
  <2>2. g.came \o Append(told, n) = Append(g.came \o told, n) /\ g.came \o told \in Seq(Nat)
    BY <2>1, OneMore
  <2>3. Line(w, g.came \o Append(told, n))
          = IF MatchesFrame(w, Original(n)) THEN GaugePush(Line(w, g.came \o told), x(w))
            ELSE Line(w, g.came \o told)
    <3> HIDE DEF w, next, shown
    <3> DEFINE came == g.came \o told
    <3>1. came \in Seq(Nat) /\ g.came \o Append(told, n) = Append(came, n)
      BY <2>2
    <3> HIDE DEF came
    <3>2. Line(w, Append(came, n))
            = IF MatchesFrame(w, Original(n))
              THEN GaugePush(Line(w, came), ExtractWatched(Padded(Original(n).data), w)) ELSE Line(w, came)
      BY <3>1, LineFollows
    <3>3. x(w) = ExtractWatched(Padded(Original(n).data), w)
      OBVIOUS
    <3> HIDE DEF x
    <3> QED BY <3>1, <3>2, <3>3 DEF came
  <2>4. phone.gauge.line = Line(w, g.came \o told)
    BY <1>6 DEF Shows
  <2>5. ASSUME NEW j \in DOMAIN tiles PROVE phone.entries[j].watch = tiles[j].watch
    <3>1. phone.entries[j] = [watch |-> tiles[j].watch,
                              value |-> Latest(tiles[j].watch, tiles[j].came \o told),
                              came |-> tiles[j].came]
      BY <1>2
    <3> QED BY <3>1
  <2>6. phone.gauge.key = g.key
    BY <1>2
  <2>7. \A j \in DOMAIN tiles : tiles[j].watch.key = g.key => j = i
    BY <1>6 DEF AreTiles
  <2>8. shown = IF MatchesFrame(w, f) THEN {i} ELSE {}
    BY <1>2, <1>6, <2>5, <2>6, <2>7
  <2> HIDE DEF shown
  <2>9. CASE MatchesFrame(w, f)
    <3>1. i \in Int
      <4>1. PICK S : tiles \in Seq(S)
        BY DEF AreTiles
      <4> QED BY <4>1, <1>6
    <3>2. Max(shown) = i /\ shown # {}
      BY <2>8, <2>9, <3>1, MaxOfOne
    <3>3. next.gauge.line = GaugePush(phone.gauge.line, x(w))
      BY <1>2, <1>4, <1>6, <2>5, <3>2
    <3> QED BY <1>1, <2>3, <2>4, <2>9, <3>3
  <2>10. CASE ~MatchesFrame(w, f)
    <3>1. next.gauge.line = phone.gauge.line
      BY <1>4, <2>8, <2>10
    <3> QED BY <1>1, <2>3, <2>4, <2>10, <3>1
  <2> QED BY <2>9, <2>10
<1>7. next = [entries |-> next.entries, gauge |-> next.gauge]
  <2> HIDE DEF shown
  <2> QED BY <1>4
<1> HIDE DEF next
<1>8. Shows(next, tiles, g, Append(told, n))
  BY <1>5, <1>6, <1>7 DEF Shows, after
<1> QED BY <1>8 DEF next

-----------------------------------------------------------------------------
(* Frames on their way. *)

\* A frame that is being read or batched is the one of the bus at its place, but for its
\* stamp and the error flag.
Genuine(f, from) ==
  /\ f.n \in DOMAIN bus.frames /\ f.t \in Int
  /\ f.id = Original(f.n).id /\ f.ext = Original(f.n).ext /\ f.rtr = Original(f.n).rtr
  /\ f.err = (Original(f.n).err /\ from = "live")
  /\ f.dlc = Original(f.n).dlc /\ f.data = Original(f.n).data

AreGenuine(frames, from) ==
  (\E S : frames \in Seq(S)) /\ \A i \in DOMAIN frames : Genuine(frames[i], from)

\* A line tells of a frame all but the error flag.
TellsOf(l, o) ==
  /\ l.t \in Int /\ l.id = o.id /\ l.wide = (o.ext \/ o.id > StdMax) /\ l.rtr = o.rtr
  /\ l.asked = (IF o.rtr THEN o.dlc ELSE 0) /\ l.bytes = (IF o.rtr THEN <<>> ELSE o.data)

FramesInv ==
  /\ bus \in Buses /\ source \in {"live", "replay"}
  /\ AreGenuine(left, source) /\ AreGenuine(batch, source)
  /\ \E S : file \in Seq(S)
  /\ \A i \in DOMAIN file : file[i].n \in DOMAIN bus.frames /\ TellsOf(file[i].line, Original(file[i].n))

\* What the phone shows is what it has been told; the gauge is a tile's when there is one.
PhoneInv ==
  /\ AreTiles(entries, gauge)
  /\ gauge.key # NoKey <=> entries # <<>>
  /\ gauge.key # NoKey => \E i \in DOMAIN entries : entries[i].watch.key = gauge.key
  /\ \A i \in DOMAIN entries : entries[i].value = Latest(entries[i].watch, entries[i].came)
  /\ \A i \in DOMAIN entries :
       entries[i].watch.key = gauge.key => gauge.line = Line(entries[i].watch, gauge.came)

WireInv == FramesInv /\ PhoneInv

\* What the bus carries are frames.
LEMMA OriginalsAre ==
  ASSUME bus \in Buses, NEW n \in DOMAIN bus.frames
  PROVE  /\ n \in Nat /\ IsFrame(Original(n)) /\ Original(n).n = n
         /\ Original(n).ext \/ Original(n).id <= StdMax
         /\ Original(n) \in [t : Int, id : 0 .. IdMod - 1, ext : BOOLEAN, err : BOOLEAN, rtr : BOOLEAN,
                             dlc : 0 .. MaxDlc, data : Seq(0 .. Byte - 1), of : {Original(n).of}, n : {n}]
<1> DEFINE o == bus.frames[n]
<1>1. /\ bus.frames \in Seq(Range(bus.frames))
      /\ o \in [t : Int, id : 0 .. IdMod - 1, ext : BOOLEAN, err : BOOLEAN, rtr : BOOLEAN,
                dlc : 0 .. MaxDlc, data : Seq(0 .. Byte - 1), of : {o.of}, n : {n}]
      /\ Len(o.data) = IF o.rtr THEN 0 ELSE o.dlc
      /\ o.ext \/ o.id <= StdMax
  BY BusAssumption
<1>2. n \in Nat
  BY <1>1
<1>3. Original(n) = o
  BY DEF Original
<1> HIDE DEF o
<1>4. IsFrame(o) /\ o.n = n
  BY <1>1 DEF IsFrame
<1> QED BY <1>1, <1>2, <1>3, <1>4

\* And so are those on their way.
LEMMA GenuineAre ==
  ASSUME bus \in Buses, NEW from, NEW frames, AreGenuine(frames, from)
  PROVE  IsFrames(frames)
<1>1. ASSUME NEW i \in DOMAIN frames PROVE IsFrame(frames[i])
  <2>1. Genuine(frames[i], from)
    BY DEF AreGenuine
  <2>2. IsFrame(Original(frames[i].n))
    BY <2>1, OriginalsAre DEF Genuine
  <2> QED BY <2>1, <2>2 DEF Genuine, IsFrame
<1> QED BY <1>1 DEF AreGenuine, IsFrames

\* The line that is written of a frame.
LEMMA LineTells ==
  ASSUME bus \in Buses, NEW from, NEW f, Genuine(f, from)
  PROVE  TellsOf(FormatLine(f), Original(f.n))
<1> DEFINE o == Original(f.n)
<1>1. IsFrame(o)
  BY OriginalsAre DEF Genuine
<1>2. IsFrame(f)
  BY <1>1 DEF Genuine, IsFrame
<1>3. SubSeq(f.data, 1, Lesser(f.dlc, Len(f.data))) = f.data
  BY <1>2, WholeData
<1> QED BY <1>3 DEF Genuine, TellsOf, FormatLine

\* The frame that is made of a line again.
LEMMA LineIsPlayed ==
  ASSUME bus \in Buses, NEW n \in DOMAIN bus.frames, NEW l, TellsOf(l, Original(n)),
         NEW first, first.t \in Int
  PROVE  Genuine(AtPlace(ReplayedFrame(ParseLine(l), first, ReplayAt), n), "replay")
<1> DEFINE o == Original(n)
           r == ReplayedFrame(ParseLine(l), first, ReplayAt)
           f == AtPlace(r, n)
<1>1. IsFrame(o) /\ (o.ext \/ o.id <= StdMax)
  BY OriginalsAre
<1> HIDE DEF o
<1>2. /\ l.t \in Int /\ l.id = o.id /\ l.wide = (o.ext \/ o.id > StdMax) /\ l.rtr = o.rtr
      /\ l.asked = (IF o.rtr THEN o.dlc ELSE 0) /\ l.bytes = (IF o.rtr THEN <<>> ELSE o.data)
  BY DEF TellsOf, o
<1>3. l.id % IdMod = o.id
  <2>1. o.id \in 0 .. IdMod - 1 /\ IdMod \in Nat \ {0}
    BY <1>1, CodecAssumption DEF IsFrame
  <2>2. o.id % IdMod = o.id
    BY <2>1
  <2> QED BY <1>2, <2>2
<1>4. (l.wide \/ l.id > StdMax) = o.ext
  BY <1>1, <1>2, CodecAssumption DEF IsFrame
<1>5. l.bytes = o.data
  <2>1. CASE o.rtr
    <3>1. o.data \in Seq(0 .. Byte - 1) /\ Len(o.data) = 0
      BY <1>1, <2>1 DEF IsFrame
    <3> QED BY <1>2, <2>1, <3>1
  <2> QED BY <2>1, <1>1, <1>2 DEF IsFrame
<1>6. (IF l.rtr THEN l.asked ELSE Len(l.bytes)) = o.dlc
  BY <1>1, <1>2, <1>5 DEF IsFrame
<1>7. r = [t |-> ReplayAt + l.t - first.t, id |-> o.id, ext |-> o.ext, err |-> FALSE, rtr |-> o.rtr,
           dlc |-> o.dlc, data |-> o.data]
  <2>1. ParseLine(l) = [t |-> l.t, id |-> o.id, ext |-> o.ext, rtr |-> o.rtr, dlc |-> o.dlc, data |-> o.data]
    BY <1>2, <1>3, <1>4, <1>5, <1>6 DEF ParseLine
  <2> QED BY <2>1 DEF ReplayedFrame
<1>8. /\ f.n = n /\ f.t = r.t /\ f.id = r.id /\ f.ext = r.ext /\ f.err = r.err /\ f.rtr = r.rtr
      /\ f.dlc = r.dlc /\ f.data = r.data
  BY DEF AtPlace
<1>9. ReplayAt + l.t - first.t \in Int
  BY <1>2, PhoneAssumption
<1>10. Genuine(f, "replay")
  <2> HIDE DEF f, r
  <2> QED BY <1>7, <1>8, <1>9 DEF Genuine, o
<1> QED BY <1>10

-----------------------------------------------------------------------------
(* Batches. *)

\* What is on its way is read alike on all roads.
LEMMA BatchAgrees ==
  ASSUME FramesInv, batch # <<>>, Fits(batch, Head(batch).t)
  PROVE  /\ EncodeShared(batch, Head(batch).t, source = "replay") = Encoded
         /\ DecodeBackend(Encoded) = ParseCockpit(Encoded)
         /\ DecodeShared(Encoded) = ParseCockpit(Encoded)
         /\ \A i \in DOMAIN batch :
              LET f == ParseCockpit(Encoded)[i]
              IN  f.t = batch[i].t /\ Plain(f) = Plain(AsHeard(batch[i].n, source))
<1> DEFINE base == Head(batch).t
<1>1. IsFrames(batch) /\ bus \in Buses /\ AreGenuine(batch, source)
  BY GenuineAre DEF FramesInv
<1>2. DOMAIN batch = 1 .. Len(batch) /\ base \in Int
  <2>1. PICK S : batch \in Seq(S)
    BY <1>1 DEF IsFrames
  <2>2. 1 \in DOMAIN batch /\ Head(batch) = batch[1]
    BY <2>1
  <2>3. batch[1].t \in Int
    BY <1>1, <2>2 DEF IsFrames, IsFrame
  <2> QED BY <2>1, <2>2, <2>3
<1> HIDE DEF base
<1>3. Encoded = EncodeBatch(batch, base, source = "replay")
  BY DEF Encoded, base
<1>4. /\ EncodeShared(batch, base, source = "replay") = Encoded
      /\ DecodeBackend(Encoded) = ParseCockpit(Encoded)
      /\ DecodeShared(Encoded) = ParseCockpit(Encoded)
      /\ ParseCockpit(Encoded) = [i \in 1 .. Len(batch) |->
                                    Received(batch[i], SubSeq(Padded(batch[i].data), 1, batch[i].dlc))]
  BY <1>1, <1>2, <1>3, SharedEncodes, BackendReads, SharedReads, CockpitReads DEF base
<1>5. ASSUME NEW i \in DOMAIN batch
      PROVE  LET f == ParseCockpit(Encoded)[i]
             IN  f.t = batch[i].t /\ Plain(f) = Plain(AsHeard(batch[i].n, source))
  <2> DEFINE g == batch[i]
             o == Original(g.n)
             f == ParseCockpit(Encoded)[i]
             h == AsHeard(g.n, source)
             x == o.data
             d == o.dlc
  <2>1. IsFrame(g) /\ Genuine(g, source)
    BY <1>1 DEF IsFrames, AreGenuine
  <2>2. o \in [t : Int, id : 0 .. IdMod - 1, ext : BOOLEAN, err : BOOLEAN, rtr : BOOLEAN,
               dlc : 0 .. MaxDlc, data : Seq(0 .. Byte - 1), of : {o.of}, n : {g.n}]
    BY <1>1, <2>1, OriginalsAre DEF Genuine
  <2>3. f = Received(g, SubSeq(Padded(g.data), 1, g.dlc))
    BY <1>2, <1>4
  <2>4. /\ g.id = o.id /\ g.ext = o.ext /\ g.err = (o.err /\ source = "live") /\ g.rtr = o.rtr
        /\ g.dlc = d /\ g.data = x
    BY <2>1 DEF Genuine
  <2> HIDE DEF g, o, f
  <2>5. /\ h.id = o.id /\ h.ext = o.ext /\ h.rtr = o.rtr /\ h.err = (o.err /\ source = "live")
        /\ h.dlc = d /\ h.data = x
    BY <2>2 DEF AsHeard, o
  <2>6. /\ f.t = g.t /\ f.id = g.id /\ f.ext = g.ext /\ f.err = g.err /\ f.rtr = g.rtr
        /\ f.dlc = d /\ f.data = SubSeq(Padded(x), 1, d)
    BY <2>3, <2>4 DEF Received
  <2>7. d \in 0 .. MaxDlc
    BY <2>2
  <2> HIDE DEF h, x, d
  <2>8. SubSeq(Padded(f.data), 1, d) = SubSeq(Padded(x), 1, d)
    BY <2>6, <2>7, CutAndFilled
  <2>9. Plain(f) = Plain(h)
    BY <2>4, <2>5, <2>6, <2>8 DEF Plain
  <2> QED BY <2>6, <2>9 DEF f, g, h
<1> QED BY <1>4, <1>5 DEF base

\* The places of a batch are numbers.
LEMMA PlacesAre ==
  ASSUME FramesInv
  PROVE  /\ Places \in Seq(Nat) /\ Len(Places) = Len(batch) /\ Len(batch) \in Nat
         /\ DOMAIN batch = 1 .. Len(batch) /\ \A i \in 1 .. Len(batch) : Places[i] = batch[i].n
<1>1. bus \in Buses /\ AreGenuine(batch, source)
  BY DEF FramesInv
<1>2. Len(batch) \in Nat /\ DOMAIN batch = 1 .. Len(batch)
  BY <1>1 DEF AreGenuine
<1>3. \A i \in DOMAIN batch : batch[i].n \in Nat
  BY <1>1, OriginalsAre DEF AreGenuine, Genuine
<1>4. Places \in [1 .. Len(batch) -> Nat] /\ \A i \in 1 .. Len(batch) : Places[i] = batch[i].n
  BY <1>2, <1>3 DEF Places
<1> QED BY <1>2, <1>4

\* What the phone shows before a batch.
LEMMA BeforeBatch ==
  ASSUME PhoneInv
  PROVE  Shows([entries |-> entries, gauge |-> gauge], entries, gauge, <<>>)
<1> DEFINE phone == [entries |-> entries, gauge |-> gauge]
           tiles == [i \in DOMAIN entries |->
                       [watch |-> entries[i].watch,
                        value |-> Latest(entries[i].watch, entries[i].came \o <<>>),
                        came |-> entries[i].came]]
<1>1. \A c \in Seq(Nat) : c \o <<>> = c
  OBVIOUS
<1>2. /\ \A i \in DOMAIN entries :
           entries[i] \in [watch : Watches, value : {entries[i].value}, came : Seq(Nat)]
      /\ gauge \in [key : {gauge.key}, line : {gauge.line}, came : Seq(Nat)]
      /\ \E S : entries \in Seq(S)
  BY DEF PhoneInv, AreTiles
<1>3. ASSUME NEW i \in DOMAIN entries PROVE entries[i] = tiles[i]
  <2>1. entries[i].value = Latest(entries[i].watch, entries[i].came \o <<>>)
    BY <1>1, <1>2 DEF PhoneInv
  <2> QED BY <1>2, <2>1
<1>4. entries = [i \in DOMAIN entries |-> entries[i]]
  BY <1>2
<1>5. entries = tiles
  <2>1. tiles = [i \in DOMAIN entries |-> tiles[i]]
    OBVIOUS
  <2> HIDE DEF tiles
  <2> QED BY <1>3, <1>4, <2>1
<1>6. gauge = [key |-> gauge.key, line |-> gauge.line, came |-> gauge.came] /\ gauge.came \in Seq(Nat)
  BY <1>2
<1>7. \A i \in DOMAIN entries :
        entries[i].watch.key = gauge.key => gauge.line = Line(entries[i].watch, gauge.came \o <<>>)
  BY <1>1, <1>6 DEF PhoneInv
<1> HIDE DEF tiles
<1>8. phone.gauge = gauge /\ phone = [entries |-> tiles, gauge |-> phone.gauge]
  BY <1>5
<1> HIDE DEF phone
<1>9. Shows(phone, entries, gauge, <<>>)
  BY <1>6, <1>7, <1>8 DEF Shows, tiles
<1> QED BY <1>9 DEF phone

\* And after it.
LEMMA AfterBatch ==
  ASSUME FramesInv, PhoneInv, batch # <<>>
  PROVE  Shows(Heard([entries |-> entries, gauge |-> gauge], ParsePhone(Encoded, scratch)),
               entries, gauge, Places)
<1> DEFINE start == [entries |-> entries, gauge |-> gauge]
           onPhone == ParsePhone(Encoded, scratch)
           L == Len(batch)
<1>1. /\ Places \in Seq(Nat) /\ Len(Places) = L /\ L \in Nat /\ DOMAIN batch = 1 .. L
      /\ \A i \in 1 .. L : Places[i] = batch[i].n
  BY PlacesAre
<1>2. IsFrames(batch) /\ AreGenuine(batch, source)
  BY GenuineAre DEF FramesInv
<1>3. Head(batch).t \in Int
  <2>1. 1 \in DOMAIN batch /\ Head(batch) = batch[1]
    <3>1. PICK S : batch \in Seq(S)
      BY <1>2 DEF IsFrames
    <3> QED BY <3>1
  <2> QED BY <1>2, <2>1 DEF IsFrames, IsFrame
<1>4. onPhone = [i \in 1 .. L |-> Received(batch[i], Padded(batch[i].data))]
  BY <1>2, <1>3, PhoneReads DEF Encoded
<1>5. Len(onPhone) = L
  <2>1. onPhone \in [1 .. L -> {onPhone[i] : i \in 1 .. L}]
    BY <1>4
  <2> HIDE DEF onPhone, L
  <2> QED BY <1>1, <2>1
<1> HIDE DEF L, onPhone
<1>6. PICK f : /\ Turns(f, L, TRUE, {}, start, onPhone)
               /\ Heard(start, onPhone) = f[L]
  <2> HIDE DEF start
  <2> QED BY <1>1, <1>5, HeardGoes
<1> HIDE DEF start
<1> DEFINE T == {k \in Nat : k <= L => Shows(f[k], entries, gauge, SubSeq(Places, 1, k))}
<1>7. 0 \in T
  <2>1. SubSeq(Places, 1, 0) = <<>>
    BY <1>1
  <2>2. Shows(f[0], entries, gauge, SubSeq(Places, 1, 0))
    BY <1>6, <2>1, BeforeBatch DEF Turns, start
  <2> QED BY <2>2
<1>8. ASSUME NEW k \in T PROVE k + 1 \in T
  <2>1. CASE k + 1 <= L
    <3> DEFINE told == SubSeq(Places, 1, k)
               n == batch[k + 1].n
    <3>1. k \in Nat /\ k + 1 \in 1 .. L /\ (k + 1) - 1 = k /\ Shows(f[k], entries, gauge, told)
      BY <1>1, <2>1
    <3>2. told \in Seq(Nat) /\ SubSeq(Places, 1, k + 1) = Append(told, Places[k + 1])
      BY <1>1, <3>1, SubSeqRecursiveSecond
    <3>3. n = Places[k + 1] /\ n \in Nat
      BY <1>1, <3>1
    <3>4. f[k + 1] = OnRecord(f[k], onPhone[k + 1])
      <4>1. f[k + 1] = Turn(TRUE, {}, f[(k + 1) - 1], onPhone[k + 1])
        BY <1>6, <3>1 DEF Turns
      <4> QED BY <3>1, <4>1 DEF Turn
    <3>5. /\ onPhone[k + 1].id = Original(n).id /\ onPhone[k + 1].ext = Original(n).ext
          /\ onPhone[k + 1].data = Padded(Original(n).data)
      <4>1. onPhone[k + 1] = Received(batch[k + 1], Padded(batch[k + 1].data))
        BY <1>4, <3>1
      <4>2. Genuine(batch[k + 1], source)
        BY <1>1, <1>2, <3>1 DEF AreGenuine
      <4> QED BY <4>1, <4>2 DEF Received, Genuine
    <3>6. AreTiles(entries, gauge)
      BY DEF PhoneInv
    <3> HIDE DEF told, n
    <3>7. Shows(f[k + 1], entries, gauge, Append(told, n))
      BY <3>1, <3>2, <3>3, <3>4, <3>5, <3>6, TakesFrame
    <3>8. Shows(f[k + 1], entries, gauge, SubSeq(Places, 1, k + 1))
      BY <3>2, <3>3, <3>7
    <3> QED BY <3>8
  <2>2. CASE ~(k + 1 <= L)
    BY <2>2
  <2> QED BY <2>1, <2>2
<1>9. T = Nat
  <2> HIDE DEF T
  <2>1. T \in SUBSET Nat
    BY DEF T
  <2> QED BY <1>7, <1>8, <2>1, Induction
<1>10. Shows(f[L], entries, gauge, Places)
  <2>1. SubSeq(Places, 1, L) = Places
    BY <1>1, SubSeqFull
  <2>2. L \in T /\ L <= L
    BY <1>1, <1>9
  <2>3. Shows(f[L], entries, gauge, SubSeq(Places, 1, L))
    BY <2>2
  <2> QED BY <2>1, <2>3
<1> QED BY <1>6, <1>10 DEF start, onPhone

-----------------------------------------------------------------------------
(* Steps. *)

\* The invariant says what is promised.
LEMMA RoadsHold == WireInv => RoadsAgree
<1> SUFFICES ASSUME WireInv PROVE RoadsAgree
  OBVIOUS
<1>1. ASSUME NEW i \in DOMAIN entries
      PROVE  LET values == ValuesIn(entries[i].watch, entries[i].came)
             IN  entries[i].value = IF values = <<>> THEN NoValue ELSE Last(values)
  <2>1. entries[i].value = Latest(entries[i].watch, entries[i].came)
    BY DEF WireInv, PhoneInv
  <2> QED BY <2>1, ReadsAre DEF Latest
<1>2. ASSUME NEW i \in DOMAIN entries, entries[i].watch.key = gauge.key
      PROVE  gauge.line = LastOf(ValuesIn(entries[i].watch, gauge.came), GaugeCap)
  <2>1. gauge.line = Line(entries[i].watch, gauge.came)
    BY <1>2 DEF WireInv, PhoneInv
  <2> QED BY <2>1, ReadsAre DEF Line
<1>3. gauge.key # NoKey <=> entries # <<>>
  BY DEF WireInv, PhoneInv
<1>4. ASSUME batch # <<>>, Fits(batch, Head(batch).t)
      PROVE  /\ EncodeShared(batch, Head(batch).t, source = "replay") = Encoded
             /\ DecodeBackend(Encoded) = ParseCockpit(Encoded)
             /\ DecodeShared(Encoded) = ParseCockpit(Encoded)
             /\ \A i \in DOMAIN batch :
                  LET f == ParseCockpit(Encoded)[i]
                  IN  f.t = batch[i].t /\ Plain(f) = Plain(AsHeard(batch[i].n, source))
  BY <1>4, BatchAgrees DEF WireInv
<1> QED BY <1>1, <1>2, <1>3, <1>4 DEF RoadsAgree

\* Nothing has come: nothing is shown.
LEMMA NothingCame == ASSUME NEW w PROVE Latest(w, <<>>) = NoValue /\ Line(w, <<>>) = <<>>
<1>1. Reads(bus.frames, w, <<>>) = <<>>
  <2>1. <<>> \in Seq(Nat)
    OBVIOUS
  <2> QED BY <2>1, ReadsAre, ReadType
<1>2. LastOf(<<>>, GaugeCap) = <<>>
  <2>1. Lesser(GaugeCap, Len(<<>>)) = 0 /\ Len(<<>>) = 0
    BY PhoneAssumption DEF Lesser
  <2>2. LastOf(<<>>, GaugeCap) = SubSeq(<<>>, Len(<<>>) - Lesser(GaugeCap, Len(<<>>)) + 1, Len(<<>>))
    BY DEF LastOf
  <2>3. LastOf(<<>>, GaugeCap) = SubSeq(<<>>, 1, 0)
    BY <2>1, <2>2
  <2> QED BY <2>3
<1> QED BY <1>1, <1>2 DEF Latest, Line

\* The backend, the recording and the replay.
LEMMA FramesKept == FramesInv /\ [WireNext]_wireVars => FramesInv'
<1> SUFFICES ASSUME FramesInv, [WireNext]_wireVars PROVE FramesInv'
  OBVIOUS
<1>1. /\ bus \in Buses /\ source \in {"live", "replay"}
      /\ AreGenuine(left, source) /\ AreGenuine(batch, source)
      /\ \E S : file \in Seq(S)
      /\ \A i \in DOMAIN file : file[i].n \in DOMAIN bus.frames /\ TellsOf(file[i].line, Original(file[i].n))
  BY SMTT(60) DEF FramesInv
<1>2. ASSUME bus' = bus, source' \in {"live", "replay"},
             AreGenuine(left', source'), AreGenuine(batch', source'), \E S : file' \in Seq(S),
             \A i \in DOMAIN file' :
               file'[i].n \in DOMAIN bus.frames /\ TellsOf(file'[i].line, Original(file'[i].n))
      PROVE  FramesInv'
  <2>1. \A n : Original(n)' = Original(n)
    BY <1>2 DEF Original
  <2>2. AreGenuine(left, source)'
    <3>1. \A i \in DOMAIN left' : Genuine(left[i], source)'
      BY <1>2, <2>1 DEF AreGenuine, Genuine
    <3> QED BY <1>2, <3>1 DEF AreGenuine
  <2>3. AreGenuine(batch, source)'
    <3>1. \A i \in DOMAIN batch' : Genuine(batch[i], source)'
      BY <1>2, <2>1 DEF AreGenuine, Genuine
    <3> QED BY <1>2, <3>1 DEF AreGenuine
  <2>4. \A i \in DOMAIN file' :
          file'[i].n \in DOMAIN bus'.frames /\ TellsOf(file[i].line, Original(file[i].n))'
    BY <1>2 DEF TellsOf, Original
  <2>5. bus' \in Buses
    BY <1>1, <1>2
  <2> QED BY <1>2, <2>2, <2>3, <2>4, <2>5 DEF FramesInv
<1>3. AreGenuine(<<>>, source)
  <2>1. <<>> \in Seq({}) /\ DOMAIN <<>> = {}
    OBVIOUS
  <2> QED BY <2>1 DEF AreGenuine
<1>4. CASE Read
  <2> DEFINE f == Head(left)
             l == [line |-> FormatLine(f), n |-> f.n]
  <2>1. left # <<>> /\ left' = Tail(left) /\ batch' = Append(batch, f) /\ bus' = bus /\ source' = source
        /\ file' = IF recording /\ source = "live" THEN Append(file, l) ELSE file
    BY <1>4 DEF Read
  <2>2. PICK S : left \in Seq(S)
    BY <1>1 DEF AreGenuine
  <2>3. Genuine(f, source)
    <3>1. 1 \in DOMAIN left /\ f = left[1]
      BY <2>1, <2>2
    <3> QED BY <1>1, <3>1 DEF AreGenuine
  <2>4. AreGenuine(left', source)
    <3>1. Tail(left) \in Seq(S)
      BY <2>1, <2>2
    <3>2. \A i \in DOMAIN Tail(left) : i + 1 \in DOMAIN left /\ Tail(left)[i] = left[i + 1]
      BY <2>1, <2>2
    <3> QED BY <1>1, <2>1, <3>1, <3>2 DEF AreGenuine
  <2> HIDE DEF f
  <2>5. AreGenuine(batch', source)
    <3>1. PICK T : batch \in Seq(T)
      BY <1>1 DEF AreGenuine
    <3>2. batch \in Seq(T \cup {f}) /\ f \in T \cup {f}
      BY <3>1
    <3>3. /\ Append(batch, f) \in Seq(T \cup {f})
          /\ \A i \in DOMAIN Append(batch, f) : \/ i \in DOMAIN batch /\ Append(batch, f)[i] = batch[i]
                                                \/ Append(batch, f)[i] = f
      BY <3>2
    <3> QED BY <1>1, <2>1, <2>3, <3>3 DEF AreGenuine
  <2>6. (\E T : file' \in Seq(T))
        /\ \A i \in DOMAIN file' :
             file'[i].n \in DOMAIN bus.frames /\ TellsOf(file'[i].line, Original(file'[i].n))
    <3>1. CASE recording /\ source = "live"
      <4>1. PICK T : file \in Seq(T)
        BY <1>1
      <4>2. file \in Seq(T \cup {l}) /\ l \in T \cup {l}
        BY <4>1
      <4> HIDE DEF l
      <4>3. /\ Append(file, l) \in Seq(T \cup {l})
            /\ \A i \in DOMAIN Append(file, l) : \/ i \in DOMAIN file /\ Append(file, l)[i] = file[i]
                                                 \/ Append(file, l)[i] = l
        BY <4>2
      <4>4. l.n \in DOMAIN bus.frames /\ TellsOf(l.line, Original(l.n))
        BY <1>1, <2>3, LineTells DEF Genuine, l
      <4>5. file' = Append(file, l)
        BY <2>1, <3>1
      <4> QED BY <1>1, <4>3, <4>4, <4>5
    <3>2. CASE ~(recording /\ source = "live")
      BY <1>1, <2>1, <3>2
    <3> QED BY <3>1, <3>2
  <2> QED BY <1>1, <1>2, <2>1, <2>4, <2>5, <2>6
<1>5. CASE Deliver
  <2>1. batch' = <<>> /\ bus' = bus /\ left' = left /\ source' = source /\ file' = file
    BY <1>5 DEF Deliver
  <2> QED BY <1>1, <1>2, <1>3, <2>1
<1>6. CASE DropBatch
  <2>1. batch' = <<>> /\ bus' = bus /\ left' = left /\ source' = source /\ file' = file
    BY <1>6 DEF DropBatch
  <2> QED BY <1>1, <1>2, <1>3, <2>1
<1>7. CASE Replay
  <2> DEFINE played(i) == AtPlace(ReplayedFrame(ParseLine(file[i].line), file[1].line, ReplayAt), file[i].n)
  <2>1. /\ file # <<>> /\ batch = <<>> /\ source' = "replay" /\ left' = [i \in DOMAIN file |-> played(i)]
        /\ bus' = bus /\ file' = file /\ batch' = batch
    BY <1>7 DEF Replay
  <2>2. PICK S : file \in Seq(S)
    BY <1>1
  <2>3. 1 \in DOMAIN file
    BY <2>1, <2>2
  <2>4. file[1].line.t \in Int
    BY <1>1, <2>3 DEF TellsOf
  <2>5. ASSUME NEW i \in DOMAIN file PROVE Genuine(played(i), "replay")
    BY <1>1, <2>4, LineIsPlayed
  <2> HIDE DEF played
  <2>6. left' \in Seq({played(i) : i \in DOMAIN file}) /\ DOMAIN left' = DOMAIN file
    BY <2>1, <2>2
  <2>7. AreGenuine(left', "replay")
    BY <2>1, <2>5, <2>6 DEF AreGenuine
  <2>8. AreGenuine(batch', "replay")
    <3>1. <<>> \in Seq({}) /\ DOMAIN <<>> = {}
      OBVIOUS
    <3> QED BY <2>1, <3>1 DEF AreGenuine
  <2> QED BY <1>1, <1>2, <2>1, <2>7, <2>8
<1>8. CASE \/ ToggleRecording \/ UNCHANGED wireVars
           \/ \E w \in Watches : AddWatch(w)
           \/ \E i \in DOMAIN entries : RemoveWatch(i) \/ PickGauge(i)
  <2>1. batch' = batch /\ bus' = bus /\ left' = left /\ source' = source /\ file' = file
    BY <1>8 DEF ToggleRecording, AddWatch, RemoveWatch, PickGauge, Touch, wireVars
  <2> QED BY <1>1, <1>2, <2>1
<1> QED BY <1>4, <1>5, <1>6, <1>7, <1>8 DEF WireNext

\* What makes the phone's part hold after a step.
LEMMA PhoneStands ==
  ASSUME bus' = bus, AreTiles(entries', gauge'), gauge'.key # NoKey <=> entries' # <<>>,
         gauge'.key # NoKey => \E i \in DOMAIN entries' : entries'[i].watch.key = gauge'.key,
         \A i \in DOMAIN entries' : entries'[i].value = Latest(entries'[i].watch, entries'[i].came),
         \A i \in DOMAIN entries' :
           entries'[i].watch.key = gauge'.key => gauge'.line = Line(entries'[i].watch, gauge'.came)
  PROVE  PhoneInv'
BY DEF PhoneInv, AreTiles, Latest, Line

\* The parts of the phone's state.
LEMMA PhoneParts ==
  ASSUME PhoneInv
  PROVE  /\ AreTiles(entries, gauge)
         /\ gauge.key # NoKey <=> entries # <<>>
         /\ gauge.key # NoKey => \E i \in DOMAIN entries : entries[i].watch.key = gauge.key
         /\ \A i \in DOMAIN entries : entries[i].value = Latest(entries[i].watch, entries[i].came)
         /\ \A i \in DOMAIN entries :
              entries[i].watch.key = gauge.key => gauge.line = Line(entries[i].watch, gauge.came)
BY DEF PhoneInv

\* A step the phone does not see.
LEMMA PhoneRests == ASSUME PhoneInv, bus' = bus, entries' = entries, gauge' = gauge PROVE PhoneInv'
BY PhoneParts, PhoneStands DEF AreTiles

\* A gauge that begins anew.
Fresh(key) == [key |-> key, line |-> <<>>, came |-> <<>>]

\* It shows what a watch reads in no frame at all.
LEMMA FreshGauge ==
  ASSUME NEW key
  PROVE  /\ Fresh(key) \in [key : {Fresh(key).key}, line : {Fresh(key).line}, came : Seq(Nat)]
         /\ Fresh(key).key = key
         /\ \A w : Fresh(key).line = Line(w, Fresh(key).came)
<1>1. Fresh(key).key = key /\ Fresh(key).line = <<>> /\ Fresh(key).came = <<>> /\ <<>> \in Seq(Nat)
  BY DEF Fresh
<1>2. \A w : Line(w, <<>>) = <<>>
  BY NothingCame
<1> QED BY <1>1, <1>2 DEF Fresh

\* A tile and a gauge to which frames have come.
LEMMA CameOn ==
  ASSUME NEW a, NEW b, NEW c, NEW d
  PROVE  /\ [[watch |-> a, value |-> b, came |-> c] EXCEPT !.came = d] = [watch |-> a, value |-> b, came |-> d]
         /\ [[key |-> a, line |-> b, came |-> c] EXCEPT !.came = d] = [key |-> a, line |-> b, came |-> d]
OBVIOUS

\* The shape of a tile.
LEMMA TileIs ==
  ASSUME NEW tile, NEW w \in Watches, NEW v, NEW c \in Seq(Nat), tile = [watch |-> w, value |-> v, came |-> c]
  PROVE  tile \in [watch : Watches, value : {tile.value}, came : Seq(Nat)]
BY SMTT(60)

\* A batch is taken.
LEMMA DeliverKeeps == ASSUME FramesInv, PhoneInv, Deliver PROVE PhoneInv'
<1> DEFINE phone == Heard([entries |-> entries, gauge |-> gauge], ParsePhone(Encoded, scratch))
           tile(i) == [watch |-> entries[i].watch,
                       value |-> Latest(entries[i].watch, entries[i].came \o Places),
                       came |-> entries[i].came]
<1>1. /\ bus' = bus
      /\ entries' = [i \in DOMAIN phone.entries |-> [phone.entries[i] EXCEPT !.came = @ \o Places]]
      /\ gauge' = IF gauge.key = NoKey THEN gauge ELSE [phone.gauge EXCEPT !.came = @ \o Places]
  BY DEF Deliver, Delivered
<1>2. Shows(phone, entries, gauge, Places)
  BY AfterBatch DEF Deliver
<1> HIDE DEF phone
<1>3. /\ phone.entries = [i \in DOMAIN entries |-> tile(i)]
      /\ phone.gauge = [key |-> gauge.key, line |-> phone.gauge.line, came |-> gauge.came]
      /\ \A i \in DOMAIN entries :
           entries[i].watch.key = gauge.key => phone.gauge.line = Line(entries[i].watch, gauge.came \o Places)
  BY <1>2 DEF Shows
<1>4. /\ \E S : entries \in Seq(S)
      /\ \A i \in DOMAIN entries :
           entries[i] \in [watch : Watches, value : {entries[i].value}, came : Seq(Nat)]
      /\ \A i, j \in DOMAIN entries : entries[i].watch.key = entries[j].watch.key => i = j
      /\ gauge \in [key : {gauge.key}, line : {gauge.line}, came : Seq(Nat)]
  BY PhoneParts DEF AreTiles
<1>5. Places \in Seq(Nat)
  BY PlacesAre
<1>6. DOMAIN entries' = DOMAIN entries
  BY <1>1, <1>3
<1>7. ASSUME NEW i \in DOMAIN entries
      PROVE  /\ entries'[i] = [watch |-> entries[i].watch,
                               value |-> Latest(entries[i].watch, entries[i].came \o Places),
                               came |-> entries[i].came \o Places]
             /\ entries[i].came \o Places \in Seq(Nat) /\ entries[i].watch \in Watches
  <2>1. phone.entries[i] = tile(i) /\ i \in DOMAIN phone.entries
    BY SMTT(60), <1>3
  <2>2. entries'[i] = [phone.entries[i] EXCEPT !.came = @ \o Places]
    BY <1>1, <2>1
  <2>3. entries'[i] = [watch |-> entries[i].watch,
                       value |-> Latest(entries[i].watch, entries[i].came \o Places),
                       came |-> entries[i].came \o Places]
    <3> DEFINE w == entries[i].watch
               v == Latest(entries[i].watch, entries[i].came \o Places)
               c == entries[i].came
               more == c \o Places
    <3>1. phone.entries[i] = [watch |-> w, value |-> v, came |-> c] /\ phone.entries[i].came = c
      BY <2>1
    <3> HIDE DEF w, v
    <3>2. entries'[i] = [phone.entries[i] EXCEPT !.came = more]
      BY <2>2, <3>1
    <3> HIDE DEF c, more
    <3>3. entries'[i] = [watch |-> w, value |-> v, came |-> more]
      BY <3>1, <3>2, CameOn
    <3> QED BY <3>3 DEF w, v, c, more
  <2>4. entries[i].came \in Seq(Nat) /\ entries[i].watch \in Watches
    BY <1>4
  <2> QED BY <1>5, <2>3, <2>4
<1>8. \E S : entries' \in Seq(S)
  <2>1. PICK n \in Nat : DOMAIN entries = 1 .. n
    BY <1>4
  <2>2. entries' = [i \in 1 .. n |-> entries'[i]]
    BY <1>1, <1>6, <2>1
  <2> DEFINE V == {entries'[i] : i \in 1 .. n}
  <2>3. entries' \in [1 .. n -> V]
    BY <2>2
  <2> HIDE DEF V
  <2>4. entries' \in Seq(V)
    BY <2>1, <2>3
  <2> QED BY <2>4
<1>9. \A i \in DOMAIN entries' : entries'[i].watch = entries[i].watch
  BY <1>6, <1>7
<1>10. /\ gauge'.key = gauge.key
       /\ gauge' \in [key : {gauge'.key}, line : {gauge'.line}, came : Seq(Nat)]
       /\ gauge.key # NoKey => gauge'.line = phone.gauge.line /\ gauge'.came = gauge.came \o Places
  <2>1. CASE gauge.key = NoKey
    BY <1>1, <1>4, <2>1
  <2>2. CASE gauge.key # NoKey
    <3>1. gauge' = [key |-> gauge.key, line |-> phone.gauge.line, came |-> gauge.came \o Places]
      <4>1. gauge' = [phone.gauge EXCEPT !.came = @ \o Places]
        BY <1>1, <2>2
      <4> DEFINE line == phone.gauge.line
      <4>2. phone.gauge = [key |-> gauge.key, line |-> line, came |-> gauge.came]
        BY <1>3
      <4> HIDE DEF line
      <4> DEFINE more == gauge.came \o Places
      <4>3. gauge' = [phone.gauge EXCEPT !.came = more]
        BY <4>1, <4>2
      <4> HIDE DEF more
      <4>4. gauge' = [key |-> gauge.key, line |-> line, came |-> more]
        BY <4>2, <4>3, CameOn
      <4> QED BY <4>4 DEF line, more
    <3>2. gauge.came \o Places \in Seq(Nat)
      BY <1>4, <1>5
    <3> QED BY <3>1, <3>2
  <2> QED BY <2>1, <2>2
<1>11. ASSUME NEW i \in DOMAIN entries' PROVE entries'[i].value = Latest(entries'[i].watch, entries'[i].came)
  <2> DEFINE w == entries[i].watch
             c == entries[i].came \o Places
  <2>1. entries'[i] = [watch |-> w, value |-> Latest(w, c), came |-> c]
    BY <1>6, <1>7
  <2> HIDE DEF w, c
  <2>2. entries'[i].value = Latest(w, c) /\ entries'[i].watch = w /\ entries'[i].came = c
    BY <2>1
  <2> QED BY <2>2
<1>12. ASSUME NEW i \in DOMAIN entries', entries'[i].watch.key = gauge'.key
       PROVE  gauge'.line = Line(entries'[i].watch, gauge'.came)
  <2>1. i \in DOMAIN entries /\ entries'[i].watch = entries[i].watch /\ entries[i].watch \in Watches
    BY <1>6, <1>7, <1>9
  <2>2. gauge.key # NoKey /\ entries[i].watch.key = gauge.key
    BY <1>10, <1>12, <2>1, PhoneAssumption
  <2> QED BY <1>3, <1>10, <2>1, <2>2
<1>13. AreTiles(entries', gauge')
  <2>1. ASSUME NEW i \in DOMAIN entries'
        PROVE  entries'[i] \in [watch : Watches, value : {entries'[i].value}, came : Seq(Nat)]
    <3> DEFINE w == entries[i].watch
               c == entries[i].came \o Places
               v == Latest(w, c)
    <3>1. entries'[i] = [watch |-> w, value |-> v, came |-> c] /\ w \in Watches /\ c \in Seq(Nat)
      BY <1>6, <1>7
    <3> HIDE DEF w, c, v
    <3> QED BY <3>1, TileIs
  <2>2. \A i, j \in DOMAIN entries' : entries'[i].watch.key = entries'[j].watch.key => i = j
    BY <1>4, <1>6, <1>9
  <2> QED BY <1>8, <1>10, <2>1, <2>2 DEF AreTiles
<1>14. gauge'.key # NoKey <=> entries' # <<>>
  <2>1. \A s : (\E S : s \in Seq(S)) => (s # <<>> <=> DOMAIN s # {})
    OBVIOUS
  <2>2. entries' # <<>> <=> entries # <<>>
    BY <1>4, <1>6, <1>8, <2>1
  <2> QED BY <1>10, <2>2, PhoneParts
<1>15. gauge'.key # NoKey => \E i \in DOMAIN entries' : entries'[i].watch.key = gauge'.key
  BY <1>6, <1>9, <1>10, PhoneParts
<1> QED BY <1>1, <1>11, <1>12, <1>13, <1>14, <1>15, PhoneStands

\* A tile is added.
LEMMA AddKeeps == ASSUME PhoneInv, NEW w \in Watches, AddWatch(w) PROVE PhoneInv'
<1> DEFINE e == NewLatest(w)
<1>1. /\ bus' = bus /\ w.key \notin Watched /\ entries' = Append(entries, e)
      /\ gauge' = IF gauge.key = NoKey THEN SetGauge(w.key) ELSE gauge
  BY DEF AddWatch, Touch
<1>2. PICK S : entries \in Seq(S)
  BY PhoneParts DEF AreTiles
<1>3. e = [watch |-> w, value |-> NoValue, came |-> <<>>] /\ <<>> \in Seq(Nat)
  BY DEF NewLatest
<1> HIDE DEF e
<1>4. /\ entries \in Seq(S \cup {e}) /\ entries' \in Seq(S \cup {e}) /\ Len(entries) \in Nat
      /\ DOMAIN entries' = 1 .. Len(entries) + 1 /\ DOMAIN entries = 1 .. Len(entries)
      /\ entries'[Len(entries) + 1] = e /\ \A i \in DOMAIN entries : entries'[i] = entries[i]
  BY <1>1, <1>2
<1>5. \A i \in DOMAIN entries' : i \in DOMAIN entries \/ i = Len(entries) + 1
  BY <1>4
<1>6. \A i \in DOMAIN entries : entries[i].watch.key # w.key
  BY <1>1 DEF Watched
<1>7. gauge' = IF gauge.key = NoKey THEN Fresh(w.key) ELSE gauge
  BY <1>1, PhoneAssumption DEF SetGauge, Fresh
<1>8. Latest(w, <<>>) = NoValue
  BY NothingCame
<1>9. /\ gauge'.key = (IF gauge.key = NoKey THEN w.key ELSE gauge.key) /\ w.key # NoKey
      /\ gauge' \in [key : {gauge'.key}, line : {gauge'.line}, came : Seq(Nat)]
  BY <1>7, FreshGauge, PhoneParts, PhoneAssumption DEF AreTiles
<1>10. AreTiles(entries', gauge')
  <2>1. ASSUME NEW i \in DOMAIN entries'
        PROVE  entries'[i] \in [watch : Watches, value : {entries'[i].value}, came : Seq(Nat)]
    <3>1. CASE i \in DOMAIN entries
      <4>1. entries'[i] = entries[i]
        BY <1>4, <3>1
      <4>2. entries[i] \in [watch : Watches, value : {entries[i].value}, came : Seq(Nat)]
        BY <3>1, PhoneParts DEF AreTiles
      <4> QED BY <4>1, <4>2
    <3>2. CASE i = Len(entries) + 1
      <4>1. entries'[i] = [watch |-> w, value |-> NoValue, came |-> <<>>]
        BY <1>3, <1>4, <3>2
      <4> QED BY <1>3, <4>1, TileIs
    <3> QED BY <1>5, <3>1, <3>2
  <2>2. ASSUME NEW i \in DOMAIN entries', NEW j \in DOMAIN entries', entries'[i].watch.key = entries'[j].watch.key
        PROVE  i = j
    <3>1. entries'[Len(entries) + 1].watch = w
      BY <1>3, <1>4
    <3>2. ASSUME NEW k \in DOMAIN entries PROVE entries'[k].watch = entries[k].watch
      BY <1>4
    <3>3. CASE i \in DOMAIN entries /\ j \in DOMAIN entries
      BY <2>2, <3>2, <3>3, PhoneParts DEF AreTiles
    <3>4. CASE i \in DOMAIN entries /\ j = Len(entries) + 1
      BY <1>6, <2>2, <3>1, <3>2, <3>4
    <3>5. CASE j \in DOMAIN entries /\ i = Len(entries) + 1
      BY <1>6, <2>2, <3>1, <3>2, <3>5
    <3> QED BY <1>5, <3>3, <3>4, <3>5
  <2> QED BY <1>4, <1>9, <2>1, <2>2 DEF AreTiles
<1>11. gauge'.key # NoKey <=> entries' # <<>>
  BY <1>4, <1>9
<1>12. \E i \in DOMAIN entries' : entries'[i].watch.key = gauge'.key
  <2>1. CASE gauge.key = NoKey
    <3>1. Len(entries) + 1 \in DOMAIN entries' /\ entries'[Len(entries) + 1].watch = w
      BY <1>3, <1>4
    <3> QED BY <1>9, <2>1, <3>1
  <2>2. CASE gauge.key # NoKey
    <3>1. PICK i \in DOMAIN entries : entries[i].watch.key = gauge.key
      BY <2>2, PhoneParts
    <3>2. i \in DOMAIN entries' /\ entries'[i] = entries[i]
      BY <1>4
    <3> QED BY <1>9, <2>2, <3>1, <3>2
  <2> QED BY <2>1, <2>2
<1>13. ASSUME NEW i \in DOMAIN entries' PROVE entries'[i].value = Latest(entries'[i].watch, entries'[i].came)
  <2>1. CASE i \in DOMAIN entries
    BY <1>4, <2>1, PhoneParts
  <2>2. CASE i = Len(entries) + 1
    BY <1>3, <1>4, <1>8, <2>2
  <2> QED BY <1>5, <2>1, <2>2
<1>14. ASSUME NEW i \in DOMAIN entries', entries'[i].watch.key = gauge'.key
       PROVE  gauge'.line = Line(entries'[i].watch, gauge'.came)
  <2>1. CASE gauge.key = NoKey
    BY <1>7, <2>1, FreshGauge
  <2>2. CASE gauge.key # NoKey
    <3>1. gauge' = gauge
      BY <1>7, <2>2
    <3>2. CASE i \in DOMAIN entries
      BY <1>4, <1>14, <3>1, <3>2, PhoneParts
    <3>3. CASE i = Len(entries) + 1
      <4>1. w.key = gauge.key
        BY <1>3, <1>4, <1>14, <3>1, <3>3
      <4>2. PICK j \in DOMAIN entries : entries[j].watch.key = gauge.key
        BY <2>2, PhoneParts
      <4> QED BY <1>6, <4>1, <4>2
    <3> QED BY <1>5, <3>2, <3>3
  <2> QED BY <2>1, <2>2
<1> QED BY <1>1, <1>10, <1>11, <1>12, <1>13, <1>14, PhoneStands

\* A tile that is removed leaves every other one as it was, each at one place.
LEMMA RemovedAt ==
  ASSUME NEW S, NEW s \in Seq(S), NEW i \in DOMAIN s
  PROVE  /\ RemoveAt(s, i) \in Seq(S) /\ DOMAIN RemoveAt(s, i) = 1 .. Len(s) - 1
         /\ \A k \in 1 .. Len(s) - 1 :
              RemoveAt(s, i)[k] = s[IF k < i THEN k ELSE k + 1] /\ (IF k < i THEN k ELSE k + 1) \in DOMAIN s
<1> DEFINE a == SubSeq(s, 1, i - 1)
           b == SubSeq(s, i + 1, Len(s))
<1>1. i \in 1 .. Len(s) /\ Len(s) \in Nat /\ DOMAIN s = 1 .. Len(s)
  OBVIOUS
<1>2. /\ a \in Seq(S) /\ Len(a) = i - 1 /\ \A k \in 1 .. i - 1 : a[k] = s[k]
      /\ b \in Seq(S) /\ Len(b) = Len(s) - i /\ \A k \in 1 .. Len(s) - i : b[k] = s[k + i]
  <2>1. /\ 1 \in Int /\ i - 1 \in Int /\ i + 1 \in Int /\ Len(s) \in Int
        /\ (IF 1 <= i - 1 THEN i - 1 - 1 + 1 ELSE 0) = i - 1
        /\ (IF i + 1 <= Len(s) THEN Len(s) - (i + 1) + 1 ELSE 0) = Len(s) - i
    BY <1>1
  <2>2. (\A k \in 1 .. i - 1 : s[k] \in S) /\ (\A k \in i + 1 .. Len(s) : s[k] \in S)
    BY <1>1
  <2>3. /\ SubSeq(s, 1, i - 1) \in Seq(S)
        /\ Len(SubSeq(s, 1, i - 1)) = IF 1 <= i - 1 THEN i - 1 - 1 + 1 ELSE 0
        /\ \A k \in 1 .. i - 1 - 1 + 1 : SubSeq(s, 1, i - 1)[k] = s[1 + k - 1]
    BY ONLY <2>1, <2>2, SubSeqProperties
  <2>4. /\ SubSeq(s, i + 1, Len(s)) \in Seq(S)
        /\ Len(SubSeq(s, i + 1, Len(s))) = IF i + 1 <= Len(s) THEN Len(s) - (i + 1) + 1 ELSE 0
        /\ \A k \in 1 .. Len(s) - (i + 1) + 1 : SubSeq(s, i + 1, Len(s))[k] = s[i + 1 + k - 1]
    BY ONLY SMTT(60), <2>1, <2>2, SubSeqProperties
  <2> HIDE DEF a, b
  <2>5. a \in Seq(S) /\ Len(a) = i - 1 /\ \A k \in 1 .. i - 1 : a[k] = s[1 + k - 1]
    <3>1. i - 1 - 1 + 1 = i - 1
      BY <1>1
    <3> QED BY <2>1, <2>3, <3>1 DEF a
  <2>6. b \in Seq(S) /\ Len(b) = Len(s) - i /\ \A k \in 1 .. Len(s) - i : b[k] = s[i + 1 + k - 1]
    <3>1. Len(s) - (i + 1) + 1 = Len(s) - i
      BY <1>1
    <3> QED BY <2>1, <2>4, <3>1 DEF b
  <2>7. (\A k \in 1 .. i - 1 : 1 + k - 1 = k) /\ (\A k \in 1 .. Len(s) - i : i + 1 + k - 1 = k + i)
    BY <1>1
  <2> QED BY <2>5, <2>6, <2>7
<1> HIDE DEF a, b
<1>3. RemoveAt(s, i) = a \o b
  BY DEF RemoveAt, a, b
<1>4. /\ a \o b \in Seq(S) /\ Len(a \o b) = Len(s) - 1
      /\ \A k \in 1 .. Len(s) - 1 : (a \o b)[k] = IF k <= Len(a) THEN a[k] ELSE b[k - Len(a)]
  <2>1. Len(a) + Len(b) = Len(s) - 1
    BY <1>1, <1>2
  <2>2. /\ a \o b \in Seq(S) /\ Len(a \o b) = Len(a) + Len(b)
        /\ \A k \in 1 .. Len(a) + Len(b) : (a \o b)[k] = IF k <= Len(a) THEN a[k] ELSE b[k - Len(a)]
    <3>1. a \in Seq(S) /\ b \in Seq(S)
      BY <1>2
    <3> QED BY ONLY <3>1, ConcatProperties
  <2> QED BY ONLY <2>1, <2>2
<1>5. ASSUME NEW k \in 1 .. Len(s) - 1
      PROVE  (a \o b)[k] = s[IF k < i THEN k ELSE k + 1] /\ (IF k < i THEN k ELSE k + 1) \in DOMAIN s
  <2>1. CASE k < i
    <3>1. k \in 1 .. i - 1 /\ k <= Len(a)
      BY <1>1, <1>2, <2>1
    <3> QED BY <1>1, <1>2, <1>4, <2>1, <3>1
  <2>2. CASE ~(k < i)
    <3>1. /\ k - (i - 1) \in 1 .. Len(s) - i /\ k - (i - 1) + i = k + 1 /\ ~(k <= Len(a))
          /\ k - Len(a) = k - (i - 1) /\ k + 1 \in DOMAIN s
      BY <1>1, <1>2, <2>2
    <3>2. (a \o b)[k] = b[k - (i - 1)]
      BY <1>4, <3>1
    <3>3. b[k - (i - 1)] = s[k + 1]
      BY <1>2, <3>1
    <3> QED BY <2>2, <3>1, <3>2, <3>3
  <2> QED BY <2>1, <2>2
<1> QED BY <1>3, <1>4, <1>5

\* A tile is removed.
LEMMA RemoveKeeps == ASSUME PhoneInv, NEW i \in DOMAIN entries, RemoveWatch(i) PROVE PhoneInv'
<1> DEFINE key == IF entries' = <<>> THEN NoKey ELSE entries'[1].watch.key
           from(k) == IF k < i THEN k ELSE k + 1
<1>1. /\ bus' = bus /\ entries' = RemoveAt(entries, i)
      /\ gauge' = IF gauge.key # entries[i].watch.key THEN gauge ELSE Fresh(key)
  BY DEF RemoveWatch, Touch, Fresh
<1>2. PICK S : entries \in Seq(S)
  BY PhoneParts DEF AreTiles
<1>3. /\ entries' \in Seq(S) /\ DOMAIN entries' = 1 .. Len(entries) - 1
      /\ Len(entries) \in Nat /\ DOMAIN entries = 1 .. Len(entries)
      /\ \A k \in DOMAIN entries' : entries'[k] = entries[from(k)] /\ from(k) \in DOMAIN entries
  <2>1. Len(entries) \in Nat /\ DOMAIN entries = 1 .. Len(entries)
    BY <1>2
  <2>2. RemoveAt(entries, i) \in Seq(S) /\ DOMAIN RemoveAt(entries, i) = 1 .. Len(entries) - 1
    BY <1>2, RemovedAt
  <2>3. \A k \in 1 .. Len(entries) - 1 :
          RemoveAt(entries, i)[k] = entries[from(k)] /\ from(k) \in DOMAIN entries
    BY <1>2, RemovedAt
  <2> QED BY <1>1, <2>1, <2>2, <2>3
<1>4. \A k \in DOMAIN entries' : from(k) # i
  BY <1>2, <1>3
<1>5. \A k, j \in DOMAIN entries' : from(k) = from(j) => k = j
  BY <1>2, <1>3
<1>6. \A k \in DOMAIN entries : k # i => \E j \in DOMAIN entries' : from(j) = k
  <2> SUFFICES ASSUME NEW k \in DOMAIN entries, k # i PROVE \E j \in DOMAIN entries' : from(j) = k
    OBVIOUS
  <2>1. i \in 1 .. Len(entries) /\ k \in 1 .. Len(entries)
    BY <1>3
  <2>2. CASE k < i
    <3>1. k \in DOMAIN entries' /\ from(k) = k
      BY <1>3, <2>1, <2>2
    <3> QED BY <3>1
  <2>3. CASE k > i
    <3>1. k - 1 \in DOMAIN entries' /\ from(k - 1) = k
      BY <1>3, <2>1, <2>3
    <3> QED BY <3>1
  <2> QED BY <2>1, <2>2, <2>3
<1>7. entries' # <<>> => 1 \in DOMAIN entries'
  BY <1>3
<1>8. key # NoKey <=> entries' # <<>>
  <2>1. CASE entries' = <<>>
    BY <2>1
  <2>2. CASE entries' # <<>>
    <3>1. entries'[1] = entries[from(1)] /\ from(1) \in DOMAIN entries
      BY <1>3, <1>7, <2>2
    <3>2. entries[from(1)].watch \in Watches
      BY <3>1, PhoneParts DEF AreTiles
    <3> QED BY <2>2, <3>1, <3>2, PhoneAssumption
  <2> QED BY <2>1, <2>2
<1> HIDE DEF from
<1>9. AreTiles(entries', gauge')
  <2>1. ASSUME NEW k \in DOMAIN entries'
        PROVE  entries'[k] \in [watch : Watches, value : {entries'[k].value}, came : Seq(Nat)]
    BY <1>3, PhoneParts DEF AreTiles
  <2>2. ASSUME NEW k \in DOMAIN entries', NEW j \in DOMAIN entries', entries'[k].watch.key = entries'[j].watch.key
        PROVE  k = j
    BY SMTT(60), <1>3, <1>5, <2>2, PhoneParts DEF AreTiles
  <2>3. gauge' \in [key : {gauge'.key}, line : {gauge'.line}, came : Seq(Nat)]
    <3> HIDE DEF key
    <3>1. CASE gauge.key # entries[i].watch.key
      BY <1>1, <3>1, PhoneParts DEF AreTiles
    <3>2. CASE gauge.key = entries[i].watch.key
      BY <1>1, <3>2, FreshGauge
    <3> QED BY <3>1, <3>2
  <2> QED BY <1>3, <2>1, <2>2, <2>3 DEF AreTiles
<1>10. CASE gauge.key # entries[i].watch.key
  <2>1. gauge' = gauge
    BY <1>1, <1>10
  <2>2. gauge'.key # NoKey => \E k \in DOMAIN entries' : entries'[k].watch.key = gauge'.key
    <3> SUFFICES ASSUME gauge.key # NoKey
                 PROVE  \E k \in DOMAIN entries' : entries'[k].watch.key = gauge.key
      BY <2>1
    <3>1. PICK j \in DOMAIN entries : entries[j].watch.key = gauge.key
      BY PhoneParts
    <3>2. PICK k \in DOMAIN entries' : from(k) = j
      BY <1>6, <1>10, <3>1
    <3> QED BY <1>3, <3>1, <3>2
  <2>3. gauge'.key # NoKey <=> entries' # <<>>
    <3>1. gauge.key # NoKey
      BY PhoneParts
    <3>2. \E k \in DOMAIN entries' : entries'[k].watch.key = gauge'.key
      BY <2>1, <2>2, <3>1
    <3> QED BY <1>3, <2>1, <3>1, <3>2
  <2>4. ASSUME NEW k \in DOMAIN entries' PROVE entries'[k].value = Latest(entries'[k].watch, entries'[k].came)
    BY <1>3, PhoneParts
  <2>5. ASSUME NEW k \in DOMAIN entries', entries'[k].watch.key = gauge'.key
        PROVE  gauge'.line = Line(entries'[k].watch, gauge'.came)
    BY <1>3, <2>1, <2>5, PhoneParts
  <2> QED BY <1>1, <1>9, <2>2, <2>3, <2>4, <2>5, PhoneStands
<1>11. CASE gauge.key = entries[i].watch.key
  <2>1. gauge' = Fresh(key) /\ gauge'.key = key
    BY <1>1, <1>11, FreshGauge
  <2>2. gauge'.key # NoKey => \E k \in DOMAIN entries' : entries'[k].watch.key = gauge'.key
    BY <1>7, <1>8, <2>1
  <2>3. gauge'.key # NoKey <=> entries' # <<>>
    BY <1>8, <2>1
  <2> HIDE DEF key
  <2>4. ASSUME NEW k \in DOMAIN entries' PROVE entries'[k].value = Latest(entries'[k].watch, entries'[k].came)
    BY <1>3, PhoneParts
  <2>5. ASSUME NEW k \in DOMAIN entries', entries'[k].watch.key = gauge'.key
        PROVE  gauge'.line = Line(entries'[k].watch, gauge'.came)
    BY <2>1, FreshGauge
  <2> QED BY <1>1, <1>9, <2>2, <2>3, <2>4, <2>5, PhoneStands
<1> QED BY <1>10, <1>11

\* Another tile is picked for the gauge.
LEMMA PickKeeps == ASSUME PhoneInv, NEW i \in DOMAIN entries, PickGauge(i) PROVE PhoneInv'
<1> DEFINE key == entries[i].watch.key
<1>1. bus' = bus /\ entries' = entries /\ gauge' = IF gauge.key = key THEN gauge ELSE Fresh(key)
  BY DEF PickGauge, Touch, SetGauge, Fresh
<1>2. key # NoKey
  BY PhoneParts, PhoneAssumption DEF AreTiles
<1>3. CASE gauge.key = key
  BY <1>1, <1>3, PhoneRests
<1>4. CASE gauge.key # key
  <2>1. gauge' = Fresh(key) /\ gauge'.key = key
    BY <1>1, <1>4, FreshGauge
  <2>2. \E k \in DOMAIN entries' : entries'[k].watch.key = gauge'.key
    BY <1>1, <2>1
  <2>3. entries' # <<>>
    BY <1>1
  <2>4. AreTiles(entries', gauge')
    <3>1. gauge' \in [key : {gauge'.key}, line : {gauge'.line}, came : Seq(Nat)]
      <4> HIDE DEF key
      <4> QED BY <2>1, FreshGauge
    <3> QED BY <1>1, <3>1, PhoneParts DEF AreTiles
  <2>5. \A k \in DOMAIN entries' : entries'[k].value = Latest(entries'[k].watch, entries'[k].came)
    BY <1>1, PhoneParts
  <2>6. ASSUME NEW k \in DOMAIN entries', entries'[k].watch.key = gauge'.key
        PROVE  gauge'.line = Line(entries'[k].watch, gauge'.came)
    <3> HIDE DEF key
    <3> QED BY <2>1, FreshGauge
  <2> QED BY <1>1, <1>2, <2>1, <2>2, <2>3, <2>4, <2>5, <2>6, PhoneStands
<1> QED BY <1>3, <1>4

\* Every step keeps the phone's part.
LEMMA PhoneKept == WireInv /\ [WireNext]_wireVars => PhoneInv'
<1> SUFFICES ASSUME FramesInv, PhoneInv, [WireNext]_wireVars PROVE PhoneInv'
  BY DEF WireInv
<1>1. CASE Deliver
  BY <1>1, DeliverKeeps
<1>2. CASE Read \/ DropBatch \/ ToggleRecording \/ Replay \/ UNCHANGED wireVars
  <2>1. bus' = bus /\ entries' = entries /\ gauge' = gauge
    BY <1>2 DEF Read, DropBatch, ToggleRecording, Replay, wireVars, phoneVars
  <2> QED BY <2>1, PhoneRests
<1>3. CASE \E w \in Watches : AddWatch(w)
  BY <1>3, AddKeeps
<1>4. CASE \E i \in DOMAIN entries : RemoveWatch(i) \/ PickGauge(i)
  BY <1>4, RemoveKeeps, PickKeeps
<1> QED BY <1>1, <1>2, <1>3, <1>4 DEF WireNext

\* Before anything is read, what is left are the frames of the bus, and the phone has no tile.
LEMMA WireBegins == WireInit => WireInv
<1> SUFFICES ASSUME WireInit PROVE WireInv
  OBVIOUS
<1>1. /\ bus \in Buses /\ left = bus.frames /\ source = "live" /\ file = <<>> /\ batch = <<>>
      /\ entries = <<>> /\ gauge = [key |-> NoKey, line |-> <<>>, came |-> <<>>]
  BY DEF WireInit
<1>2. AreGenuine(left, source)
  <2>1. \E S : left \in Seq(S)
    BY <1>1, BusAssumption
  <2>2. ASSUME NEW i \in DOMAIN left PROVE Genuine(left[i], source)
    <3>1. i \in DOMAIN bus.frames /\ left[i] = Original(i)
      BY <1>1 DEF Original
    <3>2. Original(i).n = i /\ Original(i).t \in Int /\ Original(i).err \in BOOLEAN
      BY <1>1, <3>1, OriginalsAre
    <3> QED BY <1>1, <3>1, <3>2 DEF Genuine
  <2> QED BY <2>1, <2>2 DEF AreGenuine
<1>3. <<>> \in Seq({}) /\ DOMAIN <<>> = {} /\ <<>> \in Seq(Nat)
  OBVIOUS
<1>4. AreGenuine(batch, source)
  BY <1>1, <1>3 DEF AreGenuine
<1>5. FramesInv
  BY <1>1, <1>2, <1>3, <1>4 DEF FramesInv
<1>6. AreTiles(entries, gauge)
  BY <1>1, <1>3 DEF AreTiles
<1>7. PhoneInv
  BY <1>1, <1>3, <1>6 DEF PhoneInv
<1> QED BY <1>5, <1>7 DEF WireInv

(* RoadsAgree, for every bus, every set of watches and every length of batch, line and
   payload: what the decoders read out of a batch is what was on the bus, live or from a
   recording, they read every batch alike, and the tiles and the gauge of the phone show
   what the frames that reached it say, though its parser overwrites their payloads. *)
THEOREM RoadsStayAgreed == WireSpec => []RoadsAgree
<1>1. WireInit => WireInv
  BY WireBegins
<1>2. WireInv /\ [WireNext]_wireVars => WireInv'
  BY FramesKept, PhoneKept DEF WireInv
<1>3. WireInv => RoadsAgree
  BY RoadsHold
<1> QED BY <1>1, <1>2, <1>3, PTL DEF WireSpec

=============================================================================
