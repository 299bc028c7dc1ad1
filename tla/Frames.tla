------------------------------- MODULE Frames -------------------------------
(***************************************************************************)
(* What the analysis modules of frontend/shared/analysis share: frames,    *)
(* windows, packed columns and fractions.                                  *)
(*                                                                         *)
(* A frame is a record [id, ext, t, len, at]: len bytes, at[b] the byte of *)
(* index b. A frame of the ring has an `at' that is longer than len, and   *)
(* what lies beyond len is whatever an older frame left in its slot.       *)
(* A fraction is a pair <<n, d>> with d > 0. A slot is <<id, byteIndex>>.  *)
(***************************************************************************)
EXTENDS Integers, Sequences, FiniteSets, SequencesExt, FiniteSetsExt, TLC

CONSTANT Stride   \* PACKED_STRIDE, 8 bytes per frame

ASSUME StrideAssumption == Stride \in Nat \ {0}

-----------------------------------------------------------------------------
(* Fractions. *)

Zero == <<0, 1>>
One == <<1, 1>>

\* a/b < c/d by whole parts and remainders: the products would not fit TLC's integers.
Less[a \in Int, b \in Nat \ {0}, c \in Int, d \in Nat \ {0}] ==
    IF a \div b # c \div d THEN a \div b < c \div d
    ELSE c % d # 0 /\ (a % b = 0 \/ Less[d, c % d, b, a % b])

Lt(p, q) == Less[p[1], p[2], q[1], q[2]]
Le(p, q) == ~Lt(q, p)

GCD[a \in Nat, b \in Nat] == IF b = 0 THEN a ELSE GCD[b, a % b]
Abs(n) == IF n < 0 THEN -n ELSE n

\* A fraction in lowest terms.
Reduced(n, d, g) == <<n \div g, d \div g>>
Lowest(n, d) == IF n = 0 THEN Zero ELSE Reduced(n, d, GCD[Abs(n), d])

Product(p, q) == Lowest(p[1] * q[1], p[2] * q[2])
Times(p, q) == Product(Lowest(p[1], q[2]), Lowest(q[1], p[2]))
Minus(p, q) == Lowest(p[1] * q[2] - q[1] * p[2], p[2] * q[2])
Square(p) == Times(p, p)
LeastOf(p, q) == IF Le(p, q) THEN p ELSE q
MostOf(p, q) == IF Le(p, q) THEN q ELSE p

\* changes / pairs, and 0 where there is no pair.
Rate(changes, pairs) == IF pairs = 0 THEN Zero ELSE Lowest(changes, pairs)

-----------------------------------------------------------------------------
(* Frames and windows. A window [from, to] includes both its ends. *)

IdsOf(frames) == {frames[i].id : i \in DOMAIN frames}
OfId(frames, id) == SelectSeq(frames, LAMBDA f : f.id = id)
Slice(frames, w) == SelectSeq(frames, LAMBDA f : w.from <= f.t /\ f.t <= w.to)
InAny(t, windows) == \E w \in windows : w.from <= t /\ t <= w.to

\* The sequence of op(x) for each element x of seq.
Each(seq, op(_)) == FoldLeft(LAMBDA mapped, x : Append(mapped, op(x)), <<>>, seq)

\* The elements of a set in the order of `before'.
Sorted(S, before(_, _)) == SortSeq(FoldSet(LAMBDA x, seq : Append(seq, x), <<>>, S), before)

\* The stable sort by time that every scorer applies to an id's frames.
ByTime(frames) ==
    LET earlier(i, j) == frames[i].t < frames[j].t \/ (frames[i].t = frames[j].t /\ i < j)
        order == Sorted(DOMAIN frames, earlier)
    IN  Each(order, LAMBDA i : frames[i])

\* The longest payload of an id.
Width(frames) == Max({0} \cup {frames[i].len : i \in DOMAIN frames})

Bit(byte, k) == (byte \div 2^k) % 2

\* The consecutive pairs of an id's frames that both carry byte b.
Pairs(frames, b) == {i \in 2 .. Len(frames) : b < frames[i - 1].len /\ b < frames[i].len}

-----------------------------------------------------------------------------
(* Packed columns: one entry per frame, the payloads in one array of Stride *)
(* bytes each. A slot of the array is not cleared beyond the frame's dlc.   *)

ByteAt(p, i, b) == p.data[(i - 1) * Stride + b + 1]
PayloadLen(p, i) == p.dlc[i]

FramesToPacked(frames) ==
    [count |-> Len(frames),
     t |-> [i \in DOMAIN frames |-> frames[i].t],
     id |-> [i \in DOMAIN frames |-> frames[i].id],
     ext |-> [i \in DOMAIN frames |-> frames[i].ext],
     dlc |-> [i \in DOMAIN frames |-> Min({frames[i].len, Stride})],
     data |-> [k \in 1 .. Len(frames) * Stride |->
                 LET f == frames[(k - 1) \div Stride + 1]
                     b == (k - 1) % Stride
                 IN  IF b < f.len THEN f.at[b] ELSE 0]]

\* The frames of an id, as indices.
IndicesPacked(p, id) == Sorted({i \in 1 .. p.count : p.id[i] = id}, <)

\* Frame i with a view of its payload, as the decoder of signals is given it.
ViewAt(p, i) == [id |-> p.id[i], ext |-> p.ext[i], t |-> p.t[i], len |-> PayloadLen(p, i),
                 at |-> [b \in 0 .. PayloadLen(p, i) - 1 |-> ByteAt(p, i, b)]]

WidthPacked(p, indices) == Max({0} \cup {PayloadLen(p, i) : i \in Range(indices)})

IdsPacked(p) == {p.id[i] : i \in 1 .. p.count}
=============================================================================
