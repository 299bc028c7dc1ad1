--------------------------- MODULE LogbookProofs ---------------------------
(***************************************************************************)
(* Proofs about Logbook: what a tick does however many phases are due, and *)
(* with it that the windows tile the run, that each run is analysed once,  *)
(* whole and under its own name, and that the melody tells the phase.      *)
(***************************************************************************)
EXTENDS Logbook, SequenceTheorems, WellFoundedInduction, TLAPS

-----------------------------------------------------------------------------
(* Induction, from the library's least elements: its own theorem takes an  *)
(* operator as a parameter, a set serves as well.                          *)

\* Every set of numbers that is not empty has a least one.
LEMMA LeastNumber ==
  ASSUME NEW T \in SUBSET Nat, T # {}
  PROVE  \E n \in T : \A m \in T : n <= m
<1> DEFINE R == {p \in Nat \X Nat : p[1] < p[2]}
<1>1. IsWellFoundedOn(R, Nat)
  BY NatLessThanWellFounded DEF OpToRel
<1>2. PICK x \in T : \A y \in T : ~(<<y, x>> \in R)
  BY <1>1, WFMin
<1>3. ASSUME NEW m \in T PROVE x <= m
  <2>1. x \in Nat /\ m \in Nat
    BY <1>2
  <2>2. ~(<<m, x>> \in R)
    BY <1>2
  <2>3. ~(m < x)
    BY <2>1, <2>2
  <2> HIDE DEF R
  <2>4. QED
    BY <2>1, <2>3
<1> HIDE DEF R
<1>4. QED
  BY <1>2, <1>3

\* A set of numbers that has 0, and with every number the next, is all of them.
LEMMA Induction ==
  ASSUME NEW T \in SUBSET Nat, 0 \in T, \A n \in T : n + 1 \in T
  PROVE  T = Nat
<1> SUFFICES ASSUME Nat \ T # {} PROVE FALSE
  OBVIOUS
<1>1. PICK n \in Nat \ T : \A m \in Nat \ T : n <= m
  BY LeastNumber
<1>2. n # 0 /\ n - 1 \in Nat /\ n - 1 < n /\ (n - 1) + 1 = n
  BY <1>1
<1>3. QED
  BY <1>1, <1>2

-----------------------------------------------------------------------------
(* The loop of tick() *)

\* The functions the loop can be, for as many turns as n.
IsLoop(f, n, t) ==
  f = [k \in 0 .. n |->
        [p \in EngineStates |->
           IF k > 0 /\ Due(p, t) THEN f[k - 1][Advanced(p, Boundary(p, t))] ELSE p]]

\* There is such a function, for every number of turns.
LEMMA LoopExists ==
  ASSUME NEW t, NEW N \in Nat
  PROVE  \E f : IsLoop(f, N, t)
<1> DEFINE T == {n \in Nat : \E f : IsLoop(f, n, t)}
<1>1. 0 \in T
  <2> DEFINE f == [k \in 0 .. 0 |-> [p \in EngineStates |-> p]]
  <2>1. f = [k \in 0 .. 0 |->
              [p \in EngineStates |->
                IF k > 0 /\ Due(p, t) THEN f[k - 1][Advanced(p, Boundary(p, t))] ELSE p]]
    OBVIOUS
  <2>2. QED
    BY <2>1 DEF IsLoop
<1>2. ASSUME NEW n \in T PROVE n + 1 \in T
  <2>1. PICK f : IsLoop(f, n, t)
    OBVIOUS
  <2> DEFINE Last1 == [p \in EngineStates |-> IF Due(p, t) THEN f[n][Advanced(p, Boundary(p, t))] ELSE p]
             g == [k \in 0 .. (n + 1) |-> IF k <= n THEN f[k] ELSE Last1]
             Of(h, k) == [p \in EngineStates |->
                           IF k > 0 /\ Due(p, t) THEN h[k - 1][Advanced(p, Boundary(p, t))] ELSE p]
  <2>0. f = [k \in 0 .. n |-> Of(f, k)]
    BY <2>1 DEF IsLoop
  <2>2. ASSUME NEW k \in 0 .. (n + 1) PROVE g[k] = Of(g, k)
    <3>1. CASE k = 0
      <4>1. g[k] = f[0] /\ f[0] = Of(f, 0)
        BY <2>1, <3>1 DEF IsLoop
      <4>2. Of(f, 0) = [p \in EngineStates |-> p] /\ Of(g, 0) = [p \in EngineStates |-> p]
        OBVIOUS
      <4>3. QED
        BY <4>1, <4>2, <3>1
    <3>2. CASE k > 0 /\ k <= n
      <4>1. g[k] = f[k] /\ f[k] = Of(f, k)
        <5>1. k \in 0 .. n
          BY <3>2
        <5>2. g[k] = f[k]
          BY <3>2
        <5> HIDE DEF Of, g
        <5>3. QED
          BY <5>1, <5>2, <2>0
      <4>2. k - 1 \in 0 .. (n + 1) /\ k - 1 <= n
        BY <3>2
      <4>3. g[k - 1] = f[k - 1]
        BY <4>2
      <4>4. Of(f, k) = Of(g, k)
        BY <4>3
      <4>5. QED
        BY <4>1, <4>4
    <3>3. CASE k = n + 1
      <4>1. g[k] = Last1 /\ g[k - 1] = f[n] /\ k > 0
        BY <3>3
      <4>2. Of(g, k) = Last1
        BY <4>1
      <4>3. QED
        BY <4>1, <4>2
    <3>4. QED
      BY <3>1, <3>2, <3>3
  <2>3. g = [k \in 0 .. (n + 1) |-> Of(g, k)]
    <3> HIDE DEF Of
    <3>1. g = [k \in 0 .. (n + 1) |-> g[k]]
      OBVIOUS
    <3> HIDE DEF g
    <3>2. QED
      BY <2>2, <3>1
  <2>4. IsLoop(g, n + 1, t)
    BY <2>3 DEF IsLoop
  <2> HIDE DEF g
  <2>5. QED
    BY <2>4
<1>3. T = Nat
  <2> HIDE DEF T
  <2>1. T \in SUBSET Nat
    BY DEF T
  <2>2. QED
    BY <1>1, <1>2, <2>1, Induction
<1>4. QED
  BY <1>3

\* A tick is the last of the loop's functions, applied to the engine.
LEMMA TickIsLoop ==
  ASSUME NEW e, NEW t, Len(Phases[scenario]) \in Nat
  PROVE  \E f : IsLoop(f, Len(Phases[scenario]) + 1, t) /\ Ticked(e, t) = f[Len(Phases[scenario]) + 1][e]
<1> DEFINE N == Len(Phases[scenario]) + 1
           f == CHOOSE g : IsLoop(g, N, t)
<1>1. Ticked(e, t) = f[N][e]
  BY DEF Ticked, IsLoop
<1>2. IsLoop(f, N, t)
  <2>1. N \in Nat
    OBVIOUS
  <2>2. \E g : IsLoop(g, N, t)
    <3> HIDE DEF N
    <3>1. QED
      BY <2>1, LoopExists
  <2>3. QED
    BY <2>2
<1> HIDE DEF f
<1>3. QED
  BY <1>1, <1>2

\* What a function of the loop does with one more turn.
Turns(f, n, t) ==
  \A k \in 0 .. n, p \in EngineStates :
    f[k][p] = IF k > 0 /\ Due(p, t) THEN f[k - 1][Advanced(p, Boundary(p, t))] ELSE p

\* One turn of the loop: none is left, none is due, or a phase is closed and the rest follows.
LEMMA LoopTurn ==
  ASSUME NEW t, NEW N \in Nat, NEW f, IsLoop(f, N, t)
  PROVE  Turns(f, N, t)
<1> DEFINE Of(h, j) == [q \in EngineStates |->
                         IF j > 0 /\ Due(q, t) THEN h[j - 1][Advanced(q, Boundary(q, t))] ELSE q]
<1>1. f = [j \in 0 .. N |-> Of(f, j)]
  BY DEF IsLoop
<1>2. ASSUME NEW k \in 0 .. N PROVE f[k] = Of(f, k)
  <2> HIDE DEF Of
  <2>1. QED
    BY <1>1
<1>3. QED
  BY ZenonT(90), <1>2 DEF Turns

\* What closing a due phase keeps, a tick keeps, however many are due.
LEMMA TickKeeps ==
  ASSUME NEW t, NEW S \in SUBSET EngineStates, NEW e \in S, Len(Phases[scenario]) \in Nat,
         \A p \in S : Due(p, t) => Advanced(p, Boundary(p, t)) \in S
  PROVE  Ticked(e, t) \in S
<1> DEFINE N == Len(Phases[scenario]) + 1
<1>0. \E f : IsLoop(f, N, t) /\ Ticked(e, t) = f[N][e]
  BY TickIsLoop
<1>2. N \in Nat
  OBVIOUS
<1> HIDE DEF N
<1>1. PICK f : IsLoop(f, N, t) /\ Ticked(e, t) = f[N][e]
  BY <1>0
<1>a. Turns(f, N, t)
  BY <1>1, <1>2, LoopTurn
<1> DEFINE T == {n \in Nat : n <= N => \A p \in S : f[n][p] \in S}
<1>3. 0 \in T
  <2>1. ASSUME NEW p \in S PROVE f[0][p] = p
    <3>1. p \in EngineStates /\ 0 \in 0 .. N
      BY <1>2
    <3>2. f[0][p] = IF 0 > 0 /\ Due(p, t) THEN f[0 - 1][Advanced(p, Boundary(p, t))] ELSE p
      BY <1>a, <3>1 DEF Turns
    <3>3. QED
      BY <3>2
  <2>2. QED
    BY <2>1
<1>4. ASSUME NEW n \in T PROVE n + 1 \in T
  <2>1. SUFFICES ASSUME n + 1 <= N, NEW p \in S PROVE f[n + 1][p] \in S
    OBVIOUS
  <2>2. n + 1 \in 0 .. N /\ p \in EngineStates /\ (n + 1) - 1 = n /\ n + 1 > 0 /\ n <= N
    BY <1>2, <2>1
  <2>3. f[n + 1][p] = IF n + 1 > 0 /\ Due(p, t) THEN f[(n + 1) - 1][Advanced(p, Boundary(p, t))] ELSE p
    BY <1>a, <2>2 DEF Turns
  <2>4. CASE Due(p, t)
    <3>1. f[n][Advanced(p, Boundary(p, t))] \in S
      BY <2>1, <2>2, <2>4
    <3>2. QED
      BY <2>2, <2>3, <2>4, <3>1
  <2>5. CASE ~Due(p, t)
    BY <2>1, <2>3, <2>5
  <2>6. QED
    BY <2>4, <2>5
<1>5. T = Nat
  <2> HIDE DEF T
  <2>1. T \in SUBSET Nat
    BY DEF T
  <2>2. QED
    BY <1>3, <1>4, <2>1, Induction
<1>6. \A p \in S : f[N][p] \in S
  <2>1. N \in T
    BY <1>2, <1>5
  <2>2. N <= N
    BY <1>2
  <2>3. QED
    BY <2>1, <2>2
<1>7. QED
  BY <1>1, <1>6

-----------------------------------------------------------------------------
(* The engine *)

Stamps == [phase : Nat \ {0}, from : Nat, to : Nat]

\* What Covers leaves to the types: an engine that is not fresh has a scenario, and is at a
\* phase of it that began by now.
Covered(e, c) ==
  /\ Covers(e, c)
  /\ e.status = "idle" => e = Fresh
  /\ e.status # "idle" => scenario \in Scenarios
  /\ e.status = "running" => e.idx <= Len(Phases[scenario]) /\ e.start <= c
  /\ e.status = "stopped" => Len(e.windows) <= Len(Phases[scenario])

\* What the constants say of a scenario's phases.
LEMMA PhaseFacts ==
  ASSUME scenario \in Scenarios
  PROVE  /\ Len(Phases[scenario]) \in Nat \ {0}
         /\ \A i \in 1 .. Len(Phases[scenario]) :
              /\ Phases[scenario][i].input \in BOOLEAN
              /\ Phases[scenario][i].dur \in Nat \ {0}
         /\ DOMAIN Phases[scenario] = 1 .. Len(Phases[scenario])
<1> DEFINE P == [input : BOOLEAN, type : STRING, dur : Nat \ {0}]
<1>1. Phases[scenario] \in Seq(P) /\ Phases[scenario] # <<>>
  BY LogbookConstants
<1>2. \A x \in P : x.input \in BOOLEAN /\ x.dur \in Nat \ {0}
  OBVIOUS
<1> HIDE DEF P
<1>3. QED
  BY <1>1, <1>2

\* A window appended to those of an engine.
LEMMA StampFacts ==
  ASSUME NEW w \in Windows, NEW x \in Stamps
  PROVE  /\ Append(w, x) \in Windows
         /\ Len(Append(w, x)) = Len(w) + 1
         /\ \A i \in 1 .. Len(w) : Append(w, x)[i] = w[i]
         /\ Append(w, x)[Len(w) + 1] = x
         /\ Append(w, x) # <<>>
         /\ Last(Append(w, x)) = x
<1> DEFINE S == Stamps
<1>1. w \in Seq(S) /\ x \in S
  BY DEF Windows, Stamps
<1> HIDE DEF S
<1>2. /\ Append(w, x) \in Seq(S)
      /\ Len(Append(w, x)) = Len(w) + 1
      /\ \A i \in 1 .. Len(w) : Append(w, x)[i] = w[i]
      /\ Append(w, x)[Len(w) + 1] = x
  BY <1>1, AppendProperties
<1>3. Append(w, x) # <<>> /\ Last(Append(w, x)) = x
  BY <1>1, <1>2, EmptySeq, LenProperties DEF Last
<1>4. QED
  BY <1>2, <1>3 DEF S, Windows, Stamps

\* The window a running engine stamps is the next of the run.
LEMMA Stamping ==
  ASSUME NEW e \in EngineStates, NEW c \in Nat, Covered(e, c), e.status = "running",
         NEW t \in Nat, e.start <= t, t <= c,
         NEW d \in {"running", "done", "stopped"},
         d # "stopped" /\ ~Phase(e).input => t = e.start + Phase(e).dur,
         NEW e2 \in EngineStates, e2.windows = Stamped(e, t), e2.status = d
  PROVE  Tile(e2.windows, e2, c) /\ Len(e2.windows) = e.idx /\ Last(e2.windows).to = t /\ e2.windows # <<>>
<1> DEFINE w == e.windows
           x == [phase |-> e.idx, from |-> e.start, to |-> t]
           v == e2.windows
<1>1. /\ w \in Windows /\ e.idx = Len(w) + 1 /\ Len(w) \in Nat /\ e.start \in Nat
      /\ e.start = IF w = <<>> THEN 0 ELSE Last(w).to
  BY DEF EngineStates, Covered, Covers, Windows
<1>2. x \in Stamps
  BY <1>1 DEF Stamps
<1>3. v = Append(w, x)
  BY DEF Stamped
<1>4. /\ v \in Windows /\ Len(v) = Len(w) + 1 /\ v # <<>> /\ Last(v) = x
      /\ \A i \in 1 .. Len(w) : v[i] = w[i]
      /\ v[Len(w) + 1] = x
  <2> HIDE DEF w, x, v
  <2>1. QED
    BY <1>1, <1>2, <1>3, StampFacts
<1>5. ASSUME NEW i \in DOMAIN v
      PROVE  /\ v[i].phase = i
             /\ v[i].from = IF i = 1 THEN 0 ELSE v[i - 1].to
             /\ v[i].from <= v[i].to /\ v[i].to <= c
             /\ ~Phases[scenario][i].input /\ (i < Len(v) \/ d # "stopped")
                  => v[i].to = v[i].from + Phases[scenario][i].dur
  <2>1. i \in 1 .. (Len(w) + 1) /\ DOMAIN w = 1 .. Len(w)
    <3>1. w \in Seq(Stamps) /\ v \in Seq(Stamps)
      BY <1>1, <1>4 DEF Windows, Stamps
    <3> HIDE DEF w, v
    <3>2. DOMAIN w = 1 .. Len(w) /\ DOMAIN v = 1 .. Len(v)
      BY <3>1
    <3>3. QED
      BY <1>4, <3>2
  <2>2. CASE i \in 1 .. Len(w)
    <3>1. /\ w[i].phase = i
          /\ w[i].from = IF i = 1 THEN 0 ELSE w[i - 1].to
          /\ w[i].from <= w[i].to /\ w[i].to <= c
          /\ ~Phases[scenario][i].input => w[i].to = w[i].from + Phases[scenario][i].dur
      BY <2>1, <2>2 DEF Covered, Covers, Tile
    <3>2. i = 1 \/ i - 1 \in 1 .. Len(w)
      BY <2>2, <1>1
    <3> HIDE DEF w, x, v
    <3>3. v[i] = w[i] /\ (i = 1 \/ v[i - 1] = w[i - 1])
      BY <1>4, <2>2, <3>2
    <3>4. QED
      BY <3>1, <3>3
  <2>3. CASE i = Len(w) + 1
    <3>1. v[i] = x /\ i = e.idx
      BY <1>1, <1>4, <2>3
    <3>2. x.from = IF i = 1 THEN 0 ELSE v[i - 1].to
      <4>1. CASE Len(w) = 0
        <5>1. w = <<>>
          BY <1>1, <4>1, EmptySeq DEF Windows
        <5>2. QED
          BY <5>1, <1>1, <4>1, <2>3
      <4>2. CASE Len(w) # 0
        <5>1. w # <<>> /\ Last(w) = w[Len(w)] /\ i - 1 = Len(w) /\ i - 1 \in 1 .. Len(w) /\ i # 1
          BY <4>2, <1>1, <2>3 DEF Last
        <5>2. v[i - 1] = w[Len(w)]
          BY <5>1, <1>4
        <5>3. QED
          BY <5>1, <5>2, <1>1
      <4>3. QED
        BY <4>1, <4>2
    <3>3. x.phase = i /\ x.from <= x.to /\ x.to <= c
      BY <3>1
    <3>4. ~Phases[scenario][i].input /\ d # "stopped" => x.to = x.from + Phases[scenario][i].dur
      BY <3>1 DEF Phase
    <3>5. ~(i < Len(v))
      BY <1>1, <1>4, <2>3
    <3> HIDE DEF x, v, w
    <3>6. QED
      BY <3>1, <3>2, <3>3, <3>4, <3>5
  <2>4. QED
    BY <2>1, <2>2, <2>3, <1>1
<1>6. Tile(v, e2, c)
  <2> HIDE DEF v
  <2>1. QED
    BY <1>5 DEF Tile
<1>7. QED
  BY <1>1, <1>4, <1>6

\* A phase of a running engine that is closed, at its boundary if it has one, leaves an engine
\* at the next phase, or a run that is done.
LEMMA Advancing ==
  ASSUME NEW e \in EngineStates, NEW c \in Nat, Covered(e, c), e.status = "running",
         NEW t \in Nat, e.start <= t, t <= c, ~Phase(e).input => t = e.start + Phase(e).dur
  PROVE  /\ Advanced(e, t) \in EngineStates /\ Covered(Advanced(e, t), c)
         /\ \/ Advanced(e, t).status = "done"
            \/ Advanced(e, t).status = "running" /\ Advanced(e, t).idx = e.idx + 1
<1> DEFINE a == Advanced(e, t)
<1>1. /\ scenario \in Scenarios /\ e.idx \in Nat /\ e.idx >= 1 /\ e.idx <= Len(Phases[scenario])
      /\ e.windows \in Windows /\ e.start \in Nat
  BY DEF EngineStates, Covered, Covers, Windows
<1>2. Len(Phases[scenario]) \in Nat
  BY <1>1, PhaseFacts
<1>3. /\ a.status = (IF e.idx = Len(Phases[scenario]) THEN "done" ELSE "running")
      /\ a.idx = (IF e.idx = Len(Phases[scenario]) THEN 0 ELSE e.idx + 1)
      /\ a.start = t /\ a.windows = Stamped(e, t)
  BY DEF Advanced
<1>4. a \in EngineStates
  <2>1. [phase |-> e.idx, from |-> e.start, to |-> t] \in Stamps
    BY <1>1 DEF Stamps
  <2>2. Stamped(e, t) \in Windows
    BY <1>1, <2>1, StampFacts DEF Stamped
  <2>3. QED
    BY <1>1, <2>2 DEF EngineStates, Advanced
<1>5. a.status \in {"running", "done"}
  BY <1>3
<1>6. Tile(a.windows, a, c) /\ Len(a.windows) = e.idx /\ Last(a.windows).to = t /\ a.windows # <<>>
  <2>1. a.status # "stopped" /\ a.status \in {"running", "done", "stopped"}
    BY <1>5
  <2> HIDE DEF a
  <2>2. QED
    BY <1>3, <1>4, <2>1, Stamping
<1> HIDE DEF a
<1>7. Covered(a, c)
  BY <1>1, <1>2, <1>3, <1>5, <1>6 DEF Covered, Covers
<1>8. QED
  BY <1>1, <1>3, <1>4, <1>7 DEF a

\* What a tick or a Next leaves: the engine, a later phase of its run, or a run that is done.
Follows(e, e2) ==
  \/ e2 = e
  \/ e.status = "running" /\ e2.status = "done"
  \/ e.status = "running" /\ e2.status = "running" /\ e2.idx > e.idx

\* A due phase is closed at its boundary, which is not after now.
LEMMA DueAdvances ==
  ASSUME NEW e \in EngineStates, NEW c \in Nat, Covered(e, c), Due(e, c)
  PROVE  /\ Advanced(e, Boundary(e, c)) \in EngineStates /\ Covered(Advanced(e, Boundary(e, c)), c)
         /\ \/ Advanced(e, Boundary(e, c)).status = "done"
            \/ /\ Advanced(e, Boundary(e, c)).status = "running"
               /\ Advanced(e, Boundary(e, c)).idx = e.idx + 1
<1>1. e.status = "running" /\ scenario \in Scenarios /\ e.idx \in DOMAIN Phases[scenario] /\ e.start \in Nat
  BY DEF Due, Covered, EngineStates
<1>2. Phase(e).dur \in Nat \ {0}
  BY <1>1, PhaseFacts DEF Phase
<1>3. /\ Boundary(e, c) \in Nat /\ e.start <= Boundary(e, c) /\ Boundary(e, c) <= c
      /\ Boundary(e, c) = e.start + Phase(e).dur
  BY <1>1, <1>2 DEF Boundary, Due
<1>4. QED
  BY <1>1, <1>3, Advancing

\* However many phases are due, a tick leaves windows that tile, and an engine that follows.
LEMMA TickCovered ==
  ASSUME scenario \in Scenarios, NEW e \in EngineStates, NEW c \in Nat, Covered(e, c)
  PROVE  Ticked(e, c) \in EngineStates /\ Covered(Ticked(e, c), c) /\ Follows(e, Ticked(e, c))
<1> DEFINE S == {p \in EngineStates : Covered(p, c) /\ Follows(e, p)}
<1>1. Len(Phases[scenario]) \in Nat
  BY PhaseFacts
<1>2. e \in S
  BY DEF Follows
<1>3. ASSUME NEW p \in S, Due(p, c) PROVE Advanced(p, Boundary(p, c)) \in S
  <2> DEFINE a == Advanced(p, Boundary(p, c))
  <2>1. /\ a \in EngineStates /\ Covered(a, c)
        /\ a.status = "done" \/ (a.status = "running" /\ a.idx = p.idx + 1)
    BY <1>3, DueAdvances
  <2>2. p.status = "running" /\ p.idx \in Nat /\ e.idx \in Nat
    BY <1>3 DEF Due, EngineStates
  <2> HIDE DEF a
  <2>3. Follows(e, a)
    BY <2>1, <2>2 DEF Follows
  <2>4. QED
    BY <2>1, <2>3 DEF a
<1>4. Ticked(e, c) \in S
  <2>1. S \in SUBSET EngineStates
    OBVIOUS
  <2> HIDE DEF S
  <2>2. QED
    BY <1>1, <1>2, <1>3, <2>1, TickKeeps
<1>5. QED
  BY <1>4

\* Next closes the phase that waits for it, and follows too.
LEMMA NextCovered ==
  ASSUME NEW e \in EngineStates, NEW c \in Nat, Covered(e, c)
  PROVE  Confirmed(e, c) \in EngineStates /\ Covered(Confirmed(e, c), c) /\ Follows(e, Confirmed(e, c))
<1>1. CASE ~Awaiting(e)
  BY <1>1 DEF Confirmed, Follows
<1>2. CASE Awaiting(e)
  <2>1. e.status = "running" /\ Phase(e).input /\ e.start <= c
    BY <1>2 DEF Awaiting, Covered
  <2>2. Confirmed(e, c) = Advanced(e, c)
    BY <1>2 DEF Confirmed
  <2>3. /\ Advanced(e, c) \in EngineStates /\ Covered(Advanced(e, c), c)
        /\ \/ Advanced(e, c).status = "done"
           \/ Advanced(e, c).status = "running" /\ Advanced(e, c).idx = e.idx + 1
    BY <2>1, Advancing
  <2>4. e.idx \in Nat
    BY DEF EngineStates
  <2>5. QED
    BY <2>1, <2>2, <2>3, <2>4 DEF Follows
<1>3. QED
  BY <1>1, <1>2

\* Stop keeps the window of the phase it cut off.
LEMMA StopCovered ==
  ASSUME NEW e \in EngineStates, NEW c \in Nat, Covered(e, c)
  PROVE  /\ Stopped(e, c) \in EngineStates /\ Covered(Stopped(e, c), c)
         /\ IF e.status = "running" THEN Stopped(e, c).status = "stopped" ELSE Stopped(e, c) = e
<1> DEFINE a == Stopped(e, c)
<1>1. CASE e.status # "running"
  BY <1>1 DEF Stopped
<1>2. CASE e.status = "running"
  <2>1. /\ scenario \in Scenarios /\ e.idx \in Nat /\ e.idx >= 1 /\ e.idx <= Len(Phases[scenario])
        /\ e.windows \in Windows /\ e.start \in Nat /\ e.start <= c
    BY <1>2 DEF EngineStates, Covered, Covers, Windows
  <2>2. Stamped(e, c) \in Windows
    <3>1. [phase |-> e.idx, from |-> e.start, to |-> c] \in Stamps
      BY <2>1 DEF Stamps
    <3>2. QED
      BY <2>1, <3>1, StampFacts DEF Stamped
  <2>3. a \in EngineStates /\ a.status = "stopped" /\ a.windows = Stamped(e, c)
    BY <1>2, <2>1, <2>2 DEF Stopped, EngineStates
  <2> HIDE DEF a
  <2>4. Tile(a.windows, a, c) /\ Len(a.windows) = e.idx /\ a.windows # <<>>
    <3>1. "stopped" \in {"running", "done", "stopped"} /\ c <= c
      OBVIOUS
    <3>2. QED
      BY <1>2, <2>1, <2>3, <3>1, Stamping
  <2>5. Covered(a, c)
    BY <2>1, <2>3, <2>4 DEF Covered, Covers
  <2>6. QED
    BY <1>2, <2>3, <2>5 DEF a
<1>3. QED
  BY <1>1, <1>2

\* A tick's guard never cuts it short: when the loop ends, no phase is due.
THEOREM TickLeavesNothingDue ==
  ASSUME scenario \in Scenarios, NEW e \in EngineStates, NEW t \in Nat, e.idx >= 1
  PROVE  ~Due(Ticked(e, t), t)
<1> DEFINE L == Len(Phases[scenario])
<1>1. L \in Nat /\ L + 1 \in Nat
  BY PhaseFacts
<1>2. \E f : IsLoop(f, L + 1, t) /\ Ticked(e, t) = f[L + 1][e]
  BY <1>1, TickIsLoop
<1>3. \A p \in EngineStates : Due(p, t) => p.idx <= L /\ p.idx \in Nat
  BY PhaseFacts DEF Due
<1>4. ASSUME NEW p \in EngineStates, Due(p, t)
      PROVE  /\ Advanced(p, Boundary(p, t)) \in EngineStates
             /\ \/ ~Due(Advanced(p, Boundary(p, t)), t) /\ Advanced(p, Boundary(p, t)).status = "done"
                \/ Advanced(p, Boundary(p, t)).idx = p.idx + 1
  <2>1. /\ p.status = "running" /\ p.idx \in DOMAIN Phases[scenario] /\ p.start \in Nat
        /\ p.windows \in Windows /\ p.idx \in Nat \ {0}
    BY <1>4, PhaseFacts DEF Due, EngineStates
  <2>2. Boundary(p, t) \in Nat
    <3>1. p.idx \in 1 .. Len(Phases[scenario])
      BY <2>1, PhaseFacts
    <3>2. Phases[scenario][p.idx].dur \in Nat \ {0}
      BY <3>1, PhaseFacts
    <3>3. QED
      BY <2>1, <3>2 DEF Boundary, Phase
  <2>3. [phase |-> p.idx, from |-> p.start, to |-> Boundary(p, t)] \in Stamps
    BY <2>1, <2>2 DEF Stamps
  <2>4. Stamped(p, Boundary(p, t)) \in Windows
    BY <2>1, <2>3, StampFacts DEF Stamped
  <2>5. QED
    BY <2>1, <2>2, <2>4 DEF Advanced, EngineStates, Due
<1> HIDE DEF L
<1>5. PICK f : IsLoop(f, L + 1, t) /\ Ticked(e, t) = f[L + 1][e]
  BY <1>2
<1>6. Turns(f, L + 1, t)
  BY <1>1, <1>5, LoopTurn
<1> DEFINE Ends(p, n) == p.status = "done" \/ n + p.idx > L
           T == {n \in Nat : n <= L + 1 => \A p \in EngineStates : Ends(p, n) => ~Due(f[n][p], t)}
<1>7. 0 \in T
  <2>1. \A p \in EngineStates : f[0][p] = p
    BY <1>1, <1>6 DEF Turns
  <2>2. \A p \in EngineStates : p.status = "done" => ~Due(p, t)
    BY DEF Due
  <2>3. ASSUME NEW p \in EngineStates, Ends(p, 0) PROVE ~Due(f[0][p], t)
    <3>1. p.idx \in Nat
      BY DEF EngineStates
    <3>2. QED
      BY <1>1, <1>3, <2>1, <2>2, <2>3, <3>1
  <2>4. QED
    BY <2>3
<1>8. ASSUME NEW n \in T PROVE n + 1 \in T
  <2>1. SUFFICES ASSUME n + 1 <= L + 1, NEW p \in EngineStates, Ends(p, n + 1)
                 PROVE  ~Due(f[n + 1][p], t)
    OBVIOUS
  <2>2. n + 1 \in 0 .. (L + 1) /\ (n + 1) - 1 = n /\ n + 1 > 0 /\ n <= L + 1 /\ n \in Nat /\ n \in 0 .. (L + 1)
    BY <1>1, <2>1
  <2>3. f[n + 1][p] = IF Due(p, t) THEN f[n][Advanced(p, Boundary(p, t))] ELSE p
    BY <1>6, <2>2 DEF Turns
  <2>4. CASE ~Due(p, t)
    BY <2>3, <2>4
  <2>5. CASE Due(p, t)
    <3> DEFINE a == Advanced(p, Boundary(p, t))
    <3>1. a \in EngineStates /\ (a.status = "done" \/ a.idx = p.idx + 1)
      BY <1>4, <2>5
    <3>2. p.idx \in Nat /\ p.status = "running"
      BY <2>5, <1>3 DEF Due
    <3> HIDE DEF a
    <3>3. Ends(a, n)
      BY <1>1, <2>1, <2>2, <3>1, <3>2
    <3>4. ~Due(f[n][a], t)
      BY <2>2, <3>1, <3>3
    <3>5. QED
      BY <2>3, <2>5, <3>4 DEF a
  <2>6. QED
    BY <2>4, <2>5
<1>9. T = Nat
  <2> HIDE DEF T
  <2>1. T \in SUBSET Nat
    BY DEF T
  <2>2. QED
    BY <1>7, <1>8, <2>1, Induction
<1>10. QED
  <2>1. L + 1 \in T /\ L + 1 <= L + 1
    BY <1>1, <1>9
  <2>2. e.idx \in Nat
    BY DEF EngineStates
  <2>3. Ends(e, L + 1)
    BY <1>1, <2>2
  <2>4. QED
    BY <1>5, <2>1, <2>3

-----------------------------------------------------------------------------
(* The invariant *)

Asks == [run : Nat, windows : Windows]

\* A run is concluded when it has ended, and only then; until it is, nothing was asked of it,
\* but by a Stop before it was started.
Concluding ==
  /\ eng.status \in {"done", "stopped"} => finished
  /\ eng.status = "running" => ~finished
  /\ \A i \in DOMAIN asked : asked[i].run <= run
  /\ ~finished /\ (eng.status # "idle" \/ lead > 0) => \A i \in DOMAIN asked : asked[i].run # run
  /\ AnalysisIsItsOwn

\* A lead-in is that of a scenario.
LeadInv == lead > 0 => scenario \in Scenarios

LogInv ==
  /\ TypeOK
  /\ TimersOK
  /\ LeadInv
  /\ Covered(eng, clock)
  /\ Concluding
  /\ MelodyTellsPhase

\* Engines a start makes.
LEMMA NewEngines == Fresh \in EngineStates /\ Started(0) \in EngineStates
  BY DEF Fresh, Started, EngineStates, Windows

\* An engine that was not started, or has just been, covers what it has run: nothing.
LEMMA NewCovered ==
  ASSUME NEW c \in Nat
  PROVE  Covered(Fresh, c) /\ (scenario \in Scenarios => Covered(Started(0), c))
<1>1. ASSUME NEW e, e.windows = <<>> PROVE Tile(e.windows, e, c)
  BY <1>1 DEF Tile
<1>2. Covered(Fresh, c)
  BY <1>1 DEF Fresh, Covered, Covers
<1>3. ASSUME scenario \in Scenarios PROVE Covered(Started(0), c)
  <2>1. Len(Phases[scenario]) \in Nat \ {0}
    BY <1>3, PhaseFacts
  <2>2. QED
    BY <1>1, <1>3, <2>1 DEF Started, Covered, Covers
<1>4. QED
  BY <1>2, <1>3

\* The invariant holds at first.
LEMMA LogInit == Init => LogInv
<1> SUFFICES ASSUME Init PROVE LogInv
  OBVIOUS
<1>1. TypeOK
  <2>1. asked \in Seq([run : Nat, windows : Windows]) /\ answered \in 0 .. Len(asked)
    BY DEF Init
  <2>2. {looping, finished, dirty, alive, muted, hushed} \subseteq BOOLEAN
    BY DEF Init
  <2>3. lead \in 0 .. LeadIn /\ clock \in Nat /\ run \in Nat
    BY LogbookConstants DEF Init
  <2>4. eng \in EngineStates
    BY NewEngines DEF Init
  <2>5. QED
    BY <2>1, <2>2, <2>3, <2>4 DEF Init, TypeOK
<1>2. TimersOK /\ LeadInv /\ MelodyTellsPhase
  BY DEF Init, TimersOK, LeadInv, Fresh, MelodyTellsPhase
<1>3. Covered(eng, clock)
  BY NewCovered DEF Init
<1>4. Concluding
  BY DEF Init, Concluding, AnalysisIsItsOwn, AskedOnceAndWhole, Fresh
<1>5. QED
  BY <1>1, <1>2, <1>3, <1>4 DEF LogInv

\* What is asked last is one more, and the last.
LEMMA OneMore ==
  ASSUME NEW q \in Seq(Asks), NEW x \in Asks
  PROVE  /\ Append(q, x) \in Seq(Asks) /\ Len(Append(q, x)) = Len(q) + 1
         /\ Append(q, x) # <<>> /\ Last(Append(q, x)) = x
         /\ \A i \in DOMAIN Append(q, x) :
              \/ i \in DOMAIN q /\ Append(q, x)[i] = q[i]
              \/ i = Len(q) + 1 /\ Append(q, x)[i] = x
<1> DEFINE S == Asks
           a == Append(q, x)
<1> HIDE DEF S
<1>1. q \in Seq(S) /\ x \in S
  BY DEF S
<1>2. /\ a \in Seq(S) /\ Len(a) = Len(q) + 1
      /\ \A i \in 1 .. Len(q) : a[i] = q[i]
      /\ a[Len(q) + 1] = x
  BY <1>1, AppendProperties
<1>3. DOMAIN q = 1 .. Len(q) /\ Len(q) \in Nat
  BY <1>1
<1> HIDE DEF a
<1>4. DOMAIN a = 1 .. Len(a)
  BY <1>2
<1>5. a # <<>> /\ Last(a) = x
  BY <1>2, <1>3, EmptySeq DEF Last
<1>6. \A i \in DOMAIN a : (i \in DOMAIN q /\ a[i] = q[i]) \/ (i = Len(q) + 1 /\ a[i] = x)
  BY <1>2, <1>3, <1>4
<1>7. QED
  BY <1>2, <1>5, <1>6 DEF a, S

\* A run that is concluded asks for its windows: once, or for none.
LEMMA Asking ==
  ASSUME TypeOK, Concluding, run' = run, finished' = TRUE, answered' = answered,
         eng'.windows \in Windows,
         asked' = Append(asked, [run |-> run, windows |-> eng'.windows]),
         eng'.windows = <<>> \/ \A i \in DOMAIN asked : asked[i].run # run
  PROVE  /\ asked' \in Seq(Asks) /\ answered' \in 0 .. Len(asked')
         /\ \A i \in DOMAIN asked' : asked'[i].run <= run'
         /\ AnalysisIsItsOwn'
<1> DEFINE x == [run |-> run, windows |-> eng'.windows]
<1>1. x \in Asks /\ asked \in Seq(Asks) /\ answered \in 0 .. Len(asked) /\ run \in Nat
  BY DEF TypeOK, Asks
<1>2. x.run = run /\ x.windows = eng'.windows /\ x = [run |-> run', windows |-> eng'.windows]
  OBVIOUS
<1> HIDE DEF x
<1>3. /\ asked' \in Seq(Asks) /\ Len(asked') = Len(asked) + 1
      /\ asked' # <<>> /\ Last(asked') = x
      /\ \A i \in DOMAIN asked' :
           \/ i \in DOMAIN asked /\ asked'[i] = asked[i]
           \/ i = Len(asked) + 1 /\ asked'[i] = x
  BY <1>1, OneMore DEF x
<1>4. Len(asked) \in Nat /\ DOMAIN asked = 1 .. Len(asked)
  BY <1>1
<1>5. answered' \in 0 .. Len(asked') /\ answered' # Len(asked')
  BY <1>1, <1>3, <1>4
<1>6. \A i \in DOMAIN asked' : asked'[i].run <= run'
  BY <1>1, <1>2, <1>3 DEF Concluding
<1>7. \A i, j \in DOMAIN asked' : i < j /\ asked'[i].run = asked'[j].run => asked'[j].windows = <<>>
  <2> SUFFICES ASSUME NEW i \in DOMAIN asked', NEW j \in DOMAIN asked', i < j, asked'[i].run = asked'[j].run
               PROVE  asked'[j].windows = <<>>
    OBVIOUS
  <2>1. i \in DOMAIN asked /\ asked'[i] = asked[i]
    BY <1>3, <1>4
  <2>2. CASE j \in DOMAIN asked /\ asked'[j] = asked[j]
    BY <2>1, <2>2 DEF Concluding, AnalysisIsItsOwn, AskedOnceAndWhole
  <2>3. CASE asked'[j] = x
    BY <1>2, <2>1, <2>3
  <2>4. QED
    BY <1>3, <2>2, <2>3
<1>8. QED
  BY <1>2, <1>3, <1>5, <1>6, <1>7 DEF AnalysisIsItsOwn, AskedOnceAndWhole

\* The type invariant of the next state, from its parts.
LEMMA TypesTogether ==
  ASSUME scenario' \in Scenarios \cup {None}, sel' \in Scenarios \cup {None}, armed' \in Scenarios \cup {None},
         eng' \in EngineStates, ui' \in {"idle", "armed", "leadin", "running", "done", "stopped"},
         lead' \in 0 .. LeadIn, clock' \in Nat, run' \in Nat,
         looping' \in BOOLEAN, finished' \in BOOLEAN, dirty' \in BOOLEAN, alive' \in BOOLEAN,
         muted' \in BOOLEAN, hushed' \in BOOLEAN,
         asked' \in Seq(Asks), answered' \in 0 .. Len(asked')
  PROVE  TypeOK'
<1>1. {looping', finished', dirty', alive', muted', hushed'} \subseteq BOOLEAN
  OBVIOUS
<1>2. asked' \in Seq([run : Nat, windows : Windows])
  BY DEF Asks
<1>3. QED
  BY <1>1, <1>2 DEF TypeOK

\* The parts of the type invariant.
LEMMA TypesApart ==
  ASSUME TypeOK
  PROVE  /\ scenario \in Scenarios \cup {None} /\ sel \in Scenarios \cup {None} /\ armed \in Scenarios \cup {None}
         /\ eng \in EngineStates /\ ui \in {"idle", "armed", "leadin", "running", "done", "stopped"}
         /\ lead \in 0 .. LeadIn /\ lead \in Nat /\ clock \in Nat /\ run \in Nat
         /\ looping \in BOOLEAN /\ finished \in BOOLEAN /\ dirty \in BOOLEAN /\ alive \in BOOLEAN
         /\ muted \in BOOLEAN /\ hushed \in BOOLEAN
         /\ asked \in Seq(Asks) /\ answered \in 0 .. Len(asked)
<1>1. asked \in Seq(Asks)
  BY DEF TypeOK, Asks
<1>2. looping \in BOOLEAN /\ finished \in BOOLEAN /\ dirty \in BOOLEAN /\ alive \in BOOLEAN
      /\ muted \in BOOLEAN /\ hushed \in BOOLEAN
  BY DEF TypeOK
<1>3. lead \in Nat
  BY LogbookConstants DEF TypeOK
<1>4. QED
  BY <1>1, <1>2, <1>3 DEF TypeOK

\* Engines of the same scenario are covered in the next state as they are in this.
LEMMA SameScenario ==
  ASSUME scenario' = scenario, Covered(eng', clock')
  PROVE  Covered(eng, clock)'
  BY DEF Covered, Covers, Tile

\* An engine the loop or Next leaves: published, and concluded when it is done.
LEMMA PublishKeeps ==
  ASSUME LogInv, Ready, NEW e \in EngineStates, Covered(e, clock), Follows(eng, e), Publish(e)
  PROVE  LogInv'
<1>1. /\ eng' = e /\ ui' = e.status /\ Cues(e) /\ scenario' = scenario /\ clock' = clock
      /\ run' = run /\ answered' = answered /\ result' = result
      /\ sel' = sel /\ armed' = armed /\ alive' = alive /\ alive
      /\ dirty' \in BOOLEAN
  BY DEF Publish, panelVars, Notify, Ready
<1>2. /\ eng.status = "running" => ~finished /\ lead = 0
      /\ eng.status \in {"done", "stopped"} => finished
      /\ lead > 0 => eng = Fresh /\ ~finished
      /\ looping <=> alive /\ eng.status = "running"
  BY DEF LogInv, TimersOK, Concluding, Fresh, TypeOK
<1>3. /\ scenario \in Scenarios \cup {None} /\ sel \in Scenarios \cup {None} /\ armed \in Scenarios \cup {None}
      /\ eng \in EngineStates /\ lead \in 0 .. LeadIn /\ lead \in Nat /\ clock \in Nat /\ run \in Nat
      /\ looping \in BOOLEAN /\ finished \in BOOLEAN /\ muted \in BOOLEAN /\ hushed \in BOOLEAN /\ alive \in BOOLEAN
      /\ asked \in Seq(Asks) /\ answered \in 0 .. Len(asked)
  BY TypesApart DEF LogInv
<1>4. e.status \in {"idle", "running", "done", "stopped"} /\ e.windows \in Windows /\ e.idx \in Nat /\ eng.idx \in Nat
  BY <1>3 DEF EngineStates
<1>5. muted' = muted /\ hushed' \in BOOLEAN
  BY <1>1, <1>3 DEF Cues
<1>6. Covered(eng, clock)'
  BY <1>1, SameScenario
<1>7. MelodyTellsPhase'
  <2>1. CASE e.status = "done"
    BY <1>1, <2>1 DEF MelodyTellsPhase, Cues
  <2>2. CASE e.status = "running" /\ e.idx # eng.idx
    <3>1. e.idx > 1
      BY <1>4, <2>2 DEF Follows, LogInv, Covered, Covers
    <3>2. voice' = (IF muted THEN None ELSE VoiceFor(Phase(e))) /\ hushed' = muted
      BY <1>1, <2>2 DEF Cues, SetVoice
    <3>3. Phase(eng)' = Phase(e)
      BY <1>1 DEF Phase
    <3>4. QED
      BY <1>1, <1>5, <2>2, <3>1, <3>2, <3>3 DEF MelodyTellsPhase, VoiceFor
  <2>3. CASE e = eng /\ e.status # "done"
    <3>1. voice' = voice /\ hushed' = hushed /\ Phase(eng)' = Phase(eng)
      BY <1>1, <2>3 DEF Cues, Phase
    <3>2. QED
      BY <1>1, <1>5, <2>3, <3>1 DEF LogInv, MelodyTellsPhase, VoiceFor
  <2>4. QED
    BY <1>4, <2>1, <2>2, <2>3 DEF Follows
<1>8. CASE e.status = "done" /\ ~finished
  <2>1. /\ finished' = TRUE /\ lead' = 0 /\ looping' = FALSE
        /\ asked' = Append(asked, [run |-> run, windows |-> eng'.windows])
    BY <1>1, <1>8 DEF Publish, Concluded
  <2>2. eng.status = "running"
    BY <1>2, <1>8 DEF Follows
  <2>3. \A i \in DOMAIN asked : asked[i].run # run
    BY <2>2, <1>8 DEF LogInv, Concluding
  <2>4. /\ asked' \in Seq(Asks) /\ answered' \in 0 .. Len(asked')
        /\ \A i \in DOMAIN asked' : asked'[i].run <= run'
        /\ AnalysisIsItsOwn'
    BY <1>1, <1>4, <2>1, <2>3, Asking DEF LogInv
  <2>5. TypeOK'
    <3>1. lead' \in 0 .. LeadIn /\ ui' \in {"idle", "armed", "leadin", "running", "done", "stopped"}
      BY <1>1, <1>8, <2>1, LogbookConstants
    <3>2. QED
      BY <1>1, <1>3, <1>4, <1>5, <2>1, <2>4, <3>1, TypesTogether
  <2>6. TimersOK' /\ LeadInv'
    BY <1>1, <1>8, <2>1 DEF TimersOK, LeadInv
  <2>7. Concluding'
    BY <1>1, <1>8, <2>1, <2>4 DEF Concluding
  <2>8. QED
    BY <1>6, <1>7, <2>5, <2>6, <2>7 DEF LogInv
<1>9. CASE ~(e.status = "done" /\ ~finished)
  <2>1. finished' = finished /\ lead' = lead /\ looping' = looping /\ asked' = asked
    BY <1>1, <1>9 DEF Publish, Concluded
  <2>2. e.status = "done" => e = eng
    BY <1>2, <1>9 DEF Follows
  <2>3. TypeOK'
    BY <1>1, <1>3, <1>4, <1>5, <2>1, TypesTogether
  <2>4. TimersOK' /\ LeadInv'
    BY <1>1, <1>2, <2>1, <2>2 DEF LogInv, TimersOK, LeadInv, Follows, Fresh
  <2>5. e = eng \/ ~finished
    BY <1>2, <1>9 DEF Follows
  <2>6. Concluding'
    <3>1. AskedOnceAndWhole'
      BY <1>1, <2>1, <2>5 DEF LogInv, Concluding, AnalysisIsItsOwn, AskedOnceAndWhole
    <3>2. AnalysisIsItsOwn'
      BY <1>1, <2>1, <3>1 DEF LogInv, Concluding, AnalysisIsItsOwn
    <3>3. e.status \in {"done", "stopped"} => finished
      BY <1>2, <2>2 DEF Follows
    <3>4. e.status = "running" => ~finished
      BY <1>2 DEF Follows
    <3>5. ~finished /\ (e.status # "idle" \/ lead > 0) => \A i \in DOMAIN asked : asked[i].run # run
      BY DEF LogInv, Concluding, Follows
    <3>6. QED
      BY <1>1, <2>1, <3>2, <3>3, <3>4, <3>5 DEF LogInv, Concluding
  <2>7. QED
    BY <1>6, <1>7, <2>3, <2>4, <2>6 DEF LogInv
<1>10. QED
  BY <1>8, <1>9

\* Stop ends a run that is on, in its lead-in or in a phase, and asks once.
LEMMA StopKeeps == LogInv /\ Stop => LogInv'
<1> SUFFICES ASSUME LogInv, Stop PROVE LogInv'
  OBVIOUS
<1> DEFINE e == Stopped(eng, clock)
<1>1. /\ eng' = e /\ ui' = "stopped" /\ voice' = None /\ hushed' = FALSE /\ muted' = muted
      /\ scenario' = scenario /\ clock' = clock /\ run' = run /\ answered' = answered /\ result' = result
      /\ sel' = sel /\ armed' = armed /\ alive' = alive /\ alive
      /\ lead' = 0 /\ looping' = FALSE /\ finished' = TRUE /\ dirty' \in BOOLEAN
      /\ asked' = IF finished THEN asked ELSE Append(asked, [run |-> run, windows |-> e.windows])
  BY DEF Stop, StopSonif, panelVars, Notify, Ready
<1>2. /\ scenario \in Scenarios \cup {None} /\ sel \in Scenarios \cup {None} /\ armed \in Scenarios \cup {None}
      /\ eng \in EngineStates /\ clock \in Nat /\ run \in Nat /\ muted \in BOOLEAN /\ alive \in BOOLEAN
      /\ asked \in Seq(Asks) /\ answered \in 0 .. Len(asked)
  BY TypesApart DEF LogInv
<1>3. /\ e \in EngineStates /\ Covered(e, clock)
      /\ IF eng.status = "running" THEN e.status = "stopped" ELSE e = eng
  BY <1>2, StopCovered DEF LogInv
<1> HIDE DEF e
<1>4. e.windows \in Windows /\ e.status \in {"idle", "running", "done", "stopped"}
  BY <1>3 DEF EngineStates
<1>5. Covered(eng, clock)'
  BY <1>1, <1>3, SameScenario
<1>6. e.status # "running"
  BY <1>3
<1>7. MelodyTellsPhase' /\ TimersOK' /\ LeadInv'
  BY <1>1, <1>6 DEF MelodyTellsPhase, TimersOK, LeadInv
<1>8. asked' \in Seq(Asks) /\ answered' \in 0 .. Len(asked') /\ Concluding'
  <2>1. CASE ~finished
    <3>1. e.windows = <<>> \/ \A i \in DOMAIN asked : asked[i].run # run
      <4>1. CASE eng.status = "idle"
        BY <1>3, <4>1 DEF LogInv, Covered, Fresh
      <4>2. CASE eng.status # "idle"
        BY <2>1, <4>2 DEF LogInv, Concluding
      <4>3. QED
        BY <4>1, <4>2
    <3>2. /\ asked' \in Seq(Asks) /\ answered' \in 0 .. Len(asked')
          /\ \A i \in DOMAIN asked' : asked'[i].run <= run'
          /\ AnalysisIsItsOwn'
      BY <1>1, <1>4, <2>1, <3>1, Asking DEF LogInv
    <3>3. QED
      BY <1>1, <1>6, <3>2 DEF Concluding
  <2>2. CASE finished
    <3>1. e = eng
      BY <1>3, <2>2 DEF LogInv, Concluding
    <3>2. AskedOnceAndWhole'
      BY <1>1, <2>2, <3>1 DEF LogInv, Concluding, AnalysisIsItsOwn, AskedOnceAndWhole
    <3>3. AnalysisIsItsOwn'
      BY <1>1, <2>2, <3>2 DEF LogInv, Concluding, AnalysisIsItsOwn
    <3>4. QED
      BY <1>1, <1>2, <1>6, <2>2, <3>3 DEF LogInv, Concluding
  <2>3. QED
    BY <2>1, <2>2
<1>9. TypeOK'
  <2>1. lead' \in 0 .. LeadIn
    BY <1>1, LogbookConstants
  <2>2. QED
    BY <1>1, <1>2, <1>3, <1>8, <2>1, TypesTogether
<1>10. QED
  BY <1>5, <1>7, <1>8, <1>9 DEF LogInv

\* A new engine, for a run that starts or a scenario that is armed, has nothing to conclude.
LEMMA FreshKeeps ==
  ASSUME LogInv, NEW s \in Scenarios, scenario' = s, eng' = Fresh, looping' = FALSE, finished' = FALSE,
         voice' = None, hushed' = FALSE, muted' = muted,
         (lead' = LeadIn /\ run' = run + 1) \/ (lead' = 0 /\ run' = run),
         ui' \in {"leadin", "armed"}, clock' = clock, asked' = asked, answered' = answered,
         alive' = alive, sel' \in Scenarios \cup {None}, armed' \in Scenarios \cup {None}, dirty' \in BOOLEAN
  PROVE  LogInv'
<1>1. /\ clock \in Nat /\ run \in Nat /\ muted \in BOOLEAN /\ alive \in BOOLEAN
      /\ asked \in Seq(Asks) /\ answered \in 0 .. Len(asked)
  BY TypesApart DEF LogInv
<1>2. lead' \in 0 .. LeadIn /\ run' \in Nat
  BY <1>1, LogbookConstants
<1>3. TypeOK'
  BY <1>1, <1>2, NewEngines, TypesTogether
<1>4. TimersOK' /\ MelodyTellsPhase' /\ LeadInv'
  BY DEF TimersOK, MelodyTellsPhase, LeadInv, Fresh
<1>5. Covered(eng, clock)'
  BY DEF Covered, Covers, Tile, Fresh
<1>6. Concluding'
  <2>1. /\ \A i \in DOMAIN asked : asked[i].run <= run
        /\ \A i, j \in DOMAIN asked : i < j /\ asked[i].run = asked[j].run => asked[j].windows = <<>>
    BY DEF LogInv, Concluding, AnalysisIsItsOwn, AskedOnceAndWhole
  <2>2. \A i \in DOMAIN asked : asked[i].run \in Nat
    <3>1. \A x \in Asks : x.run \in Nat
      BY DEF Asks
    <3>2. QED
      BY <1>1, <3>1
  <2>3. AnalysisIsItsOwn'
    BY <2>1 DEF AnalysisIsItsOwn, AskedOnceAndWhole
  <2>4. \A i \in DOMAIN asked' : asked'[i].run <= run'
    BY <1>1, <2>1, <2>2
  <2>5. lead' > 0 => \A i \in DOMAIN asked' : asked'[i].run # run'
    BY <1>1, <2>1, <2>2
  <2>6. QED
    BY <2>3, <2>4, <2>5 DEF Concluding, Fresh
<1>7. QED
  BY <1>3, <1>4, <1>5, <1>6 DEF LogInv

\* The lead-in counts down, and begins the run.
LEMMA LeadKeeps == LogInv /\ LeadTick => LogInv'
<1> SUFFICES ASSUME LogInv, LeadTick PROVE LogInv'
  OBVIOUS
<1>1. /\ lead > 0 /\ lead' = lead - 1 /\ alive /\ scenario' = scenario /\ sel' = sel /\ armed' = armed
      /\ alive' = alive /\ voice' = voice /\ muted' = muted /\ hushed' = hushed
      /\ run' = run /\ asked' = asked /\ answered' = answered /\ dirty' \in BOOLEAN
  BY DEF LeadTick, Ready, panelVars, audioVars, Notify
<1>2. /\ scenario \in Scenarios \cup {None} /\ sel \in Scenarios \cup {None} /\ armed \in Scenarios \cup {None}
      /\ eng \in EngineStates /\ lead \in 0 .. LeadIn /\ lead \in Nat /\ clock \in Nat /\ run \in Nat
      /\ looping \in BOOLEAN /\ finished \in BOOLEAN /\ muted \in BOOLEAN /\ hushed \in BOOLEAN /\ alive \in BOOLEAN
      /\ asked \in Seq(Asks) /\ answered \in 0 .. Len(asked)
  BY TypesApart DEF LogInv
<1>3. eng = Fresh /\ ~finished /\ ~looping
  BY <1>1 DEF LogInv, TimersOK, Fresh
<1>4. lead' \in 0 .. LeadIn
  BY <1>1, <1>2, LogbookConstants
<1>5. \A i \in DOMAIN asked : asked[i].run # run /\ asked[i].run <= run
  BY <1>1, <1>3 DEF LogInv, Concluding
<1>6. CASE lead > 1
  <2>1. ui' = "leadin" /\ eng' = eng /\ looping' = looping /\ finished' = finished /\ result' = result /\ clock' = clock
    BY <1>6 DEF LeadTick
  <2>2. TypeOK'
    BY <1>1, <1>2, <1>4, <2>1, TypesTogether
  <2>3. TimersOK' /\ MelodyTellsPhase' /\ LeadInv'
    BY <1>1, <1>3, <2>1 DEF LogInv, TimersOK, MelodyTellsPhase, LeadInv, Fresh
  <2>4. Covered(eng, clock)'
    BY <1>1, <2>1, SameScenario DEF LogInv
  <2>5. Concluding'
    BY <1>1, <1>3, <1>5, <2>1 DEF LogInv, Concluding, AnalysisIsItsOwn, AskedOnceAndWhole, Fresh
  <2>6. QED
    BY <2>2, <2>3, <2>4, <2>5 DEF LogInv
<1>7. CASE ~(lead > 1)
  <2>1. /\ eng' = Started(0) /\ clock' = 0 /\ looping' = TRUE /\ finished' = FALSE /\ ui' = "running"
        /\ lead' = 0
    BY <1>1, <1>2, <1>7 DEF LeadTick
  <2>2. TypeOK'
    BY <1>1, <1>2, <1>4, <2>1, NewEngines, TypesTogether
  <2>3. TimersOK' /\ MelodyTellsPhase' /\ LeadInv'
    BY <1>1, <1>3, <2>1 DEF LogInv, TimersOK, MelodyTellsPhase, LeadInv, Fresh, Started
  <2>4. scenario \in Scenarios
    BY <1>1, <1>2 DEF LogInv, LeadInv
  <2>5. Covered(eng, clock)'
    <3>1. Covered(eng', clock')
      BY <2>1, <2>4, NewCovered
    <3>2. QED
      BY <1>1, <3>1, SameScenario
  <2>6. Concluding'
    BY <1>1, <1>3, <1>5, <2>1 DEF LogInv, Concluding, AnalysisIsItsOwn, AskedOnceAndWhole, Started
  <2>7. QED
    BY <2>2, <2>3, <2>5, <2>6 DEF LogInv
<1>8. QED
  BY <1>6, <1>7

\* Steps that leave the engine, the timers and what was asked as they are.
LEMMA QuietKeeps ==
  ASSUME LogInv, scenario' = scenario, eng' = eng, finished' = finished, run' = run, lead' = lead,
         looping' = looping, alive' = alive, asked' = asked, result' = result, answered' = answered,
         ui' = ui, armed' = armed,
         clock' \in Nat, clock' >= clock, sel' \in Scenarios \cup {None}, dirty' \in BOOLEAN,
         muted' \in BOOLEAN, hushed' \in BOOLEAN, MelodyTellsPhase'
  PROVE  LogInv'
<1>1. /\ scenario \in Scenarios \cup {None} /\ armed \in Scenarios \cup {None}
      /\ eng \in EngineStates /\ lead \in 0 .. LeadIn /\ clock \in Nat /\ run \in Nat
      /\ looping \in BOOLEAN /\ finished \in BOOLEAN /\ alive \in BOOLEAN
      /\ ui \in {"idle", "armed", "leadin", "running", "done", "stopped"}
      /\ asked \in Seq(Asks) /\ answered \in 0 .. Len(asked)
  BY TypesApart DEF LogInv
<1>2. TypeOK'
  BY <1>1, TypesTogether
<1>3. TimersOK' /\ LeadInv' /\ Concluding'
  BY DEF LogInv, TimersOK, LeadInv, Concluding, AnalysisIsItsOwn, AskedOnceAndWhole
<1>4. Covered(eng, clock)'
  <2>1. Tile(eng.windows, eng, clock')
    <3>1. \A i \in DOMAIN eng.windows : eng.windows[i].to \in Nat
      <4>1. eng.windows \in Seq(Stamps) /\ \A x \in Stamps : x.to \in Nat
        BY <1>1 DEF EngineStates, Windows, Stamps
      <4>2. QED
        BY <4>1
    <3>2. Tile(eng.windows, eng, clock)
      BY DEF LogInv, Covered, Covers
    <3>3. \A i \in DOMAIN eng.windows : eng.windows[i].to <= clock => eng.windows[i].to <= clock'
      BY <1>1, <3>1
    <3>4. QED
      BY <3>2, <3>3 DEF Tile
  <2>2. eng.start \in Nat
    BY <1>1 DEF EngineStates
  <2>3. Covered(eng, clock')
    BY <1>1, <2>1, <2>2 DEF LogInv, Covered, Covers
  <2>4. QED
    BY <2>3, SameScenario
<1>5. QED
  BY <1>2, <1>3, <1>4 DEF LogInv

\* The reactive statements leave the run alone, or arm a scenario when none is on.
LEMMA FlushKeeps == LogInv /\ Flush => LogInv'
<1> SUFFICES ASSUME LogInv, Flush PROVE LogInv'
  OBVIOUS
<1>1. /\ clock \in Nat /\ sel \in Scenarios \cup {None} /\ armed \in Scenarios \cup {None}
      /\ muted \in BOOLEAN /\ hushed \in BOOLEAN
  BY TypesApart DEF LogInv
<1>2. /\ dirty' = FALSE /\ sel' = sel /\ alive' = alive /\ clock' = clock /\ run' = run
      /\ asked' = asked /\ answered' = answered
  BY DEF Flush
<1>3. CASE sel # None /\ sel # armed /\ Rearms
  <2>1. armed' = sel /\ Arm(sel) /\ sel \in Scenarios
    BY <1>1, <1>3 DEF Flush
  <2>2. /\ scenario' = sel /\ eng' = Fresh /\ looping' = FALSE /\ finished' = FALSE
        /\ voice' = None /\ hushed' = FALSE /\ muted' = muted /\ lead' = 0 /\ ui' = "armed"
    BY <2>1 DEF Arm, StopSonif
  <2>3. dirty' \in BOOLEAN /\ sel' \in Scenarios \cup {None} /\ armed' \in Scenarios \cup {None}
    BY <1>1, <1>2, <2>1
  <2>4. /\ ui' \in {"leadin", "armed"} /\ ((lead' = LeadIn /\ run' = run + 1) \/ (lead' = 0 /\ run' = run))
    BY <1>2, <2>2
  <2>5. QED
    BY <1>2, <2>1, <2>2, <2>3, <2>4, FreshKeeps
<1>4. CASE ~(sel # None /\ sel # armed /\ Rearms)
  <2>1. UNCHANGED <<armed, scenario, eng, lead, looping, finished, result, ui, audioVars>>
    BY <1>4 DEF Flush
  <2>2. MelodyTellsPhase'
    BY <1>2, <2>1 DEF LogInv, MelodyTellsPhase, VoiceFor, Phase, audioVars
  <2>3. clock' \in Nat /\ clock' >= clock
    BY <1>1, <1>2
  <2>4. dirty' \in BOOLEAN
    BY <1>2
  <2>5. sel' \in Scenarios \cup {None}
    BY <1>1, <1>2
  <2>6. QED
    BY <1>1, <1>2, <2>1, <2>2, <2>3, <2>4, <2>5, QuietKeeps DEF audioVars
<1>5. QED
  BY <1>3, <1>4

\* A start, by the operator or by a viewer.
LEMMA StartKeeps ==
  ASSUME LogInv, NEW s \in Scenarios, StartOf(s), sel' \in Scenarios \cup {None}, armed' = armed, alive' = alive
  PROVE  LogInv'
<1>1. armed \in Scenarios \cup {None}
  BY TypesApart DEF LogInv
<1>2. dirty' \in BOOLEAN
  BY DEF StartOf, Notify
<1>3. /\ scenario' = s /\ eng' = Fresh /\ looping' = FALSE /\ finished' = FALSE
      /\ voice' = None /\ hushed' = FALSE /\ muted' = muted /\ lead' = LeadIn /\ run' = run + 1
      /\ ui' \in {"leadin", "armed"} /\ clock' = clock /\ asked' = asked /\ answered' = answered
  BY DEF StartOf, StopSonif
<1>4. (lead' = LeadIn /\ run' = run + 1) \/ (lead' = 0 /\ run' = run)
  BY <1>3
<1>5. armed' \in Scenarios \cup {None}
  BY <1>1
<1>6. QED
  BY <1>2, <1>3, <1>4, <1>5, FreshKeeps

\* Every step keeps the invariant.
LEMMA LogNext == LogInv /\ [Next]_vars => LogInv'
<1> SUFFICES ASSUME LogInv, [Next]_vars PROVE LogInv'
  OBVIOUS
<1>1. /\ scenario \in Scenarios \cup {None} /\ sel \in Scenarios \cup {None} /\ armed \in Scenarios \cup {None}
      /\ eng \in EngineStates /\ ui \in {"idle", "armed", "leadin", "running", "done", "stopped"}
      /\ lead \in 0 .. LeadIn /\ clock \in Nat /\ run \in Nat
      /\ looping \in BOOLEAN /\ finished \in BOOLEAN /\ dirty \in BOOLEAN /\ alive \in BOOLEAN
      /\ muted \in BOOLEAN /\ hushed \in BOOLEAN
      /\ asked \in Seq(Asks) /\ answered \in 0 .. Len(asked)
  BY TypesApart DEF LogInv
<1>2. ASSUME NEW s \in Scenarios, Choose(s) PROVE LogInv'
  <2>1. MelodyTellsPhase'
    BY <1>2 DEF Choose, LogInv, MelodyTellsPhase, VoiceFor, Phase, audioVars
  <2>2. dirty' \in BOOLEAN
    BY <1>2 DEF Choose, Notify
  <2>3. QED
    BY <1>1, <1>2, <2>1, <2>2, QuietKeeps DEF Choose, audioVars
<1>3. ASSUME NEW s \in Scenarios, RemoteStart(s) PROVE LogInv'
  BY <1>1, <1>3, StartKeeps DEF RemoteStart
<1>4. ASSUME PressStart PROVE LogInv'
  BY <1>1, <1>4, StartKeeps DEF PressStart, panelVars
<1>5. ASSUME LeadTick PROVE LogInv'
  BY <1>5, LeadKeeps
<1>6. ASSUME Loop PROVE LogInv'
  <2>1. Ready /\ looping /\ Publish(Ticked(eng, clock))
    BY <1>6 DEF Loop
  <2>2. scenario \in Scenarios
    BY <2>1 DEF LogInv, TimersOK, Covered
  <2>3. /\ Ticked(eng, clock) \in EngineStates /\ Covered(Ticked(eng, clock), clock)
        /\ Follows(eng, Ticked(eng, clock))
    BY <1>1, <2>2, TickCovered DEF LogInv
  <2>4. QED
    BY <2>1, <2>3, PublishKeeps
<1>7. ASSUME PressNext PROVE LogInv'
  <2>1. /\ Confirmed(eng, clock) \in EngineStates /\ Covered(Confirmed(eng, clock), clock)
        /\ Follows(eng, Confirmed(eng, clock))
    BY <1>1, NextCovered DEF LogInv
  <2>2. QED
    BY <1>7, <2>1, PublishKeeps DEF PressNext
<1>8. ASSUME Stop PROVE LogInv'
  BY <1>8, StopKeeps
<1>9. ASSUME Analysed PROVE LogInv'
  <2>1. /\ answered < Len(asked) /\ answered' = answered + 1 /\ result' = asked[answered + 1] /\ alive' = alive
        /\ UNCHANGED <<scenario, eng, lead, looping, finished, ui, clock, sel, armed, voice, muted, hushed, dirty, run, asked>>
    BY <1>9 DEF Analysed, panelVars, audioVars
  <2>2. Len(asked) \in Nat /\ answered' \in 0 .. Len(asked')
    BY <1>1, <2>1
  <2>3. TypeOK'
    BY <1>1, <2>1, <2>2, TypesTogether
  <2>4. TimersOK' /\ LeadInv' /\ MelodyTellsPhase'
    BY <2>1 DEF LogInv, TimersOK, LeadInv, MelodyTellsPhase, VoiceFor, Phase
  <2>5. Covered(eng, clock)'
    BY <2>1, SameScenario DEF LogInv
  <2>6. AskedOnceAndWhole'
    BY <2>1 DEF LogInv, Concluding, AnalysisIsItsOwn, AskedOnceAndWhole
  <2>7. answered' = Len(asked') => result' = Last(asked')
    BY <1>1, <2>1 DEF Last
  <2>8. Concluding'
    BY <2>1, <2>6, <2>7 DEF LogInv, Concluding, AnalysisIsItsOwn
  <2>9. QED
    BY <2>3, <2>4, <2>5, <2>8 DEF LogInv
<1>10. ASSUME TimePasses PROVE LogInv'
  <2>1. MelodyTellsPhase'
    BY <1>10 DEF TimePasses, LogInv, MelodyTellsPhase, VoiceFor, Phase, audioVars, panelVars
  <2>2. clock' \in Nat /\ clock' >= clock
    BY <1>1, <1>10 DEF TimePasses
  <2>3. QED
    BY <1>1, <1>10, <2>1, <2>2, QuietKeeps DEF TimePasses, audioVars, panelVars
<1>11. ASSUME Flush PROVE LogInv'
  BY <1>11, FlushKeeps
<1>12. ASSUME ToggleMute PROVE LogInv'
  <2>1. /\ muted' = ~muted /\ hushed' = (eng.status = "running" /\ eng.idx > 1)
        /\ voice' = (IF muted THEN voice ELSE None)
        /\ UNCHANGED <<scenario, eng, lead, looping, finished, ui, result, clock, sel, armed, alive, dirty, run, asked, answered>>
    BY <1>12 DEF ToggleMute, panelVars
  <2>2. voice' = None
    BY <2>1 DEF LogInv, MelodyTellsPhase
  <2>3. MelodyTellsPhase'
    BY <2>1, <2>2 DEF MelodyTellsPhase
  <2>4. muted' \in BOOLEAN /\ hushed' \in BOOLEAN
    BY <2>1
  <2>5. QED
    BY <1>1, <2>1, <2>3, <2>4, QuietKeeps
<1>13. ASSUME Dispose PROVE LogInv'
  <2>1. /\ alive' = FALSE /\ lead' = 0 /\ looping' = FALSE /\ voice' = None /\ hushed' = FALSE /\ muted' = muted
        /\ UNCHANGED <<scenario, eng, finished, ui, result, clock, sel, armed, dirty, run, asked, answered>>
    BY <1>13 DEF Dispose, StopSonif
  <2>2. lead' \in 0 .. LeadIn
    BY <2>1, LogbookConstants
  <2>3. TypeOK'
    BY ZenonT(90), <1>1, <2>1, <2>2, TypesTogether
  <2>4. TimersOK' /\ LeadInv' /\ MelodyTellsPhase'
    BY <2>1 DEF TimersOK, LeadInv, MelodyTellsPhase
  <2>5. Covered(eng, clock)'
    BY <2>1, SameScenario DEF LogInv
  <2>6. Concluding'
    BY <2>1 DEF LogInv, Concluding, AnalysisIsItsOwn, AskedOnceAndWhole
  <2>7. QED
    BY <2>3, <2>4, <2>5, <2>6 DEF LogInv
<1>14. ASSUME UNCHANGED vars PROVE LogInv'
  <2>1. MelodyTellsPhase'
    BY <1>14 DEF vars, LogInv, MelodyTellsPhase, VoiceFor, Phase, audioVars, panelVars
  <2>2. QED
    BY <1>1, <1>14, <2>1, QuietKeeps DEF vars, audioVars, panelVars
<1>15. QED
  BY <1>2, <1>3, <1>4, <1>5, <1>6, <1>7, <1>8, <1>9, <1>10, <1>11, <1>12, <1>13, <1>14 DEF Next

\* The invariant of every reachable state.
THEOREM LogbookInvariant == Spec => []LogInv
<1>1. QED
  BY LogInit, LogNext, PTL DEF Spec

\* Type correctness.
THEOREM LogbookTypes == Spec => []TypeOK
<1>1. LogInv => TypeOK
  BY DEF LogInv
<1>2. QED
  BY LogbookInvariant, <1>1, PTL

\* The windows a run stamps tile it, phase by phase, however late the ticks are.
THEOREM WindowsAlwaysTile == Spec => []WindowsTile
<1>1. LogInv => WindowsTile
  BY DEF LogInv, Covered, WindowsTile
<1>2. QED
  BY LogbookInvariant, <1>1, PTL

\* Each run is analysed once and whole, and its result is its own.
THEOREM RunsGetTheirOwn == Spec => []AnalysisIsItsOwn
<1>1. LogInv => AnalysisIsItsOwn
  BY DEF LogInv, Concluding
<1>2. QED
  BY LogbookInvariant, <1>1, PTL

\* The melody is that of the phase the run is in.
THEOREM MelodyIsOfThePhase == Spec => []MelodyTellsPhase
<1>1. LogInv => MelodyTellsPhase
  BY DEF LogInv
<1>2. QED
  BY LogbookInvariant, <1>1, PTL
=============================================================================
