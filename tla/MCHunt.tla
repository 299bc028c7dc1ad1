------------------------------- MODULE MCHunt -------------------------------
(***************************************************************************)
(* Three recordings of two frames with three bytes each: a ramp that a     *)
(* second frame repeats, next to a rolling counter and a checksum; a       *)
(* switch that follows the operator's cues; and a big-endian value that    *)
(* crosses a byte boundary, in frames some of which are too short for it.  *)
(***************************************************************************)
EXTENDS Hunt

MCTagThreshold == <<9, 10>>
MCEventConsistency == <<4, 5>>
MCSegmentStability == <<4, 5>>
MCFlagStability == <<4, 5>>
MCManyChangePenalty == <<3, 4>>
MCMinSpearman == <<3, 5>>
MCMaxStateSpread == <<1, 2>>
MCMinReturnScore == <<3, 20>>
MCMinActivity == <<1, 50>>
MCMergeRatio == <<7, 10>>
MCGroupJaccard == <<3, 5>>
MCHubConditional == <<4, 5>>
MCJitterReference == <<1, 2>>
MCMinAbsRho == <<1, 2>>
MCSynonymThreshold == <<4, 5>>
MCNoiseFailRate == <<1, 2>>
MCAlpha == <<1, 20>>

\* A frame of len bytes; the rest of its slot is what an older frame left.
F(id, ext, t, len, bytes) == [id |-> id, ext |-> ext, t |-> t, len |-> len,
                              at |-> [b \in 0 .. Stride - 1 |-> bytes[b + 1]]]

Ramp == <<10, 12, 16, 13, 18, 19, 22, 25, 24, 28, 30, 31>>

Drive == FlattenSeq([t \in 1 .. 12 |->
           <<F(1, FALSE, t, 3, <<Ramp[t], 7, Ramp[t] ^^ 7>>),
             F(2, TRUE, t, 2, <<Ramp[t], 16 * (Ramp[t] % 3) + t, 16 * t>>)>>])

On(t) == t \in {5, 6, 11, 12, 17, 18}
Switch == FlattenSeq([t \in 1 .. 18 |->
            <<F(1, FALSE, t, 2, <<IF On(t) THEN 9 ELSE 1, IF t >= 10 THEN 6 ELSE 5, t>>)>>])

Wide == [t \in 1 .. 12 |->
           LET v == 254 + Ramp[t] - 16
           IN  F(1, FALSE, t, IF t = 6 THEN 1 ELSE 3, <<v \div 256, v % 256, 3>>)]

MCRecordings == {Drive, Switch, Wide}

MCRolling == (Drive :> {<<1, 2>>, <<2, 1>>}) @@ (Switch :> {}) @@ (Wide :> {})
MCCopies == (Drive :> {[of |-> <<1, 0>>, at |-> <<2, 0>>], [of |-> <<2, 0>>, at |-> <<1, 0>>]})
            @@ (Switch :> {}) @@ (Wide :> {})

Hand(name, start, len, order, signed) == MakeSignal(1, FALSE, name, start, len, order, signed)
MCProjects ==
    {<<[id |-> 1, ext |-> FALSE, name |-> <<"hand", 0>>, comment |-> "told",
        signals |-> <<[Hand(<<"hand", 1>>, 0, 2, "little", FALSE) EXCEPT !.isMux = TRUE],
                      [Hand(<<"hand", 2>>, 7, 16, "big", TRUE) EXCEPT !.mux = 1, !.factor = 2, !.offset = -3]>>]>>}

Sweep(from, to, direction) == [trend |-> [from |-> from, to |-> to, direction |-> direction]]
States(a, b, c, d) == [a |-> [from |-> a, to |-> b], b |-> [from |-> c, to |-> d]]
MCQuestions == (Drive :> {Sweep(1, 12, "up"), [compare |-> States(1, 4, 9, 12)]})
               @@ (Switch :> {[events |-> <<4, 10, 16>>], [flags |-> States(1, 9, 10, 18)],
                              [flags |-> States(7, 10, 11, 12)]})
               @@ (Wide :> {Sweep(1, 12, "up"), [compare |-> States(1, 5, 8, 12)]})

W(role, rep, from, to) == [role |-> role, rep |-> rep, from |-> from, to |-> to]
Presses == [stimulusKind |-> "press", trendDirection |-> "up",
            windows |-> <<W("baseline", 0, 1, 3), W("stimulus", 1, 4, 6), W("observe", 1, 7, 9),
                          W("stimulus", 2, 10, 12), W("observe", 2, 13, 15), W("stimulus", 3, 16, 18)>>]
Ramping == [stimulusKind |-> "trend", trendDirection |-> "up", windows |-> <<W("stimulus", 1, 1, 12)>>]
MCRuns == (Drive :> {Ramping}) @@ (Switch :> {Presses}) @@ (Wide :> {Ramping})

S(name, type, from, to, same) == [name |-> name, type |-> type, from |-> from, to |-> to, same |-> same]
Driven == <<S("a", "stable", 1, 4, {}), S("b", "rampUp", 1, 12, {}), S("c", "level", 9, 12, {})>>
Returned == <<S("a", "ignore", 1, 4, {"c"}), S("b", "event", 4, 6, {}), S("c", "stable", 7, 10, {"a"})>>
MCFieldRuns == (Drive :> {Driven}) @@ (Switch :> {Returned}) @@ (Wide :> {Driven})

MCFrameName == <<"frame">>
MCFiller == {<<"hand", 1>>}
Names == {<<"hand", k>> : k \in 0 .. 2} \cup {MCFrameName}
         \cup {<<"hunt", id, s>> : id \in {1, 2}, s \in 0 .. 23}
         \cup {<<"sweep", id, s, w>> : id \in {1, 2}, s \in 0 .. 23, w \in {8, 16}}
         \cup {<<"corr", id, s, w>> : id \in {1, 2}, s \in 0 .. 23, w \in {8, 16}}
         \cup {<<"finding", id>> : id \in {1, 2}}
MCSanitize == [n \in Names |-> n]
=============================================================================
