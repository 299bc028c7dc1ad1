------------------------------ MODULE Signals ------------------------------
(***************************************************************************)
(* The signals of a cockpit project: how the bits of a payload become a    *)
(* value (protocol/decode.ts), the formula that is written for a signal    *)
(* (protocol/formula.ts), the signal that is made of a candidate           *)
(* (hunt/hunt.ts and the promote handlers of the panels), and the DBC file *)
(* a project is exported to and imported from (dbc/dbc.ts).                *)
(*                                                                         *)
(* A project is a sequence of frame definitions [id, ext, name, comment,   *)
(* signals]. Names, comments and value tables are opaque; Sanitize is what *)
(* the file format makes of a name.                                        *)
(***************************************************************************)
EXTENDS Scans

CONSTANTS Sanitize,   \* function: a name, with every sign but letters, digits and _ replaced
          Filler,     \* names that look like a counter, a checksum or a spare
          NoText      \* no comment, no value table

ASSUME SignalsAssumption == \A n \in DOMAIN Sanitize : Sanitize[Sanitize[n]] = Sanitize[n]

NoMux == -1
NoFormula == [chunks |-> <<>>]

-----------------------------------------------------------------------------
(* Decoding. *)

\* The bits of a signal, least significant first. A big-endian signal starts at its
\* highest bit and goes down the byte and on to bit 7 of the next.
SignalBitOrder(sig) ==
    LET fromTop(i) == 8 * (sig.start \div 8) + 7 - (sig.start % 8) + (sig.len - i)
    IN  [i \in 1 .. sig.len |->
           IF sig.order = "little" THEN sig.start + i - 1
           ELSE 8 * (fromTop(i) \div 8) + 7 - (fromTop(i) % 8)]

GetBit(f, bit) == IF bit \div 8 < f.len THEN Bit(f.at[bit \div 8], bit % 8) ELSE 0

ExtractRaw(f, sig) ==
    LET order == SignalBitOrder(sig)
        raw == SumOver(sig.len, LAMBDA i : GetBit(f, order[i]) * 2^(i - 1))
    IN  IF sig.signed /\ raw >= 2^(sig.len - 1) THEN raw - 2^sig.len ELSE raw

HighestBitIndex(sig) == Max({0} \cup Range(SignalBitOrder(sig)))

DecodeSignal(f, sig) == [value |-> ExtractRaw(f, sig) * sig.factor + sig.offset,
                         truncated |-> HighestBitIndex(sig) \div 8 >= f.len]

\* What the reference of a correlation was: the signal, in the frames that carry it.
DecodeReferenceSeries(frames, sig) ==
    LET carries(f) == f.id = sig.id /\ f.ext = sig.ext /\ HighestBitIndex(sig) \div 8 < f.len
        of == SelectSeq(frames, carries)
    IN  Each(of, LAMBDA f : [t |-> f.t, v |-> DecodeSignal(f, sig).value])

-----------------------------------------------------------------------------
(* Formulas. *)

\* A chunk begins where the bits do not go on in the same byte.
Opens(order, i) == i = 1 \/ order[i] # order[i - 1] + 1 \/ order[i] % 8 = 0

\* The formula of a signal: its bits in chunks that lie side by side in one byte, each
\* shifted down, masked, and weighed by its place in the value.
SignalToFormula(sig) ==
    LET order == SignalBitOrder(sig)
        starts == SelectSeq([i \in 1 .. sig.len |-> i], LAMBDA i : Opens(order, i))
        end(k) == IF k = Len(starts) THEN sig.len ELSE starts[k + 1] - 1
        chunk(k) == [place |-> starts[k] - 1, byte |-> order[starts[k]] \div 8,
                     shift |-> order[starts[k]] % 8, width |-> end(k) - starts[k] + 1]
    IN  IF sig.len = 0 \/ sig.len > 52 \/ \E i \in DOMAIN order : order[i] \div 8 > 7
        THEN NoFormula
        ELSE [chunks |-> [k \in DOMAIN starts |-> chunk(k)],
              bound |-> IF sig.signed THEN 2^(sig.len - 1) ELSE 2^sig.len,
              modulus |-> 2^sig.len, factor |-> sig.factor, offset |-> sig.offset]

\* The value of a formula over the bytes A to H, those beyond the payload 0.
EvalFormula(formula, f) ==
    LET byte(b) == IF b < f.len THEN f.at[b] ELSE 0
        part(c) == 2^c.place * ((byte(c.byte) \div 2^c.shift) % 2^c.width)
        sum == SumOver(Len(formula.chunks), LAMBDA k : part(formula.chunks[k]))
        raw == IF sum >= formula.bound THEN sum - formula.modulus ELSE sum
    IN  raw * formula.factor + formula.offset

-----------------------------------------------------------------------------
(* From a candidate to a signal. *)

MakeSignal(id, ext, name, start, len, order, signed) ==
    [id |-> id, ext |-> ext, name |-> name, start |-> start, len |-> len, order |-> order,
     signed |-> signed, factor |-> 1, offset |-> 0, isMux |-> FALSE, mux |-> NoMux,
     labels |-> NoText, comment |-> NoText]

\* A candidate of an experiment, as the panel lists it.
ToSeamCandidate(c) ==
    CASE c.mode = "flag" ->
           [start |-> 8 * c.byteIndex + IF c.bit = 8 THEN 0 ELSE c.bit,
            len |-> IF c.bit = 8 THEN 8 ELSE 1, order |-> "little"]
      [] c.mode = "event" ->
           [start |-> 8 * c.byteIndex + c.bit, len |-> 1, order |-> "little"]
      [] c.mode \in {"compare", "trend"} ->
           [start |-> 8 * c.byteIndex, len |-> c.width, order |-> c.order]

\* HuntPanel's promote: the listed range, unsigned.
PromotedExperiment(c, ext, name) ==
    LET seam == ToSeamCandidate(c)
    IN  MakeSignal(c.id, ext, name, seam.start, seam.len, seam.order, FALSE)

\* promoteSweep and promoteCorr: the start the analyser gives.
PromotedLocus(l, ext, name) ==
    MakeSignal(l.id, ext, name, StartBit(l), l.width, l.order, l.signed)

\* FindingsPanel's toSignal: a bit, or the whole byte.
FindingSignal(finding, name) ==
    MakeSignal(finding.id, finding.ext, name,
               8 * finding.byteIndex + IF finding.bit = 8 THEN 0 ELSE finding.bit,
               IF finding.bit = 8 THEN 8 ELSE 1, "little", FALSE)

FrameAt(frames, id, ext) == {i \in DOMAIN frames : frames[i].id = id /\ frames[i].ext = ext}

\* The first definition of a frame takes the signal; a frame without one gets one.
AddSignal(frames, sig, frameName) ==
    LET at == FrameAt(frames, sig.id, sig.ext)
    IN  IF at # {} THEN [frames EXCEPT ![Min(at)].signals = Append(@, sig)]
        ELSE Append(frames, [id |-> sig.id, ext |-> sig.ext, name |-> frameName,
                             comment |-> NoText, signals |-> <<sig>>])

\* The signals that a locus of the Logbook lies over, by their range from the start up.
KnownSignalsAt(frames, id, byteIndex, bit, len) ==
    LET lo == 8 * byteIndex + IF bit = 8 THEN 0 ELSE bit
        hi == lo + IF bit = 8 THEN Max({1, len}) ELSE 1
        of == {s \in UNION {Range(frames[i].signals) : i \in DOMAIN frames} : s.id = id}
    IN  {s.name : s \in {r \in of : lo < r.start + r.len /\ r.start < hi}}

-----------------------------------------------------------------------------
(* DBC files: a sequence of lines. *)

MuxMarkerOfSelector(sig) == IF sig.isMux THEN "M" ELSE ""
MuxMarker(sig) == IF sig.isMux THEN "M" ELSE IF sig.mux # NoMux THEN "m" ELSE ""

SgLine(sig) ==
    [kind |-> "SG", name |-> Sanitize[sig.name], marker |-> MuxMarker(sig), mux |-> sig.mux,
     start |-> sig.start, len |-> sig.len, at |-> IF sig.order = "little" THEN 1 ELSE 0,
     sign |-> IF sig.signed THEN "-" ELSE "+", factor |-> sig.factor, offset |-> sig.offset]

\* Bit 31 of the number of a message tells an extended id.
DbcId(frame) == [id |-> frame.id, bit31 |-> frame.ext]

ExportDbc(frames) ==
    LET message(f) == <<[kind |-> "BO", id |-> DbcId(f), name |-> Sanitize[f.name]]>>
                      \o [i \in DOMAIN f.signals |-> SgLine(f.signals[i])]
        labelled(f) == SelectSeq(f.signals, LAMBDA s : s.labels # NoText)
        val(f) == [i \in DOMAIN labelled(f) |->
                     [kind |-> "VAL", id |-> DbcId(f), name |-> Sanitize[labelled(f)[i].name],
                      labels |-> labelled(f)[i].labels]]
        told(f) == SelectSeq(f.signals, LAMBDA s : s.comment # NoText)
        own(f) == IF f.comment = NoText THEN <<>>
                  ELSE <<[kind |-> "CM_BO", id |-> DbcId(f), text |-> f.comment]>>
        cm(f) == own(f) \o [i \in DOMAIN told(f) |->
                              [kind |-> "CM_SG", id |-> DbcId(f), name |-> Sanitize[told(f)[i].name],
                               text |-> told(f)[i].comment]]
        all(part(_)) == FlattenSeq([i \in DOMAIN frames |-> part(frames[i])])
    IN  all(message) \o all(val) \o all(cm)

\* The messages and their signals, in the order of the lines; a signal line before the
\* first message is dropped.
DbcFrames(lines) ==
    LET add(frames, line) ==
            IF line.kind = "BO"
            THEN Append(frames, [id |-> line.id.id, ext |-> line.id.bit31, name |-> line.name,
                                 comment |-> NoText, signals |-> <<>>])
            ELSE IF line.kind = "SG" /\ frames # <<>>
            THEN LET f == Last(frames)
                     sig == [MakeSignal(f.id, f.ext, line.name, line.start, line.len,
                                        IF line.at = 1 THEN "little" ELSE "big", line.sign = "-")
                             EXCEPT !.factor = line.factor, !.offset = line.offset,
                                    !.isMux = line.marker = "M",
                                    !.mux = IF line.marker = "m" THEN line.mux ELSE NoMux]
                 IN  [frames EXCEPT ![Len(frames)].signals = Append(@, sig)]
            ELSE frames
    IN  FoldLeft(add, <<>>, lines)

\* The other lines are attached afterwards, each to the first message of its number and
\* the first signal of its name.
Attach(frames, line) ==
    LET at == FrameAt(frames, line.id.id, line.id.bit31)
        i == Min(at)
        named(name) == {k \in DOMAIN frames[i].signals : frames[i].signals[k].name = name}
        first(name) == Min(named(name))
        sig == frames[i].signals[first(line.name)]
        member == IF sig.mux = NoMux /\ ~sig.isMux
                  THEN [frames EXCEPT ![i].signals[first(line.name)].mux = line.mux] ELSE frames
        selector == first(line.selector)
    IN  IF line.kind \in {"BO", "SG"} \/ at = {} THEN frames
        ELSE CASE line.kind = "CM_BO" -> [frames EXCEPT ![i].comment = line.text]
               [] line.kind = "VAL" ->
                    IF named(line.name) = {} THEN frames
                    ELSE [frames EXCEPT ![i].signals[first(line.name)].labels = line.labels]
               [] line.kind = "CM_SG" ->
                    IF named(line.name) = {} THEN frames
                    ELSE [frames EXCEPT ![i].signals[first(line.name)].comment = line.text]
               [] line.kind = "SG_MUL_VAL" ->
                    LET done == IF named(line.name) = {} THEN frames ELSE member
                    IN  IF named(line.selector) = {} \/ done[i].signals[selector].isMux THEN done
                        ELSE [done EXCEPT ![i].signals[selector].isMux = TRUE,
                                          ![i].signals[selector].mux = NoMux]

ImportDbc(lines) ==
    LET ofKind(kind) == SelectSeq(lines, LAMBDA line : line.kind = kind)
        attach(frames, kind) == FoldLeft(Attach, frames, ofKind(kind))
    IN  FoldLeft(attach, DbcFrames(lines), <<"VAL", "SG_MUL_VAL", "CM_SG", "CM_BO">>)

\* The signal an imported frame's formula is written for: the longest, and among those
\* the lowest, that is no selector and, where there is one, no filler.
PickPrimarySignal(frame) ==
    LET candidates == SelectSeq(frame.signals, LAMBDA s : ~s.isMux)
        meaningful == SelectSeq(candidates, LAMBDA s : s.name \notin Filler)
        pool == IF meaningful # <<>> THEN meaningful ELSE candidates
        better(s, best) == s.len > best.len \/ (s.len = best.len /\ s.start < best.start)
    IN  IF pool = <<>> THEN {}
        ELSE {FoldLeft(LAMBDA best, s : IF better(s, best) THEN s ELSE best, pool[1], pool)}

=============================================================================
