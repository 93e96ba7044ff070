---------------------------- MODULE WaveMeaning -----------------------------
(***************************************************************************)
(* What waves mean: a wave is a sequence of samples, each with its marker, *)
(* that functions and operators compute from numbers and other waves, and  *)
(* that a play gives to outputs of the instrument; nobody shares a wave,   *)
(* and nothing is merged.                                                  *)
(***************************************************************************)
EXTENDS BuiltinMeaning, Shapes
LOCAL INSTANCE Bitwise
LOCAL INSTANCE FiniteSetsExt
LOCAL INSTANCE SequencesExt

\* A value is a number, a wave, a text that names no wave, or that of a
\* variable that has no wave yet.
Numeral(n) == [kind |-> "number", n |-> n, frames |-> <<>>]
AWave(w)   == [kind |-> "wave", n |-> 0, frames |-> w]
Text       == [Numeral(0) EXCEPT !.kind = "text"]
Unmade     == [Numeral(0) EXCEPT !.kind = "unmade"]

Are(vs, kind, from, to) == \A m \in from .. to : vs[m].kind = kind
Flat(n, sample, mark) == [m \in 1 .. n |-> <<sample, mark>>]
Nth(w, m) == IF m \in DOMAIN w THEN w[m] ELSE <<0, 0>>
LongestIn(ws) == Max({0} \cup {Len(ws[m]) : m \in DOMAIN ws})
Raised(w, by) == [m \in DOMAIN w |-> <<w[m][1] + by, w[m][2]>>]
WithFrame(w, k, frame) == [m \in DOMAIN w |-> IF m = k THEN frame ELSE w[m]]
Scaled(w, by) == [m \in DOMAIN w |-> <<w[m][1] * by, w[m][2]>>]

-----------------------------------------------------------------------------
(* Waves of numbers *)

\* The curves, by the parameters behind the length and the amplitude.
Shaping ==
  [gauss |-> 2, sine |-> 2, cosine |-> 2, sinc |-> 2, sawtooth |-> 2, triangle |-> 2, drag |-> 2,
   rand |-> 2, randomGauss |-> 2, blackman |-> 1, hamming |-> 0, hann |-> 0, randomUniform |-> 0]
CurveOf(f, ns) ==
  LET count == Shaping[f]
      amp   == IF Len(ns) = count + 2 THEN ns[2] ELSE 1
      p     == SubSeq(ns, Len(ns) - count + 1, Len(ns))
  IN  IF f = "gauss" /\ p[2] = 0 THEN Flat(ns[1], 0, 0)
      ELSE [m \in 1 .. ns[1] |-> <<amp * Curve(f, <<ns[1]>> \o p, m), 0>>]
\* What the curve allows for its last parameter.
IsCurve(f, ns) ==
  /\ Len(ns) \in {Shaping[f] + 1, Shaping[f] + 2} /\ ns[1] >= 0
  /\ f \in {"sine", "cosine", "sawtooth", "triangle"} => Last(ns) >= 0
  /\ f \in {"drag", "sinc"} => Last(ns) # 0
  /\ f = "sinc" => ns[Len(ns) - 1] >= 0

\* A chirp lasts for blocks of 16 samples.
ChirpOf(ns) ==
  LET p    == SubSeq(ns, IF Len(ns) = 5 THEN 3 ELSE 2, Len(ns))
      amp  == IF Len(ns) = 5 THEN ns[2] ELSE 1
      room == CHOOSE r \in ns[1] .. ns[1] + 15 : r % 16 = 0
  IN  [m \in 1 .. room |->
         <<IF m <= ns[1] THEN amp * Curve("chirp", <<ns[1]>> \o p, m) ELSE 0, 0>>]
RootRaisedOf(ns) ==
  LET p   == SubSeq(ns, IF Len(ns) > 3 THEN 3 ELSE 2, Len(ns))
      amp == IF Len(ns) > 3 THEN ns[2] ELSE 1
  IN  [m \in 1 .. ns[1] |-> <<amp * Curve("rrc", <<ns[1]>> \o p, m), 0>>]

\* The register shifts right, and the bit that leaves it turns on its taps.
Shifts(ns, m) ==
  LET After1(s) == IF s % 2 = 1 THEN (s \div 2) ^^ ns[3] ELSE s \div 2
      At[j \in Nat] == IF j = 0 THEN ns[4] ELSE After1(At[j - 1])
  IN  At[m]

Numeric == DOMAIN Shaping \cup {"zeros", "ones", "rect", "vect", "ramp", "chirp", "rrc", "marker",
                                "mask", "lfsrGaloisMarker", "placeholder"}
IsNumericCall(f, ns) ==
  CASE f \in DOMAIN Shaping         -> IsCurve(f, ns)
    [] f \in {"zeros", "ones"}      -> Len(ns) = 1 /\ ns[1] >= 0
    [] f = "rect"                   -> Len(ns) = 2 /\ ns[1] >= 0
    [] f = "vect"                   -> Len(ns) \in 1 .. 100
    [] f = "ramp"                   -> Len(ns) = 3 /\ ns[1] >= 0 /\ ns[2] \in -1 .. 1 /\ ns[3] \in -1 .. 1
    [] f \in {"chirp", "rrc"}       -> Len(ns) \in 3 .. 5 /\ ns[1] >= 0
    [] f \in {"marker", "mask"}     -> Len(ns) = 2 /\ ns[1] >= 0 /\ ns[2] >= 0
    [] f = "lfsrGaloisMarker"       -> /\ Len(ns) = 4 /\ ns[1] >= 0 /\ ns[2] \in 1 .. 2
                                       /\ ns[3] >= 0 /\ ns[4] > 0
    [] f = "placeholder"            -> Len(ns) \in 1 .. 3 /\ ns[1] >= 0
NumericOf(f, ns) ==
  CASE f \in DOMAIN Shaping         -> CurveOf(f, ns)
    [] f \in {"zeros", "placeholder"} -> Flat(ns[1], 0, 0)
    [] f = "ones"                   -> Flat(ns[1], 1, 0)
    [] f = "rect"                   -> Flat(ns[1], ns[2], 0)
    [] f = "vect"                   -> [m \in DOMAIN ns |-> <<ns[m], 0>>]
    [] f = "ramp" /\ ns[1] = 1      -> <<<<ns[3], 0>>>>
    [] f = "ramp" /\ ns[1] # 1      ->
         [m \in 1 .. ns[1] |-> <<ns[2] + ((m - 1) * (ns[3] - ns[2])) \div (ns[1] - 1), 0>>]
    [] f = "chirp"                  -> ChirpOf(ns)
    [] f = "rrc"                    -> RootRaisedOf(ns)
    [] f \in {"marker", "mask"}     -> Flat(ns[1], 0, ns[2] % 4)
    [] f = "lfsrGaloisMarker"       -> [m \in 1 .. ns[1] |-> <<0, (Shifts(ns, m - 1) % 2) * ns[2]>>]

-----------------------------------------------------------------------------
(* Waves of waves *)

\* A sum is as long as its first wave; a product ends with the shortest, and
\* silence fills it up.
SumOf(ws) ==
  FoldLeft(LAMBDA a, w : [m \in DOMAIN a |-> <<a[m][1] + w[m][1], a[m][2] | w[m][2]>>],
           Head(ws), Tail(ws))
TimesOf(ws) ==
  LET product(a, w) == [m \in 1 .. LongestIn(ws) |-> <<Nth(a, m)[1] * Nth(w, m)[1],
                                                       Nth(a, m)[2] * Nth(w, m)[2]>>]
  IN  FoldLeft(product, Head(ws), Tail(ws))

\* Waves one behind the other, with steps of a number of samples from each to
\* the next, and as much silence at the end.
StepsTo(a, b, n) ==
  [m \in 1 .. n |-> <<Last(a)[1] + (m * (Head(b)[1] - Last(a)[1])) \div n, 0>>]
JoinOf(ws, n) ==
  IF n <= 0 \/ Len(ws) = 1 THEN FlattenSeq(ws)
  ELSE FlattenSeq([m \in DOMAIN ws |-> ws[m] \o
         (IF m = Len(ws) THEN Flat(n, 0, 0) ELSE StepsTo(ws[m], ws[m + 1], n))])

\* Sample by sample of each wave in turn.
InterleaveOf(ws) ==
  [m \in 1 .. Len(ws) * LongestIn(ws) |->
     Nth(ws[((m - 1) % Len(ws)) + 1], ((m - 1) \div Len(ws)) + 1)]

\* The difference equation with the coefficients b of x and a of y.
FilterOf(b, a, x) ==
  LET reach(w, n) == 1 .. (IF Len(w) < n THEN Len(w) ELSE n)
      Y[n \in 1 .. Len(x)] ==
        (FoldSet(LAMBDA m, sum : sum + b[m][1] * x[n - m + 1][1], 0, reach(b, n))
           - FoldSet(LAMBDA m, sum : sum + a[m][1] * Y[n - m + 1], 0, reach(a, n) \ {1})) \div a[1][1]
  IN  [n \in 1 .. Len(x) |-> <<Y[n], 0>>]

OfWavesOnly == {"add", "multiply", "flip"}
Combining == OfWavesOnly \cup {"join", "interleave", "scale", "cut", "circshift", "filter"}
WavesOf(vs) ==
  LET found == SelectSeq(vs, LAMBDA v : v.kind = "wave")
  IN  [m \in DOMAIN found |-> found[m].frames]
NumbersOf(vs) ==
  LET found == SelectSeq(vs, LAMBDA v : v.kind = "number")
  IN  [m \in DOMAIN found |-> found[m].n]
IsCombination(f, vs) ==
  LET w == WavesOf(vs)
      n == NumbersOf(vs)
  IN  /\ Len(w) + Len(n) = Len(vs) /\ w # <<>>
      /\ f \in {"scale", "cut", "circshift", "flip", "filter"} => vs[1].kind = "wave"
      /\ f \in OfWavesOnly => n = <<>>
      /\ CASE f \in {"add", "multiply"} -> Len(w) >= 2
           [] f = "interleave" -> Len(w) >= 2 /\ Len(n) <= 1
           [] f = "flip"       -> Len(w) = 1
           [] f = "scale"      -> Len(w) = 1 /\ Len(n) = 1
           [] f = "circshift"  -> Len(w) = 1 /\ Len(n) = 1 /\ n[1] >= 0
           [] f = "cut"        -> /\ Len(w) = 1 /\ Len(n) = 2 /\ 0 <= n[1] /\ n[1] <= n[2] + 1
                                  /\ n[1] < Len(w[1]) /\ n[2] \in 0 .. Len(w[1]) - 1
           [] f = "filter"     -> Len(w) = 3 /\ w[1] # <<>> /\ w[2] # <<>> /\ w[2][1][1] # 0
           [] OTHER            -> TRUE
CombinationOf(f, vs) ==
  LET w == WavesOf(vs)
      n == NumbersOf(vs)
  IN  CASE f = "add"        -> SumOf(w)
        [] f = "multiply"   -> TimesOf(w)
        [] f = "flip"       -> Reverse(w[1])
        [] f = "join"       -> JoinOf(w, IF n = <<>> THEN 0 ELSE Last(n))
        [] f = "interleave" -> InterleaveOf(w)
        [] f = "scale"      -> Scaled(w[1], n[1])
        [] f = "cut"        -> SubSeq(w[1], n[1] + 1, n[2] + 1)
        [] f = "circshift"  -> [m \in DOMAIN w[1] |-> w[1][((m - 1 + n[1]) % Len(w[1])) + 1]]
        [] f = "filter"     -> FilterOf(w[1], w[2], w[3])

\* The functions that make waves.
WaveFunctions == Numeric \cup Combining
IsWaveCall(f, vs) ==
  IF f \in Numeric THEN vs # <<>> /\ Are(vs, "number", 1, Len(vs)) /\ IsNumericCall(f, NumbersOf(vs))
  ELSE IsCombination(f, vs)
WaveCallOf(f, vs) ==
  AWave(IF f \in Numeric THEN NumericOf(f, NumbersOf(vs)) ELSE CombinationOf(f, vs))

\* The operators; a number counts for every sample.
IsWaveOperation(op, l, r) ==
  /\ op \in {"+", "-", "*"}
  /\ {l.kind, r.kind} \subseteq {"wave", "number"}
WaveOperationOf(op, l, r) ==
  LET both == l.kind = r.kind
  IN  AWave(CASE op = "+" /\ both -> SumOf(<<l.frames, r.frames>>)
              [] op = "-" /\ both -> SumOf(<<l.frames, Scaled(r.frames, -1)>>)
              [] op = "*" /\ both -> TimesOf(<<l.frames, r.frames>>)
              [] op = "+" /\ ~both /\ l.kind = "wave" -> Raised(l.frames, r.n)
              [] op = "+" /\ ~both /\ r.kind = "wave" -> Raised(r.frames, l.n)
              [] op = "-" /\ ~both /\ l.kind = "wave" -> Raised(l.frames, -r.n)
              [] op = "-" /\ ~both /\ r.kind = "wave" -> Raised(Scaled(r.frames, -1), l.n)
              [] op = "*" /\ ~both /\ l.kind = "wave" -> Scaled(l.frames, r.n)
              [] op = "*" /\ ~both /\ r.kind = "wave" -> Scaled(r.frames, l.n))

-----------------------------------------------------------------------------
(* Plays *)

\* A group has so many outputs for waves, and so many auxiliary ones.
Outputs    == 2
AuxOutputs == 4

\* The last wave; each is for the channels that are written in front of it, or
\* for the next one if none are.  Channels without any wave are all there is.
LastWaveIn(vs) ==
  LET waves == {m \in DOMAIN vs : vs[m].kind # "number"}
  IN  IF waves = {} THEN Len(vs) ELSE Max(waves)
IsNumbered(vs) == vs[1].kind = "number"
ChannelsOf(vs, m) ==
  IF ~IsNumbered(vs) THEN {m}
  ELSE {vs[j].n : j \in {j \in 1 .. m - 1 : Are(vs, "number", j, m - 1)}}
IsAssigned(vs, outputs, groups) ==
  LET last == LastWaveIn(vs)
  IN  /\ Are(vs, "number", 1, last) \/ \E m \in 1 .. last : vs[m].kind = "wave"
      /\ ~IsNumbered(vs) => \A m \in 1 .. last : vs[m].kind # "number"
      /\ \A m \in 1 .. last : vs[m].kind # "unmade"
      /\ IsNumbered(vs) =>
           \A m \in 1 .. last : vs[m].kind = "number" =>
             /\ vs[m].n \in 1 .. outputs * groups
             /\ m > 1 /\ vs[m - 1].kind = "number" => vs[m].n # vs[m - 1].n
      /\ ~IsNumbered(vs) => last <= outputs * groups

\* The waves of our own group, in the order of the call; several are made as
\* long as the longest.
OwnWaves(vs, outputs) ==
  LET own == {m \in 1 .. LastWaveIn(vs) :
                vs[m].kind = "wave" /\ ChannelsOf(vs, m) \cap (1 .. outputs) # {}}
  IN  SetToSortSeq(own, <)
Lasting(w, n) == w \o Flat(n - Len(w), 0, 0)
PlayLength(vs, outputs) ==
  LET own == OwnWaves(vs, outputs)
  IN  LongestIn([m \in DOMAIN own |-> vs[own[m]].frames])
Tracks(vs, outputs) ==
  LET own   == OwnWaves(vs, outputs)
      for(b) == {m \in Range(own) : b \in ChannelsOf(vs, m)}
  IN  [b \in {b \in 1 .. outputs : for(b) # {}} |->
         Lasting(vs[CHOOSE m \in for(b) : TRUE].frames, PlayLength(vs, outputs))]

\* The four auxiliary outputs share one stream.
AuxTracks(vs) ==
  LET tracks == Tracks(vs, AuxOutputs)
      each   == [b \in 1 .. AuxOutputs |-> IF b \in DOMAIN tracks THEN tracks[b] ELSE <<>>]
  IN  [b \in 3 .. 6 |-> InterleaveOf(each)]
\* The digital outputs are a track behind all the others.
DIOTracks(vs) ==
  LET own   == OwnWaves(vs, Outputs)
      first == \E m \in Range(own) : 1 \in ChannelsOf(vs, m)
  IN  [b \in IF first THEN {7} ELSE {} |->
         IF Len(own) = 2 THEN Lasting(vs[own[2]].frames, PlayLength(vs, Outputs)) ELSE <<>>]

\* A play shows what each output gets, at what rate and how, with a number of
\* the play's own and a place in the wave.
Shows(tracks, rate, how, num, place) == <<<<"PLAY", tracks, rate, how, num, place>>>>
Silence(n, rate, how) == <<<<"ZERO", n, rate, how>>>>
Behind1(vs) == SubSeq(vs, LastWaveIn(vs) + 1, Len(vs))
RateOf(rest) == IF rest = <<>> THEN -1 ELSE rest[1].n
Now(name) == IF name \in {"playWaveNow", "playWaveIndexedNow"} THEN {"now"} ELSE {}

OnWaves == {"prefetch", "playWave", "playWaveNow", "playWaveDigTrigger"}
InPart  == {"playWaveIndexed", "playWaveIndexedNow"}
AtTrigger(name, vs) == IF name = "playWaveDigTrigger" THEN Tail(vs) ELSE vs

\* Waves keep the device busy for blocks of samples.
RoundedUp(d, n) == CHOOSE r \in n .. n + Limit[d].grain : r % Limit[d].grain = 0
Lasts(name, d, n) ==
  RoundedUp(d, IF name = "playZero" /\ n < Limit[d].minPlay THEN Limit[d].minPlay ELSE n)

IsOnWaves(name, d, groups, vs) ==
  LET own == AtTrigger(name, vs)
  IN  /\ vs # <<>> /\ own # <<>> /\ IsAssigned(own, Outputs, groups)
      /\ Len(Behind1(own)) <= 1
      /\ name = "playWaveDigTrigger" =>
           /\ vs[1].kind = "number" /\ vs[1].n >= 3
           /\ PlayLength(own, Outputs) >= Limit[d].trigMin
IsInPart(groups, vs, outputs) ==
  /\ vs # <<>> /\ IsAssigned(vs, outputs, groups)
  /\ Len(Behind1(vs)) \in 2 .. 3
  /\ Behind1(vs)[2].n # 0 => /\ OwnWaves(vs, outputs) # <<>>
                             /\ Behind1(vs)[2].n <= PlayLength(vs, outputs)
IsPlay(name, d, groups, vs) ==
  CASE name \in OnWaves -> IsOnWaves(name, d, groups, vs)
    [] name \in InPart  -> IsInPart(groups, vs, Outputs)
    [] name = "playAuxWaveIndexed" ->
         /\ IsInPart(groups, vs, AuxOutputs)
         /\ Len(Behind1(vs)) = 3 => Behind1(vs)[3].n >= 7
    [] name = "playAuxWave" ->
         /\ vs # <<>> /\ IsAssigned(vs, AuxOutputs, groups) /\ Len(Behind1(vs)) <= 1
         /\ Behind1(vs) # <<>> => Behind1(vs)[1].n >= 7
    [] name = "playDIOWave" ->
         /\ vs # <<>> /\ IsAssigned(vs, Outputs, groups)
         /\ Len(Behind1(vs)) = 1 /\ Behind1(vs)[1].n > 1
    [] name = "playWaveDIO"   -> vs = <<>>
    [] name = "playWaveZSync" -> /\ Len(vs) = 1 /\ vs[1].kind = "number" /\ d \notin LIFamily
                                 /\ vs[1].n - RawSource(d) \in 0 .. 2
    [] name \in {"setRate", "setPrecompClear"} -> Len(vs) = 1 /\ vs[1].kind = "number"
    [] name \in {"playZero", "playHold"} ->
         Len(vs) \in 1 .. 2 /\ Are(vs, "number", 1, Len(vs)) /\ vs[1].n >= 0
PlayMeans(name, d, vs) ==
  LET own  == AtTrigger(name, vs)
      rest == Behind1(own)
      last == 2^Limit[d].tableBits
      auxRate(r) == IF r = <<>> THEN 5 ELSE r[1].n - 2
  IN  CASE name \in {"prefetch", "setRate", "setPrecompClear"} -> <<>>
        [] name \in OnWaves \ {"prefetch"} ->
             IF d \in Cervino /\ OwnWaves(own, Outputs) = <<>> THEN <<>>
             ELSE Shows(Tracks(own, Outputs), RateOf(rest), Now(name),
                        IF name = "playWaveDigTrigger" THEN vs[1].n ELSE 0, 0)
        [] name \in InPart ->
             IF rest[2].n = 0 THEN <<>>
             ELSE Shows(Tracks(vs, Outputs), RateOf(SubSeq(rest, 3, Len(rest))), Now(name) \cup {"part"},
                        rest[2].n, rest[1].n)
        [] name = "playAuxWaveIndexed" ->
             IF rest[2].n = 0 THEN <<>>
             ELSE Shows(AuxTracks(vs), auxRate(SubSeq(rest, 3, Len(rest))), {"aux", "part"},
                        rest[2].n, rest[1].n)
        [] name = "playAuxWave" ->
             IF OwnWaves(vs, AuxOutputs) = <<>> THEN <<>>
             ELSE Shows(AuxTracks(vs), auxRate(rest), {"aux"}, 0, 0)
        [] name = "playDIOWave" ->
             IF OwnWaves(vs, Outputs) = <<>> THEN <<>>
             ELSE Shows(DIOTracks(vs), rest[1].n, {"dio"}, LongestIn(WavesOf(vs)), 0)
        [] name = "playWaveDIO"   -> <<Entry(last)>>
        [] name = "playWaveZSync" -> <<Entry(last * <<1, 9, 13>>[vs[1].n - RawSource(d) + 1])>>
        [] name \in {"playZero", "playHold"} ->
             Silence(Lasts(name, d, vs[1].n), RateOf(Tail(vs)), IF name = "playHold" THEN {"hold"} ELSE {})

\* The arguments of a play that need not be known before the program runs.
MayComeLate(name) ==
  CASE name \in InPart \cup {"playAuxWaveIndexed"} -> {2, 3} [] name \in {"playZero", "playHold"} -> {1} [] OTHER -> {}
=============================================================================
