------------------------------ MODULE Signals -------------------------------
(***************************************************************************)
(* The samples of waves and the functions that make waves of numbers and   *)
(* of other waves (waveform/signal.cpp, waveform/waveform_generator.cpp,   *)
(* waveform/waveform_generator_dsp.cpp).                                   *)
(*                                                                         *)
(* A signal has samples and, beside each, a marker; the samples of several *)
(* channels stand frame by frame.  bits are the markers each channel may   *)
(* set.  A reserved signal has a length and no samples yet.  Samples are   *)
(* whole numbers, quotients are rounded down.                              *)
(*                                                                         *)
(* An argument has a kind: a number is "int" or "double", a "wave" carries *)
(* its signal, a "string" names no wave, "none" is a run-time value.       *)
(***************************************************************************)
EXTENDS Shapes
LOCAL INSTANCE Bitwise
LOCAL INSTANCE FiniteSetsExt
LOCAL INSTANCE SequencesExt

Least(a, b)    == IF a < b THEN a ELSE b
Greatest(a, b) == IF a > b THEN a ELSE b
Copies(n, v)   == [i \in 1 .. n |-> v]
Changed(s, i, v) == [k \in DOMAIN s |-> IF k = i THEN v ELSE s[k]]

-----------------------------------------------------------------------------
(* Signals *)

\* samples_, markers_, markerBits_, channels_, reserveOnly_, length_.
Signal(samples, markers, bits, channels, length) ==
  [samples |-> samples, markers |-> markers, bits |-> bits, channels |-> channels,
   reserve |-> FALSE, length |-> length]

\* The constructors: room for a length, samples alone, samples with their
\* markers, the same value n times, and a length that is only reserved.
Room(length, bits) == Signal(<<>>, <<>>, bits, Len(bits), length)
Track(length)      == Signal(<<>>, <<>>, <<0>>, 1, length)
OfSamples(s)       == Signal(s, Copies(Len(s), 0), <<0>>, 1, Len(s))
Marked(s, m, bits) == Signal(s, m, bits, Len(bits), Len(s) \div Len(bits))
Constant(n, value, marker) == Signal(Copies(n, value), Copies(n, marker), <<marker>>, 1, n)
Reserved(length, bits) ==
  [Room(length, bits) EXCEPT !.reserve = TRUE, !.channels = Greatest(1, Len(bits))]

\* What stands for the signal of a call that is refused.
NoSignal == Track(-1)
Good(allowed, sig) == IF allowed THEN sig ELSE NoSignal

\* append of a sample and of a signal, resizeSamples, checkAllocation.
Push(sig, sample, marker) ==
  LET n == Len(sig.samples)
  IN  [sig EXCEPT !.samples = Append(@, sample), !.markers = Append(@, marker),
                  !.bits = Changed(@, (n % Len(@)) + 1, @[(n % Len(@)) + 1] | marker),
                  !.length = (n + 1) \div sig.channels]
PushAll(sig, samples, markers) ==
  LET Upto[k \in 0 .. Len(samples)] ==
        IF k = 0 THEN sig ELSE Push(Upto[k - 1], samples[k], markers[k])
  IN  Upto[Len(samples)]
Filled(s, n) == IF n > Len(s) THEN s \o Copies(n - Len(s), 0) ELSE s
Allocated(sig) ==
  IF ~sig.reserve THEN sig
  ELSE [sig EXCEPT !.samples = Filled(@, sig.channels * sig.length),
                   !.markers = Filled(@, sig.channels * sig.length)]
\* Channel by channel as far as both go.
OrBits(a, b) == [c \in DOMAIN a |-> IF c \in DOMAIN b THEN a[c] | b[c] ELSE a[c]]
AppendSignal(sig, new) ==
  LET other == Allocated(new)
      all   == sig.samples \o other.samples
  IN  IF new.length = 0 THEN sig
      ELSE [sig EXCEPT !.samples = all, !.markers = @ \o other.markers,
                       !.bits = [c \in DOMAIN @ |-> @[c] | other.bits[c]],
                       !.length = Len(all) \div sig.channels]

-----------------------------------------------------------------------------
(* Arguments: readInt, readPositiveInt, readDouble, readWave *)

IsNumeral(a)  == a.kind \in {"int", "double"}
IsNatural(a) == IsNumeral(a) /\ a.n >= 0
IsWave(a)    == a.kind = "wave"
All(args, Is(_)) == \A k \in DOMAIN args : Is(args[k])
WavesIn(args) == SelectSeq(args, IsWave)

\* The shapes: a length, an amplitude that may be left out, and count
\* parameters that shape the curve.
HasAmplitude(count, args) == Len(args) = count + 2
ParametersOf(count, args) == SubSeq(args, Len(args) - count + 1, Len(args))
IsShape(count, args) ==
  /\ Len(args) \in {count + 1, count + 2}
  /\ All(args, IsNumeral)
  /\ IsNatural(args[1])
Sampled(name, count, args) ==
  LET p   == [k \in 1 .. count |-> ParametersOf(count, args)[k].n]
      amp == IF HasAmplitude(count, args) THEN args[2].n ELSE 1
  IN  OfSamples([i \in 1 .. args[1].n |-> amp * Curve(name, <<args[1].n>> \o p, i)])
LastOf2(args) == args[Len(args)].n
Gauss(a) ==
  Good(IsShape(2, a), IF LastOf2(a) = 0 THEN OfSamples(Copies(a[1].n, 0)) ELSE Sampled("gauss", 2, a))
Sine(a)          == Good(IsShape(2, a) /\ LastOf2(a) >= 0, Sampled("sine", 2, a))
Cosine(a)        == Good(IsShape(2, a) /\ LastOf2(a) >= 0, Sampled("cosine", 2, a))
Sawtooth(a)      == Good(IsShape(2, a) /\ LastOf2(a) >= 0, Sampled("sawtooth", 2, a))
Triangle(a)      == Good(IsShape(2, a) /\ LastOf2(a) >= 0, Sampled("triangle", 2, a))
Drag(a)          == Good(IsShape(2, a) /\ LastOf2(a) # 0, Sampled("drag", 2, a))
Sinc(a) ==
  Good(IsShape(2, a) /\ LastOf2(a) # 0 /\ IsNatural(ParametersOf(2, a)[1]), Sampled("sinc", 2, a))
Blackman(a)      == Good(IsShape(1, a), Sampled("blackman", 1, a))
Hamming(a)       == Good(IsShape(0, a), Sampled("hamming", 0, a))
Hann(a)          == Good(IsShape(0, a), Sampled("hann", 0, a))
Rand(a)          == Good(IsShape(2, a), Sampled("rand", 2, a))
RandomGauss(a)   == Good(IsShape(2, a), Sampled("randomGauss", 2, a))
RandomUniform(a) == Good(IsShape(0, a), Sampled("randomUniform", 0, a))

-----------------------------------------------------------------------------
(* Waves of numbers *)

Zeros(a) == Good(Len(a) = 1 /\ All(a, IsNatural), OfSamples(Copies(a[1].n, 0)))
Ones(a)  == Good(Len(a) = 1 /\ All(a, IsNatural), OfSamples(Copies(a[1].n, 1)))
Rect(a)  == Good(Len(a) = 2 /\ All(a, IsNumeral) /\ IsNatural(a[1]), OfSamples(Copies(a[1].n, a[2].n)))
Vect(a)  == Good(Len(a) <= 100 /\ All(a, IsNumeral), OfSamples([k \in DOMAIN a |-> a[k].n]))

\* From one level to the other; a single sample has the last one.
RampSample(a, i) ==
  IF a[1].n = 1 THEN a[3].n ELSE a[2].n + (i * (a[3].n - a[2].n)) \div (a[1].n - 1)
Ramp(a) ==
  Good(/\ Len(a) = 3 /\ All(a, IsNumeral) /\ IsNatural(a[1])
       /\ a[2].n \in -1 .. 1 /\ a[3].n \in -1 .. 1,
       OfSamples([i \in 1 .. a[1].n |-> RampSample(a, i - 1)]))

\* chirp and rrc count their optional arguments each in its own way; a chirp
\* is filled up to whole blocks of 16 samples.
Amplified(a, full) == IF Len(a) = full THEN a[2].n ELSE 1
FromThird(a, from) == [k \in 1 .. Len(a) - from + 1 |-> a[k + from - 1].n]
Tuned(name, a, amp, from) ==
  [i \in 1 .. a[1].n |-> amp * Curve(name, <<a[1].n>> \o FromThird(a, from), i)]
WholeBlocks(n) == -((-n) \div 16) * 16
Chirp(a) ==
  Good(Len(a) \in 3 .. 5 /\ All(a, IsNumeral) /\ IsNatural(a[1]),
       OfSamples(Filled(Tuned("chirp", a, Amplified(a, 5), IF Len(a) = 5 THEN 3 ELSE 2),
                        WholeBlocks(a[1].n))))
RootRaisedCosine(a) ==
  Good(Len(a) \in 3 .. 5 /\ All(a, IsNumeral) /\ IsNatural(a[1]),
       OfSamples(Tuned("rrc", a, IF Len(a) > 3 THEN a[2].n ELSE 1, IF Len(a) > 3 THEN 3 ELSE 2)))

\* marker, mask: zeros with the same two markers throughout.
MarkerOf(a) == Good(Len(a) = 2 /\ All(a, IsNatural), Constant(a[1].n, 0, a[2].n % 4))

\* lfsrGaloisMarker: the marker is the bit that leaves the register.
LfsrState(initial, poly, n) ==
  LET At[i \in 0 .. n] ==
        IF i = 0 THEN initial
        ELSE LET s == At[i - 1]
             IN  IF s % 2 = 1 THEN (s \div 2) ^^ poly ELSE s \div 2
  IN  At
LfsrGaloisMarker(a) ==
  Good(Len(a) = 4 /\ All(a, IsNatural) /\ a[2].n \in 1 .. 2 /\ a[4].n # 0,
       LET At == LfsrState(a[4].n, a[3].n, a[1].n)
       IN  PushAll(Track(a[1].n), Copies(a[1].n, 0),
                   [i \in 1 .. a[1].n |-> (At[i - 1] % 2) * a[2].n]))

\* placeholder: only a length, with the markers it will have.
HasMarker(a, k) == IF Len(a) >= k /\ a[k].n # 0 THEN 1 ELSE 0
Placed(a) ==
  Good(Len(a) \in 1 .. 3 /\ All(a, IsNumeral) /\ IsNatural(a[1]),
       Reserved(a[1].n, <<HasMarker(a, 2) + 2 * HasMarker(a, 3)>>))

-----------------------------------------------------------------------------
(* Waves of waves *)

Scale(a) ==
  Good(Len(a) = 2 /\ IsWave(a[1]) /\ IsNumeral(a[2]),
       LET s == a[1].signal
       IN  IF s.reserve THEN s
           ELSE Marked([i \in DOMAIN s.samples |-> s.samples[i] * a[2].n], s.markers, s.bits))

\* As long as the first, which the others must reach.
AddTo(sum, new) ==
  LET s == Allocated(new)
  IN  [sum EXCEPT !.samples = [i \in DOMAIN @ |-> @[i] + s.samples[i]],
                  !.markers = IF Len(@) = Len(s.markers) THEN [i \in DOMAIN @ |-> @[i] | s.markers[i]]
                              ELSE @,
                  !.bits = OrBits(@, s.bits)]
Remade(sig) == Marked(sig.samples, sig.markers, sig.bits)
AddAll(a) ==
  Good(Len(a) >= 2 /\ All(a, IsWave),
       LET Upto[k \in 1 .. Len(a)] ==
             IF k = 1 THEN Allocated(a[1].signal) ELSE AddTo(Upto[k - 1], a[k].signal)
       IN  Remade(Upto[Len(a)]))

\* The steps between the last frame of one wave and the first of the next,
\* or zeros behind the last wave.
Between(waves, k, n, channels) ==
  [i \in 1 .. n * channels |->
     IF k = Len(waves) THEN 0
     ELSE LET c == ((i - 1) % channels) + 1
              from == waves[k].samples[(waves[k].length - 1) * channels + c]
          IN  from + (((i - 1) \div channels + 1) * (waves[k + 1].samples[c] - from)) \div n]
Bridged(waves, n, channels) ==
  LET frames(s) == SubSeq(s.samples, 1, s.length * channels)
      marks(s)  == SubSeq(s.markers, 1, s.length * channels)
      Upto[k \in 0 .. Len(waves)] ==
        IF k = 0 THEN Room(0, waves[1].bits)
        ELSE [Upto[k - 1] EXCEPT
                !.samples = @ \o frames(waves[k]) \o Between(waves, k, n, channels),
                !.markers = @ \o marks(waves[k]) \o Copies(n * channels, 0),
                !.bits = OrBits(@, waves[k].bits)]
      all == Upto[Len(waves)]
  IN  [all EXCEPT !.channels = channels, !.length = Len(all.samples) \div channels]
Joined(waves) ==
  LET Total[k \in 0 .. Len(waves)] == IF k = 0 THEN 0 ELSE Total[k - 1] + waves[k].length
  IN  FoldLeft(AppendSignal, Room(Total[Len(waves)], waves[1].bits), waves)
JoinWaves(a) ==
  Good(Len(a) >= 1 /\ All(a, LAMBDA x : IsWave(x) \/ IsNumeral(x)) /\ WavesIn(a) # <<>>,
       LET found   == WavesIn(a)
           waves   == [k \in DOMAIN found |-> Allocated(found[k].signal)]
           numbers == SelectSeq(a, IsNumeral)
           wanted  == IF numbers = <<>> THEN 0 ELSE LastOf2(numbers)
       IN  IF wanted > 0 /\ Len(waves) > 1
           THEN Bridged(waves, wanted, Greatest(1, waves[1].channels)) ELSE Joined(waves))

\* merge: each wave is a channel of its own, the shorter ones filled up; a
\* length behind the waves counts among waves that are all reserved.
AtOr0(s, i) == IF i \in DOMAIN s THEN s[i] ELSE 0
Zipped(tracks, n) ==
  FlattenSeq([i \in 1 .. n |-> [c \in DOMAIN tracks |-> AtOr0(tracks[c], i)]])
LongestOf(lengths) == Max({0} \cup {lengths[k] : k \in DOMAIN lengths})
MergedOf(waves, wanted) ==
  LET count == Len(waves)
      bits  == FlattenSeq([k \in 1 .. count |-> waves[k].bits])
      full  == [k \in 1 .. count |-> Allocated(waves[k])]
      n     == LongestOf([k \in 1 .. count |-> Len(full[k].samples)])
  IN  IF \A k \in 1 .. count : waves[k].reserve
      THEN [Reserved(Greatest(wanted, LongestOf([k \in 1 .. count |->
                                         IF waves[k].channels # 0 THEN waves[k].length ELSE 0])), bits)
              EXCEPT !.channels = count]
      ELSE [PushAll(Room(n, bits), Zipped([k \in 1 .. count |-> full[k].samples], n),
                    Zipped([k \in 1 .. count |-> full[k].markers], n))
              EXCEPT !.channels = count]
HasLength(a) == Len(a) >= 2 /\ a[Len(a)].kind = "int"
Merge(a) ==
  LET waves == IF HasLength(a) THEN SubSeq(a, 1, Len(a) - 1) ELSE a
  IN  Good(Len(waves) >= 2 /\ All(waves, IsWave),
           MergedOf([k \in DOMAIN waves |-> waves[k].signal], IF HasLength(a) THEN LastOf2(a) ELSE 0))

\* interleave: what merge gives, as one channel.
OneChannel(merged) ==
  Good(merged # NoSignal,
       [merged EXCEPT !.channels = 1, !.length = Len(merged.samples),
                      !.bits = IF @ = <<>> THEN <<0>> ELSE SubSeq(@, 1, 1)])
Interleaved(a) == OneChannel(Merge(a))

\* multiply: where a wave has ended the product is zero.
ProductAt(waves, i) ==
  LET Upto[k \in 0 .. Len(waves)] ==
        IF k = 0 THEN [sample |-> 1, marker |-> 1]
        ELSE IF i > Len(waves[k].samples) THEN [sample |-> 0, marker |-> 0]
        ELSE [sample |-> Upto[k - 1].sample * waves[k].samples[i],
              marker |-> (Upto[k - 1].marker * waves[k].markers[i]) % 256]
  IN  Upto[Len(waves)]
ProductOf(waves) ==
  LET n    == LongestOf([k \in DOMAIN waves |-> waves[k].length])
      none == Copies(waves[1].channels, 0)
      bits == FoldLeft(LAMBDA b, s : [c \in DOMAIN b |-> b[c] | s.bits[c]], none, waves)
      full == [k \in DOMAIN waves |-> Allocated(waves[k])]
      at   == [i \in 1 .. n * waves[1].channels |-> ProductAt(full, i)]
      values(s) == PushAll(Room(n, bits), [i \in DOMAIN s |-> s[i].sample], [i \in DOMAIN s |-> s[i].marker])
  IN  IF \A k \in DOMAIN waves : waves[k].reserve THEN Reserved(n, bits) ELSE values(at)
MultiplyAll(a) ==
  Good(/\ Len(a) >= 2 /\ All(a, IsWave)
       /\ \A k \in DOMAIN a : a[k].signal.channels = a[1].signal.channels,
       ProductOf([k \in DOMAIN a |-> a[k].signal]))

\* cut: from one frame to another, both in it; the markers are counted as if
\* a frame had one.
Cutting(s, from, to) ==
  LET n     == to - from + 1
      frame == Greatest(1, s.channels)
  IN  CASE from = to -> [Room(0, <<>>) EXCEPT !.reserve = s.reserve]
        [] from # to /\ s.reserve -> Reserved(n, s.bits)
        [] from # to /\ ~s.reserve ->
             Marked(SubSeq(s.samples, from * frame + 1, Least((to + 1) * frame, Len(s.samples))),
                    SubSeq(s.markers, from + 1, Least(to + 1, Len(s.markers))), s.bits)
Cut(a) ==
  Good(/\ Len(a) = 3 /\ IsWave(a[1]) /\ IsNatural(a[2]) /\ IsNatural(a[3])
       /\ a[2].n < a[1].signal.length /\ a[3].n < a[1].signal.length
       /\ a[2].n <= a[3].n + 1,
       Cutting(a[1].signal, a[2].n, a[3].n))

\* flip: the frames in reverse order, each as it is.
BlocksReversed(s, blocks) ==
  LET size == Len(s) \div blocks
      from(i) == (blocks - 1 - (i - 1) \div size) * size + ((i - 1) % size) + 1
  IN  [i \in DOMAIN s |-> IF i <= blocks * size THEN s[from(i)] ELSE 0]
Reversed(s) ==
  LET blocks == Len(s.samples) \div s.channels
  IN  CASE s.reserve -> s
        [] ~s.reserve /\ s.channels = 1 -> Marked(Reverse(s.samples), Reverse(s.markers), s.bits)
        [] ~s.reserve /\ s.channels # 1 ->
             Marked(BlocksReversed(s.samples, blocks), BlocksReversed(s.markers, blocks), s.bits)
Flip(a) == Good(Len(a) = 1 /\ All(a, IsWave), Reversed(a[1].signal))

\* filter: b and a are the coefficients of x and of what was computed before.
Filtering(b, a, x) ==
  LET Sum(f, n, hist) ==
        LET Upto[k \in 0 .. Len(f)] ==
              IF k = 0 THEN 0 ELSE Upto[k - 1] + (IF k <= n THEN f[k] * hist[n - k + 1] ELSE 0)
        IN  Upto[Len(f)]
      Y[n \in 1 .. Len(x)] ==
        LET before == [m \in 1 .. n |-> IF m = n THEN 0 ELSE Y[m]]
        IN  (Sum(b, n, x) - Sum(a, n, before)) \div a[1]
  IN  [n \in 1 .. Len(x) |-> Y[n]]
FilterWave(a) ==
  Good(Len(a) >= 3 /\ \A k \in 1 .. 3 : IsWave(a[k]),
       LET b == Allocated(a[1].signal)
           d == Allocated(a[2].signal)
           x == Allocated(a[3].signal)
       IN  Good(d.samples # <<>> /\ d.samples[1] # 0 /\ b.samples # <<>> /\ x.channels = 1,
                IF x.length = 0 THEN x ELSE OfSamples(Filtering(b.samples, d.samples, x.samples))))

\* circshift: to the left, the markers as if a frame had one.
Rotated(s, k) == SubSeq(s, k + 1, Len(s)) \o SubSeq(s, 1, k)
CircShift(a) ==
  Good(Len(a) = 2 /\ IsWave(a[1]) /\ IsNatural(a[2]),
       LET s      == a[1].signal
           width  == Greatest(1, s.channels)
           frames == Len(s.samples) \div width
           k      == a[2].n % frames
       IN  IF s.reserve \/ frames = 0 THEN s
           ELSE [s EXCEPT !.samples = Rotated(@, k * width),
                          !.markers = IF @ = <<>> THEN @ ELSE Rotated(@, k % Len(@))])

\* grow: filled up with zeros; never shorter.
Growing(s, n) ==
  LET width  == Greatest(1, s.channels)
      frames == Len(s.samples) \div width
      zeros  == (n - frames) * width
  IN  CASE n = 0 -> s
        [] n # 0 /\ s.reserve -> Reserved(n, s.bits)
        [] n # 0 /\ ~s.reserve /\ n = frames -> s
        [] OTHER ->
             Good(n > frames,
                  [PushAll(Room(n, s.bits), s.samples \o Copies(zeros, 0),
                           [i \in 1 .. Len(s.samples) + zeros |-> AtOr0(s.markers, i)])
                     EXCEPT !.channels = s.channels])
Grow(a) == Good(Len(a) >= 2 /\ IsWave(a[1]) /\ IsNatural(a[2]), Growing(a[1].signal, a[2].n))

-----------------------------------------------------------------------------
(* funcMap_: the functions by the names a program calls them by. *)

Generators ==
  {"zeros", "ones", "rect", "vect", "ramp", "sine", "cosine", "sinc", "gauss", "drag", "blackman",
   "hamming", "hann", "sawtooth", "triangle", "chirp", "rrc", "marker", "mask", "rand",
   "randomGauss", "randomUniform", "lfsrGaloisMarker", "placeholder", "join", "interleave", "add",
   "multiply", "scale", "cut", "flip", "filter", "circshift"}

Generated(f, a) ==
  CASE f = "zeros" -> Zeros(a)            [] f = "ones" -> Ones(a)
    [] f = "rect" -> Rect(a)              [] f = "vect" -> Vect(a)
    [] f = "ramp" -> Ramp(a)              [] f = "sine" -> Sine(a)
    [] f = "cosine" -> Cosine(a)          [] f = "sinc" -> Sinc(a)
    [] f = "gauss" -> Gauss(a)            [] f = "drag" -> Drag(a)
    [] f = "blackman" -> Blackman(a)      [] f = "hamming" -> Hamming(a)
    [] f = "hann" -> Hann(a)              [] f = "sawtooth" -> Sawtooth(a)
    [] f = "triangle" -> Triangle(a)      [] f = "chirp" -> Chirp(a)
    [] f = "rrc" -> RootRaisedCosine(a)   [] f \in {"marker", "mask"} -> MarkerOf(a)
    [] f = "rand" -> Rand(a)              [] f = "randomGauss" -> RandomGauss(a)
    [] f = "randomUniform" -> RandomUniform(a)
    [] f = "lfsrGaloisMarker" -> LfsrGaloisMarker(a)
    [] f = "placeholder" -> Placed(a)     [] f = "join" -> JoinWaves(a)
    [] f = "interleave" -> Interleaved(a) [] f = "add" -> AddAll(a)
    [] f = "multiply" -> MultiplyAll(a)   [] f = "scale" -> Scale(a)
    [] f = "cut" -> Cut(a)                [] f = "flip" -> Flip(a)
    [] f = "filter" -> FilterWave(a)      [] f = "circshift" -> CircShift(a)
=============================================================================
