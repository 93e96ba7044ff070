------------------------------- MODULE Waves --------------------------------
(***************************************************************************)
(* Waves as values of the lowering: where the built-in functions put the   *)
(* waves they make, when two calls share one, and what the operators and   *)
(* assignments do with them (waveform/waveform_generator.cpp,              *)
(* waveform/wavetable_manager_front.cpp, ast/seqc_ast_eval_arithmetic.cpp, *)
(* ast/seqc_ast_eval_control.cpp).                                         *)
(*                                                                         *)
(* The store lists the waves; a value of type "wave" has the number of one *)
(* for n, or 0 if it names none.  fun and args tell how a wave was made; a *)
(* dirty one has been written to since.                                    *)
(***************************************************************************)
EXTENDS Builtins, Shapes
LOCAL INSTANCE Signals

Wave(f, args, sig) == [fun |-> f, args |-> args, signal |-> sig, dirty |-> FALSE]
WaveValue(k, sub)  == [NoValue EXCEPT !.type = "wave", !.n = k, !.sub = sub]
StringValue        == [NoValue EXCEPT !.type = "string"]
IsWaveValue(v)     == v.type = "wave"
IsArgument(v)      == v.sub = "arg"
NameOf(v)          == IF v.type \in {"wave", "string"} THEN v.n ELSE 0
WaveOf(cs, v)      == cs.waves[v.n]

\* newWaveform, newEmptyWaveform: the new wave is the last one.
NewWave(cs, w) == [cs EXCEPT !.waves = Append(@, w)]
NewEmptyWave(cs) == NewWave(cs, Wave("", <<>>, Track(0)))
LastWave(cs) == Len(cs.waves)

-----------------------------------------------------------------------------
(* Making waves *)

\* An argument as a generator reads it, and as it is remembered: by its name.
Argument(cs, v) ==
  [kind   |-> CASE NameOf(v) # 0 -> "wave"
                [] v.type \in {"wave", "string"} /\ NameOf(v) = 0 -> "string"
                [] OTHER -> v.kind,
   n      |-> v.n,
   signal |-> IF NameOf(v) # 0 THEN WaveOf(cs, v).signal ELSE NoSignal]
Remembered(v) ==
  [kind |-> IF v.type \in {"wave", "string"} THEN "string" ELSE v.kind, n |-> v.n]

\* Mutant: also a wave that was written to.
MadeByEver(cs, f, args) == {k \in DOMAIN cs.waves : cs.waves[k].fun = f /\ cs.waves[k].args = args}
\* getWaveformByFunDescr: a wave that was made in the same way, unless it was
\* written to.
MadeBy(cs, f, args) ==
  {k \in DOMAIN cs.waves : /\ cs.waves[k].fun = f /\ cs.waves[k].args = args
                           /\ ~cs.waves[k].dirty}

\* getOrCreateWaveform: the functions that draw, and placeholders, make a new
\* wave for every call.
NeverShared == {"rand", "randomGauss", "randomUniform", "placeholder"}
GetOrCreate(cs, f, vals, sig) ==
  LET args == [k \in DOMAIN vals |-> Remembered(vals[k])]
      same == IF f \in NeverShared THEN {} ELSE MadeBy(cs, f, args)
  IN  IF same # {}
      THEN Result(cs, WaveValue(CHOOSE k \in same : \A j \in same : k <= j, "default"), <<>>)
      ELSE Allowed(cs, sig # NoSignal,
                   Result(NewWave(cs, Wave(f, args, sig)),
                          WaveValue(Len(cs.waves) + 1, "default"), <<>>))

\* WaveformGenerator::eval.
Make(cs, f, vals) ==
  GetOrCreate(cs, f, vals, Generated(f, [k \in DOMAIN vals |-> Argument(cs, vals[k])]))

\* generateWaveform, generate: in a function that is being defined a parameter
\* stands for any wave, when it comes first.
Generate(cs, f, vals) ==
  CASE vals # <<>> /\ IsVar(vals[1]) /\ IsArgument(vals[1]) -> Result(cs, WaveValue(0, "arg"), <<>>)
    [] vals = <<>> \/ f \notin Generators -> Refused(cs)
    [] OTHER -> Allowed(cs, \A k \in DOMAIN vals : ~IsArgument(vals[k]), Make(cs, f, vals))

-----------------------------------------------------------------------------
(* Arithmetic: numbers become waves as long as the other operand.            *)

\* combineWaveforms, scaleWaveform, constWaveform.
CombineWaves(cs, f, l, r) ==
  CASE IsArgument(l) -> Result(cs, l, <<>>)
    [] IsArgument(r) /\ ~IsArgument(l) -> Result(cs, r, <<>>)
    [] OTHER -> Make(cs, f, <<l, r>>)
ScaleWave(cs, v, by) == IF IsArgument(v) THEN Result(cs, v, <<>>) ELSE Make(cs, "scale", <<v, by>>)
NegateWave(cs, v) == ScaleWave(cs, v, Known("const", "default", "double", -1))
LevelLike(cs, v, n) ==
  Allowed(cs, v.n # 0, Make(cs, "rect", <<Known("const", "default", "int", WaveOf(cs, v).signal.length),
                                          Known("const", "default", "double", n)>>))

\* SeqCPlus: the order of the operands is kept.
AddLevel(level, v, isFirst) ==
  CombineWaves(level.cs, "add", IF isFirst THEN level.val ELSE v, IF isFirst THEN v ELSE level.val)
AddWaves(cs, l, r) ==
  CASE IsWaveValue(l) /\ IsWaveValue(r) -> CombineWaves(cs, "add", l, r)
    [] IsWaveValue(l) /\ IsKnown(r) /\ IsArgument(l) -> Result(cs, l, <<>>)
    [] IsKnown(l) /\ IsWaveValue(r) /\ IsArgument(r) -> Result(cs, r, <<>>)
    [] IsWaveValue(l) /\ IsKnown(r) /\ ~IsArgument(l) -> AddLevel(LevelLike(cs, l, r.n), l, FALSE)
    [] IsKnown(l) /\ IsWaveValue(r) /\ ~IsArgument(r) -> AddLevel(LevelLike(cs, r, l.n), r, TRUE)
    [] OTHER -> Refused(cs)

\* SeqCMinus: what is taken off is scaled by minus one, a number negated.  A
\* parameter has no length to take a number off.
AddNegated(first, negated) == CombineWaves(negated.cs, "add", first, negated.val)
LessWave(level, r) == AddNegated(level.val, NegateWave(level.cs, r))
SubtractWaves(cs, l, r) ==
  CASE IsWaveValue(l) /\ IsWaveValue(r) -> AddNegated(l, NegateWave(cs, r))
    [] IsWaveValue(l) /\ IsKnown(r) -> AddLevel(LevelLike(cs, l, -r.n), l, FALSE)
    [] IsKnown(l) /\ IsWaveValue(r) -> LessWave(LevelLike(cs, r, l.n), r)
    [] OTHER -> Refused(cs)

\* SeqCMult.
MultiplyWaves(cs, l, r) ==
  CASE IsWaveValue(l) /\ IsWaveValue(r) -> CombineWaves(cs, "multiply", l, r)
    [] IsKnown(l) /\ IsWaveValue(r) -> ScaleWave(cs, r, l)
    [] IsWaveValue(l) /\ IsKnown(r) -> ScaleWave(cs, l, r)
    [] OTHER -> Refused(cs)

OfWaves(op, cs, l, r) ==
  CASE op = "+" -> AddWaves(cs, l, r)
    [] op = "-" -> SubtractWaves(cs, l, r)
    [] op = "*" -> MultiplyWaves(cs, l, r)
    [] OTHER    -> Refused(cs)

-----------------------------------------------------------------------------
(* Variables that hold waves *)

\* A declaration makes an empty wave; a parameter names none yet.
AddWave(cs, at, name) ==
  LET made  == NewEmptyWave(cs)
      added == AddVariable(made, at, name, "wave", "default")
  IN  IF added.ok
      THEN Update(added, at, name, [Variable(added, at, name) EXCEPT
                                      !.n = LastWave(made), !.written = TRUE])
      ELSE added

\* updateWave: never under run-time control.
UpdateWave(cs, at, name, k, sub) ==
  IF TypeOf(cs, at, name) # "wave" \/ DependsOnVar(cs, at, name) THEN Refuse(cs)
  ELSE LET seen == Looked(cs, at, name)
       IN  Update(seen, at, name,
             [Variable(seen, at, name) EXCEPT !.n = k, !.sub = sub, !.written = TRUE])

\* SeqCAssign to the name of a wave: the name then stands for the same wave, no
\* copy is made.
AssignWave(cs, at, name, l, r) ==
  CASE IsArgument(l) ->
         LET made == NewEmptyWave(cs)
         IN  Result(UpdateWave(made, at, name, LastWave(made), "default"),
                    WaveValue(LastWave(made), "arg"), <<>>)
    [] ~IsArgument(l) /\ IsArgument(r) ->
         Result(UpdateWave(cs, at, name, 0, "arg"), WaveValue(0, "arg"), <<>>)
    [] ~IsArgument(l) /\ r.type = "none" -> Result(cs, NoValue, <<>>)
    [] OTHER -> Allowed(cs, NameOf(r) # 0,
                        Result(UpdateWave(cs, at, name, r.n, r.sub), WaveValue(r.n, r.sub), <<>>))

\* The elements of a wave: the index stays below the bytes the wave takes in
\* memory; outside of the samples the code reads and writes what is there, which
\* counts as refused.
ElementBound(cs, v) ==
  LET sig    == WaveOf(cs, v).signal
      limit  == Limit[cs.device]
      padded == Greatest(limit.minPlay, -((-sig.length) \div limit.grain) * limit.grain)
  IN  IF sig.length = 0 THEN 0
      ELSE (padded * sig.channels * limit.sampleBits + 7) \div 8
IsElement(cs, v, idx) ==
  /\ idx \in 0 .. ElementBound(cs, v) - 1
  /\ idx \in 0 .. Len(Allocated(WaveOf(cs, v).signal).samples) - 1

\* SeqCArray: the wave gets its samples; the value is one of them.
Element(cs, v, i) ==
  LET all == Allocated(WaveOf(cs, v).signal)
  IN  IF ~IsWaveValue(v) \/ ~IsKnown(i) \/ v.n = 0 THEN Refused(cs)
      ELSE Allowed(cs, IsElement(cs, v, AsInt(i)),
                   Result([cs EXCEPT !.waves[v.n].signal = all],
                          Known("cvar", "default", "double", all.samples[AsInt(i) + 1]), <<>>))

\* SeqCAssign to an element: at once, and for every name of the wave.
WriteElement(cs, v, idx, r) ==
  IF r.kind = "none" THEN Refused(cs)
  ELSE Result([cs EXCEPT !.waves[v.n].signal.samples = Changed(@, idx + 1, r.n),
                         !.waves[v.n].signal.markers = Changed(@, idx + 1, 0),
                         !.waves[v.n].dirty = TRUE], NoValue, <<>>)
=============================================================================
