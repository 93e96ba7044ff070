------------------------------- MODULE Plays --------------------------------
(***************************************************************************)
(* The functions that play waves: how their arguments give waves to the    *)
(* channels of each group, which wave is put together of those of a group, *)
(* and the node of the program tree that plays it                          *)
(* (runtime/custom_functions.cpp, runtime/custom_functions_play.cpp,       *)
(* runtime/custom_functions_playback.cpp).                                 *)
(*                                                                         *)
(* The waves a program makes have one channel; files of waves are left     *)
(* out.                                                                    *)
(***************************************************************************)
EXTENDS Waves
LOCAL INSTANCE FiniteSetsExt
LOCAL Lists == INSTANCE SequencesExt
LOCAL INSTANCE Signals

\* config_: a group has two channels and four auxiliary ones; the code is for
\* the first group.
Width    == 2
AuxWidth == 4
Own      == 1

IsScalar(v) == v.type \in {"var", "const", "cvar"}
IsNamed(v)  == NameOf(v) # 0
IsName(v)   == v.type \in {"wave", "string"}
LengthOf(cs, v) == WaveOf(cs, v).signal.length

-----------------------------------------------------------------------------
(* PlayArgs::parse: which channels of which group each wave is for *)

NoneAssigned(groups) ==
  [ok |-> TRUE, count |-> 0, waves |-> [g \in 1 .. groups |-> <<>>],
   pending |-> [g \in 1 .. groups |-> {}], fresh |-> TRUE]
Failed(pa) == [pa EXCEPT !.ok = FALSE]
Assignment(v, channels) == [value |-> v, bits |-> channels]

\* addChannelWave: channels from 0 on; there are no others.
AddChannelWave(pa, width, v) ==
  LET g == (pa.count \div width) + 1
  IN  IF g \notin DOMAIN pa.waves THEN pa
      ELSE [pa EXCEPT !.waves[g] = Append(@, Assignment(v, {(pa.count % width) + 1}))]

\* parseImplicitChannels: each wave is for the next channel.
ImplicitWave(pa, width, v) ==
  IF ~IsName(v) THEN Failed(pa) ELSE [AddChannelWave(pa, width, v) EXCEPT !.count = @ + 1]

\* parseExplicitChannels: numbers of channels, then their wave.  A number that
\* stands twice shows in the first group only.
ExplicitChannel(pa, width, v) ==
  LET n == AsInt(v)
      g == ((n - 1) \div width) + 1
  IN  CASE IsArgument(v) -> [pa EXCEPT !.fresh = FALSE]
        [] ~IsArgument(v) /\ n \in 1 .. width * Len(pa.waves) ->
             [pa EXCEPT !.ok = @ /\ n \notin pa.pending[g], !.fresh = FALSE,
                        !.pending[g] = @ \cup {((n - 1) % width) + 1}]
        [] OTHER -> Failed(pa)
ExplicitWave(pa, v) ==
  LET given == {g \in DOMAIN pa.waves : pa.pending[g] # {}}
  IN  [pa EXCEPT !.ok = @ /\ (IsArgument(v) \/ IsName(v)), !.fresh = TRUE,
                 !.waves = [g \in DOMAIN @ |-> IF g \in given
                              THEN Append(@[g], Assignment(v, pa.pending[g])) ELSE @[g]],
                 !.pending = [g \in DOMAIN @ |-> {}], !.count = @ + Cardinality(given)]
ExplicitArgument(pa, width, v) ==
  CASE pa.fresh /\ ~IsScalar(v) -> Failed(pa)
    [] v.type = "const"         -> ExplicitChannel(pa, width, v)
    [] OTHER                    -> ExplicitWave(pa, v)

\* What stands behind the last wave is for the caller.
Behind(args) ==
  LET S == {k \in DOMAIN args : IsName(args[k])} IN IF S = {} THEN Len(args) ELSE Max(S)
RestOf(args) == SubSeq(args, Behind(args) + 1, Len(args))
ParsedArgs(cs, width, args) ==
  LET isFirst == IsName(args[1])
      pa == Lists!FoldLeft(LAMBDA p, v : IF isFirst THEN ImplicitWave(p, width, v)
                                   ELSE ExplicitArgument(p, width, v),
                     NoneAssigned(cs.groups), SubSeq(args, 1, Behind(args)))
  IN  [pa EXCEPT !.ok = @ /\ pa.count <= width * cs.groups]
HasMarkedArgument(args) == \E k \in DOMAIN args : IsArgument(args[k])

\* parseOptionalRate, getPlayRate: the auxiliary outputs count from another
\* rate on.
HasRate(rest) == rest = <<>> \/ (Len(rest) = 1 /\ IsKnown(rest[1]))
Rate(rest, isAux) ==
  CASE rest = <<>> -> IF isAux THEN 5 ELSE -1
    [] rest # <<>> -> AsInt(rest[1]) - (IF isAux THEN 2 ELSE 0)
IsParsed(cs, width, args) == args # <<>> /\ ParsedArgs(cs, width, args).ok

\* checkWaveformInitialized, getMaxSampleLength: every wave has been made.
ValuesOf(entries) ==
  SelectSeq([k \in DOMAIN entries |-> entries[k].value], LAMBDA v : v.type # "const")
GivenWaves(pa) ==
  UNION {{v \in Lists!Range(ValuesOf(pa.waves[g])) : IsNamed(v)} : g \in DOMAIN pa.waves}
AreMade(cs, pa) == \A v \in GivenWaves(pa) : WaveOf(cs, v).fun # ""
MaxSampleLength(cs, pa) == Max({0} \cup {LengthOf(cs, v) : v \in GivenWaves(pa)})

\* The channels each of the waves is for, by its place among them.
RoutesOf(entries) ==
  {<<k, b>> \in (DOMAIN entries) \X (1 .. AuxWidth) :
     IsNamed(entries[k].value) /\ b \in entries[k].bits}

-----------------------------------------------------------------------------
(* mergeWaveforms *)

\* One wave is played as it is; several are merged into one, or interleaved for
\* the auxiliary outputs.  A group that is not our own only finds what was
\* merged before: it takes the second wave for a length.
MergeNamed(cs, f, vals, isOwn) ==
  LET args == [k \in DOMAIN vals |-> Argument(cs, vals[k])]
      known == MadeBy(cs, f, [k \in DOMAIN vals |-> Remembered(vals[k])])
  IN  Allowed(cs, isOwn \/ known # {},
              GetOrCreate(cs, f, vals, IF f = "playWaveI" THEN Interleaved(args) ELSE Merge(args)))
OfChannels(X, width) ==
  Allowed(X.cs, X.cs.ok /\ WaveOf(X.cs, X.val).signal.channels <= width, X)
MergeWaveforms(cs, f, vals, width, wanted, isOwn) ==
  LET named   == SelectSeq(vals, IsNamed)
      longest == Max({0} \cup {LengthOf(cs, v) : v \in Lists!Range(named)})
      length  == Known("const", "default", "int", IF wanted > longest THEN wanted ELSE 0)
  IN  Allowed(cs, named # <<>>,
              OfChannels(IF Len(named) = 1 THEN Result(cs, WaveValue(named[1].n, "default"), <<>>)
                         ELSE MergeNamed(cs, f, Append(named, length), isOwn), width))

\* The value of the result is the wave of our own group.
OfGroup(X, M, g) == [X EXCEPT !.cs = M.cs, !.val = IF g = Own THEN M.val ELSE @]
MergeGroup(X, pa, g) ==
  LET vals == ValuesOf(pa.waves[g])
  IN  IF ~X.cs.ok \/ vals = <<>> THEN X
      ELSE OfGroup(X, MergeWaveforms(X.cs, "playWave", vals, Width, MaxSampleLength(X.cs, pa), g = Own), g)
MergeGroups(cs, pa) ==
  Lists!FoldLeft(LAMBDA X, g : MergeGroup(X, pa, g), Result(cs, NoValue, <<>>),
           [g \in 1 .. cs.groups |-> g])

-----------------------------------------------------------------------------
(* The nodes that play: asmPlay, asmRate, asmSetPrecompFlags, asmPrefetch *)

PlayTypes == {"play", "zero", "rate", "precomp"}

\* The wave v with a rate of its own, how it is played, a number and a register
\* with a place or a length.
PlayNode(v, rate, routes, how, num, reg) ==
  [TreeNode("play", 0) EXCEPT !.wave = NameOf(v), !.setting = rate, !.routes = routes,
                              !.how = how, !.num = num, !.reg = reg]
WithNode(X, node) ==
  [Result(NewEntry(X.cs), Void, X.asm \o Placeholder(X.cs.entries))
     EXCEPT !.tree = <<[node EXCEPT !.id = X.cs.entries]>>]

\* play: for prefetch, playWave, playWaveNow and playWaveDigTrigger.
MergedPlay(X, name, rate, routes, trigger) ==
  LET found == IsNamed(X.val)
      how   == IF name = "playWaveNow" THEN {"now"} ELSE {}
  IN  CASE ~X.cs.ok -> Refused(X.cs)
        [] /\ X.cs.ok /\ found /\ name = "playWaveDigTrigger"
           /\ LengthOf(X.cs, X.val) < Limit[X.cs.device].trigMin -> Refused(X.cs)
        [] X.cs.ok /\ ~found /\ (X.cs.device \notin Hirzel \/ name = "prefetch") ->
             Result(X.cs, Void, <<>>)
        [] X.cs.ok /\ found /\ name = "prefetch" -> WithNode(X, TreeNode("load", 0))
        [] OTHER -> WithNode(X, PlayNode(X.val, rate, routes, how, trigger, 0))
PlayMerged(cs, pa, name, rest, trigger) ==
  Allowed(cs, AreMade(cs, pa),
          MergedPlay(MergeGroups(cs, pa), name, Rate(rest, FALSE), RoutesOf(pa.waves[Own]), trigger))
Play(cs, name, given) ==
  LET onTrigger == name = "playWaveDigTrigger"
      args      == IF onTrigger THEN Tail(given) ELSE given
      trigger   == IF onTrigger THEN AsInt(given[1]) ELSE 0
  IN  Allowed(cs, /\ given # <<>>
                  /\ onTrigger => given[1].type = "const" /\ trigger >= 3
                  /\ IsParsed(cs, Width, args) /\ HasRate(RestOf(args)),
              IF HasMarkedArgument(args) THEN Emitted(cs, 0, <<>>)
              ELSE PlayMerged(cs, ParsedArgs(cs, Width, args), name, RestOf(args), trigger))

\* playIndexed: a part of the wave, from a place that may be known late.  For
\* the auxiliary outputs it merges no wave at all, and fails.
PartMerged(cs, entries) ==
  LET zeros == Make(cs, "zeros", <<Known("const", "default", "int", LengthOf(cs, entries[1].value))>>)
  IN  MergeWaveforms(zeros.cs, "playWave", ValuesOf(entries), AuxWidth, 0, TRUE)
PlaceLoaded(X, from) ==
  IF IsVar(from) THEN X
  ELSE Result(NewEntry(NewRegister(X.cs)), X.val, Load(X.cs.regs, from.n) \o Placeholder(X.cs.entries))
PartPlay(X, how, rate, routes, from, length) ==
  Allowed(X.cs, X.cs.ok /\ length <= LengthOf(X.cs, X.val),
          WithNode(PlaceLoaded(X, from),
                   PlayNode(X.val, rate, routes, how, length, IF IsVar(from) THEN from.reg ELSE X.cs.regs)))
IndexedPlay(cs, name, entries, from, length, rest) ==
  LET how == IF name = "playWaveIndexedNow" THEN {"now", "part"} ELSE {"part"}
  IN  Allowed(cs, entries # <<>> /\ IsNamed(entries[1].value) /\ ~IsArgument(entries[1].value),
              PartPlay(PartMerged(cs, entries), how, Rate(rest, FALSE), RoutesOf(entries), from, AsInt(length)))
PlayIndexed(cs, name, args) ==
  LET isAux == name = "playAuxWaveIndexed"
      width == IF isAux THEN AuxWidth ELSE Width
      rest  == RestOf(args)
      rates == SubSeq(rest, 3, Len(rest))
  IN  Allowed(cs, /\ Len(args) >= 3 /\ IsParsed(cs, width, args)
                  /\ Len(rest) >= 2 /\ IsScalar(rest[1]) /\ IsKnown(rest[2]) /\ HasRate(rates)
                  /\ isAux => Rate(rates, TRUE) >= 5,
              CASE AsInt(rest[2]) = 0 -> Emitted(cs, 0, <<>>)
                [] AsInt(rest[2]) # 0 /\ isAux -> Refused(cs)
                [] AsInt(rest[2]) # 0 /\ ~isAux ->
                     IndexedPlay(cs, name, ParsedArgs(cs, width, args).waves[Own], rest[1], rest[2], rates))

\* playAuxWave: the four outputs in one stream, zeros where there is no wave.
\* Several waves for one output count as if they filled others.
AuxSlots(entries, zeros) ==
  [b \in 1 .. AuxWidth |->
     LET S == {k \in DOMAIN entries : b \in entries[k].bits}
     IN  IF S = {} THEN zeros ELSE entries[Max(S)].value]
MergedAux(begun, entries, rate) ==
  MergeWaveforms(begun.cs, "playWaveI", AuxSlots(entries, begun.val), AuxWidth, rate, TRUE)
MergedPlays(X, rate, routes, how, num) ==
  Allowed(X.cs, X.cs.ok, WithNode(X, PlayNode(X.val, rate, routes, how, num, 0)))
AuxPlay(cs, entries, rate) ==
  LET filled  == Lists!FoldLeft(LAMBDA n, e : n + Cardinality(e.bits), 0, entries)
      isFull  == \A b \in 1 .. AuxWidth : \E k \in DOMAIN entries : b \in entries[k].bits
      length  == Known("const", "default", "int", LengthOf(cs, entries[1].value))
      begun   == IF filled = AuxWidth THEN Result(cs, NoValue, <<>>) ELSE Make(cs, "zeros", <<length>>)
  IN  Allowed(cs, filled = AuxWidth => isFull,
              MergedPlays(MergedAux(begun, entries, rate), rate, {<<1, b>> : b \in 3 .. 6}, {"aux"}, 0))
PlayAuxWave(cs, args) ==
  LET pa      == ParsedArgs(cs, AuxWidth, args)
      entries == pa.waves[Own]
      rate    == Rate(RestOf(args), TRUE)
  IN  Allowed(cs, IsParsed(cs, AuxWidth, args) /\ HasRate(RestOf(args)) /\ rate > 4,
              CASE HasMarkedArgument(args) \/ entries = <<>> -> Emitted(cs, 0, <<>>)
                [] OTHER -> Allowed(cs, \A k \in DOMAIN entries : /\ IsNamed(entries[k].value)
                                                                 /\ WaveOf(cs, entries[k].value).fun # "",
                                    AuxPlay(cs, entries, rate)))

\* playDIOWave: the rate counts as a length to merge to.
DIOPlay(cs, pa, rate) ==
  LET entries == pa.waves[Own]
      routes  == IF \E k \in DOMAIN entries : 1 \in entries[k].bits THEN {<<2, 7>>} ELSE {}
  IN  IF entries = <<>> THEN Emitted(cs, 0, <<>>)
      ELSE MergedPlays(MergeWaveforms(cs, "playWave", ValuesOf(entries), Width, rate, TRUE),
                       rate, routes, {"dio"}, MaxSampleLength(cs, pa))
PlayDIOWave(cs, args) ==
  LET pa   == ParsedArgs(cs, Width, args)
      rate == Rate(RestOf(args), FALSE)
  IN  Allowed(cs, IsParsed(cs, Width, args) /\ HasRate(RestOf(args)) /\ rate > 1,
              IF HasMarkedArgument(args) THEN Emitted(cs, 0, <<>>)
              ELSE Allowed(cs, AreMade(cs, pa), DIOPlay(cs, pa, rate)))

\* playWaveDIO, playWaveZSync: an entry of the command table that comes from
\* the outside world.
PlayWaveDIO(cs, args) ==
  Allowed(cs, args = <<>>, PlaysEntry(cs, R0, 2^Limit[cs.device].tableBits))
PlayWaveZSync(cs, args) ==
  LET source == TableSource(cs, args[1])
  IN  Allowed(cs, /\ Len(args) = 1 /\ args[1].type = "const"
                  /\ cs.device \notin LIFamily /\ source # -1,
              PlaysEntry(cs, R0, source * 2^Limit[cs.device].tableBits))

\* setRate, setPrecompClear, playZero, playHold; checkPlayMinLength and
\* checkPlayAlignment: only zeros are made as long as a play has to be.
Setting(cs, type, args) ==
  LET n == AsInt(args[1])
      X == WithNode(Result(cs, NoValue, <<>>),
                  [TreeNode(type, 0) EXCEPT !.setting = IF type = "rate" THEN n ELSE Bool(n # 0)])
  IN  Allowed(cs, Len(args) = 1 /\ IsKnown(args[1]),
              IF type = "rate" THEN [X EXCEPT !.val = NoValue] ELSE X)
AlignedLength(cs, n) ==
  LET grain == Limit[cs.device].grain
  IN  IF n % grain = 0 THEN n ELSE (n \div grain + 1) * grain
IdleLength(cs, name, n) ==
  AlignedLength(cs, IF name = "playZero" THEN Greatest(n, Limit[cs.device].minPlay) ELSE n)
PlayIdle(cs, name, args) ==
  LET rest == Tail(args)
      how  == IF name = "playHold" THEN {"hold"} ELSE {}
      v    == args[1]
      node == [PlayNode(NoValue, Rate(rest, FALSE), {}, how,
                        IF IsVar(v) THEN 0 ELSE IdleLength(cs, name, AsInt(v)),
                        IF IsVar(v) THEN v.reg ELSE 0) EXCEPT !.type = "zero"]
  IN  Allowed(cs, Len(args) \in 1 .. 2 /\ IsScalar(v) /\ HasRate(rest),
              WithNode(Result(cs, NoValue, <<>>), node))

-----------------------------------------------------------------------------
(* CustomFunctions::call: the rest of the functions *)

Playing(name, cs, args) ==
  CASE name \in {"prefetch", "playWave", "playWaveNow", "playWaveDigTrigger"} -> Play(cs, name, args)
    [] name \in {"playWaveIndexed", "playWaveIndexedNow", "playAuxWaveIndexed"} ->
         PlayIndexed(cs, name, args)
    [] name = "playAuxWave"     -> PlayAuxWave(cs, args)
    [] name = "playDIOWave"     -> PlayDIOWave(cs, args)
    [] name = "playWaveDIO"     -> PlayWaveDIO(cs, args)
    [] name = "playWaveZSync"   -> PlayWaveZSync(cs, args)
    [] name = "setRate"         -> Setting(cs, "rate", args)
    [] name = "setPrecompClear" -> Setting(cs, "precomp", args)
    [] name \in {"playZero", "playHold"} -> PlayIdle(cs, name, args)

Called(name, cs, args) ==
  CASE name \in DOMAIN PlayedBy ->
         LET begun == Prepared(name, cs)
         IN  Allowed(begun, begun.ok /\ cs.device \in PlayedBy[name], Playing(name, begun, args))
    [] name \in DOMAIN SupportedBy -> BuiltIn(name, cs, args)
    [] OTHER -> Generate(cs, name, args)
=============================================================================
