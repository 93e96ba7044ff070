------------------------------ MODULE Builtins ------------------------------
(***************************************************************************)
(* The built-in functions: what each of them makes of its evaluated        *)
(* arguments on each instrument, with the registers it takes, the          *)
(* instructions it leaves and the value it is worth                        *)
(* (runtime/custom_functions_registers.cpp, _wait.cpp, _dio.cpp,           *)
(* _playback.cpp).  Every error message refuses the program.               *)
(*                                                                         *)
(* The store knows the device, its groups of channels, and latch, the      *)
(* trigger source that the program has settled on.                         *)
(***************************************************************************)
EXTENDS Conditions, Devices
LOCAL INSTANCE Bitwise

-----------------------------------------------------------------------------
(* Code and results *)

Store(r, a) == <<I("ST", NoReg, r, NoReg, a)>>
Fetch(r, a) == <<I("LD", r, NoReg, NoReg, a)>>
StoreNumber(r, n, a) == Load(r, n) \o Store(r, a)
Trap == <<I("TRAP", NoReg, NoReg, NoReg, 0)>>

\* WTRIG waits until the triggers of its two registers agree.
Awaits(r, s) == <<I("WTRIG", NoReg, s, r, 0)>>
AwaitMask(r, mask) == Load(r, mask) \o Awaits(r, r)

Void == [NoValue EXCEPT !.type = "void"]

\* The code takes n fresh registers; the value is nothing, void or the first.
Taking(cs, n) == [cs EXCEPT !.regs = @ + n]
Silent(cs, n, asm)   == Result(Taking(cs, n), NoValue, asm)
Emitted(cs, n, asm)  == Result(Taking(cs, n), Void, asm)
Answered(cs, n, asm) == Result(Taking(cs, n), Held(cs.regs, "default"), asm)
Allowed(cs, cond, X) == IF cond THEN X ELSE Refused(cs)
Before(asm, X) == [X EXCEPT !.asm = asm \o @]

IsValue(v) == IsVar(v) \/ IsKnown(v)
AsInt(v) == Signed(v.n)
AllKnown(args) == \A k \in DOMAIN args : IsKnown(args[k])
NoneVar(args)  == \A k \in DOMAIN args : ~IsVar(args[k])
IsNumber(args, S) == Len(args) = 1 /\ IsKnown(args[1]) /\ AsInt(args[1]) \in S
Optional(args, k, otherwise) == IF k \in DOMAIN args THEN AsInt(args[k]) ELSE otherwise

\* The bits of n from bit b of a word on.
Field(n, b) == IF b >= WordBits THEN 0 ELSE (n % 2^(WordBits - b)) * 2^b

\* One value for one address, from its register or a fresh one.
StoreValue(cs, v, a) ==
  CASE IsVar(v)   -> Emitted(cs, 0, Store(v.reg, a))
    [] IsKnown(v) -> Emitted(cs, 1, StoreNumber(cs.regs, v.n, a))
    [] OTHER      -> Refused(cs)
StoreOnly(cs, args, a) == Allowed(cs, Len(args) = 1, StoreValue(cs, args[1], a))
ReadFrom(cs, a) == Answered(cs, 1, Fetch(cs.regs, a))

\* addSyncCommand: with several groups of channels they go on together.
AddSync(X) ==
  CASE X.cs.device = "HDAWG" -> [X EXCEPT !.asm = @ \o Store(R0, Address.sync)]
    [] X.cs.device = "UHFLI" ->
         [X EXCEPT !.cs = NewEntry(@), !.asm = @ \o Placeholder(X.cs.entries),
                   !.tree = <<TreeNode("sync", X.cs.entries)>>]
    [] OTHER -> X
Synced(X) == IF X.cs.groups >= 2 THEN AddSync(X) ELSE X

\* addWaitCycles.
WaitCycles(r, n) == StoreNumber(r, n, Address.waitCycles)

\* setWaitCyclesReg: the second argument, if there are two.
SetsWait(cs, args) == cs.device \notin Cervino /\ Len(args) = 2
WaitReg(cs, args) ==
  IF ~SetsWait(cs, args) THEN Emitted(cs, 0, <<>>)
  ELSE IF IsVar(args[2]) THEN Emitted(cs, 0, Store(args[2].reg, Address.waitLegacy))
  ELSE Emitted(cs, 1, StoreNumber(cs.regs, args[2].n, Address.waitLegacy))
\* The code of W, then what F leaves.
After(W, F) == Before(W.asm, F)

-----------------------------------------------------------------------------
(* User registers *)

IsUserRegister(cs, v) == AsInt(v) \in 0 .. Limit[cs.device].memoryDepth - 1

SetUserReg(cs, args) ==
  LET r    == cs.regs
      v    == args[2]
      idx  == AsInt(args[1])
      own  == IF IsVar(v) THEN Store(v.reg, idx) ELSE StoreNumber(r, v.n, idx)
      node == StoreNumber(r, 11, Address.nodeTag) \o StoreNumber(r, idx, Address.nodeAddr)
      isHD == cs.device = "HDAWG"
      shake == IF isHD THEN Fetch(r + 1, 0) \o Store(r + 1, 0) ELSE <<>>
  IN  Allowed(cs, /\ Len(args) = 2 /\ IsKnown(args[1]) /\ IsValue(v)
                  /\ IsUserRegister(cs, args[1]) \/ args[1].sub = "arg",
              Synced(Emitted(cs, IF isHD THEN 2 ELSE 1, own \o node \o shake \o Trap)))

GetUserReg(cs, args) ==
  LET r     == cs.regs
      isHD  == cs.device = "HDAWG"
      delay == IF isHD THEN WaitCycles(r + 1, Limit[cs.device].divider) ELSE <<>>
  IN  Allowed(cs, Len(args) = 1 /\ IsKnown(args[1]) /\ IsUserRegister(cs, args[1]),
              Synced(Answered(cs, IF isHD THEN 2 ELSE 1, Fetch(r, AsInt(args[1])) \o delay)))

GetSweeperLength(cs, args) == Allowed(cs, IsNumber(args, {1}), ReadFrom(cs, Address.sweepCount))

GetCnt(cs, args) ==
  Allowed(cs, Len(args) = 1 /\ IsKnown(args[1]) /\ AsInt(args[1]) < Limit[cs.device].counters,
          ReadFrom(cs, Address.counter + AsInt(args[1])))

-----------------------------------------------------------------------------
(* Triggers *)

\* The bits of a mask in the trigger register, as they are or as a flag.
Masked(r, mask) == Load(r + 1, mask) \o Fetch(r, Address.trigger) \o Twice("ANDR", r, r + 1)
GetTrigger(cs, args) ==
  Allowed(cs, Len(args) = 1 /\ AllKnown(args), Answered(cs, 2, Masked(cs.regs, args[1].n)))
IsTriggered(cs, mask) ==
  Answered(NewLabel(cs), 2, Masked(cs.regs, mask) \o Branch("BRZ", cs.regs, cs.labels)
                              \o Load(cs.regs, 1) \o Label(cs.labels))
GetAnaTrigger(cs, args) ==
  Allowed(cs, IsNumber(args, 1 .. 2), IsTriggered(cs, TriggerMask[Trigger.ana1 + AsInt(args[1]) - 1]))
\* A trigger beyond the second has no constant, and is never set.
GetDigTrigger(cs, args) ==
  LET n == AsInt(args[1])
  IN  Allowed(cs, IsNumber(args, IF cs.device = "HDAWG" THEN 1 .. 8 ELSE 1 .. 2),
              IsTriggered(cs, IF n <= 2 THEN TriggerMask[Trigger.dig1 + n - 1] ELSE 0))

\* at: a number for the log of the instrument, at a trigger of time.
At(cs, args) ==
  LET X == StoreValue(cs, args[1], Address.loggerData)
  IN  Allowed(cs, Len(args) = 1 /\ IsValue(args[1]),
              After(X, Silent(X.cs, 1, AwaitMask(X.cs.regs, TriggerMask[Trigger.time]))))
ResetRTLoggerTimestamp(cs, args) ==
  Allowed(cs, args = <<>>, Emitted(cs, 0, Store(R0, LoggerReset(cs.device))))

-----------------------------------------------------------------------------
(* Quantum analyzers *)

AllIntegrations(d) == IF d = "SHFQA" THEN 65535 ELSE 1023

WaitQAResultTrigger(cs, args) ==
  Allowed(cs, args = <<>>, Emitted(cs, 1, AwaitMask(cs.regs, TriggerMask[Trigger.demod2])))
GetQAResult(cs, args) == Allowed(cs, args = <<>>, ReadFrom(cs, Address.qaResult))

\* A request, and its end: the same number without the bits that start it.
Strobe(cs, bits, n) ==
  Emitted(cs, 1, StoreNumber(cs.regs, bits + n, Address.trigger)
                   \o StoreNumber(cs.regs, n, Address.trigger))
StartQAResult(cs, args) ==
  Allowed(cs, Len(args) <= 2 /\ AllKnown(args),
          Strobe(cs, Field(Optional(args, 1, AllIntegrations(cs.device)), 16) + 16,
                 Optional(args, 2, 0)))
StartQAMonitor(cs, args) ==
  Allowed(cs, Len(args) <= 1 /\ AllKnown(args), Strobe(cs, 32, Optional(args, 1, 0)))

\* startQA: the weights on an SHFQA only, then the integrations, the monitor,
\* the length of the result and its address.
StartSHF(cs, weights, units, monitor, shift, addr) ==
  Emitted(cs, 2,
    StoreNumber(cs.regs, Field(addr, 24) | Word(weights), Address.qaWeights)
      \o StoreNumber(cs.regs + 1,
           Field(shift, 22) | Word(units) | Field(monitor, 31) | Field(Bool(units # 0), 30),
           Address.qaTrigger))
StartUHF(cs, units, monitor, shift, addr) ==
  Emitted(cs, 2,
    StoreNumber(cs.regs, shift, IdAddress("UHFQA"))
      \o StoreNumber(cs.regs,
           Field(units, 16) | Field(Bool(units # 0), 4) | Field(Bool(monitor # 0), 5) | Word(addr),
           Address.trigger)
      \o StoreNumber(cs.regs + 1, addr, Address.trigger))

Within(n, all) == n \in 0 .. all /\ (n & all) = n
StartQA(cs, args) ==
  LET isSHF   == cs.device = "SHFQA"
      first   == IF isSHF THEN 2 ELSE 1
      all     == AllIntegrations(cs.device)
      weights == Optional(args, 1, 0)
      units   == Optional(args, first, all)
      monitor == Optional(args, first + 1, 0)
      shift   == Optional(args, first + 2, 0)
      addr    == Optional(args, first + 3, 0)
  IN  Allowed(cs, /\ Len(args) <= first + 3 /\ AllKnown(args)
                  /\ isSHF => Within(weights, all)
                  /\ Within(units, all) /\ shift < 32 /\ addr < 256,
              IF isSHF THEN StartSHF(cs, weights, units, monitor, shift, addr)
              ELSE StartUHF(cs, units, monitor, shift, addr))

-----------------------------------------------------------------------------
(* The command table, random numbers, feedback *)

PlaysEntry(cs, r, imm) == Emitted(cs, 0, <<I("WVFET", NoReg, r, NoReg, imm)>>)

\* A literal that names a source has the index come from there; the sources
\* have no name on the lock-in instruments.
TableSource(cs, v) ==
  LET base == RawSource(cs.device)
  IN  CASE v.type # "const"        -> -1
        [] AsInt(v) = base         -> 1
        [] AsInt(v) = base + 1     -> 9
        [] AsInt(v) = base + 2     -> 13
        [] OTHER                   -> -1
TableEntry(cs, v) ==
  LET bits   == Limit[cs.device].tableBits
      source == TableSource(cs, v)
  IN  CASE v.type = "const" /\ cs.device \in LIFamily -> Refused(cs)
        [] v.type = "const" /\ source # -1 -> PlaysEntry(cs, R0, source * 2^bits)
        [] IsVar(v) -> PlaysEntry(cs, v.reg, 2^(bits + 1))
        [] OTHER -> Allowed(cs, IsKnown(v) /\ AsInt(v) \in 0 .. 2^bits - 1,
                            PlaysEntry(cs, R0, AsInt(v)))
ExecuteTableEntry(cs, args) ==
  LET W == WaitReg(cs, args)
  IN  Allowed(cs, args # <<>>, After(W, TableEntry(W.cs, args[1])))

SetPRNGSeed(cs, args) ==
  CASE Len(args) # 1 -> Refused(cs)
    [] Len(args) = 1 /\ IsValue(args[1]) ->
         Allowed(cs, IsKnown(args[1]) => args[1].n > 0, StoreValue(cs, args[1], Address.seed))
    [] OTHER -> Emitted(cs, 0, <<>>)
GetPRNGValue(cs, args) == Allowed(cs, args = <<>>, ReadFrom(cs, Address.random))
SetPRNGRange(cs, args) ==
  LET low  == AsInt(args[1])
      high == AsInt(args[2])
  IN  Allowed(cs, Len(args) = 2 /\ 0 <= low /\ low <= high /\ high < 65535,
              Emitted(cs, 1, StoreNumber(cs.regs, low, Address.rangeLow)
                               \o StoreNumber(cs.regs, high - low + 1, Address.rangeSpan)))

FeedbackMode(d, source) ==
  LET base == 2^Limit[d].tableBits
  IN  CASE source = base + 1 -> 0
        [] source = base + 2 -> 1
        [] source = base + 4 /\ d = "SHFQC_SG" -> 2
        [] OTHER -> -1
ConfigureFeedback(cs, args) ==
  LET mode  == FeedbackMode(cs.device, AsInt(args[1]))
      shift == AsInt(args[2])
      bits  == AsInt(args[3])
      above == AsInt(args[4])
  IN  Allowed(cs, /\ Len(args) = 4 /\ NoneVar(Tail(args)) /\ mode # -1
                  /\ shift \in 0 .. 31 /\ bits \in 1 .. 16 /\ above \in 0 .. 4095,
              Emitted(cs, 0, <<I("FB", NoReg, NoReg, NoReg,
                                 mode * 2^21 + shift * 2^16 + (bits - 1) * 2^12 + above)>>))

-----------------------------------------------------------------------------
(* Oscillators: frequencies, sweeps and phases *)

\* toFrequency and writeLS64bit: two words, the low one first.
Frequency(r, n, low, high) ==
  StoreNumber(r, (n * FrequencyUnit) % WordSize, low)
    \o StoreNumber(r, (n * FrequencyUnit) \div WordSize, high)
IsOscillator(cs, v) == AsInt(v) \in 0 .. Limit[cs.device].oscillators - 1

ConfigFreqSweep(cs, args) ==
  LET r == cs.regs
  IN  Allowed(cs, Len(args) = 3 /\ NoneVar(args) /\ IsOscillator(cs, args[1]),
              Emitted(cs, 4, Frequency(r, args[2].n, Address.startLow, Address.startHigh)
                               \o Frequency(r + 1, args[3].n, Address.stepLow, Address.stepHigh)
                               \o StoreNumber(r + 2, args[1].n, Address.sweepIndex)
                               \o WaitCycles(r + 3, 10)))
\* It is worth the number of the oscillator.
SetSweepStep(cs, args) ==
  LET v == args[2]
      X == IF IsValue(v) THEN StoreValue(cs, v, Address.sweepControl) ELSE Emitted(cs, 0, <<>>)
      r == X.cs.regs
  IN  Allowed(cs, /\ Len(args) = 2 /\ ~IsVar(args[1]) /\ IsOscillator(cs, args[1])
                  /\ IsKnown(v) => v.n >= 0,
              After(X, Answered(X.cs, 2, StoreNumber(r, args[1].n, Address.sweepIndex)
                                           \o WaitCycles(r + 1, 10))))
SetOscFreq(cs, args) ==
  LET r == cs.regs
  IN  Allowed(cs, Len(args) = 2 /\ NoneVar(args) /\ IsOscillator(cs, args[1]),
              Emitted(cs, 4, StoreNumber(r, 0, Address.sweepControl)
                               \o Frequency(r + 1, args[2].n, Address.startLow, Address.startHigh)
                               \o StoreNumber(r + 2, args[1].n, Address.sweepIndex)
                               \o WaitCycles(r + 3, 10)))

\* toPhase: 360 degrees are the PhaseBits of a word with a sign; half a turn
\* is positive.
HalfTurn == 2^(PhaseBits - 1)
Wrapped(n) ==
  CASE n = HalfTurn                   -> HalfTurn
    [] n # HalfTurn /\ (n \div HalfTurn) % 2 = 1 -> (n % HalfTurn) - HalfTurn
    [] OTHER                          -> n % HalfTurn
Phase(degrees) == Wrapped((4 * HalfTurn * degrees + 360) \div 720)

\* resetOscPhase: on an HDAWG it writes a node of the device tree, which is
\* left out.
ResetOscPhase(cs, args) ==
  LET r     == cs.regs
      limit == Limit[cs.device]
      mask  == IF args = <<>> THEN 2^limit.oscillators - 1 ELSE AsInt(args[1])
      a     == IF cs.device = "SHFQA" THEN Address.qaOscReset ELSE Address.qaWeights
      delay == IF limit.cores > 0 THEN WaitCycles(r + 1, limit.cores) ELSE <<>>
  IN  IF cs.device = "UHFQA"
      THEN Allowed(cs, args = <<>>,
                   Silent(cs, 1, StoreNumber(r, 1, Address.oscReset) \o Store(R0, Address.oscReset)))
      ELSE Allowed(cs, args = <<>> \/ IsNumber(args, 0 .. 2^limit.oscillators - 1),
                   Silent(cs, IF limit.cores > 0 THEN 2 ELSE 1, StoreNumber(r, mask, a) \o delay))

\* setSinePhase and incrementSinePhase; a lock-in instrument does nothing.
SetPhase(cs, args, base) ==
  CASE cs.device = "HDAWG" ->
         Allowed(cs, Len(args) = 2 /\ AllKnown(args) /\ AsInt(args[1]) \in 0 .. 1,
                 Emitted(cs, 1, StoreNumber(cs.regs, Phase(args[2].n), base + AsInt(args[1]))))
    [] cs.device \in SHFGen ->
         Allowed(cs, Len(args) = 1 /\ AllKnown(args),
                 Emitted(cs, 1, StoreNumber(cs.regs, Phase(args[1].n), base)))
    [] OTHER -> Emitted(cs, 0, <<>>)

-----------------------------------------------------------------------------
(* Waits: on the Cervino instruments for a mask in a register, on the others *)
(* by a store to the place of the trigger.                                   *)

AwaitIndex(cs, n) == Emitted(cs, 0, Store(R0, Address.indexWait + n))
AwaitConstant(cs, n) == Emitted(cs, 1, AwaitMask(cs.regs, TriggerMask[n]))
WaitTrigger == TriggerMask[Trigger.wait]

\* A number up to the latency of the wait itself takes as many idle cycles.
Idle(n) == [k \in 1 .. n |-> I("NOP", NoReg, NoReg, NoReg, 0)]
WaitOnTimer(cs, v) ==
  LET r == cs.regs
  IN  CASE IsVar(v) ->
             Emitted(cs, 1, Load(r, WaitTrigger) \o Store(v.reg, Address.triggerLoad)
                              \o Awaits(r, r))
        [] IsKnown(v) /\ v.n <= Latency -> Emitted(cs, 0, Idle(v.n))
        [] OTHER ->
             Emitted(cs, 2, Load(r, WaitTrigger)
                              \o StoreNumber(r + 1, v.n - Latency, Address.triggerLoad)
                              \o Awaits(r, r))
WaitFor(cs, args) ==
  LET v == args[1]
  IN  Allowed(cs, Len(args) = 1 /\ IsValue(v) /\ (IsKnown(v) => v.n >= 0),
              IF cs.device \in Cervino THEN WaitOnTimer(cs, v)
              ELSE StoreValue(cs, v, Address.waitCycles))

WaitForTrigger(cs, args) ==
  LET r    == cs.regs
      same == AsInt(args[1]) = AsInt(args[2])
  IN  Allowed(cs, Len(args) = 2 /\ AllKnown(args),
              IF same THEN Emitted(cs, 1, AwaitMask(r, args[1].n))
              ELSE Emitted(cs, 2, Load(r, args[1].n) \o Load(r + 1, args[2].n) \o Awaits(r, r + 1)))

\* The second argument is taken for the trigger word itself.
WaitAnaTrigger(cs, args) ==
  LET r == cs.regs
  IN  Allowed(cs, Len(args) = 2 /\ AllKnown(args) /\ AsInt(args[1]) \in 1 .. 2,
              Emitted(cs, 2, Load(r, TriggerMask[Trigger.ana1 + AsInt(args[1]) - 1])
                               \o Load(r + 1, args[2].n) \o Awaits(r, r + 1)))
WaitDigTrigger(cs, args) ==
  LET r == cs.regs
      n == Trigger.dig1 + AsInt(args[1]) - 1
  IN  IF cs.device \notin Cervino
      THEN Allowed(cs, IsNumber(args, 1 .. 2), AwaitIndex(cs, n))
      ELSE Allowed(cs, Len(args) = 2 /\ AllKnown(args) /\ AsInt(args[1]) \in 1 .. 2,
                   Emitted(cs, 1, Load(r, TriggerMask[n])
                                    \o Awaits(r, IF args[2].n # 0 THEN r ELSE R0)))

\* checkExternalTriggeringMode: the first source a program uses is its only one.
Latched(cs, mode) == Require(cs.latch \in {"none", mode}, [cs EXCEPT !.latch = mode])

WaitDIOTrigger(cs, args) ==
  Allowed(cs, args = <<>>, IF cs.device \in Cervino THEN AwaitConstant(cs, Trigger.map)
                           ELSE AwaitIndex(cs, Trigger.map))
WaitZSyncTrigger(cs, args) ==
  Allowed(cs, args = <<>>,
          CASE cs.device \in Cervino -> AwaitConstant(cs, Trigger.map)
            [] cs.device \in {"SHFQA"} \cup SHFGen -> AwaitIndex(cs, Trigger.zsync)
            [] OTHER -> AwaitIndex(cs, Trigger.map))
WaitCntTrigger(cs, args) ==
  Allowed(cs, IsNumber(args, 0 .. 1), AwaitIndex(cs, Trigger.cnt0 + AsInt(args[1])))
WaitOnGrid(cs, args) == Allowed(cs, args = <<>>, AwaitIndex(cs, Trigger.grid))
WaitOnSync(cs, args) == Allowed(cs, args = <<>>, Emitted(cs, 0, Store(R0, Address.waitOnSync)))
WaitTimestamp(cs, args) == Silent(cs, 0, Store(R0, Address.timestamp))

WaitDemodOscPhase(cs, args) ==
  Allowed(cs, Len(args) \in 1 .. 2 /\ IsNumber(<<args[1]>>, 1 .. 8),
          AwaitConstant(cs, Trigger.demod1 + AsInt(args[1]) - 1))
WaitDemodSample(cs, args) ==
  LET r    == cs.regs
      mask == TriggerMask[Trigger.rate1 + AsInt(args[1]) - 1]
  IN  Allowed(cs, IsNumber(args, 1 .. 8),
              Emitted(cs, 3, Load(r, mask) \o Load(r + 1, mask) \o Load(r + 2, 0)
                               \o Awaits(r, r + 1) \o Awaits(r, r + 2)))
\* Where the code finds no trigger it waits for the one of number 0.
WaitSineOscPhase(cs, args) ==
  LET n == CASE cs.device = "HDAWG" -> Trigger.demod1 + AsInt(args[1]) - 1
             [] cs.device \in SHFGen /\ args = <<>> -> Trigger.demod1
             [] OTHER -> 0
  IN  Allowed(cs, cs.groups < 2 /\ (cs.device = "HDAWG" => IsNumber(args, 1 .. 2)),
              AwaitIndex(cs, n))

-----------------------------------------------------------------------------
(* Digital inputs and outputs, data of other instruments *)

ReadOnly(cs, args, a) == Allowed(cs, args = <<>>, ReadFrom(cs, a))

\* Where the data of a source is, on the instruments that name the sources.
FeedbackAddress(d, source, qa) ==
  LET base == RawSource(d)
  IN  CASE d \in LIFamily -> -1
        [] d = "SHFQA" -> IF source = base THEN Address.zsyncRaw ELSE -1
        [] d \notin LIFamily \cup {"SHFQA"} /\ source = base -> TriggeredAddress(d)
        [] d \in {"HDAWG"} \cup SHFGen /\ source = base + 1 -> Address.zsyncA
        [] d \in {"HDAWG"} \cup SHFGen /\ source = base + 2 -> Address.zsyncB
        [] qa /\ d = "SHFQC_SG" /\ source = base + 3 -> Address.feedbackA
        [] qa /\ d = "SHFQC_SG" /\ source = base + 4 -> Address.feedbackB
        [] OTHER -> -1
\* getZSyncData, and getFeedback, which knows the sources of the analyzer too.
GetData(cs, args, qa) ==
  LET a == FeedbackAddress(cs.device, AsInt(args[1]), qa)
      W == WaitReg(cs, args)
  IN  Allowed(cs, Len(args) \in (IF cs.device = "UHFQA" THEN {1} ELSE 1 .. 2) /\ a # -1,
              After(W, ReadFrom(W.cs, a)))

Bare(cs, args, asm) == Allowed(cs, args = <<>>, Emitted(cs, 0, asm))
Plain(cmd) == <<I(cmd, NoReg, NoReg, NoReg, 0)>>

-----------------------------------------------------------------------------
(* CustomFunctions::call *)

\* The functions that settle the trigger source do so before anything else.
Prepared(name, cs) ==
  CASE name \in OfDIO   -> Latched(cs, "dio")
    [] name \in OfZSync -> Latched(cs, "zsync")
    [] OTHER            -> cs

Applied(name, cs, args) ==
  CASE name = "setUserReg"          -> SetUserReg(cs, args)
    [] name = "getUserReg"          -> GetUserReg(cs, args)
    [] name = "getSweeperLength"    -> GetSweeperLength(cs, args)
    [] name = "getCnt"              -> GetCnt(cs, args)
    [] name = "setTrigger"          -> StoreOnly(cs, args, Address.trigger)
    [] name = "getTrigger"          -> GetTrigger(cs, args)
    [] name = "setInternalTrigger"  -> StoreOnly(cs, args, Address.internalTrigger)
    [] name = "getAnaTrigger"       -> GetAnaTrigger(cs, args)
    [] name = "getDigTrigger"       -> GetDigTrigger(cs, args)
    [] name = "at"                  -> At(cs, args)
    [] name = "now"                 -> Allowed(cs, args = <<>>, Silent(cs, 0, Store(R0, Address.now)))
    [] name = "resetRTLoggerTimestamp" -> ResetRTLoggerTimestamp(cs, args)
    [] name = "waitQAResultTrigger" -> WaitQAResultTrigger(cs, args)
    [] name = "getQAResult"         -> GetQAResult(cs, args)
    [] name = "startQAResult"       -> StartQAResult(cs, args)
    [] name = "startQAMonitor"      -> StartQAMonitor(cs, args)
    [] name = "startQA"             -> StartQA(cs, args)
    [] name = "executeTableEntry"   -> ExecuteTableEntry(cs, args)
    [] name = "setPRNGSeed"         -> SetPRNGSeed(cs, args)
    [] name = "getPRNGValue"        -> GetPRNGValue(cs, args)
    [] name = "setPRNGRange"        -> SetPRNGRange(cs, args)
    [] name = "configureFeedbackProcessing" -> ConfigureFeedback(cs, args)
    [] name = "configFreqSweep"     -> ConfigFreqSweep(cs, args)
    [] name = "setSweepStep"        -> SetSweepStep(cs, args)
    [] name = "setOscFreq"          -> SetOscFreq(cs, args)
    [] name = "resetOscPhase"       -> ResetOscPhase(cs, args)
    [] name = "setSinePhase"        -> SetPhase(cs, args, Address.sinePhase)
    [] name = "incrementSinePhase"  -> SetPhase(cs, args, Address.sineIncrement)
    [] name = "wait"                -> WaitFor(cs, args)
    [] name = "waitTrigger"         -> WaitForTrigger(cs, args)
    [] name = "waitAnaTrigger"      -> WaitAnaTrigger(cs, args)
    [] name = "waitDigTrigger"      -> WaitDigTrigger(cs, args)
    [] name = "waitOnGrid"          -> WaitOnGrid(cs, args)
    [] name = "waitOnSync"          -> WaitOnSync(cs, args)
    [] name = "waitDIOTrigger"      -> WaitDIOTrigger(cs, args)
    [] name = "waitZSyncTrigger"    -> WaitZSyncTrigger(cs, args)
    [] name = "waitCntTrigger"      -> WaitCntTrigger(cs, args)
    [] name = "waitDemodOscPhase"   -> WaitDemodOscPhase(cs, args)
    [] name = "waitDemodSample"     -> WaitDemodSample(cs, args)
    [] name = "waitSineOscPhase"    -> WaitSineOscPhase(cs, args)
    [] name = "waitTimestamp"       -> WaitTimestamp(cs, args)
    [] name = "setDIO"              -> StoreOnly(cs, args, DioAddress(cs.device))
    [] name = "getDIO"              -> ReadOnly(cs, args, DioAddress(cs.device))
    [] name = "getDIOTriggered"     -> ReadOnly(cs, args, TriggeredAddress(cs.device))
    [] name = "getZSyncData"        -> GetData(cs, args, FALSE)
    [] name = "getFeedback"         -> GetData(cs, args, TRUE)
    [] name = "setID"               -> StoreOnly(cs, args, IdAddress(cs.device))
    [] name = "waitWave"            -> Bare(cs, args, Plain("WWVF"))
    [] name = "waitPlayQueueEmpty"  -> Bare(cs, args, Plain("WPRF"))
    [] name = "sync"                -> Allowed(cs, args = <<>>, AddSync(Emitted(cs, 0, <<>>)))
    [] name = "randomSeed"          -> Allowed(cs, args = <<>>, Silent(cs, 0, <<>>))

BuiltIn(name, cs, args) ==
  IF name \notin DOMAIN SupportedBy \/ cs.device \notin SupportedBy[name] THEN Refused(cs)
  ELSE LET begun == Prepared(name, cs)
       IN  IF begun.ok THEN Applied(name, begun, args) ELSE Refused(begun)
=============================================================================
