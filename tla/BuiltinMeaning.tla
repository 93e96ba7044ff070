--------------------------- MODULE BuiltinMeaning ---------------------------
(***************************************************************************)
(* What a call of a built-in function means on an instrument: the events   *)
(* the outside world sees, and the number the call is worth, from the      *)
(* numbers of its arguments alone, wherever the compiler keeps them.       *)
(* ns are these numbers, d the instrument, n what the outside world        *)
(* answers.                                                                *)
(***************************************************************************)
EXTENDS Words, Devices, Sequences
LOCAL INSTANCE Bitwise

Written(a, m)    == <<"ST", a, Word(m)>>
Touch(a)         == <<Written(a, 0)>>
Agree(mask, m)   == <<"WTRIG", Word(m), Word(mask)>>
One(cond)        == IF cond THEN 1 ELSE 0
Given(ns, m, other) == IF m \in DOMAIN ns THEN ns[m] ELSE other
Moved(m, b)      == IF b >= WordBits THEN 0 ELSE Word(Word(m) * 2^b)

-----------------------------------------------------------------------------
(* Waits *)

\* The trigger each wait is for.
TriggerOf(name, d, ns) ==
  CASE name = "waitAnaTrigger"      -> Trigger.ana1 + ns[1] - 1
    [] name = "waitDigTrigger"      -> Trigger.dig1 + ns[1] - 1
    [] name = "waitQAResultTrigger" -> Trigger.demod2
    [] name = "waitDemodOscPhase"   -> Trigger.demod1 + ns[1] - 1
    [] name = "waitDemodSample"     -> Trigger.rate1 + ns[1] - 1
    [] name = "waitDIOTrigger"      -> Trigger.map
    [] name = "waitZSyncTrigger"    -> IF d \in {"SHFQA"} \cup SHFGen THEN Trigger.zsync
                                       ELSE Trigger.map
    [] name = "waitCntTrigger"      -> Trigger.cnt0 + ns[1]
    [] name = "waitOnGrid"          -> Trigger.grid
    [] name = "at"                  -> Trigger.time
    [] name = "waitSineOscPhase"    ->
         Trigger.demod1 + (IF d = "HDAWG" THEN ns[1] - 1 ELSE 0)
Waiting == {"waitAnaTrigger", "waitDigTrigger", "waitQAResultTrigger", "waitDemodOscPhase",
            "waitDemodSample", "waitDIOTrigger", "waitZSyncTrigger", "waitCntTrigger",
            "waitOnGrid", "waitSineOscPhase"}

\* The Cervino instruments wait for a value under a mask, a new sample being
\* the rise and the fall of its trigger; the others have a place for each.
WaitMeans(name, d, ns) ==
  LET t    == TriggerOf(name, d, ns)
      mask == TriggerMask[t]
  IN  CASE d \notin Cervino          -> Touch(Address.indexWait + t)
        [] d \in Cervino ->
             CASE name = "waitAnaTrigger"  -> <<Agree(mask, ns[2])>>
               [] name = "waitDigTrigger"  -> <<Agree(mask, mask * One(ns[2] # 0))>>
               [] name = "waitDemodSample" -> <<Agree(mask, mask), Agree(mask, 0)>>
               [] OTHER                    -> <<Agree(mask, mask)>>

-----------------------------------------------------------------------------
(* Writes *)

\* A number that goes to one place.
Places(d) ==
  [setTrigger |-> Address.trigger, setInternalTrigger |-> Address.internalTrigger,
   setDIO |-> DioAddress(d), setID |-> IdAddress(d), setPRNGSeed |-> Address.seed]
Marks(d) ==
  [now |-> Address.now, resetRTLoggerTimestamp |-> LoggerReset(d),
   waitTimestamp |-> Address.timestamp, waitOnSync |-> Address.waitOnSync]

\* Another group of channels goes on at the same time.
GoOn(d) == IF d = "HDAWG" THEN Touch(Address.sync) ELSE <<>>
Share(d, groups) == IF groups > 1 THEN GoOn(d) ELSE <<>>

\* A user register is written, the node of it told, and an HDAWG made to look.
SetUserRegMeans(d, groups, ns, n) ==
  <<Written(ns[1], ns[2]), Written(Address.nodeTag, 11), Written(Address.nodeAddr, ns[1])>>
    \o (IF d = "HDAWG" THEN <<Written(0, n)>> ELSE <<>>) \o <<<<"TRAP">>>> \o Share(d, groups)
GetUserRegMeans(d, groups) ==
  (IF d = "HDAWG" THEN <<Written(Address.waitCycles, Limit[d].divider)>> ELSE <<>>) \o Share(d, groups)

\* Both halves of a frequency, and the delay until it counts.
Settle == <<Written(Address.waitCycles, 10)>>
FrequencyMeans(m, low, high) ==
  <<Written(low, m * FrequencyUnit), Written(high, (m * FrequencyUnit) \div WordSize)>>
SetOscFreqMeans(ns) ==
  <<Written(Address.sweepControl, 0)>> \o FrequencyMeans(ns[2], Address.startLow, Address.startHigh)
    \o <<Written(Address.sweepIndex, ns[1])>> \o Settle
ConfigFreqSweepMeans(ns) ==
  FrequencyMeans(ns[2], Address.startLow, Address.startHigh)
    \o FrequencyMeans(ns[3], Address.stepLow, Address.stepHigh)
    \o <<Written(Address.sweepIndex, ns[1])>> \o Settle
SetSweepStepMeans(ns) ==
  <<Written(Address.sweepControl, ns[2]), Written(Address.sweepIndex, ns[1])>> \o Settle

\* The code of a phase is the nearest one of its turn.
PhaseOf(degrees) ==
  LET turn == 2^PhaseBits
      c    == (2 * turn * degrees + 360) \div 720
  IN  IF 2 * c = turn THEN c
      ELSE CHOOSE p \in -(turn \div 2) .. (turn \div 2) - 1 : (c - p) % turn = 0
PhaseMeans(d, ns, base) ==
  CASE d = "HDAWG"    -> <<Written(base + ns[1], PhaseOf(ns[2]))>>
    [] d \in SHFGen   -> <<Written(base, PhaseOf(ns[1]))>>
    [] d \in LIFamily -> <<>>
ResetOscPhaseMeans(d, ns) ==
  LET all  == 2^Limit[d].oscillators - 1
      mask == Written(IF d = "SHFQA" THEN Address.qaOscReset ELSE Address.qaWeights, Given(ns, 1, all))
  IN  CASE d = "UHFQA"         -> <<Written(Address.oscReset, 1), Written(Address.oscReset, 0)>>
        [] Limit[d].cores > 0  -> <<mask, Written(Address.waitCycles, Limit[d].cores)>>
        [] OTHER               -> <<mask>>

\* A request to a quantum analyzer, and its end.
AllUnits(d) == IF d = "SHFQA" THEN 2^16 - 1 ELSE 2^10 - 1
StrobeMeans(bits, m) == <<Written(Address.trigger, bits + m), Written(Address.trigger, m)>>
StartUHFMeans(ns) ==
  LET units == Given(ns, 1, AllUnits("UHFQA"))
      addr  == Given(ns, 4, 0)
  IN  <<Written(IdAddress("UHFQA"), Given(ns, 3, 0)),
        Written(Address.trigger, Moved(units, 16) | Moved(One(units # 0), 4)
                                | Moved(One(Given(ns, 2, 0) # 0), 5) | Word(addr)),
        Written(Address.trigger, addr)>>
StartSHFMeans(ns) ==
  LET units == Given(ns, 2, AllUnits("SHFQA"))
  IN  <<Written(Address.qaWeights, Moved(Given(ns, 5, 0), 24) | Word(Given(ns, 1, 0))),
        Written(Address.qaTrigger, Moved(Given(ns, 4, 0), 22) | Word(units) | Moved(Given(ns, 3, 0), 31)
                                  | Moved(One(units # 0), 30))>>

\* An entry of the command table: its number, or where the number comes from;
\* a literal beyond the table says so.
Entry(m) == <<"ENTRY", m>>
EntryMeans(d, ns, literal) ==
  LET last == 2^Limit[d].tableBits - 1
  IN  <<IF literal /\ ns[1] > last
        THEN Entry((CASE ns[1] = last + 1 -> 1 [] ns[1] = last + 2 -> 9 [] ns[1] = last + 3 -> 13)
                     * (last + 1))
        ELSE Entry(Word(ns[1]))>>
FeedbackMeans(d, ns) ==
  LET base == 2^Limit[d].tableBits
      mode == CASE ns[1] = base + 1 -> 0 [] ns[1] = base + 2 -> 1 [] ns[1] = base + 4 -> 2
  IN  <<<<"FB", mode * 2^21 + ns[2] * 2^16 + (ns[3] - 1) * 2^12 + ns[4]>>>>

\* How long a wait takes shows on an instrument that is told, only.
Delay(d, ns) ==
  IF d \notin Cervino /\ Len(ns) = 2 THEN <<Written(Address.waitLegacy, ns[2])>> ELSE <<>>

-----------------------------------------------------------------------------
(* Reads *)

DataAt(d, source) ==
  LET from == source - RawSource(d)
  IN  CASE from = 0 -> IF d = "SHFQA" THEN Address.zsyncRaw ELSE TriggeredAddress(d)
        [] from = 1 -> Address.zsyncA
        [] from = 2 -> Address.zsyncB
        [] from = 3 -> Address.feedbackA
        [] from = 4 -> Address.feedbackB
ReadAt(name, d, ns) ==
  CASE name = "getUserReg"       -> ns[1]
    [] name = "getSweeperLength" -> Address.sweepCount
    [] name = "getCnt"           -> Address.counter + ns[1]
    [] name = "getQAResult"      -> Address.qaResult
    [] name = "getPRNGValue"     -> Address.random
    [] name = "getDIO"           -> DioAddress(d)
    [] name = "getDIOTriggered"  -> TriggeredAddress(d)
    [] name \in {"getZSyncData", "getFeedback"} -> DataAt(d, ns[1])
Reading == {"getUserReg", "getSweeperLength", "getCnt", "getQAResult", "getPRNGValue",
            "getDIO", "getDIOTriggered", "getZSyncData", "getFeedback"}
Testing == {"getTrigger", "getAnaTrigger", "getDigTrigger"}

\* The calls that are worth something, known when the program runs.
Answering == Reading \cup Testing

TriggersUnder(mask, n) == Word(n + Address.trigger) & Word(mask)
Worth(name, d, ns, n) ==
  CASE name \in Reading         -> Signed(n + ReadAt(name, d, ns))
    [] name = "getTrigger"      -> Signed(TriggersUnder(ns[1], n))
    [] name = "getAnaTrigger"   -> One(TriggersUnder(TriggerMask[Trigger.ana1 + ns[1] - 1], n) # 0)
    [] name = "getDigTrigger"   ->
         One(ns[1] <= 2 /\ TriggersUnder(TriggerMask[Trigger.dig1 + ns[1] - 1], n) # 0)
    [] OTHER                    -> 0

Means(name, d, groups, ns, n, literal) ==
  CASE name \in Waiting           -> WaitMeans(name, d, ns)
    [] name \in DOMAIN Places(d)  -> <<Written(Places(d)[name], ns[1])>>
    [] name \in DOMAIN Marks(d)   -> Touch(Marks(d)[name])
    [] name = "at"                -> <<Written(Address.loggerData, ns[1])>> \o <<Agree(
                                         TriggerMask[Trigger.time], TriggerMask[Trigger.time])>>
    [] name = "wait"              -> IF d \in Cervino THEN <<>> ELSE <<Written(Address.waitCycles, ns[1])>>
    [] name = "waitTrigger"       -> <<Agree(ns[1], ns[2])>>
    [] name = "setUserReg"        -> SetUserRegMeans(d, groups, ns, n)
    [] name = "getUserReg"        -> GetUserRegMeans(d, groups)
    [] name = "sync"              -> GoOn(d)
    [] name = "setPRNGRange"      -> <<Written(Address.rangeLow, ns[1]),
                                       Written(Address.rangeSpan, ns[2] - ns[1] + 1)>>
    [] name = "setOscFreq"        -> SetOscFreqMeans(ns)
    [] name = "configFreqSweep"   -> ConfigFreqSweepMeans(ns)
    [] name = "setSweepStep"      -> SetSweepStepMeans(ns)
    [] name = "setSinePhase"      -> PhaseMeans(d, ns, Address.sinePhase)
    [] name = "incrementSinePhase" -> PhaseMeans(d, ns, Address.sineIncrement)
    [] name = "resetOscPhase"     -> ResetOscPhaseMeans(d, ns)
    [] name = "startQAResult"     -> StrobeMeans(Moved(Given(ns, 1, AllUnits(d)), 16) + 16, Given(ns, 2, 0))
    [] name = "startQAMonitor"    -> StrobeMeans(32, Given(ns, 1, 0))
    [] name = "startQA"           -> IF d = "SHFQA" THEN StartSHFMeans(ns) ELSE StartUHFMeans(ns)
    [] name = "executeTableEntry" -> Delay(d, ns) \o EntryMeans(d, ns, literal)
    [] name = "configureFeedbackProcessing" -> FeedbackMeans(d, ns)
    [] name \in {"getZSyncData", "getFeedback"} -> Delay(d, ns)
    [] OTHER                      -> <<>>

-----------------------------------------------------------------------------
(* The rules for calls *)

Arities(name, d, groups) ==
  CASE name \in {"setTrigger", "setInternalTrigger", "setDIO", "setID", "setPRNGSeed", "at",
                 "wait", "getUserReg", "getSweeperLength", "getCnt", "waitCntTrigger",
                 "waitDemodSample"} \cup Testing -> {1}
    [] name \in {"setUserReg", "setSweepStep", "setOscFreq", "setPRNGRange", "waitTrigger",
                 "waitAnaTrigger"} -> {2}
    [] name = "configFreqSweep"    -> {3}
    [] name = "configureFeedbackProcessing" -> {4}
    [] name = "waitDigTrigger"     -> IF d \in Cervino THEN {2} ELSE {1}
    [] name = "waitDemodOscPhase"  -> {1, 2}
    [] name = "waitSineOscPhase"   ->
         (CASE groups = 1 /\ d = "HDAWG"    -> {1}
            [] groups = 1 /\ d \in SHFGen -> {0}
            [] OTHER                       -> {})
    [] name \in {"getZSyncData", "getFeedback"} -> IF d = "UHFQA" THEN {1} ELSE {1, 2}
    [] name = "executeTableEntry"  -> Nat \ {0}
    [] name = "startQAResult"      -> 0 .. 2
    [] name = "startQAMonitor"     -> 0 .. 1
    [] name = "startQA"            -> IF d = "SHFQA" THEN 0 .. 5 ELSE 0 .. 4
    [] name = "resetOscPhase"      -> IF d = "UHFQA" THEN {0} ELSE {0, 1}
    [] name \in {"setSinePhase", "incrementSinePhase"} ->
         IF d = "HDAWG" THEN {2} ELSE IF d \in SHFGen THEN {1} ELSE Nat
    [] name = "waitTimestamp"      -> Nat
    [] OTHER                       -> {0}

\* The arguments that need not be known before the program runs.
MayBeLive(name) ==
  CASE name \in {"setTrigger", "setInternalTrigger", "setDIO", "setID", "setPRNGSeed", "at",
                 "wait"} -> {1}
    [] name \in {"setUserReg", "setSweepStep", "getZSyncData", "getFeedback"} -> {2}
    [] name = "executeTableEntry" -> {1, 2}
    [] OTHER -> {}

\* The literals an argument may be; a literal has no sign.
Oscillators(d) == 0 .. Limit[d].oscillators - 1
Integrations(d) == 0 .. AllUnits(d)
Literals(name, d, m) ==
  CASE name \in {"setUserReg", "getUserReg"} /\ m = 1 -> 0 .. Limit[d].memoryDepth - 1
    [] name = "getSweeperLength"                      -> {1}
    [] name = "getCnt"                                -> 0 .. Limit[d].counters - 1
    [] name \in {"getAnaTrigger", "waitAnaTrigger", "waitDigTrigger"} /\ m = 1 -> 1 .. 2
    [] name = "getDigTrigger"    -> IF d = "HDAWG" THEN 1 .. 8 ELSE 1 .. 2
    [] name = "wait"             -> Nat
    [] name = "setPRNGSeed"      -> Nat \ {0}
    [] name = "setPRNGRange"     -> 0 .. 65534
    [] name \in {"setOscFreq", "configFreqSweep", "setSweepStep"} /\ m = 1 -> Oscillators(d)
    [] name = "setSweepStep" /\ m = 2 -> Nat
    [] name = "resetOscPhase"    -> 0 .. 2^Limit[d].oscillators - 1
    [] name \in {"setSinePhase", "incrementSinePhase"} /\ d = "HDAWG" /\ m = 1 -> 0 .. 1
    [] name = "waitCntTrigger"   -> 0 .. 1
    [] name \in {"waitDemodOscPhase", "waitDemodSample"} /\ m = 1 -> 1 .. 8
    [] name = "waitSineOscPhase" /\ d = "HDAWG" -> 1 .. 2
    [] name = "executeTableEntry" /\ m = 1 -> 0 .. 2^Limit[d].tableBits + 2
    [] name = "startQA" /\ d = "UHFQA" ->
         (CASE m = 1 -> Integrations(d) [] m = 3 -> 0 .. 31
            [] m = 4 -> 0 .. 255 [] OTHER -> Nat)
    [] name = "startQA" /\ d = "SHFQA" ->
         (CASE m \in 1 .. 2 -> Integrations(d) [] m = 4 -> 0 .. 31 [] m = 5 -> 0 .. 255
            [] OTHER -> Nat)
    [] name \in {"getZSyncData", "getFeedback"} /\ m = 1 ->
         (CASE d \in QA       -> {0}
            [] d = "SHFQC_SG" /\ name = "getFeedback" -> {RawSource(d) + k : k \in 0 .. 4}
            [] OTHER -> {RawSource(d) + k : k \in 0 .. 2})
    [] name = "configureFeedbackProcessing" ->
         (CASE m = 1 -> {2^Limit[d].tableBits + k : k \in IF d = "SHFQC_SG" THEN {1, 2, 4} ELSE {1, 2}}
            [] m = 2 -> 0 .. 31 [] m = 3 -> 1 .. 16 [] m = 4 -> 0 .. 4095)
    [] OTHER -> Nat

\* literal holds the arguments that are written out, live those known late.
IsFitting(name, d, groups, count, literal, live) ==
  /\ name \in DOMAIN SupportedBy /\ d \in SupportedBy[name]
  /\ count \in Arities(name, d, groups)
  /\ live \subseteq MayBeLive(name)
  /\ \A m \in DOMAIN literal : literal[m] \in Literals(name, d, m)
  /\ name = "setPRNGRange" /\ {1, 2} \subseteq DOMAIN literal => literal[1] <= literal[2]
=============================================================================
