------------------------------ MODULE Devices -------------------------------
(***************************************************************************)
(* What tells the instruments apart: which built-in functions each of them *)
(* has, the numbers of its device table, the addresses of the sequencer's  *)
(* outside world and the masks of its triggers                             *)
(* (runtime/custom_functions.cpp, runtime/static_resources.cpp,            *)
(* core/types.hpp, core/device_constants.hpp).                             *)
(***************************************************************************)
EXTENDS Integers

CONSTANTS
  TriggerMask,  \* the AWG_..._TRIGGER constants, by the numbers below
  Latency,      \* cycles a wait takes of its own
  Limit,        \* the device table: a record for each device
  FrequencyUnit,  \* the code of a frequency of one
  PhaseBits       \* bits of the code of a phase, 23 on the instrument

Cervino  == {"UHFLI", "UHFQA"}
LIFamily == {"SHFLI", "GHFLI", "VHFLI"}
SHFGen   == {"SHFSG", "SHFQC_SG"}
QA       == {"UHFQA", "SHFQA"}
SHFPlus  == {"SHFQA"} \cup SHFGen \cup LIFamily
Hirzel   == {"HDAWG"} \cup SHFGen \cup LIFamily
DeviceTypes == Cervino \cup Hirzel \cup {"SHFQA"}
PreSHFLI == DeviceTypes \ LIFamily

\* Numbers of triggers.
Trigger == [ana1 |-> 0, ana2 |-> 1, dig1 |-> 2, dig2 |-> 3, demod1 |-> 4, demod2 |-> 5,
            rate1 |-> 13, zsync |-> 25, cnt0 |-> 26, cnt1 |-> 27, map |-> 28, wait |-> 29,
            time |-> 31, grid |-> 32]

ASSUME DevicesAssumption ==
  /\ TriggerMask \in [0 .. 32 -> Nat]
  /\ Latency \in Nat
  /\ Limit \in [DeviceTypes -> [memoryDepth : Nat, counters : Nat, oscillators : Nat,
                                tableBits : Nat, divider : Nat, cores : Nat, grain : Nat \ {0},
                                minPlay : Nat, trigMin : Nat, sampleBits : Nat]]
  /\ FrequencyUnit \in Nat /\ PhaseBits \in Nat \ {0}

\* The addresses of the sequencer's outside world.
Address ==
  [nodeTag |-> 16, nodeAddr |-> 17, triggerLoad |-> 26, timestamp |-> 27, now |-> 28,
   loggerData |-> 29, trigger |-> 34, internalTrigger |-> 35, sweepCount |-> 35,
   indexWait |-> 64, oscReset |-> 95, qaResult |-> 97, counter |-> 100, waitCycles |-> 105,
   zsyncRaw |-> 106, zsyncA |-> 107, zsyncB |-> 108, sync |-> 110, waitLegacy |-> 111,
   sinePhase |-> 112, sineIncrement |-> 114, seed |-> 116, rangeLow |-> 117, rangeSpan |-> 118, random |-> 119,
   qaWeights |-> 120, qaTrigger |-> 121, qaOscReset |-> 122, sweepControl |-> 141,
   sweepIndex |-> 140, startLow |-> 142, startHigh |-> 143, stepLow |-> 144, stepHigh |-> 145,
   waitOnSync |-> 146, feedbackA |-> 192, feedbackB |-> 193]

DioAddress(d)       == IF d \in LIFamily THEN 510 ELSE 32
IdAddress(d)        == IF d \in LIFamily THEN 511 ELSE 33
TriggeredAddress(d) == IF d \in Cervino THEN 96 ELSE 104
LoggerReset(d)      == IF d = "UHFQA" THEN 98 ELSE 109

\* The constants ZSYNC_DATA_RAW and those behind it name what a read is of.
RawSource(d) == IF d \in QA THEN 0 ELSE 2^Limit[d].tableBits

\* The instruments that have a function, by checkFunctionSupported.
SupportedBy ==
  [setUserReg |-> DeviceTypes, getUserReg |-> DeviceTypes, getSweeperLength |-> Cervino,
   getCnt |-> {"HDAWG"}, setTrigger |-> PreSHFLI, getTrigger |-> DeviceTypes,
   setInternalTrigger |-> LIFamily, getAnaTrigger |-> Cervino, getDigTrigger |-> DeviceTypes,
   at |-> Cervino, now |-> Cervino, resetRTLoggerTimestamp |-> Hirzel \cup QA,
   waitQAResultTrigger |-> {"UHFQA"}, getQAResult |-> {"UHFQA"}, startQAResult |-> {"UHFQA"},
   startQAMonitor |-> {"UHFQA"}, startQA |-> QA, executeTableEntry |-> Hirzel,
   setPRNGSeed |-> Hirzel, getPRNGValue |-> Hirzel, setPRNGRange |-> Hirzel,
   configureFeedbackProcessing |-> Hirzel, configFreqSweep |-> SHFPlus,
   setSweepStep |-> SHFPlus, setOscFreq |-> SHFPlus,
   resetOscPhase |-> DeviceTypes \ {"UHFLI"}, setSinePhase |-> Hirzel,
   incrementSinePhase |-> Hirzel, wait |-> DeviceTypes, waitTrigger |-> Cervino,
   waitAnaTrigger |-> Cervino, waitDigTrigger |-> DeviceTypes, waitOnGrid |-> LIFamily,
   waitOnSync |-> LIFamily, waitDIOTrigger |-> DeviceTypes,
   waitZSyncTrigger |-> DeviceTypes \ {"UHFLI"}, waitCntTrigger |-> {"HDAWG"},
   waitDemodOscPhase |-> {"UHFLI"}, waitDemodSample |-> {"UHFLI"},
   waitSineOscPhase |-> Hirzel, waitTimestamp |-> {"HDAWG"}, setDIO |-> DeviceTypes,
   getDIO |-> DeviceTypes, getDIOTriggered |-> DeviceTypes,
   getZSyncData |-> DeviceTypes \ {"UHFLI"}, getFeedback |-> DeviceTypes \ {"UHFLI"},
   setID |-> DeviceTypes \ {"SHFQA"}, waitWave |-> DeviceTypes \ {"SHFQA"},
   waitPlayQueueEmpty |-> {"HDAWG"}, sync |-> DeviceTypes \ {"SHFQA"},
   randomSeed |-> DeviceTypes \ {"SHFQA"}]

\* Those that play.
PlayedBy ==
  [playWave |-> DeviceTypes \ {"SHFQA"}, playWaveNow |-> Cervino, playWaveDigTrigger |-> Cervino,
   playWaveIndexed |-> Cervino, playWaveIndexedNow |-> Cervino, playAuxWaveIndexed |-> Cervino,
   playAuxWave |-> Cervino, playDIOWave |-> Cervino, playWaveDIO |-> Hirzel,
   playWaveZSync |-> Hirzel, prefetch |-> {"HDAWG"}, setRate |-> Cervino,
   setPrecompClear |-> {"HDAWG"}, playZero |-> DeviceTypes, playHold |-> Hirzel]

\* The functions that settle the trigger source.
OfDIO   == {"waitDIOTrigger", "setDIO", "getDIO", "getDIOTriggered", "playDIOWave", "playWaveDIO"}
OfZSync == {"waitZSyncTrigger", "getZSyncData", "getFeedback", "playWaveZSync"}
=============================================================================
