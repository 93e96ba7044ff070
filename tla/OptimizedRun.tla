---------------------------- MODULE OptimizedRun ----------------------------
(***************************************************************************)
(* What the optimizer and the assembler owe the rest of the compiler: the  *)
(* sequencer does with the words what the original instructions say.  The  *)
(* optimized program is assembled, and both run side by side on the same   *)
(* inputs; a program the assembler refuses runs as the optimizer left it.  *)
(***************************************************************************)
EXTENDS AsmOptimize, AsmMachine, Opcodes

CONSTANT Inputs       \* the sequences of inputs to run on

\* The optimizer and the assembler read the same device constant.
ASSUME DeviceAssumption == NumPhysical = RegisterDepth

VARIABLES
  original,           \* the program before the optimizer saw it
  input,              \* what the loads read after every event
  image,              \* the words of the optimized program, as instructions
  before, after       \* the machines that run original and the final program

runVars == <<original, input, image, before, after>>
vars == <<opVars, runVars>>

RunInit ==
  /\ Init
  /\ original = code /\ input \in Inputs
  /\ image = [state |-> "none", code |-> <<>>]
  /\ before = Start /\ after = Start

OptimizeStep == Optimize /\ UNCHANGED runVars

Assemble ==
  /\ phase = "done" /\ image.state = "none"
  /\ LET out == Assembled(code)
     IN  image' = [state |-> IF out.ok THEN "words" ELSE "refused",
                   code  |-> IF out.ok THEN Disassembled(out.words) ELSE <<>>]
  /\ UNCHANGED <<opVars, original, input, before, after>>

IsWords == image.state = "words"
Final == IF IsWords THEN image.code ELSE code

AdvanceBefore == IF IsStopped(original, before) THEN before ELSE Executed(original, before, input)
AdvanceAfter ==
  CASE IsStopped(Final, after) -> after
    [] ~IsStopped(Final, after) /\ IsWords -> Fetched(Final, after, input)
    [] OTHER -> Executed(Final, after, input)

ExecuteBoth ==
  /\ image.state # "none"
  /\ ~(IsStopped(original, before) /\ IsStopped(Final, after))
  /\ before' = AdvanceBefore /\ after' = AdvanceAfter
  /\ UNCHANGED <<opVars, original, input, image>>

\* The call has returned, or left as an exception, and the machines stopped.
Finished ==
  /\ phase = "failed" \/ image.state # "none"
  /\ phase = "done" => IsStopped(original, before) /\ IsStopped(Final, after)
  /\ UNCHANGED vars

RunNext == OptimizeStep \/ Assemble \/ ExecuteBoth \/ Finished

RunSpec == RunInit /\ [][RunNext]_vars

-----------------------------------------------------------------------------
(* Properties *)

\* Where a message stands in the original program; its number names it.
Position(i) == CHOOSE k \in DOMAIN original : original[k].cmd = i.cmd /\ original[k].imm = i.imm

\* The user is told every message the program runs past, in the program's
\* order and each once, also when the allocation was tried twice.
MessagesKept ==
  /\ \A n \in before.told : \E k \in DOMAIN reported : reported[k].imm = n
  /\ \A i, j \in DOMAIN reported :
       i < j => Position(reported[i]) < Position(reported[j])

\* The assembler refuses a program only for a register the sequencer lacks,
\* which is left when the allocation was not asked for.
RefusedForRegisters ==
  image.state = "refused" =>
    /\ "regs" \notin flags
    /\ \E k \in DOMAIN code : ~Skipped(code[k]) /\ \E r \in Registers(code[k]) : r >= NumPhysical

\* The sequencer shows the outside world the same stores and waits, in the
\* same order and with the same values, with the words as with the original
\* instructions, and stops where it stops: dropping jumps, labels, writes
\* and copies, sharing registers, reloading constants, counting the
\* addresses of labels and encoding the operands changes nothing.  And its
\* messages have been reported.
BehaviourKept ==
  image.state # "none" =>
    /\ IsPrefix(before.events, after.events) \/ IsPrefix(after.events, before.events)
    /\ IsHalted(original, before) => IsPrefix(after.events, before.events)
    /\ IsHalted(Final, after) => IsPrefix(before.events, after.events)
    /\ MessagesKept /\ RefusedForRegisters
=============================================================================
