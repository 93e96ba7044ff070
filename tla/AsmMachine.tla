----------------------------- MODULE AsmMachine -----------------------------
(***************************************************************************)
(* What the sequencer of the instrument does with a list of instructions.  *)
(* The sequencer is hardware; this is the meaning the compiler's code and  *)
(* comments give the opcodes.  The outside world sees the stores, the      *)
(* waits for a trigger, the table entries, feedback settings and traps, in *)
(* order; a load reads an input of its address that only changes when the  *)
(* outside world has seen something.                                       *)
(***************************************************************************)
EXTENDS AsmCode, Words, Sequences, TLC
LOCAL INSTANCE Bitwise

CONSTANTS
  MaxEvents,  \* bound: events a machine is followed for
  MaxSteps    \* bound: instructions it is followed for

ASSUME MachineAssumption == {MaxEvents, MaxSteps} \subseteq Nat

\* Registers begin as zero; regs holds the ones written so far.  Messages are
\* no event of the outside world.
Start == [pc |-> 1, regs |-> <<>>, events |-> <<>>, told |-> {}, steps |-> 0]

Value(m, r) == IF r \in DOMAIN m.regs THEN m.regs[r] ELSE 0

\* R0 stays zero whatever is written to it.
Write(m, r, n) == IF r = R0 THEN m.regs ELSE (r :> Word(n)) @@ m.regs

LabelAt(c, label) == CHOOSE k \in DOMAIN c : c[k].cmd = "LABEL" /\ c[k].label = label

IsTaken(i, m) ==
  CASE i.cmd = "BRZ"  -> Value(m, i.src) = 0
    [] i.cmd = "BRNZ" -> Value(m, i.src) # 0
    [] i.cmd = "BRGZ" -> IsPositive(Value(m, i.src))
    [] i.cmd = "JMP"  -> TRUE

Computed(i, m, in) ==
  CASE i.cmd = "ADDI"  -> Write(m, i.dst, Value(m, i.src) + i.imm)
    [] i.cmd = "ADDIU" -> Write(m, i.dst, Value(m, i.src) + UpperUnit * i.imm)
    [] i.cmd = "ADDR"  -> Write(m, i.aux, Value(m, i.aux) + Value(m, i.src))
    [] i.cmd = "SUBR"  -> Write(m, i.aux, Value(m, i.aux) - Value(m, i.src))
    [] i.cmd = "ANDI"  -> Write(m, i.dst, Value(m, i.src) & Word(i.imm))
    [] i.cmd = "ORI"   -> Write(m, i.dst, Value(m, i.src) | Word(i.imm))
    [] i.cmd = "XNORI" -> Write(m, i.dst, -1 - (Value(m, i.src) ^^ Word(i.imm)))
    [] i.cmd = "ANDR"  -> Write(m, i.aux, Value(m, i.aux) & Value(m, i.src))
    [] i.cmd = "ORR"   -> Write(m, i.aux, Value(m, i.aux) | Value(m, i.src))
    [] i.cmd = "SSL"   -> Write(m, i.dst, 2 * Value(m, i.src))
    [] i.cmd = "SSR"   -> Write(m, i.dst, Value(m, i.src) \div 2)
    [] i.cmd = "LD"    -> Write(m, i.dst, in[Len(m.events) + 1] + i.imm)
    [] OTHER           -> m.regs

Seen(i, m) ==
  CASE i.cmd = "ST"    -> <<<<"ST", i.imm, Value(m, i.src)>>>>
    [] i.cmd = "WTRIG" -> <<<<"WTRIG", Value(m, i.src), Value(m, i.aux)>>>>
    [] i.cmd = "WVFET" -> <<<<"WVFET", i.imm, Value(m, i.src)>>>>
    [] i.cmd = "FB"    -> <<<<"FB", i.imm>>>>
    [] i.cmd = "TRAP"  -> <<<<"TRAP">>>>
    [] OTHER           -> <<>>

IsHalted(c, m) == m.pc > Len(c) \/ c[m.pc].cmd = "END"
IsStopped(c, m) ==
  IsHalted(c, m) \/ Len(m.events) = MaxEvents \/ m.steps = MaxSteps

\* The instruction i, on the inputs in; a branch that is taken goes to goal.
Performed(i, m, in, goal) ==
  [pc     |-> IF IsBranch(i) /\ IsTaken(i, m) THEN goal ELSE m.pc + 1,
   regs   |-> Computed(i, m, in),
   events |-> m.events \o Seen(i, m),
   told   |-> IF i.cmd \in Messages THEN m.told \cup {i.imm} ELSE m.told,
   steps  |-> m.steps + 1]

\* One step through a list, where branches name labels, and through the
\* memory of the sequencer, where they name places.
Executed(c, m, in) == Performed(c[m.pc], m, in, LabelAt(c, c[m.pc].label))
Fetched(c, m, in)  == Performed(c[m.pc], m, in, c[m.pc].label)
=============================================================================
