------------------------------ MODULE AsmCode ------------------------------
(***************************************************************************)
(* Sequencer instructions as the passes over an AsmList see them: the      *)
(* fields of Assembler and AsmList::Asm they read or write, and which slot *)
(* of which opcode is read or written (asm/assembler.cpp,                  *)
(* asm/asm_optimize.cpp).                                                  *)
(*                                                                         *)
(* Labels and messages are numbers; NoLabel is the empty string.  Registers*)
(* are numbers: 0 reads as zero, NoReg is an unset slot, Magic marks the   *)
(* barrier slots of splitConstRegisters.                                   *)
(***************************************************************************)
EXTENDS Integers

NoReg == -1
R0 == 0
Magic == -2
NoLabel == 0

\* An instruction; noOpt is the flag of AsmList::Asm beside it.
Instr(cmd, dst, src, aux, imm, label) ==
  [cmd |-> cmd, dst |-> dst, src |-> src, aux |-> aux, imm |-> imm,
   label |-> label, noOpt |-> FALSE]

Branches == {"BRZ", "BRNZ", "BRGZ", "JMP"}
Messages == {"MESSAGE", "ERROR_MSG"}

\* The opcodes of the modelled code; INVALID marks a dead entry.
Commands ==
  {"INVALID", "LABEL", "ADDI", "ADDIU", "ADDR", "SUBR", "ANDI", "ANDR",
   "ORI", "ORR", "XNORI", "SSL", "SSR", "LD", "ST", "WTRIG", "NOP", "END",
   "TRAP", "WVFET", "FB", "WWVF", "WPRF"} \cup Branches \cup Messages

\* Assembler::getCmdType, on the opcodes of the modelled code.
CmdType(cmd) ==
  CASE cmd \in {"BRZ", "BRNZ", "ST", "WTRIG", "WVFET"} -> 1
    [] cmd = "LD"                                      -> 2
    [] cmd \in {"ADDI", "ADDIU", "ANDI", "ORI", "XNORI"} -> 3
    [] cmd \in {"ADDR", "SUBR", "ANDR", "ORR", "SSL", "SSR"} -> 7
    [] OTHER                                  -> 0

ReadsSource(i) == CmdType(i.cmd) \in {1, 3, 7}
ReadsAux(i)    == CmdType(i.cmd) \in {1, 7}
WritesDest(i)  == CmdType(i.cmd) \in {2, 3, 7}
WritesAux(i)   == CmdType(i.cmd) = 7

IsRead(i, r) ==
  \/ i.src = r /\ ReadsSource(i)
  \/ i.aux = r /\ ReadsAux(i)

IsWritten(i, r) ==
  \/ i.dst = r /\ WritesDest(i)
  \/ i.aux = r /\ WritesAux(i)

IsBranch(i) == i.cmd \in Branches

\* A degenerate BRZ on register 0 always branches.
IsUnconditional(i) == i.cmd = "JMP" \/ (i.cmd = "BRZ" /\ i.src = R0)

\* Dead entries and labels, the entries of kRegallocBarrierCmdMask.
Skipped(i) == i.cmd \in {"INVALID", "LABEL"}

Kill(i) == [i EXCEPT !.cmd = "INVALID"]
DropLabel(i) == [i EXCEPT !.cmd = "INVALID", !.label = NoLabel]

Registers(i) == {i.dst, i.src, i.aux}

RenameIn(slot, old, new) == IF slot = old THEN new ELSE slot

\* Mutant: the slot that is read and written is not renamed.
RenameTwo(i, old, new) ==
  [i EXCEPT !.src = RenameIn(@, old, new), !.dst = RenameIn(@, old, new)]

\* registerUpdate on one instruction.
Rename(i, old, new) ==
  [i EXCEPT !.src = RenameIn(@, old, new),
            !.dst = RenameIn(@, old, new),
            !.aux = RenameIn(@, old, new)]
=============================================================================
