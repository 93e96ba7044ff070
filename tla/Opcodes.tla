------------------------------ MODULE Opcodes ------------------------------
(***************************************************************************)
(* The assembler: from the instruction list of the compiler to the words   *)
(* of the sequencer (codegen/awg_assembler_impl_pipeline.cpp,              *)
(* codegen/awg_assembler_opcodes.cpp), with the selection before it        *)
(* (Compiler::stepProject) and the size limit behind                       *)
(* (AWGCompilerImpl::stepCheckLimits).                                     *)
(*                                                                         *)
(* A word is its opcode and its three bit fields.  A field that cannot be  *)
(* encoded is an error, and any error refuses the whole program.           *)
(***************************************************************************)
EXTENDS AsmCode, Sequences, FiniteSets

CONSTANTS
  RegisterDepth,   \* DeviceConstants::registerDepth, 16
  MemoryDepth,     \* DeviceConstants::memoryDepth, the addresses of a store
  MaxProgramSize,  \* DeviceConstants::maxProgramSize
  ValueBits        \* bits of the value field, 20

ASSUME OpcodesAssumption ==
  /\ {RegisterDepth, MemoryDepth, MaxProgramSize} \subseteq Nat
  /\ ValueBits \in Nat \ {0}

Opcode(cmd, reg, reg2, val) == [cmd |-> cmd, reg |-> reg, reg2 |-> reg2, val |-> val]
EndWord == Opcode("END", 0, 0, 0)
ValueRange == 2^ValueBits

\* What an operand or an instruction becomes, and whether without an error.
Coded(n) == [n |-> n, ok |-> TRUE]
Error == [n |-> 0, ok |-> FALSE]
WordError == [word |-> EndWord, ok |-> FALSE]

-----------------------------------------------------------------------------
(* Labels *)

\* Dead entries do not reach the assembler; it skips messages, and a label
\* stands for the address of the word after it.
IsEmitted(i) == i.cmd \notin {"INVALID", "LABEL"} \cup Messages
Emitted(c) == {k \in DOMAIN c : IsEmitted(c[k])}
\* How many words come before entry k.
Address(c, k) == Cardinality({j \in Emitted(c) : j < k})

Definitions(c, label) == {k \in DOMAIN c : c[k].cmd = "LABEL" /\ c[k].label = label}

\* The left view of the bimap keeps the first insertion of a name.
FirstDefinition(c, label) ==
  CHOOSE k \in Definitions(c, label) : \A j \in Definitions(c, label) : k <= j

\* Mutant: the labels before it count as words.
LabelledPlace(c, label) ==
  Cardinality({k \in DOMAIN c : k < FirstDefinition(c, label) /\ c[k].cmd # "INVALID"})
LabelAddress(c, label) == Address(c, FirstDefinition(c, label))

-----------------------------------------------------------------------------
(* Operands *)

Operand(type, n) == [type |-> type, n |-> n]

\* The opcodes with an immediate among their outputs.
TakesValue(i) == i.cmd \in {"ADDI", "ADDIU", "ANDI", "ORI", "XNORI", "LD", "ST"}

\* assembleAsmList lines the operands up in this order, those that are set.
Children(i) ==
  (IF i.dst # NoReg THEN <<Operand("register", i.dst)>> ELSE <<>>)
    \o (IF i.aux # NoReg THEN <<Operand("register", i.aux)>> ELSE <<>>)
    \o (IF i.src # NoReg THEN <<Operand("register", i.src)>> ELSE <<>>)
    \o (IF TakesValue(i) THEN <<Operand("integer", i.imm)>> ELSE <<>>)
    \o (IF i.label # NoLabel THEN <<Operand("label", i.label)>> ELSE <<>>)

GetReg(child) ==
  IF child.type = "register" /\ child.n \in 0 .. RegisterDepth - 1
  THEN Coded(child.n) ELSE Error

\* Negative numbers of any size pass, cut to the field.
GetVal(c, child) ==
  CASE child.type = "label" ->
         IF Definitions(c, child.n) = {} THEN Error
         ELSE Coded(LabelAddress(c, child.n) % ValueRange)
    [] child.type = "integer" ->
         IF child.n < ValueRange THEN Coded(child.n % ValueRange) ELSE Error
    [] OTHER -> Error

-----------------------------------------------------------------------------
(* Instructions *)

\* Assembler::getOpcodeType, on the opcodes of the modelled code.
OpcodeType(cmd) ==
  CASE cmd = "LD"                          -> 1
    [] cmd \in Branches \cup {"ST"}        -> 4
    [] cmd = "END"                         -> 0
    [] OTHER                               -> 3

\* The register-register operations that must have two operands.
IsRegRegALU(cmd) == cmd \in {"ADDR", "SUBR", "ANDR", "ORR"}

\* A word out of the registers and the value whose operands are given.
Encoded(cmd, reg, reg2, val) ==
  [word |-> Opcode(cmd, reg.n, reg2.n, val.n), ok |-> reg.ok /\ reg2.ok /\ val.ok]

NoField == Coded(0)

Opcode0(i, kids) == [word |-> EndWord, ok |-> kids = <<>>]

Opcode1(c, i, kids) ==
  IF Len(kids) < 2 THEN WordError
  ELSE Encoded(i.cmd, GetReg(kids[1]), NoField, GetVal(c, kids[2]))

\* A NOP is the addition of nothing to register 0.
Opcode3(c, i, kids) ==
  CASE i.cmd = "NOP" -> [word |-> Opcode("ADDI", 0, 0, 0), ok |-> TRUE]
    [] i.cmd # "NOP" /\ (Len(kids) < 2 \/ (IsRegRegALU(i.cmd) /\ Len(kids) # 2)) -> WordError
    [] OTHER ->
         Encoded(i.cmd, GetReg(kids[1]), GetReg(kids[2]),
                 IF Len(kids) = 3 THEN GetVal(c, kids[3]) ELSE NoField)

IsStorable(cmd, val) == cmd = "ST" => val.n < MemoryDepth

Opcode4(c, i, kids) ==
  CASE Len(kids) = 1 -> Encoded(i.cmd, NoField, NoField, GetVal(c, kids[1]))
    [] Len(kids) = 2 ->
         LET val == GetVal(c, kids[2])
         IN  Encoded(i.cmd, NoField, GetReg(kids[1]),
                     IF IsStorable(i.cmd, val) THEN val ELSE Error)
    [] OTHER -> WordError

\* evaluate
Evaluated(c, i) ==
  CASE OpcodeType(i.cmd) = 0 -> Opcode0(i, Children(i))
    [] OpcodeType(i.cmd) = 1 -> Opcode1(c, i, Children(i))
    [] OpcodeType(i.cmd) = 3 -> Opcode3(c, i, Children(i))
    [] OpcodeType(i.cmd) = 4 -> Opcode4(c, i, Children(i))

-----------------------------------------------------------------------------
(* The program *)

\* The entry whose word is the a-th.
EntryAt(c, a) == CHOOSE k \in Emitted(c) : Address(c, k) = a - 1

\* The last word must be an END.
Ended(words) ==
  IF words = <<>> \/ words[Len(words)] = EndWord THEN words ELSE Append(words, EndWord)

\* assembleAsmList and stepCheckLimits: the words, or a refusal.
Assembled(c) ==
  LET out   == [a \in 1 .. Cardinality(Emitted(c)) |-> Evaluated(c, c[EntryAt(c, a)])]
      words == Ended([a \in DOMAIN out |-> out[a].word])
  IN  [words |-> words,
       ok    |-> (\A a \in DOMAIN out : out[a].ok) /\ Len(words) <= MaxProgramSize]

-----------------------------------------------------------------------------
(* What the sequencer makes of a word; an address counts words from 0 *)

Extended(val) == IF val < ValueRange \div 2 THEN val ELSE val - ValueRange

Decoded(w) ==
  CASE w.cmd \in {"ADDI", "ADDIU", "ANDI", "ORI", "XNORI"} ->
         Instr(w.cmd, w.reg, w.reg2, NoReg, Extended(w.val), NoLabel)
    [] w.cmd \in {"ADDR", "SUBR", "ANDR", "ORR", "WTRIG"} ->
         Instr(w.cmd, NoReg, w.reg2, w.reg, 0, NoLabel)
    [] w.cmd \in {"SSL", "SSR"} -> Instr(w.cmd, w.reg, w.reg2, NoReg, 0, NoLabel)
    [] w.cmd = "LD"     -> Instr(w.cmd, w.reg, NoReg, NoReg, w.val, NoLabel)
    [] w.cmd = "ST"     -> Instr(w.cmd, NoReg, w.reg2, NoReg, w.val, NoLabel)
    [] w.cmd \in Branches -> Instr(w.cmd, NoReg, w.reg2, NoReg, 0, w.val + 1)
    [] w.cmd = "END"    -> Instr(w.cmd, NoReg, NoReg, NoReg, 0, NoLabel)

\* Branches of a decoded program name the place of a word, from 1.
Disassembled(words) == [a \in DOMAIN words |-> Decoded(words[a])]
=============================================================================
