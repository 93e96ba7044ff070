--------------------------- MODULE MCOptimizedRun ---------------------------
(***************************************************************************)
(* Programs for the optimizer, put together the way the lowering puts the  *)
(* statements of a program together (ast/seqc_ast_eval_arithmetic.cpp,     *)
(* ast/seqc_ast_eval_control.cpp): the variables x and y in the registers  *)
(* 1 and 2, and registers from n on for the values in between.             *)
(***************************************************************************)
EXTENDS OptimizedRun

I(cmd, dst, src, aux, imm) == Instr(cmd, dst, src, aux, imm, NoLabel)
Label(l)         == <<Instr("LABEL", NoReg, NoReg, NoReg, 0, l)>>
Branch(cmd, r, l) == <<Instr(cmd, NoReg, r, NoReg, 0, l)>>
x == 1
y == 2

LoadImm(d, k) == <<I("ADDI", d, R0, NoReg, k)>>
CopyReg(d, s) == <<I("ADDI", d, s, NoReg, 0)>>
SetDIO(r)     == <<I("ST", NoReg, r, NoReg, 0)>>
Read(d, n)    == <<I("LD", n, NoReg, NoReg, 0)>> \o CopyReg(d, n)
Message(k)    == <<I("MESSAGE", NoReg, NoReg, NoReg, k)>>
Sum(d, a, b, n) ==
  CopyReg(n, a) \o <<I("ADDR", NoReg, b, n, 0)>> \o CopyReg(d, n)
Less(d, n)    == <<I("ADDI", n, d, NoReg, -1)>> \o CopyReg(d, n)

\* Constants written out: split in halves, and kept as they are.
SetConst(n) ==
  <<[I("ADDI", n, R0, NoReg, 0) EXCEPT !.noOpt = TRUE],
    [I("ADDIU", n, n, NoReg, 1) EXCEPT !.noOpt = TRUE]>> \o SetDIO(n)
SetWide(d) == LoadImm(d, 0) \o <<I("ADDIU", d, d, NoReg, 1)>>

Trigger == <<I("WTRIG", NoReg, x, y, 0)>>
Finish == <<I("NOP", NoReg, NoReg, NoReg, 0), I("END", NoReg, NoReg, NoReg, 0)>>

\* Statements that use the registers n and n + 1.
Statement(s, n) ==
  CASE s = "read"    -> Read(x, n)
    [] s = "set"     -> LoadImm(x, 3)
    [] s = "wide"    -> SetWide(y)
    [] s = "copy"    -> CopyReg(y, x)
    [] s = "put"     -> SetDIO(x)
    [] s = "sum"     -> Sum(y, x, y, n)
    [] s = "const"   -> SetConst(n)
    [] s = "trigger" -> Trigger
    [] s = "tell"    -> Message(n)
    [] s = "lost"    -> Read(n + 1, n) \o LoadImm(n, 2)
    [] s = "none"    -> <<>>

\* Control statements around two statements, on the labels from n on.
If(a, b, n)     == Branch("BRZ", x, n + 1) \o Label(n) \o a \o Label(n + 1) \o b
IfElse(a, b, n) ==
  Branch("BRZ", y, n + 1) \o Label(n) \o a \o Branch("BRZ", R0, n + 2)
    \o Label(n + 1) \o b \o Label(n + 2)
While(a, b, n) ==
  Label(n) \o Branch("BRZ", y, n + 2) \o Label(n + 1) \o a \o b \o Less(y, n)
    \o Branch("BRZ", R0, n) \o Label(n + 2)
DoWhile(a, b, n) ==
  Label(n) \o a \o b \o Less(y, n) \o Label(n + 1) \o Branch("BRNZ", y, n)
    \o Label(n + 2)
Repeat(a, b, n) ==
  LoadImm(n, 2) \o Label(n) \o a \o b \o <<I("ADDI", n, n, NoReg, -1)>>
    \o Branch("BRGZ", n, n)
\* A return in the middle: what follows up to the label is never reached.
Jump(a, b, n) ==
  a \o Branch("JMP", NoReg, n) \o b \o Label(n + 1) \o b \o Label(n)

Control(c, a, b, n) ==
  CASE c = "if"      -> If(a, b, n)
    [] c = "ifelse"  -> IfElse(a, b, n)
    [] c = "while"   -> While(a, b, n)
    [] c = "dowhile" -> DoWhile(a, b, n)
    [] c = "repeat"  -> Repeat(a, b, n)
    [] c = "jump"    -> Jump(a, b, n)

Program(c, s, t, u) ==
  Read(x, 3) \o LoadImm(y, 1)
    \o Control(c, Statement(s, 4), Statement(t, 6), 8)
    \o Statement(u, 10) \o SetDIO(y)
    \o (IF u = "const" THEN <<>> ELSE SetDIO(x)) \o Finish

Controls == {"if", "ifelse", "while", "dowhile", "repeat", "jump"}
Short == {Program(c, s, t, u) :
            c \in Controls,
            s \in {"read", "set", "copy", "sum", "tell", "none"},
            t \in {"wide", "copy", "put", "sum", "lost"},
            u \in {"none", "tell", "const", "trigger"}}

\* Constants that are used again long after, beside variables that are alive
\* all the time: the first allocation fails, the second one may succeed.
Long(k, s, t) ==
  LoadImm(4, 5) \o SetWide(5)
    \o Read(x, 6) \o Read(y, 7) \o Message(1)
    \o Repeat(Statement(s, 8) \o Sum(x, x, y, 10), Statement(t, 12), 14)
    \o SetDIO(x) \o SetDIO(y) \o SetDIO(x) \o SetDIO(4)
    \o (IF k > 1 THEN SetDIO(5) ELSE <<>>) \o (IF k > 2 THEN SetDIO(4) ELSE <<>>)
    \o SetDIO(x) \o Finish

Longs == {Long(k, s, t) : k \in 1 .. 3, s \in {"put", "const"}, t \in {"trigger", "put"}}

\* Five variables that are all alive: no split helps.
Crowded ==
  FlattenSeq([n \in 1 .. 5 |-> Read(n, n + 5)])
    \o FlattenSeq([n \in 1 .. 5 |-> SetDIO(n)]) \o Finish

MCPrograms == Short \cup Longs \cup {Crowded}

AllFlags == {"jumps", "labels", "dead", "zero", "regs"}
OnlyDefault == {AllFlags}
LeaveOneOut == {AllFlags \ F : F \in {{f} : f \in AllFlags} \cup {{}, AllFlags}}
MCInputs == {[n \in 1 .. 13 |-> (7 * n) % 16], [n \in 1 .. 13 |-> (5 * n - 5) % 16]}

\* A variable that a branch sets inside a loop, and a value of the loop's end.
ConditionalKill ==
  LoadImm(x, 3) \o LoadImm(3, 2) \o Label(10)
    \o <<I("LD", 4, NoReg, NoReg, 0)>> \o Branch("BRZ", 4, 12) \o Label(11)
    \o LoadImm(x, 5) \o Label(12) \o SetDIO(x)
    \o Read(y, 5) \o SetDIO(y) \o SetDIO(y)
    \o <<I("ADDI", 3, 3, NoReg, -1)>> \o Branch("BRGZ", 3, 10) \o Finish
KillInputs == {[n \in 1 .. 13 |-> IF n = 4 THEN 0 ELSE 7]}
KillPrograms == {ConditionalKill}
=============================================================================
