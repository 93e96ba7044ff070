---------------------------- MODULE Expressions -----------------------------
(***************************************************************************)
(* How the lowering combines evaluated operands: values known at compile   *)
(* time are computed, the others get a fresh register and instructions     *)
(* (ast/seqc_ast_eval_arithmetic.cpp, ast/seqc_ast_eval_simple.cpp,        *)
(* ast/seqc_ast_eval_impl.inc, asm/asm_commands.cpp).                      *)
(*                                                                         *)
(* A result is the store after it, a value and instructions.  A value has  *)
(* a type: "var" lives in a register, "const" and "cvar" are numbers known *)
(* now; and a subtype: a "stub" is taken for 0 or 1.  Numbers are whole.   *)
(* ret is returnEncountered_: what follows is not lowered.  tree is node_  *)
(* with all that is linked to it: a chain of nodes of the program tree.    *)
(***************************************************************************)
EXTENDS AsmCode, Scopes, Words, FiniteSets

Result(cs, val, asm) == [cs |-> cs, val |-> val, asm |-> asm, ret |-> FALSE, tree |-> <<>>]

NoValue == [type |-> "none", sub |-> "default", kind |-> "none", n |-> 0, reg |-> 0]
Held(reg, sub) == [NoValue EXCEPT !.type = "var", !.reg = reg, !.sub = sub]
\* Comparisons, bit operations and shifts leave a number as well, which is 0.
Derived(reg, sub) == [Held(reg, sub) EXCEPT !.kind = "int"]
Known(type, sub, kind, n) ==
  [NoValue EXCEPT !.type = type, !.sub = sub, !.kind = kind, !.n = n]

IsVar(v)   == v.type = "var"
IsKnown(v) == v.type \in {"const", "cvar"}
Refused(cs) == Result(Refuse(cs), NoValue, <<>>)

\* combine, of types and of subtypes.
CombineType(a, b) == IF {a, b} = {"const"} THEN "const" ELSE "cvar"
CombineSub(a, b) ==
  CASE "default" \in {a, b} -> IF a = "default" THEN b ELSE a
    [] "arg" \in {a, b}     -> "arg"
    [] "stub" \in {a, b}    -> "stub"
    [] OTHER                -> "default"

Combined(l, r, kind, n) ==
  Known(CombineType(l.type, r.type), CombineSub(l.sub, r.sub), kind, n)

-----------------------------------------------------------------------------
(* Emission: AsmCommands *)

I(cmd, dst, src, aux, imm)  == Instr(cmd, dst, src, aux, imm, NoLabel)
Label(l)          == <<Instr("LABEL", NoReg, NoReg, NoReg, 0, l)>>
Branch(cmd, r, l) == <<Instr(cmd, NoReg, r, NoReg, 0, l)>>
Goto(l)           == Branch("BRZ", R0, l)

\* emitNodeEntry: a dead entry keeps the place in the code for what the planner
\* will make of its node; the node knows it by the sequence id.
Placeholder(id)   == <<I("INVALID", NoReg, NoReg, NoReg, id)>>
TreeNode(type, id) ==
  [type |-> type, id |-> id, wave |-> 0, reg |-> 0, setting |-> -1, routes |-> {}, how |-> {},
   num |-> 0, once |-> FALSE, maySkip |-> FALSE, bodies |-> <<>>]
Twice(cmd, dst, src) == <<I(cmd, NoReg, src, dst, 0)>>
Shifted(cmd, r)   == <<I(cmd, r, r, NoReg, 0)>>

LowPart(n)  == Word(n) % UpperUnit
HighPart(n) == Word(n) \div UpperUnit
AddUpper(dst, n) == <<I("ADDIU", dst, dst, NoReg, HighPart(n))>>

\* Mutant: a wide immediate is put in one instruction.
AddImmWhole(dst, src, number) == <<I("ADDI", dst, src, NoReg, Signed(number))>>

\* alui on ADDI: an immediate that does not fit is added in two parts.
AddImm(dst, src, number) ==
  LET n == Signed(number)
  IN  IF FitsImm(n) THEN <<I("ADDI", dst, src, NoReg, n)>>
      ELSE <<I("ADDI", dst, src, NoReg, LowPart(n))>> \o AddUpper(dst, n)

\* alui on the other commands: a wide immediate is loaded first.
RegisterForm(cmd) == CASE cmd = "ANDI" -> "ANDR" [] cmd = "ORI" -> "ORR"
LogicImm(cmd, dst, src, number) ==
  LET n == Signed(number)
  IN  IF FitsImm(n) THEN <<I(cmd, dst, src, NoReg, n)>>
      ELSE <<I("ADDI", dst, R0, NoReg, LowPart(n))>>
             \o (IF HighPart(n) > 0 THEN AddUpper(dst, n) ELSE <<>>)
             \o Twice(RegisterForm(cmd), dst, src)

Load(dst, n)   == AddImm(dst, R0, n)
Copy(dst, src) == AddImm(dst, src, 0)

-----------------------------------------------------------------------------
(* Sums and products *)

\* A fresh register for what the code computes.
InRegister(cs, asm) == Result(NewRegister(cs), Held(cs.regs, "default"), asm)

\* The rows of SeqCPlus and SeqCMinus, by where the operands are.
AddNumber(cs, V, k) == InRegister(cs, V.asm \o AddImm(cs.regs, V.val.reg, k))
SubtractFrom(cs, k, V) ==
  InRegister(cs, V.asm \o Load(cs.regs, k) \o Twice("SUBR", cs.regs, V.val.reg))
OfRegisters(cs, cmd, L, R) ==
  InRegister(cs, L.asm \o R.asm \o Copy(cs.regs, L.val.reg) \o Twice(cmd, cs.regs, R.val.reg))

\* SeqCPlus.
Plus(cs, L, R) ==
  CASE IsKnown(L.val) /\ IsKnown(R.val) ->
         Result(cs, Combined(L.val, R.val, "double", L.val.n + R.val.n), <<>>)
    [] IsVar(L.val) /\ IsKnown(R.val) -> AddNumber(cs, L, R.val.n)
    [] IsKnown(L.val) /\ IsVar(R.val) -> AddNumber(cs, R, L.val.n)
    [] IsVar(L.val) /\ IsVar(R.val)   -> OfRegisters(cs, "ADDR", L, R)
    [] OTHER -> Refused(cs)

\* SeqCMinus.
Minus(cs, L, R) ==
  CASE IsKnown(L.val) /\ IsKnown(R.val) ->
         Result(cs, Combined(L.val, R.val, "double", L.val.n - R.val.n), <<>>)
    [] IsVar(L.val) /\ IsKnown(R.val) -> AddNumber(cs, L, -R.val.n)
    [] IsKnown(L.val) /\ IsVar(R.val) -> SubtractFrom(cs, L.val.n, R)
    [] IsVar(L.val) /\ IsVar(R.val)   -> OfRegisters(cs, "SUBR", L, R)
    [] OTHER -> Refused(cs)

BitOf(k, b) == (k \div 2^b) % 2
TopBit(k) == CHOOSE b \in 0 .. WordBits : 2^b <= k /\ k < 2^(b + 1)

\* The loop of computeMult: doubles the product from the top bit of k down.
Product(n, src, k) ==
  LET Down[b \in Nat] ==
        IF b = TopBit(k) THEN Copy(n, src)
        ELSE Down[b + 1] \o Shifted("SSL", n)
               \o (IF BitOf(k, b) = 1 THEN Twice("ADDR", n, src) ELSE <<>>)
  IN  IF k = 0 THEN Load(n, 0) ELSE Down[0]

\* computeMult: a run-time value times a natural number.
ComputeMult(cs, V, K) ==
  CASE K.val.n < 0 -> Refused(cs)
    [] "arg" \in {V.val.sub, K.val.sub} -> Result(cs, V.val, V.asm)
    [] OTHER -> InRegister(cs, V.asm \o Product(cs.regs, V.val.reg, Word(K.val.n)))

\* SeqCMult.
Mult(cs, L, R) ==
  CASE IsKnown(L.val) /\ IsKnown(R.val) ->
         Result(cs, Combined(L.val, R.val, "double", L.val.n * R.val.n), <<>>)
    [] IsVar(L.val) /\ IsKnown(R.val) -> ComputeMult(cs, L, R)
    [] IsKnown(L.val) /\ IsVar(R.val) -> ComputeMult(cs, R, L)
    [] OTHER -> Refused(cs)

\* SeqCMod: numbers only; the remainder has the sign of the dividend.
Remainder(a, b) == IF a < 0 THEN -((-a) % b) ELSE a % b
Mod(cs, L, R) ==
  IF IsKnown(L.val) /\ IsKnown(R.val) /\ R.val.n > 0
  THEN Result(cs, Combined(L.val, R.val, "double", Remainder(L.val.n, R.val.n)), <<>>)
  ELSE Refused(cs)

\* SeqCNeg, SeqCInv: zero minus the value, minus one minus the value.
Neg(cs, X) ==
  CASE IsKnown(X.val) -> Result(cs, [X.val EXCEPT !.kind = "double", !.n = -@], X.asm)
    [] IsVar(X.val) -> SubtractFrom(cs, 0, X)
    [] OTHER -> Refused(cs)
Inv(cs, X) ==
  CASE IsKnown(X.val) ->
         IF Signed(X.val.n) < 0 THEN Refused(cs)
         ELSE Result(cs, Known("const", "default", "int", -1 - Signed(X.val.n)), X.asm)
    [] IsVar(X.val) -> SubtractFrom(cs, -1, X)
    [] OTHER -> Refused(cs)
=============================================================================
