----------------------------- MODULE Conditions -----------------------------
(***************************************************************************)
(* Comparisons, truth values, bit operations and shifts of the lowering    *)
(* (ast/seqc_ast_eval_impl.inc, ast/seqc_ast_eval_simple.cpp).             *)
(***************************************************************************)
EXTENDS Expressions
LOCAL INSTANCE Bitwise

Bool(cond) == IF cond THEN 1 ELSE 0
Flag(type, cond) == Known(type, "stub", "int", Bool(cond))

\* A register with first, or the opposite if the branch is not taken.
SetFlag(flag, first, cmd, temp, label) ==
  Load(flag, first) \o Branch(cmd, temp, label) \o Load(flag, 1 - first) \o Label(label)

\* What the comparisons leave: a temporary and a flag of their own.
Tested(cs, asm, first, cmd) ==
  Result(NewLabel(NewRegister(NewRegister(cs))), Derived(cs.regs + 1, "stub"),
         asm \o SetFlag(cs.regs + 1, first, cmd, cs.regs, cs.labels))

\* evalGreater: the sign of the difference decides; asm computes the operands.
GreaterThan(cs, l, r, asm) ==
  LET t == cs.regs
  IN  CASE IsVar(l) /\ IsKnown(r) -> Tested(cs, asm \o AddImm(t, l.reg, -r.n), 1, "BRGZ")
        [] IsKnown(l) /\ IsVar(r) -> Tested(cs, asm \o AddImm(t, r.reg, 1 - l.n), 0, "BRGZ")
        [] IsVar(l) /\ IsVar(r) ->
             Tested(cs, asm \o Copy(t, l.reg) \o Twice("SUBR", t, r.reg), 1, "BRGZ")
        [] OTHER -> Refused(cs)

\* Mutant: the code of the left operand is dropped.
GreaterLate(cs, L, R) ==
  IF IsKnown(L.val) /\ IsKnown(R.val)
  THEN Result(cs, Flag(L.val.type, L.val.n > R.val.n), <<>>)
  ELSE GreaterThan(cs, L.val, R.val, R.asm)

Greater(cs, L, R) ==
  IF IsKnown(L.val) /\ IsKnown(R.val)
  THEN Result(cs, Flag(L.val.type, L.val.n > R.val.n), <<>>)
  ELSE GreaterThan(cs, L.val, R.val, L.asm \o R.asm)

\* evalLower: evalGreater with its operands exchanged.
Lower(cs, L, R) ==
  IF IsKnown(L.val) /\ IsKnown(R.val)
  THEN Result(cs, Flag(L.val.type, L.val.n < R.val.n), <<>>)
  ELSE GreaterThan(cs, R.val, L.val, L.asm \o R.asm)

\* evalEqual: numbers are equal when their kinds are, too.
Equal(cs, L, R) ==
  LET l   == L.val
      r   == R.val
      t   == cs.regs
      asm == L.asm \o R.asm
  IN  CASE IsKnown(l) /\ IsKnown(r) ->
             Result(cs, Flag("cvar", l.kind = r.kind /\ l.n = r.n), <<>>)
        [] IsVar(l) /\ IsKnown(r) -> Tested(cs, asm \o AddImm(t, l.reg, -r.n), 1, "BRZ")
        [] IsKnown(l) /\ IsVar(r) -> Tested(cs, asm \o AddImm(t, r.reg, -l.n), 1, "BRZ")
        [] IsVar(l) /\ IsVar(r) ->
             Tested(cs, asm \o Copy(t, l.reg) \o Twice("SUBR", t, r.reg), 1, "BRZ")
        [] OTHER -> Refused(cs)

\* valueToBool: a stub is taken as it is.
ValueToBool(cs, X) ==
  CASE X.val.sub = "stub" -> Result(cs, X.val, X.asm)
    [] IsVar(X.val) ->
         Result(NewLabel(NewRegister(cs)), Derived(cs.regs, "stub"),
                X.asm \o SetFlag(cs.regs, 0, "BRZ", X.val.reg, cs.labels))
    [] IsKnown(X.val) ->
         Result(cs, Known(X.val.type, "default", "int", Bool(Signed(X.val.n) # 0)), X.asm)
    [] OTHER -> Refused(cs)

\* invertBool: exchanges 0 and 1.
InvertBool(X) ==
  LET B == ValueToBool(X.cs, X)
  IN  CASE IsVar(B.val) ->
             Result(NewRegister(B.cs), Held(B.cs.regs, "default"),
                    B.asm \o LogicImm("XNORI", B.cs.regs, B.val.reg, -2))
        [] IsKnown(B.val) -> Result(B.cs, Known(B.val.type, "default", "int",
                                                 Word(B.val.n) ^^ 1), B.asm)
        [] OTHER -> Refused(X.cs)

LEqual(cs, L, R) == InvertBool(Greater(cs, L, R))
GEqual(cs, L, R) == InvertBool(Lower(cs, L, R))
NEqual(cs, L, R) == InvertBool(Equal(cs, L, R))

\* A run-time value with a number that counts as truth: one of the two
\* decides, and code of the other is dropped.
WithTruth(cs, V, K, decides) ==
  IF decides THEN Result(cs, [K.val EXCEPT !.sub = "stub"], <<>>)
  ELSE LET B == ValueToBool(cs, V)
       IN  Result(B.cs, Derived(B.val.reg, CombineSub(V.val.sub, K.val.sub)), B.asm)

\* A run-time value with a number as bits.
WithNumber(cs, V, K, cmd) ==
  Result(NewRegister(cs), Derived(cs.regs, CombineSub(V.val.sub, K.val.sub)),
         V.asm \o LogicImm(cmd, cs.regs, V.val.reg, K.val.n))

WithVar(cs, L, R, cmd) ==
  Result(NewRegister(cs), Derived(cs.regs, CombineSub(L.val.sub, R.val.sub)),
         L.asm \o R.asm \o Copy(cs.regs, L.val.reg) \o Twice(cmd, cs.regs, R.val.reg))

AreNatural(l, r) == Signed(l.n) >= 0 /\ Signed(r.n) >= 0

\* evalAnd.
AndKnown(cs, V, K) ==
  IF K.val.sub = "stub" THEN WithTruth(cs, V, K, K.val.n = 0) ELSE WithNumber(cs, V, K, "ANDI")
AndExpr(cs, L, R) ==
  CASE IsVar(L.val) /\ IsKnown(R.val) -> AndKnown(cs, L, R)
    [] IsKnown(L.val) /\ IsVar(R.val) -> AndKnown(cs, R, L)
    [] IsVar(L.val) /\ IsVar(R.val)   -> WithVar(cs, L, R, "ANDR")
    [] IsKnown(L.val) /\ IsKnown(R.val) ->
         Result(Require(AreNatural(L.val, R.val), cs),
                Combined(L.val, R.val, "int", Word(L.val.n) & Word(R.val.n)), <<>>)
    [] OTHER -> Refused(cs)

\* evalOr.
OrKnown(cs, V, K) ==
  IF K.val.sub = "stub" THEN WithTruth(cs, V, K, K.val.n # 0) ELSE WithNumber(cs, V, K, "ORI")
OrExpr(cs, L, R) ==
  CASE IsVar(L.val) /\ IsKnown(R.val) -> OrKnown(cs, L, R)
    [] IsKnown(L.val) /\ IsVar(R.val) -> OrKnown(cs, R, L)
    [] IsVar(L.val) /\ IsVar(R.val)   -> WithVar(cs, L, R, "ORR")
    [] IsKnown(L.val) /\ IsKnown(R.val) ->
         Result(Require(AreNatural(L.val, R.val), cs),
                Combined(L.val, R.val, "int", Word(L.val.n) | Word(R.val.n)), <<>>)
    [] OTHER -> Refused(cs)

\* SeqCLogAnd, SeqCLogOr: both operands are always evaluated.
LogAnd(cs, L, R) ==
  LET A == ValueToBool(cs, L)
      B == ValueToBool(A.cs, R)
  IN  AndExpr(B.cs, A, B)
LogOr(cs, L, R) ==
  LET A == ValueToBool(cs, L)
      B == ValueToBool(A.cs, R)
  IN  OrExpr(B.cs, A, B)

\* SeqCNotExpr.
NotExpr(cs, X) ==
  LET d    == cs.regs
      zero == cs.labels
      end  == cs.labels + 1
  IN  CASE IsVar(X.val) ->
             Result(NewLabel(NewLabel(NewRegister(cs))), Held(d, "default"),
                    X.asm \o Load(d, 0) \o Branch("BRZ", X.val.reg, zero) \o Goto(end)
                      \o Label(zero) \o Load(d, 1) \o Label(end))
        [] IsKnown(X.val) ->
             Result(cs, Known("const", "default", "int", Bool(Signed(X.val.n) = 0)), X.asm)
        [] OTHER -> Refused(cs)

-----------------------------------------------------------------------------
(* Shifts: amounts count modulo the word, a negative one turns round *)

ShiftMask == WordBits - 1
Magnitude(n) == IF n < 0 THEN -n ELSE n
Opposite(cmd) == IF cmd = "SSL" THEN "SSR" ELSE "SSL"
Directed(cmd, n) == IF Signed(n) < 0 THEN Opposite(cmd) ELSE cmd
Amount(n) == Magnitude(Signed(n)) % WordBits
ShiftNumber(cmd, n, k) == IF cmd = "SSL" THEN Signed(n * 2^k) ELSE Signed(n) \div 2^k

Repeated(code, k) ==
  LET Times[j \in Nat] == IF j = 0 THEN <<>> ELSE code \o Times[j - 1] IN Times[k]

\* Shifts the register as often as temp counts, at least once.
ShiftLoop(cmd, reg, temp, head) ==
  Label(head) \o Shifted(cmd, reg) \o AddImm(temp, temp, -1) \o Branch("BRGZ", temp, head)

\* evalShift by an amount in a register: instructions of the amount are lost.
ShiftByVar(cs, asm, cmd, n, src, amount) ==
  LET down  == n + 1
      up    == n + 2
      shift == cs.labels
      end   == shift + 1
      iloop == shift + 2
      loop  == shift + 3
  IN  asm \o Copy(n, src) \o Branch("BRGZ", amount, shift) \o Branch("BRZ", amount, end)
        \o Load(down, 0) \o Twice("SUBR", down, amount)
        \o LogicImm("ANDI", down, down, ShiftMask)
        \o ShiftLoop(Opposite(cmd), n, down, iloop) \o Goto(end)
        \o Label(shift) \o LogicImm("ANDI", up, amount, ShiftMask)
        \o ShiftLoop(cmd, n, up, loop) \o Label(end)

\* evalShift with an operand in a register: a number to shift is loaded first.
ShiftInRegister(cs, L, R, cmd) ==
  LET l    == L.val
      r    == R.val
      base == IF IsVar(l) THEN cs ELSE NewRegister(cs)
      src  == IF IsVar(l) THEN l.reg ELSE cs.regs
      asm  == L.asm \o (IF IsVar(l) THEN <<>> ELSE Load(src, l.n))
      n    == base.regs
      val  == Derived(n, CombineSub(l.sub, r.sub))
  IN  IF IsKnown(r)
      THEN Result(NewRegister(base), val,
                  asm \o Copy(n, src) \o Repeated(Shifted(Directed(cmd, r.n), n), Amount(r.n)))
      ELSE Result([base EXCEPT !.regs = @ + 3, !.labels = @ + 4], val,
                  ShiftByVar(base, asm, cmd, n, src, r.reg))

\* evalShift.
Shift(cs, L, R, cmd) ==
  CASE "none" \in {L.val.type, R.val.type} -> Refused(cs)
    [] IsKnown(L.val) /\ IsKnown(R.val) ->
         Result(cs, Combined(L.val, R.val, "int",
                             ShiftNumber(Directed(cmd, R.val.n), L.val.n, Amount(R.val.n))),
                L.asm)
    [] OTHER -> ShiftInRegister(cs, L, R, cmd)
=============================================================================
