------------------------------ MODULE Lowering ------------------------------
(***************************************************************************)
(* The lowering of a SeqC program: every node of the tree is evaluated     *)
(* once in a scope, in the order the code evaluates its children, and      *)
(* leaves a value, instructions, and nodes of the program tree from which  *)
(* the planner finds the plays (ast/seqc_ast_eval_control.cpp,             *)
(* ast/seqc_ast_eval_simple.cpp, ast/seqc_ast_eval_arithmetic.cpp).        *)
(*                                                                         *)
(* A tree is a record: op names the node, name and num its own data, kids  *)
(* its children in the order of the source text.                           *)
(***************************************************************************)
EXTENDS Plays

CONSTANT UnrollLimit  \* AWGCompilerConfig::loopUnrollLimit

ASSUME LoweringAssumption == UnrollLimit \in Nat

Tree(op, kids) == [op |-> op, name |-> "", num |-> 0, kids |-> kids]

RECURSIVE Evaluate(_, _, _), UnrollWhile(_, _, _, _), UnrollDo(_, _, _, _),
          UnrollFor(_, _, _, _), UnrollBody(_, _, _, _)

\* In a new scope of its own below at.
InScope(t, at, cs) == LET sub == SubScope(cs, at) IN Evaluate(t, Last(sub), sub)
\* In a new scope below a new scope that is under run-time control.
InActiveScope(t, at, cs) ==
  LET outer == SubScope(cs, at)
      a     == Last(outer)
  IN  InScope(t, a, SetState(outer, a))

-----------------------------------------------------------------------------
(* The program tree *)

\* The result with these nodes for its own.
Planted(X, tree) == [X EXCEPT !.tree = tree]

\* Mutant: every branch is taken to run one of its bodies.
BranchTaken(id, bodies, maySkip) ==
  <<[TreeNode("branch", id) EXCEPT !.bodies = bodies, !.maySkip = FALSE]>>
BranchNode(id, bodies, maySkip) ==
  <<[TreeNode("branch", id) EXCEPT !.bodies = bodies, !.maySkip = maySkip]>>

\* loopArgNodeAppend: what is evaluated for the head of a loop goes into its
\* body, under the sequence id of what stands there, or of the loop.
WithArgument(id, chain, arg) ==
  IF arg = <<>> THEN chain
  ELSE chain \o <<[Head(arg) EXCEPT !.id = IF chain = <<>> THEN id ELSE chain[Len(chain)].id]>>
             \o Tail(arg)
LoopNode(id, once, args, body) ==
  LET Upto[k \in 0 .. Len(args)] ==
        IF k = 0 THEN <<>> ELSE WithArgument(id, Upto[k - 1], args[k])
  IN  <<[TreeNode("loop", id) EXCEPT !.once = once, !.bodies = <<Upto[Len(args)] \o body>>]>>

\* The rounds of an unrolled loop: nodes are linked to those of the round
\* before, and what comes after a round without any hangs in the air.
Linked(rounds) ==
  LET From[k \in 1 .. Len(rounds) + 1] ==
        IF k > Len(rounds) \/ rounds[k] = <<>> THEN <<>> ELSE rounds[k] \o From[k + 1]
      some == {k \in DOMAIN rounds : rounds[k] # <<>>}
  IN  IF some = {} THEN <<>> ELSE From[CHOOSE k \in some : \A j \in some : k <= j]
FirstRound(B, rest) == [rest EXCEPT !.asm = B.asm \o @, !.tree = <<B.tree>> \o @]
OnlyRound(B) == Planted(B, <<B.tree>>)

-----------------------------------------------------------------------------
(* Names, assignments and operators *)

Types == {"var", "const", "cvar", "wave"}

\* SeqCVariable: a declaration, a variable that is read, and the target of an
\* assignment, whose value need not be there yet.
DeclareWave(t, at, cs) ==
  Result(AddWave(cs, at, t.name), WaveValue(Len(cs.waves) + 1, "default"), <<>>)
DeclareNumber(t, at, cs) ==
  Result(AddVariable(cs, at, t.name, t.op, IF t.op = "var" THEN "default" ELSE "stub"),
         IF t.op = "var" THEN Held(cs.regs, "default") ELSE Known(t.op, "default", "int", 0),
         <<>>)
Declare(t, at, cs) == IF t.op = "wave" THEN DeclareWave(t, at, cs) ELSE DeclareNumber(t, at, cs)
Stored(v) ==
  CASE v.type = "var"  -> Held(v.reg, "default")
    [] v.type = "wave" -> WaveValue(v.n, v.sub)
    [] OTHER           -> Known(v.type, v.sub, v.kind, v.n)
ReadName(t, at, cs) ==
  IF IsDefined(cs, at, t.name)
  THEN Result(Read(cs, at, t.name), Stored(Variable(cs, at, t.name)), <<>>)
  ELSE Refused(cs)
Target(t, at, cs) ==
  CASE t.op \in Types -> Declare(t, at, cs)
    [] t.op = "name" /\ IsDefined(cs, at, t.name) ->
         Result(Looked(cs, at, t.name), Stored(Variable(cs, at, t.name)), <<>>)
    [] OTHER -> Refused(cs)

\* SeqCArray: an element of a wave, which is also read if it is assigned to.
Indexed(t, at, cs) ==
  LET W == Evaluate(t.kids[1], at, cs)
      N == Evaluate(t.kids[2], at, W.cs)
  IN  [of    |-> W.val,
       index |-> AsInt(N.val),
       read  |-> IF N.cs.ok THEN Element(N.cs, W.val, N.val) ELSE Refused(N.cs)]
AssignElement(t, at, cs) ==
  LET E == Indexed(t.kids[1], at, cs)
      R == Evaluate(t.kids[2], at, E.read.cs)
  IN  IF R.cs.ok THEN WriteElement(R.cs, E.of, E.index, R.val) ELSE Refused(R.cs)

\* SeqCAssign: a run-time variable is written by code, a constant in its scope.
AssignVar(name, at, L, R) ==
  LET id   == R.cs.entries
      code == IF IsKnown(R.val) THEN Load(L.val.reg, R.val.n)
              ELSE R.asm \o Copy(L.val.reg, R.val.reg)
  IN  Planted(Result(UpdateVar(NewEntry(R.cs), at, name), NoValue, code \o Placeholder(id)),
              <<[TreeNode("setvar", id) EXCEPT !.reg = L.val.reg]>>)
AssignConstant(name, at, L, R) ==
  Result(UpdateConstant(R.cs, at, name, L.val.type, R.val.n, L.val.sub), NoValue, <<>>)
Assign(t, at, cs) ==
  LET L    == Target(t.kids[1], at, cs)
      R    == Evaluate(t.kids[2], at, L.cs)
      name == t.kids[1].name
  IN  CASE R.cs.ok /\ IsVar(L.val) /\ (IsVar(R.val) \/ IsKnown(R.val)) ->
             AssignVar(name, at, L, R)
        [] R.cs.ok /\ IsKnown(L.val) /\ IsKnown(R.val) -> AssignConstant(name, at, L, R)
        [] R.cs.ok /\ IsWaveValue(L.val) -> AssignWave(R.cs, at, name, L.val, R.val)
        [] OTHER -> Refused(R.cs)

\* SeqCOperator: the left operand, then the right one.
OfNumbers(op, cs, L, R) ==
  CASE op = "+"  -> Plus(cs, L, R)
    [] op = "-"  -> Minus(cs, L, R)
    [] op = "*"  -> Mult(cs, L, R)
    [] op = "%"  -> Mod(cs, L, R)
    [] op = "<"  -> Lower(cs, L, R)
    [] op = ">"  -> Greater(cs, L, R)
    [] op = "<=" -> LEqual(cs, L, R)
    [] op = ">=" -> GEqual(cs, L, R)
    [] op = "==" -> Equal(cs, L, R)
    [] op = "!=" -> NEqual(cs, L, R)
    [] op = "&"  -> AndExpr(cs, L, R)
    [] op = "|"  -> OrExpr(cs, L, R)
    [] op = "&&" -> LogAnd(cs, L, R)
    [] op = "||" -> LogOr(cs, L, R)
    [] op = "<<" -> Shift(cs, L, R, "SSL")
    [] op = ">>" -> Shift(cs, L, R, "SSR")

Operate(op, cs, L, R) ==
  IF IsWaveValue(L.val) \/ IsWaveValue(R.val) THEN OfWaves(op, cs, L.val, R.val)
  ELSE OfNumbers(op, cs, L, R)

BinaryOps == {"+", "-", "*", "%", "<", ">", "<=", ">=", "==", "!=", "&", "|",
              "&&", "||", "<<", ">>"}

Binary(t, at, cs) ==
  LET L == Evaluate(t.kids[1], at, cs)
      R == Evaluate(t.kids[2], at, L.cs)
  IN  IF R.cs.ok THEN Operate(t.op, R.cs, L, R) ELSE Refused(R.cs)

UnaryOps == {"neg", "~", "!"}
Unary(t, at, cs) ==
  LET X == Evaluate(t.kids[1], at, cs)
  IN  CASE t.op = "neg" -> IF IsWaveValue(X.val) THEN NegateWave(X.cs, X.val) ELSE Neg(X.cs, X)
        [] t.op = "~"   -> Inv(X.cs, X)
        [] t.op = "!"   -> NotExpr(X.cs, X)

\* SeqCInc, SeqCDec: num is the step, name tells where the sign stands.
Step(t, at, cs) ==
  LET X    == Evaluate(t.kids[1], at, cs)
      v    == X.val
      code == AddImm(v.reg, v.reg, t.num)
      new  == UpdateConstant(X.cs, at, t.kids[1].name, "cvar", v.n + t.num, "default")
      post == t.name = "post"
  IN  CASE ~X.cs.ok -> Refused(X.cs)
        [] IsVar(v) /\ post ->
             Result(NewRegister(X.cs), Held(X.cs.regs, "default"),
                    X.asm \o Copy(X.cs.regs, v.reg) \o code)
        [] IsVar(v) /\ ~post -> Result(X.cs, Held(v.reg, "default"), X.asm \o code)
        [] v.type = "cvar" ->
             Result(new, Known("cvar", "default", "double", IF post THEN v.n ELSE v.n + t.num),
                    <<>>)
        [] OTHER -> Refused(X.cs)

\* SeqCCondExpr: without run-time control of the scopes of its arms.
Arm(reg, X) ==
  IF IsVar(X.val) THEN X.asm \o Copy(reg, X.val.reg) ELSE Load(reg, X.val.n)
RunTimeChoice(t, at, C) ==
  LET id  == C.cs.entries
      A   == InScope(t.kids[2], at, NewEntry(C.cs))
      B   == InScope(t.kids[3], at, A.cs)
      n   == B.cs.regs
      alt == B.cs.labels
      end == alt + 1
  IN  IF ~IsValue(A.val) \/ ~IsValue(B.val) THEN Refused(B.cs)
      ELSE Planted(Result(NewLabel(NewLabel(NewRegister(B.cs))), Held(n, "default"),
                     C.asm \o Placeholder(id) \o Branch("BRZ", C.val.reg, alt) \o Arm(n, A)
                       \o Goto(end) \o Label(alt) \o Arm(n, B) \o Label(end)),
                   BranchNode(id, <<>>, FALSE))
KnownChoice(t, at, C) ==
  LET dead == InScope(t.kids[IF C.val.n # 0 THEN 3 ELSE 2], at, C.cs)
      live == InScope(t.kids[IF C.val.n # 0 THEN 2 ELSE 3], at, dead.cs)
      n    == live.cs.regs
  IN  IF IsVar(live.val) THEN Result(NewRegister(live.cs), Held(n, "default"), Arm(n, live))
      ELSE Result(live.cs, [live.val EXCEPT !.sub = "default"], <<>>)
CondExpr(t, at, cs) ==
  LET C == Evaluate(t.kids[1], at, cs)
  IN  CASE C.cs.ok /\ IsVar(C.val)   -> RunTimeChoice(t, at, C)
        [] C.cs.ok /\ IsKnown(C.val) -> KnownChoice(t, at, C)
        [] OTHER -> Refused(C.cs)

\* The flag and the value of X, with other code.
WithCode(X, asm) == [X EXCEPT !.asm = asm]
\* Its flag only.
Flagged(X, asm) == [WithCode(X, asm) EXCEPT !.val = NoValue]

\* Mutant: the nodes of each statement are linked before the others.
ChainFront(done, X) == [X EXCEPT !.asm = done.asm \o @, !.tree = @ \o done.tree]
\* SeqCStmtList: ends at a statement that returns, and remembers the value; the
\* nodes of that statement are not kept.
Chain(done, X) ==
  [X EXCEPT !.asm = done.asm \o @, !.tree = done.tree \o (IF X.ret THEN <<>> ELSE @)]
Returned(X, at) ==
  [X EXCEPT !.cs = SetReturnValue(X.cs, at, IF X.val = NoValue THEN Number("int", 0) ELSE X.val)]
StmtList(t, at, cs) ==
  LET Upto[k \in 0 .. Len(t.kids)] ==
        IF k = 0 THEN Result(cs, NoValue, <<>>)
        ELSE LET done == Upto[k - 1]
                 X    == Evaluate(t.kids[k], at, done.cs)
                 all  == Chain(done, X)
             IN  CASE done.ret           -> done
                   [] ~done.ret /\ X.ret -> Returned(all, at)
                   [] OTHER              -> all
  IN  Upto[Len(t.kids)]

-----------------------------------------------------------------------------
(* Functions: a definition is a node def with the return type, the           *)
(* parameters and the body for children; a call is lowered in place.         *)

\* SeqCFunction: the body is evaluated once for its errors.
Function(t) ==
  [name |-> t.name, returns |-> t.kids[1].name, params |-> t.kids[2].kids, body |-> t.kids[3]]
Define(t, at, cs) ==
  LET f     == Function(t)
      added == AddFunction(cs, at, f)
      B     == Evaluate(f.body, Last(added), [added EXCEPT !.inFunctionDef = TRUE])
  IN  Result(Require(B.ret \/ f.returns = "void", [B.cs EXCEPT !.inFunctionDef = FALSE]),
             NoValue, <<>>)

\* SeqCArgList: every argument is evaluated before the first is handed over.
Arguments(args, at, cs) ==
  LET Upto[k \in 0 .. Len(args)] ==
        IF k = 0 THEN [cs |-> cs, vals |-> <<>>, asm |-> <<>>]
        ELSE LET done == Upto[k - 1]
                 X    == Evaluate(args[k], at, done.cs)
             IN  [cs |-> X.cs, vals |-> Append(done.vals, X.val), asm |-> done.asm \o X.asm]
  IN  Upto[Len(args)]

\* A run-time parameter is a register of its own, the others are numbers or waves.
HandOver(p, v, s, cs) ==
  LET held == GetRegister(cs, s, p.name)
      reg  == Variable(held, s, p.name).reg
  IN  CASE p.op = "var" /\ IsVar(v)   -> Result(held, NoValue, Copy(reg, v.reg))
        [] p.op = "var" /\ IsKnown(v) -> Result(held, NoValue, Load(reg, v.n))
        [] p.op = "wave" /\ IsWaveValue(v) -> Result(UpdateWave(cs, s, p.name, v.n, v.sub), NoValue, <<>>)
        [] p.op \in {"const", "cvar"} /\ IsKnown(v) ->
             Result(Update(cs, s, p.name, [Variable(cs, s, p.name) EXCEPT
                             !.n = v.n, !.kind = "double", !.sub = v.sub]), NoValue, <<>>)
        [] OTHER -> Refused(cs)
HandOverAll(f, vals, s, cs) ==
  LET Upto[k \in 0 .. Len(vals)] ==
        IF k = 0 THEN Result(cs, NoValue, <<>>)
        ELSE LET done == Upto[k - 1]
                 X    == HandOver(f.params[k], vals[k], s, done.cs)
             IN  WithCode(X, done.asm \o X.asm)
  IN  Upto[Len(vals)]

\* What the call is worth to its caller.
CallValue(f, s, B) ==
  LET own == B.cs.scopes[s]
  IN  CASE f.returns = "void"          -> [NoValue EXCEPT !.type = "void"]
        [] f.returns = "var" /\ B.ret  -> Held(own.returnReg, "default")
        [] f.returns \in {"const", "cvar"} /\ B.ret ->
             Known(f.returns, "default", own.value.kind, own.value.n)
        [] OTHER -> NoValue

\* SeqCFunctionCall of a function of the program.
Left(f, s, before, B, label) ==
  Planted(Result([B.cs EXCEPT !.labelStack = SubSeq(@, 1, Len(@) - 1)], CallValue(f, s, B),
                 before \o B.asm \o Label(label)), B.tree)
Entered(f, s, before, P, label) ==
  LET cs == IF f.returns = "var" THEN SetReturnReg(P.cs, s) ELSE P.cs
  IN  Left(f, s, before \o P.asm, Evaluate(f.body, s, cs), label)
Inlined(f, g, A, label) ==
  LET fresh == ResetScope(A.cs, g)
      s     == Last(fresh)
  IN  Entered(f, s, A.asm, HandOverAll(f, A.vals, s, fresh), label)
CallFunction(t, at, cs) ==
  LET label == cs.labels
      A == Arguments(t.kids, at, [NewLabel(cs) EXCEPT !.labelStack = Append(@, label)])
      g == GetFunction(A.cs, at, t.name, Len(A.vals))
  IN  IF ~A.cs.ok \/ g = NoFunction \/ Len(FunctionAt(A.cs, g).params) # Len(A.vals)
      THEN Refused(A.cs)
      ELSE Inlined(FunctionAt(A.cs, g), g, A, label)

\* SeqCFunctionCall of a built-in function: its arguments have a scope of
\* their own, and their nodes are not kept.
CallBuiltIn(t, at, cs) ==
  LET sub == SubScope(cs, at)
      A   == Arguments(t.kids, Last(sub), sub)
  IN  IF A.cs.ok THEN Before(A.asm, Called(t.name, A.cs, A.vals)) ELSE Refused(A.cs)
Call(t, at, cs) ==
  IF IsFunction(cs, at, t.name) THEN CallFunction(t, at, cs) ELSE CallBuiltIn(t, at, cs)

\* SeqCReturnStatement: jumps behind the innermost call.
JumpOut(cs) == IF cs.labelStack = <<>> THEN <<>> ELSE Goto(cs.labelStack[Len(cs.labelStack)])
ReturnWith(cs, val, asm) == [Result(cs, val, asm \o JumpOut(cs)) EXCEPT !.ret = TRUE]
ReturnValue(type, s, X, at) ==
  CASE type = "var" /\ IsVar(X.val) ->
         ReturnWith(X.cs, NoValue, X.asm \o Copy(X.cs.scopes[s].returnReg, X.val.reg))
    [] type = "var" /\ IsKnown(X.val) ->
         ReturnWith(X.cs, NoValue, X.asm \o Load(X.cs.scopes[s].returnReg, X.val.n))
    [] type \in {"const", "cvar"} /\ IsKnown(X.val) ->
         ReturnWith(SetReturnValue(X.cs, at, X.val), X.val, X.asm)
    [] OTHER -> Refused(X.cs)
Return(t, at, cs) ==
  LET s    == ReturnScope(cs, at)
      type == cs.scopes[s].returns
  IN  CASE s = 0 -> Refused(cs)
        [] s # 0 /\ t.kids = <<>> -> IF type = "void" THEN ReturnWith(cs, NoValue, <<>>) ELSE Refused(cs)
        [] s # 0 /\ t.kids # <<>> -> ReturnValue(type, s, Evaluate(t.kids[1], at, cs), at)

-----------------------------------------------------------------------------
(* Branches *)

\* jumpIfZero.
JumpIfZero(v, label) ==
  CASE IsVar(v)                -> Branch("BRZ", v.reg, label)
    [] IsKnown(v) /\ v.n = 0   -> Goto(label)
    [] IsKnown(v) /\ v.n # 0   -> <<>>

\* SeqCIfCondition.
RunTimeIf(t, at, C, end, yes) ==
  LET id == C.cs.entries
      B  == InActiveScope(t.kids[2], at, NewEntry(C.cs))
  IN  Planted(Result(B.cs, NoValue, C.asm \o Placeholder(id) \o Branch("BRZ", C.val.reg, end)
                                      \o Label(yes) \o B.asm \o Label(end)),
              BranchNode(id, <<B.tree>>, TRUE))
KnownIf(t, at, C) ==
  IF C.val.n # 0 THEN InScope(t.kids[2], at, C.cs) ELSE Result(C.cs, NoValue, <<>>)
If(t, at, cs) ==
  LET C == InScope(t.kids[1], at, NewLabel(NewLabel(cs)))
  IN  CASE C.cs.ok /\ IsVar(C.val)   -> RunTimeIf(t, at, C, cs.labels, cs.labels + 1)
        [] C.cs.ok /\ IsKnown(C.val) -> KnownIf(t, at, C)
        [] OTHER -> Refused(C.cs)

\* SeqCIfElse: with a condition known now the dead branch is evaluated first,
\* behind a boundary, and its code dropped; a definition must return on both.
RunTimeIfElse(t, at, C, alt) ==
  LET id == C.cs.entries
      A  == InActiveScope(t.kids[2], at, NewEntry(C.cs))
      B  == InActiveScope(t.kids[3], at, A.cs)
      yes == alt + 1
      end == alt + 2
  IN  [Result(B.cs, NoValue,
              C.asm \o Placeholder(id) \o Branch("BRZ", C.val.reg, alt) \o Label(yes) \o A.asm
                \o Goto(end) \o Label(alt) \o B.asm \o Label(end))
         EXCEPT !.ret = A.ret /\ B.ret, !.tree = BranchNode(id, <<A.tree, B.tree>>, FALSE)]
KnownIfElse(t, at, C) ==
  LET dead == InScope(t.kids[IF C.val.n # 0 THEN 3 ELSE 2], at, SetBoundary(C.cs, at, TRUE))
      live == InScope(t.kids[IF C.val.n # 0 THEN 2 ELSE 3], at,
                      SetBoundary(dead.cs, at, FALSE))
  IN  [live EXCEPT !.ret = @ /\ (C.cs.inFunctionDef => dead.ret)]
IfElse(t, at, cs) ==
  LET C == InScope(t.kids[1], at, [cs EXCEPT !.labels = @ + 3])
  IN  CASE C.cs.ok /\ IsVar(C.val)   -> RunTimeIfElse(t, at, C, cs.labels)
        [] C.cs.ok /\ IsKnown(C.val) -> KnownIfElse(t, at, C)
        [] OTHER -> Refused(C.cs)

-----------------------------------------------------------------------------
(* Loops: the scope a of a loop goes under run-time control before its body  *)
(* is evaluated, unless the loop is unrolled.                                *)

Body(t, a, cs) == InScope(t, a, SetState(cs, a))

\* k more copies of a body whose loop is unrolled; each in a scope of its own.
UnrollBody(t, a, cs, k) ==
  IF k = 0 \/ ~cs.ok THEN Result(cs, NoValue, <<>>)
  ELSE LET B    == InScope(t, a, cs)
           rest == UnrollBody(t, a, B.cs, k - 1)
       IN  IF B.ret \/ k = 1 THEN B ELSE WithCode(rest, B.asm \o rest.asm)

UnrollWhile(t, a, C, k) ==
  CASE ~C.cs.ok \/ k > UnrollLimit + 1 -> Refused(C.cs)
    [] C.cs.ok /\ k <= UnrollLimit + 1 /\ C.val.n = 0 -> Result(C.cs, NoValue, <<>>)
    [] OTHER ->
         LET B    == InScope(t.kids[2], a, C.cs)
             rest == UnrollWhile(t, a, Evaluate(t.kids[1], a, B.cs), k + 1)
         IN  IF B.ret THEN OnlyRound(B) ELSE FirstRound(B, rest)

\* SeqCWhileLoop.
RunTimeWhile(t, a, C, head) ==
  LET id   == C.cs.entries
      B    == Body(t.kids[2], a, NewEntry(C.cs))
      loop == head + 1
      end  == head + 2
      test == JumpIfZero(C.val, end)
  IN  Planted(Flagged(B, Label(head) \o C.asm \o test \o Placeholder(id) \o Label(loop) \o B.asm
                           \o Goto(head) \o Label(end)),
              LoopNode(id, test = <<>>, <<C.tree>>, B.tree))
While(t, at, cs) ==
  LET outer == SubScope([cs EXCEPT !.labels = @ + 3], at)
      a     == Last(outer)
      C     == Evaluate(t.kids[1], a, outer)
  IN  CASE ~C.cs.ok \/ C.val.type = "none" -> Refused(C.cs)
        [] C.val.type = "cvar" -> LET X == UnrollWhile(t, a, C, 0) IN Planted(X, Linked(X.tree))
        [] OTHER -> RunTimeWhile(t, a, C, cs.labels)

UnrollDo(t, a, cs, k) ==
  LET B == InScope(t.kids[1], a, cs)
      C == Evaluate(t.kids[2], a, B.cs)
      rest == UnrollDo(t, a, C.cs, k + 1)
  IN  CASE ~B.cs.ok \/ B.ret -> OnlyRound(B)
        [] ~B.ret /\ (~C.cs.ok \/ k > UnrollLimit) -> Refused(cs)
        [] ~B.ret /\ C.cs.ok /\ k <= UnrollLimit /\ C.val.n = 0 -> OnlyRound(B)
        [] OTHER -> FirstRound(B, rest)

\* The jump back of a do loop.
JumpBack(v, head) ==
  CASE IsVar(v)               -> Branch("BRNZ", v.reg, head)
    [] ~IsVar(v) /\ v.n # 0   -> Goto(head)
    [] ~IsVar(v) /\ v.n = 0   -> <<>>

\* SeqCDoWhile: the condition is evaluated before the body, behind a boundary,
\* and again after it; the code of the first one is used.
DoWhile(t, at, cs) ==
  LET outer   == SubScope([cs EXCEPT !.labels = @ + 3], at)
      a       == Last(outer)
      head    == cs.labels
      test    == head + 1
      end     == head + 2
      C       == Evaluate(t.kids[2], a, SetBoundary(outer, a, TRUE))
      now     == C.val.type = "cvar"
      entered == SetBoundary(IF now THEN C.cs ELSE SetState(C.cs, a), a, FALSE)
      B       == InScope(t.kids[1], a, entered)
      again   == Evaluate(t.kids[2], a, B.cs)
      rest    == UnrollDo(t, a, again.cs, 0)
      id      == again.cs.entries
  IN  CASE ~again.cs.ok \/ C.val.type = "none" -> Refused(C.cs)
        [] now   -> [rest EXCEPT !.asm = Label(head) \o B.asm \o Label(test) \o @,
                                 !.tree = Linked(<<B.tree>> \o @)]
        [] OTHER -> [Result(NewEntry(again.cs), NoValue,
                            Label(head) \o B.asm \o Label(test) \o C.asm \o Placeholder(id)
                              \o JumpBack(C.val, head) \o Label(end))
                       EXCEPT !.ret = B.ret, !.tree = LoopNode(id, TRUE, <<C.tree>>, B.tree)]

\* The run-time loop of SeqCRepeat on its counter.
CountDown(count, loop, id, asm) ==
  Label(loop) \o Placeholder(id) \o asm \o AddImm(count, count, -1) \o Branch("BRGZ", count, loop)

\* SeqCRepeat: a number of times known now is a loop all the same if the body
\* leaves code.
RunTimeRepeat(t, a, N, loop, end) ==
  LET count == N.cs.regs
      id    == N.cs.entries
      B     == Evaluate(t.kids[2], a, SetState(NewEntry(NewRegister(N.cs)), a))
  IN  Planted(Flagged(B, N.asm \o Copy(count, N.val.reg) \o Branch("BRZ", count, end)
                           \o CountDown(count, loop, id, B.asm) \o Label(end)),
              LoopNode(id, FALSE, <<N.tree>>, B.tree))
KnownRepeat(t, a, N, loop) ==
  LET k     == N.val.n
      count == N.cs.regs
      held  == NewRegister(N.cs)
      once  == InScope(t.kids[2], a, SetBoundary(held, a, TRUE))
      tried == IF k > UnrollLimit THEN held ELSE SetBoundary(once.cs, a, FALSE)
      id    == tried.entries
      B     == Evaluate(t.kids[2], a, SetState(NewEntry(tried), a))
  IN  CASE k < 0        -> Refused(N.cs)
        [] k \in {0, 1} -> UnrollBody(t.kids[2], a, held, k)
        [] k > 1 /\ (k > UnrollLimit \/ once.asm # <<>>) ->
             Planted(Flagged(B, Load(count, k) \o CountDown(count, loop, id, B.asm)),
                     LoopNode(id, TRUE, <<N.tree>>, B.tree))
        [] k > 1 /\ k <= UnrollLimit /\ once.asm = <<>> ->
             UnrollBody(t.kids[2], a, tried, k - 1)
Repeat(t, at, cs) ==
  LET outer == SubScope([cs EXCEPT !.labels = @ + 2], at)
      a     == Last(outer)
      N     == Evaluate(t.kids[1], a, outer)
  IN  CASE N.cs.ok /\ IsVar(N.val)   -> RunTimeRepeat(t, a, N, cs.labels, cs.labels + 1)
        [] N.cs.ok /\ IsKnown(N.val) -> KnownRepeat(t, a, N, cs.labels)
        [] OTHER -> Refused(N.cs)

\* One round of an unrolled for: the condition, the body, the step.
UnrollFor(t, a, cs, k) ==
  LET C == Evaluate(t.kids[2], a, cs)
      B == InScope(t.kids[4], a, C.cs)
      S == Evaluate(t.kids[3], a, B.cs)
      rest == UnrollFor(t, a, S.cs, k + 1)
  IN  CASE C.cs.ok /\ C.val.n = 0 -> Result(C.cs, NoValue, <<>>)
        [] ~C.cs.ok \/ (C.val.n # 0 /\ k > UnrollLimit) -> Refused(C.cs)
        [] OTHER -> IF B.ret THEN OnlyRound(B) ELSE FirstRound(B, rest)

\* SeqCForLoop: the step is evaluated before the body; an unrolled loop starts
\* again in a new scope.
RunTimeFor(t, a, S0, C, S, head) ==
  LET id   == S.cs.entries
      B    == Body(t.kids[4], a, NewEntry(S.cs))
      loop == head + 1
      end  == head + 2
      test == JumpIfZero(C.val, end)
  IN  Planted(Flagged(B, S0.asm \o Label(head) \o C.asm \o test \o Label(loop) \o Placeholder(id)
                           \o B.asm \o S.asm \o Goto(head) \o Label(end)),
              LoopNode(id, test = <<>>, <<S0.tree, C.tree, S.tree>>, B.tree))
For(t, at, cs) ==
  LET outer == SubScope([cs EXCEPT !.labels = @ + 3], at)
      a     == Last(outer)
      S0    == Evaluate(t.kids[1], a, outer)
      C     == Evaluate(t.kids[2], a, S0.cs)
      S     == Evaluate(t.kids[3], a, C.cs)
      fresh == SubScope(S.cs, at)
      begun == Evaluate(t.kids[1], Last(fresh), fresh)
  IN  CASE ~S.cs.ok \/ C.val.type = "none" -> Refused(S.cs)
        [] C.val.type = "cvar" ->
             LET X == UnrollFor(t, Last(fresh), begun.cs, 0) IN Planted(X, Linked(X.tree))
        [] OTHER -> RunTimeFor(t, a, S0, C, S, cs.labels)

-----------------------------------------------------------------------------
(* Switches: kids are the condition and the cases; the first statement of a *)
(* case is its body, the others stand beside it, and their nodes are lost.  *)

Beside(case, at, cs) ==
  LET Upto[k \in 1 .. Len(case.kids)] ==
        IF k = 1 THEN Result(cs, NoValue, <<>>)
        ELSE LET done == Upto[k - 1]
                 X    == Evaluate(case.kids[k], at, done.cs)
             IN  Result(X.cs, NoValue, done.asm \o X.asm)
  IN  Upto[Len(case.kids)]

\* evalCaseBody: which bodies are evaluated.
IsBodyEvaluated(case, v, cs, s) ==
  CASE IsVar(v)            -> TRUE
    [] case.op = "case"    -> IsKnown(v) /\ Signed(v.n) = case.num
    [] case.op = "default" -> IsKnown(v) /\ ~cs.scopes[s].boundary

CaseBody(case, s, v, cs) ==
  LET entered == IF IsVar(v) THEN cs ELSE SetBoundary(cs, s, TRUE)
      B == IF case.kids # <<>> /\ IsBodyEvaluated(case, v, cs, s)
           THEN Evaluate(case.kids[1], s, entered) ELSE Result(cs, NoValue, <<>>)
      more == Beside(case, s, B.cs)
  IN  IF case.kids = <<>> THEN B
      ELSE Planted(Result(more.cs, NoValue, B.asm \o more.asm), B.tree)

\* evalCases: the code and the nodes of each case, whether it applies or not.
Cases(t, s, v, cs) ==
  LET Upto[k \in 1 .. Len(t.kids)] ==
        IF k = 1 THEN [cs |-> cs, codes |-> <<>>, trees |-> <<>>]
        ELSE LET done == Upto[k - 1]
                 X    == CaseBody(t.kids[k], s, v, done.cs)
             IN  [cs |-> X.cs, codes |-> Append(done.codes, X.asm),
                  trees |-> Append(done.trees, X.tree)]
  IN  Upto[Len(t.kids)]

CasesOf(t) == {k \in 1 .. Len(t.kids) - 1 : t.kids[k + 1].op = "case"}
DefaultsOf(t) == (1 .. Len(t.kids) - 1) \ CasesOf(t)
LastOf(S) == CHOOSE k \in S : \A j \in S : j <= k

\* The case a constant switch takes: the label is a whole number, and so must
\* the value be.
Chosen(t, v) ==
  LET M == {k \in CasesOf(t) : v.kind = "int" /\ v.n = t.kids[k + 1].num}
  IN  IF M # {} THEN {LastOf(M)}
      ELSE IF DefaultsOf(t) # {} THEN {LastOf(DefaultsOf(t))} ELSE {}

\* A default counts only as the last of the cases.
HasDefault(t) == Len(t.kids) - 1 \in DefaultsOf(t)

\* Every body waits until the cycles of all the tests are over.
Wait(reg) == AwaitMask(reg, WaitTrigger)
SwitchCycles(t) == 4 * Len(t.kids) - 4
Join(codes, S) ==
  LET Upto[k \in 0 .. Len(codes)] ==
        IF k = 0 THEN <<>> ELSE Upto[k - 1] \o (IF k \in S THEN codes[k] ELSE <<>>)
  IN  Upto[Len(codes)]

\* The tests of a switch: one difference for each case, then the jump of the rest.
Tests(t, v, r, l, other) ==
  LET test(k) == AddImm(r + k, v.reg, -t.kids[k + 1].num) \o Branch("BRZ", r + k, l + k)
  IN  Load(r, SwitchCycles(t)) \o <<I("ST", NoReg, r, NoReg, Address.triggerLoad)>>
        \o Join([k \in 1 .. Len(t.kids) - 1 |-> test(k)], CasesOf(t))
        \o <<I("NOP", NoReg, NoReg, NoReg, 0)>> \o Goto(other)
\* Its bodies, the default behind all the others.
Bodies(t, codes, r, l, end) ==
  LET body(k) == (IF k \in CasesOf(t) THEN Label(l + k) ELSE <<>>) \o Wait(r + Len(codes) + k)
                   \o codes[k] \o Goto(end)
      all == [k \in 1 .. Len(codes) |-> body(k)]
  IN  Join(all, CasesOf(t)) \o (IF HasDefault(t) THEN Label(l) ELSE <<>>)
        \o Join(all, DefaultsOf(t)) \o Label(end)

\* SeqCSwitchCase.
RunTimeSwitch(t, C, All) ==
  LET id  == C.cs.entries
      r   == All.cs.regs
      l   == All.cs.labels
      N   == Len(t.kids) - 1
      end == l + N + 1
  IN  Planted(Result([All.cs EXCEPT !.regs = @ + 2 * N + 1, !.labels = @ + N + 2], NoValue,
                     C.asm \o Placeholder(id) \o Tests(t, C.val, r, l, IF HasDefault(t) THEN l ELSE end)
                       \o Bodies(t, All.codes, r, l, end)),
              BranchNode(id, All.trees, DefaultsOf(t) = {}))
KnownSwitch(t, s, C, All) ==
  LET taken == Chosen(t, C.val)
  IN  Planted(Result(SetBoundary(All.cs, s, FALSE), NoValue, Join(All.codes, taken)),
              Join(All.trees, taken))
Switch(t, at, cs) ==
  LET outer == SubScope(cs, at)
      s     == Last(outer)
      C     == Evaluate(t.kids[1], s, outer)
  IN  CASE ~C.cs.ok \/ Len(t.kids) = 1 -> Refused(C.cs)
        [] IsVar(C.val)   -> RunTimeSwitch(t, C, Cases(t, s, C.val, SetState(NewEntry(C.cs), s)))
        [] IsKnown(C.val) -> KnownSwitch(t, s, C, Cases(t, s, C.val, SetBoundary(C.cs, s, TRUE)))
        [] OTHER -> Refused(C.cs)

-----------------------------------------------------------------------------
(* The tree *)

Evaluate(t, at, cs) ==
  CASE ~cs.ok              -> Refused(cs)
    [] t.op = "int"        -> Result(cs, Known("const", "vect", "int", t.num), <<>>)
    [] t.op = "empty"      -> Result(cs, StringValue, <<>>)
    [] t.op = "double"     -> Result(cs, Known("const", "vect", "double", t.num), <<>>)
    [] t.op \in Types      -> Declare(t, at, cs)
    [] t.op = "name"       -> ReadName(t, at, cs)
    [] t.op = "index"      -> Indexed(t, at, cs).read
    [] t.op = "="          -> IF t.kids[1].op = "index" THEN AssignElement(t, at, cs)
                              ELSE Assign(t, at, cs)
    [] t.op \in BinaryOps  -> Binary(t, at, cs)
    [] t.op = "step"       -> Step(t, at, cs)
    [] t.op \in UnaryOps   -> Unary(t, at, cs)
    [] t.op = "?"          -> CondExpr(t, at, cs)
    [] t.op = "list"       -> StmtList(t, at, cs)
    [] t.op = "def"        -> Define(t, at, cs)
    [] t.op = "call"       -> Call(t, at, cs)
    [] t.op = "return"     -> Return(t, at, cs)
    [] t.op = "if"         -> If(t, at, cs)
    [] t.op = "ifelse"     -> IfElse(t, at, cs)
    [] t.op = "while"      -> While(t, at, cs)
    [] t.op = "do"         -> DoWhile(t, at, cs)
    [] t.op = "repeat"     -> Repeat(t, at, cs)
    [] t.op = "for"        -> For(t, at, cs)
    [] t.op = "switch"     -> Switch(t, at, cs)

\* Compiler::compile: the whole program in the root scope; name and num of its
\* list are the instrument and its groups of channels.
Lowered(t) == Evaluate(t, Root, [NewStore EXCEPT !.device = t.name, !.groups = t.num])
=============================================================================
