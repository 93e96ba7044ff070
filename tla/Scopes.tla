------------------------------- MODULE Scopes -------------------------------
(***************************************************************************)
(* The compile-time store of the lowering: nested Resources with their     *)
(* variables, and the register and label counters of GlobalResources       *)
(* (runtime/resources.cpp).                                                *)
(*                                                                         *)
(* A scope's state tells whether its code runs under run-time control;     *)
(* boundary marks the scope while a dead branch is evaluated.  A store     *)
(* whose ok is FALSE stands for every error message and exception: the     *)
(* program is refused.                                                     *)
(***************************************************************************)
EXTENDS Integers, Sequences, TLC

Root == 1
Number(kind, n) == [kind |-> kind, n |-> n]
NewScope(parent) ==
  [parent |-> parent, vars |-> <<>>, state |-> "unset", boundary |-> FALSE,
   functions |-> <<>>, returns |-> "unset", value |-> Number("int", 0), returnReg |-> 0]

\* labelStack holds the labels behind the calls that are being lowered; entries
\* counts the sequence ids of the entries with a node of the program tree; waves
\* are those made so far; the rest is the instrument and the trigger source the
\* built-in functions use.
NewStore ==
  [scopes |-> <<NewScope(0)>>, regs |-> 1, labels |-> 1, entries |-> 1, ok |-> TRUE,
   labelStack |-> <<>>, inFunctionDef |-> FALSE, waves |-> <<>>,
   device |-> "UHFLI", groups |-> 1, latch |-> "none"]

Refuse(cs) == [cs EXCEPT !.ok = FALSE]
Require(cond, cs) == IF cond THEN cs ELSE Refuse(cs)

NewRegister(cs) == [cs EXCEPT !.regs = @ + 1]
\* Mutant: the label counter stands still.
SameLabel(cs) == [cs EXCEPT !.labels = @]
NewLabel(cs) == [cs EXCEPT !.labels = @ + 1]
NewEntry(cs) == [cs EXCEPT !.entries = @ + 1]

\* createSubScope: the new scope is the last one of the store.
SubScope(cs, at) == [cs EXCEPT !.scopes = Append(@, NewScope(at))]
Last(cs) == Len(cs.scopes)

SetState(cs, at) ==
  [cs EXCEPT !.scopes[at].state = IF @ = "unset" THEN "active" ELSE "locked"]
SetBoundary(cs, at, b) == [cs EXCEPT !.scopes[at].boundary = b]

IsIn(cs, at, name) == name \in DOMAIN cs.scopes[at].vars

\* The scopes a search for the name passes, the one that holds it included.
Walked(cs, at, name) ==
  LET Up[k \in 0 .. Len(cs.scopes)] ==
        IF k = 0 THEN {}
        ELSE {k} \cup (IF IsIn(cs, k, name) THEN {} ELSE Up[cs.scopes[k].parent])
  IN  Up[at]
IsDefined(cs, at, name) == \E k \in Walked(cs, at, name) : IsIn(cs, k, name)
Holder(cs, at, name) == CHOOSE k \in Walked(cs, at, name) : IsIn(cs, k, name)
Variable(cs, at, name) == cs.scopes[Holder(cs, at, name)].vars[name]
TypeOf(cs, at, name) == IF IsDefined(cs, at, name) THEN Variable(cs, at, name).type ELSE "none"

Update(cs, at, name, v) == [cs EXCEPT !.scopes[Holder(cs, at, name)].vars[name] = v]

\* getVariable: a lookup that passes a boundary leaves the variable written.
Looked(cs, at, name) ==
  IF \E k \in Walked(cs, at, name) : cs.scopes[k].boundary
  THEN Update(cs, at, name, [Variable(cs, at, name) EXCEPT !.written = TRUE])
  ELSE cs

\* Mutant: only the scope that holds the variable is asked.
DependsOnVarHere(cs, at, name) == cs.scopes[Holder(cs, at, name)].state # "unset"

\* variableDependsOnVar: some scope from here to the variable's is under
\* run-time control.
DependsOnVar(cs, at, name) ==
  \E k \in Walked(cs, at, name) : cs.scopes[k].state # "unset"

\* addVar, addConst, addCvar: only a variable of the same scope is in the way.
\* A run-time variable takes a register.
AddVariable(cs, at, name, type, sub) ==
  LET v  == [type |-> type, sub |-> sub, kind |-> "int", n |-> 0,
             reg |-> IF type = "var" THEN cs.regs ELSE 0, written |-> sub = "arg"]
  IN  IF IsIn(cs, at, name) THEN Refuse(cs)
      ELSE [cs EXCEPT !.scopes[at].vars = @ @@ (name :> v),
                      !.regs = IF type = "var" THEN @ + 1 ELSE @]

\* updateVar.
UpdateVar(cs, at, name) ==
  IF TypeOf(cs, at, name) # "var" THEN Refuse(cs)
  ELSE Update(cs, at, name, [Variable(cs, at, name) EXCEPT !.written = TRUE])

\* updateConst and updateCvar: never under run-time control; a constant once.
UpdateConstant(cs, at, name, type, n, sub) ==
  IF TypeOf(cs, at, name) # type \/ DependsOnVar(cs, at, name) THEN Refuse(cs)
  ELSE LET seen == Looked(cs, at, name)
           v    == Variable(seen, at, name)
       IN  IF type = "const" /\ v.written THEN Refuse(cs)
           ELSE Update(cs, at, name,
                  [v EXCEPT !.n = n, !.kind = "double", !.sub = sub, !.written = TRUE])

\* readConst, readCvar, checkVar: what is read must have been written.
Read(cs, at, name) ==
  LET seen == Looked(cs, at, name)
  IN  Require(Variable(seen, at, name).written, seen)

-----------------------------------------------------------------------------
(* Functions: a record of name, params, return type and body; its scope is   *)
(* made anew for every call, below the scope that defines it.                *)

\* getFunction: the types of numbers do not tell functions apart, and one
\* without parameters matches any arguments.
Matches(f, name, count) == f.name = name /\ (f.params = <<>> \/ Len(f.params) = count)
Matching(cs, at, name, count) ==
  {i \in DOMAIN cs.scopes[at].functions : Matches(cs.scopes[at].functions[i], name, count)}

\* functionExists without argument types: some function has the name.
IsFunction(cs, at, name) ==
  LET Up[k \in 0 .. Len(cs.scopes)] ==
        k # 0 /\ \/ \E i \in DOMAIN cs.scopes[k].functions : cs.scopes[k].functions[i].name = name
                 \/ Up[cs.scopes[k].parent]
  IN  Up[at]
NoFunction == <<0, 0>>
GetFunction(cs, at, name, count) ==
  LET Up[k \in 0 .. Len(cs.scopes)] ==
        LET M == Matching(cs, k, name, count)
        IN  CASE k = 0            -> NoFunction
              [] k # 0 /\ M = {}  -> Up[cs.scopes[k].parent]
              [] k # 0 /\ M # {}  -> <<k, CHOOSE i \in M : \A j \in M : i <= j>>
  IN  Up[at]
FunctionAt(cs, g) == cs.scopes[g[1]].functions[g[2]]

\* Function::Function and addArguments: a run-time parameter wants a function
\* that returns nothing or a run-time value.
AddArgument(cs, p) ==
  Require(p.op = "var" => cs.scopes[Last(cs)].returns \in {"var", "void"},
          AddVariable(cs, Last(cs), p.name, p.op, "arg"))
AddArguments(cs, params) ==
  LET Upto[k \in 0 .. Len(params)] == IF k = 0 THEN cs ELSE AddArgument(Upto[k - 1], params[k])
  IN  Upto[Len(params)]
FunctionScope(cs, at, type) ==
  LET sub == SubScope(cs, at) IN [sub EXCEPT !.scopes[Last(sub)].returns = type]

\* addFunction: the new function is the last one of its scope.
AddFunction(cs, at, f) ==
  LET own == [FunctionScope(cs, at, f.returns) EXCEPT !.scopes[at].functions = Append(@, f)]
  IN  IF Matching(cs, at, f.name, Len(f.params)) # {} THEN Refuse(cs)
      ELSE AddArguments(own, f.params)

\* resetScope: the parameters have no register yet.
Parameter(p) ==
  [type |-> p.op, sub |-> "default", kind |-> "int", n |-> 0, reg |-> 0, written |-> TRUE]
ResetScope(cs, g) ==
  LET f    == FunctionAt(cs, g)
      sub  == FunctionScope(cs, g[1], f.returns)
      vars == [v \in {p.name : p \in {f.params[i] : i \in DOMAIN f.params}} |->
                 Parameter(f.params[CHOOSE i \in DOMAIN f.params : f.params[i].name = v])]
  IN  [sub EXCEPT !.scopes[Last(sub)].vars = vars]

\* Resources::getRegister.
GetRegister(cs, at, name) ==
  IF Variable(cs, at, name).reg # 0 THEN cs
  ELSE NewRegister(Update(cs, at, name, [Variable(cs, at, name) EXCEPT !.reg = cs.regs]))

\* The scope that says what is returned, 0 outside of functions; a value stays
\* behind the boundary of a dead branch.
ReturnScope(cs, at) ==
  LET Up[k \in 0 .. Len(cs.scopes)] ==
        IF k = 0 \/ cs.scopes[k].returns # "unset" THEN k ELSE Up[cs.scopes[k].parent]
  IN  Up[at]
ValueScope(cs, at) ==
  LET Up[k \in 1 .. Len(cs.scopes)] ==
        LET s == cs.scopes[k]
        IN  IF s.boundary \/ s.returns # "unset" \/ s.parent = 0 THEN k ELSE Up[s.parent]
  IN  Up[at]
SetReturnValue(cs, at, v) == [cs EXCEPT !.scopes[ValueScope(cs, at)].value = Number(v.kind, v.n)]
SetReturnReg(cs, at) == NewRegister([cs EXCEPT !.scopes[at].returnReg = cs.regs])
=============================================================================
