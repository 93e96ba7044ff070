---------------------------- MODULE SeqcMeaning -----------------------------
(***************************************************************************)
(* What a SeqC program means, stated without registers, unrolling or       *)
(* subtypes: statements run one after the other on named integers, as in   *)
(* C, and a compile-time variable is a variable like any other, except     *)
(* that code under run-time control may not change it, unless it declares  *)
(* it (ErrorMessageT::CantModifyVarInRepeat).  Legal has this rule and     *)
(* those for functions and calls; Ran finds what waves cannot be used for. *)
(***************************************************************************)
EXTENDS WaveMeaning, TLC
LOCAL INSTANCE Bitwise
LOCAL INSTANCE SequencesExt

CONSTANT MaxRounds    \* bound: rounds of loops a program is followed for

-----------------------------------------------------------------------------
(* Running: s holds the scopes, the events shown, the rounds left, and        *)
(* whether something was done to a wave that cannot be done.                  *)

Started(device, groups, in) ==
  [scopes |-> <<[parent |-> 0, vars |-> <<>>]>>, events |-> <<>>, in |-> in,
   rounds |-> MaxRounds, functions |-> <<>>, left |-> FALSE, answer |-> Numeral(0),
   device |-> device, groups |-> groups, bad |-> FALSE]
Bearing(s, v) == [s |-> s, v |-> v, n |-> v.n]
Outcome(s, n) == Bearing(s, Numeral(n))
Wrong(s)      == Outcome([s EXCEPT !.bad = TRUE], 0)

Enter(s, at) == [s EXCEPT !.scopes = Append(@, [parent |-> at, vars |-> <<>>])]

ScopeOf(s, at, name) ==
  LET Up[k \in 0 .. Len(s.scopes)] ==
        IF k = 0 \/ name \in DOMAIN s.scopes[k].vars THEN k ELSE Up[s.scopes[k].parent]
  IN  Up[at]
Get(s, at, name) == s.scopes[ScopeOf(s, at, name)].vars[name]
Set(s, at, name, v) == [s EXCEPT !.scopes[ScopeOf(s, at, name)].vars[name] = v]
Declared(s, at, name, v) == [s EXCEPT !.scopes[at].vars = (name :> v) @@ @]

Truth(cond) == IF cond THEN 1 ELSE 0
Calculated(op, a, b) ==
  CASE op = "+"  -> a + b
    [] op = "-"  -> a - b
    [] op = "*"  -> a * b
    [] op = "%"  -> a % b
    [] op = "<"  -> Truth(a < b)
    [] op = ">"  -> Truth(a > b)
    [] op = "<=" -> Truth(a <= b)
    [] op = ">=" -> Truth(a >= b)
    [] op = "==" -> Truth(a = b)
    [] op = "!=" -> Truth(a # b)
    [] op = "&"  -> a & b
    [] op = "|"  -> a | b
    [] op = "&&" -> Truth(a # 0 /\ b # 0)
    [] op = "||" -> Truth(a # 0 \/ b # 0)
    [] op = "<<" -> a * 2^b
    [] op = ">>" -> a \div 2^b

Operators == {"+", "-", "*", "%", "<", ">", "<=", ">=", "==", "!=", "&", "|",
              "&&", "||", "<<", ">>"}

\* Numbers and waves do not go with each other's operators and variables.
Operated(op, l, r, s) ==
  IF l.kind = "number" /\ r.kind = "number" THEN Outcome(s, Calculated(op, l.n, r.n))
  ELSE IF IsWaveOperation(op, l, r) THEN Bearing(s, WaveOperationOf(op, l, r)) ELSE Wrong(s)
MayHold(old, new) ==
  IF old.kind = "number" THEN new.kind = "number" ELSE new.kind = "wave"

RECURSIVE Run(_, _, _), Rounds(_, _, _)

Block(t, at, s) == LET e == Enter(s, at) IN Run(t, Len(e.scopes), e).s

\* While the condition holds: the body, then the step.  loop is a record of
\* the three trees.
Rounds(loop, at, s) ==
  LET C == Run(loop.cond, at, s)
  IN  IF C.n = 0 \/ C.s.rounds = 0 THEN C.s
      ELSE LET B == Block(loop.body, at, [C.s EXCEPT !.rounds = @ - 1])
           IN  IF B.left THEN B ELSE Rounds(loop, at, Run(loop.step, at, B).s)

Nothing == [op |-> "list", name |-> "", num |-> 0, kids |-> <<>>]
Loop(cond, body, step) == [cond |-> cond, body |-> body, step |-> step]

Times(body, at, s, n) ==
  LET Again[k \in Nat] ==
        IF k = 0 THEN s
        ELSE LET done == Again[k - 1] IN IF done.left THEN done ELSE Block(body, at, done)
  IN  Again[n]

\* The statements up to one that leaves the function.
InTurn(kids, at, s) ==
  LET Upto[k \in 0 .. Len(kids)] ==
        IF k = 0 THEN s
        ELSE LET done == Upto[k - 1] IN IF done.left THEN done ELSE Run(kids[k], at, done).s
  IN  Upto[Len(kids)]

\* A call of a function of the program: the parameters are variables of the
\* function with the values of the arguments.
RunFunction(f, vs, s) ==
  LET params == f.kids[2].kids
      E      == Enter(s, 1)
      own    == [v \in {params[k].name : k \in DOMAIN params} |->
                   vs[CHOOSE k \in DOMAIN params : params[k].name = v]]
      B      == Run(f.kids[3], Len(E.scopes),
                    [E EXCEPT !.scopes[Len(E.scopes)].vars = own, !.answer = Numeral(0)]).s
  IN  Bearing([B EXCEPT !.left = FALSE], B.answer)

\* A call of a built-in function; the outside world answers what it would to
\* the event that is next.
RunBuiltIn(name, ns, literal, s) ==
  LET n == s.in[Len(s.events) + 1]
  IN  Outcome([s EXCEPT !.events = @ \o Means(name, s.device, s.groups, ns, n, literal)],
              Worth(name, s.device, ns, n))
\* A call that makes a wave, and one that plays.
RunWaveCall(name, vs, s) ==
  IF IsWaveCall(name, vs) THEN Bearing(s, WaveCallOf(name, vs)) ELSE Wrong(s)
RunPlay(name, vs, s) ==
  IF IsPlay(name, s.device, s.groups, vs)
  THEN Outcome([s EXCEPT !.events = @ \o PlayMeans(name, s.device, vs)], 0) ELSE Wrong(s)

RunCall(t, at, s) ==
  LET Upto[k \in 0 .. Len(t.kids)] ==
        IF k = 0 THEN [s |-> s, vs |-> <<>>]
        ELSE LET done == Upto[k - 1]
                 X    == Run(t.kids[k], at, done.s)
             IN  [s |-> X.s, vs |-> Append(done.vs, X.v)]
      args == Upto[Len(t.kids)]
  IN  CASE t.name \in DOMAIN args.s.functions ->
             RunFunction(args.s.functions[t.name], args.vs, args.s)
        [] t.name \notin DOMAIN args.s.functions /\ t.name \in WaveFunctions ->
             RunWaveCall(t.name, args.vs, args.s)
        [] t.name \notin DOMAIN args.s.functions /\ t.name \in DOMAIN PlayedBy ->
             RunPlay(t.name, args.vs, args.s)
        [] OTHER -> RunBuiltIn(t.name, [k \in DOMAIN args.vs |-> args.vs[k].n],
                               t.kids # <<>> /\ t.kids[1].op = "int", args.s)

\* An element of a wave is the sample; the marker of one that is written is
\* off.
IsElementOf(v, n) == v.kind = "wave" /\ n \in 0 .. Len(v.frames) - 1
RunElement(t, at, s) ==
  LET W == Run(t.kids[1], at, s)
      N == Run(t.kids[2], at, W.s)
  IN  IF IsElementOf(W.v, N.n) THEN Outcome(N.s, W.v.frames[N.n + 1][1]) ELSE Wrong(N.s)
RunElementWrite(t, at, s) ==
  LET name == t.kids[1].kids[1].name
      N    == Run(t.kids[1].kids[2], at, s)
      R    == Run(t.kids[2], at, N.s)
      v    == Get(N.s, at, name)
  IN  IF ~IsElementOf(v, N.n) \/ R.v.kind # "number" THEN Wrong(R.s)
      ELSE Outcome(Set(R.s, at, name, AWave(WithFrame(v.frames, N.n + 1, <<R.n, 0>>))), 0)
RunAssignment(t, at, s) ==
  LET R    == Run(t.kids[2], at, Run(t.kids[1], at, s).s)
      name == t.kids[1].name
  IN  IF MayHold(Get(R.s, at, name), R.v) THEN Bearing(Set(R.s, at, name, R.v), R.v) ELSE Wrong(R.s)

RunSwitch(t, at, s) ==
  LET C     == Run(t.kids[1], at, s)
      E     == Enter(C.s, at)
      cases == 2 .. Len(t.kids)
      hit   == {k \in cases : t.kids[k].op = "case" /\ t.kids[k].num = C.n}
      taken == IF hit # {} THEN hit ELSE {k \in cases : t.kids[k].op = "default"}
  IN  IF taken = {} THEN C.s
      ELSE Run([Nothing EXCEPT !.kids = t.kids[CHOOSE k \in taken : TRUE].kids],
               Len(E.scopes), E).s

Run(t, at, s) ==
  CASE t.op \in {"int", "double"} -> Outcome(s, t.num)
    [] t.op = "empty" -> Bearing(s, Text)
    [] t.op \in {"var", "const", "cvar"} -> Outcome(Declared(s, at, t.name, Numeral(0)), 0)
    [] t.op = "wave" -> Bearing(Declared(s, at, t.name, Unmade), Unmade)
    [] t.op = "name" -> Bearing(s, Get(s, at, t.name))
    [] t.op = "index" -> RunElement(t, at, s)
    [] t.op = "=" -> IF t.kids[1].op = "index" THEN RunElementWrite(t, at, s) ELSE RunAssignment(t, at, s)
    [] t.op \in Operators ->
         LET L == Run(t.kids[1], at, s)
             R == Run(t.kids[2], at, L.s)
         IN  Operated(t.op, L.v, R.v, R.s)
    [] t.op = "step" ->
         LET old == Get(s, at, t.kids[1].name).n
         IN  Outcome(Set(s, at, t.kids[1].name, Numeral(old + t.num)),
                     IF t.name = "post" THEN old ELSE old + t.num)
    [] t.op \in {"neg", "~", "!"} ->
         LET X == Run(t.kids[1], at, s)
         IN  (CASE t.op = "neg" -> Operated("*", X.v, Numeral(-1), X.s)
                [] t.op = "~"   -> Outcome(X.s, -1 - X.n)
                [] t.op = "!"   -> Outcome(X.s, Truth(X.n = 0)))
    [] t.op = "?" ->
         LET C == Run(t.kids[1], at, s)
         IN  Run(t.kids[IF C.n # 0 THEN 2 ELSE 3], at, C.s)
    [] t.op = "list" -> Outcome(InTurn(t.kids, at, s), 0)
    [] t.op = "def"  -> Outcome([s EXCEPT !.functions = (t.name :> t) @@ @], 0)
    [] t.op = "call" -> RunCall(t, at, s)
    [] t.op = "return" ->
         IF t.kids = <<>> THEN Outcome([s EXCEPT !.left = TRUE], 0)
         ELSE LET X == Run(t.kids[1], at, s)
              IN  Outcome([X.s EXCEPT !.left = TRUE, !.answer = X.v], 0)
    [] t.op \in {"if", "ifelse"} ->
         LET C == Run(t.kids[1], at, s)
         IN  Outcome(CASE C.n # 0        -> Block(t.kids[2], at, C.s)
                       [] C.n = 0 /\ t.op = "ifelse" -> Block(t.kids[3], at, C.s)
                       [] OTHER          -> C.s, 0)
    [] t.op = "while" -> Outcome(Rounds(Loop(t.kids[1], t.kids[2], Nothing), at, s), 0)
    [] t.op = "do" ->
         LET B == Block(t.kids[1], at, s)
         IN  Outcome(IF B.left THEN B ELSE Rounds(Loop(t.kids[2], t.kids[1], Nothing), at, B), 0)
    [] t.op = "repeat" ->
         LET N == Run(t.kids[1], at, s) IN Outcome(Times(t.kids[2], at, N.s, N.n), 0)
    [] t.op = "for" ->
         LET e == Enter(s, at)
             S == Run(t.kids[1], Len(e.scopes), e)
         IN  Outcome(Rounds(Loop(t.kids[2], t.kids[4], t.kids[3]), Len(e.scopes), S.s), 0)
    [] t.op = "switch" -> Outcome(RunSwitch(t, at, s), 0)

-----------------------------------------------------------------------------
(* The rule for compile-time variables *)

RECURSIVE Names(_, _), Assigned(_), Respects(_, _, _), Nodes(_, _), Answers(_)

\* The names at the nodes of these kinds, and the names assigned to.
Names(t, ops) ==
  (IF t.op \in ops THEN {t.name} ELSE {}) \cup UNION {Names(u, ops) : u \in Range(t.kids)}
Assigned(t) ==
  (IF t.op \in {"=", "step"} /\ t.kids[1].op # "index" THEN {t.kids[1].name} ELSE {})
    \cup UNION {Assigned(u) : u \in Range(t.kids)}

\* Known only when the program runs; live are the run-time variables, and the
\* functions that return a run-time value.
IsLive(t, live) == Names(t, {"name", "call"}) \cap live # {}
Emits(t, live) ==
  Names(t, {"call"}) \ WaveFunctions # {} \/ Assigned(t) \cap live # {}

\* The parts of a statement that run under its run-time control.
Controlled(t, live) ==
  CASE t.op \in {"if", "ifelse", "while", "switch"} /\ IsLive(t.kids[1], live) ->
         Range(Tail(t.kids))
    [] t.op = "do" /\ IsLive(t.kids[2], live)  -> {t.kids[1]}
    [] t.op = "for" /\ IsLive(t.kids[2], live) -> {t.kids[4]}
    [] /\ t.op = "repeat"
       /\ IsLive(t.kids[1], live) \/ (t.kids[1].num > 1 /\ Emits(t.kids[2], live)) ->
         {t.kids[2]}
    [] OTHER -> {}

Respects(t, live, fixed) ==
  /\ \A u \in Controlled(t, live) :
       Assigned(u) \cap fixed \subseteq Names(u, {"const", "cvar", "wave"})
  /\ \A u \in Range(t.kids) : Respects(u, live, fixed)

-----------------------------------------------------------------------------
(* The rules for functions *)

\* The nodes of a kind.
Nodes(t, op) == (IF t.op = op THEN {t} ELSE {}) \cup UNION {Nodes(u, op) : u \in Range(t.kids)}

\* Whatever way it goes, it leaves the function.
Answers(t) ==
  CASE t.op = "return" -> TRUE
    [] t.op = "list"   -> \E u \in Range(t.kids) : Answers(u)
    [] t.op = "ifelse" -> Answers(t.kids[2]) /\ Answers(t.kids[3])
    [] OTHER           -> FALSE

IsWellDefined(f, live) ==
  LET returns == f.kids[1].name
  IN  /\ returns # "void" => Answers(f.kids[3])
      /\ Nodes(f.kids[2], "var") # {} => returns \in {"var", "void"}
      /\ \A r \in Nodes(f.kids[3], "return") :
           /\ (r.kids = <<>>) = (returns = "void")
           /\ returns \in {"const", "cvar"} => ~IsLive(r, live)

\* A compile-time parameter wants a value that is known.
IsWellCalled(c, defs, live) ==
  \E f \in defs :
    LET params == f.kids[2].kids
    IN  /\ f.name = c.name
        /\ Len(params) = Len(c.kids)
        /\ \A k \in DOMAIN params : params[k].op # "var" => ~IsLive(c.kids[k], live)
IsWellUsed(c, t, live) ==
  LET written == {k \in DOMAIN c.kids : c.kids[k].op = "int"}
      late    == {k \in DOMAIN c.kids : IsLive(c.kids[k], live)}
  IN  CASE c.name \in WaveFunctions   -> late = {}
        [] c.name \in DOMAIN PlayedBy -> t.name \in PlayedBy[c.name] /\ late \subseteq MayComeLate(c.name)
        [] OTHER -> IsFitting(c.name, t.name, t.num, Len(c.kids), [k \in written |-> c.kids[k].num], late)

\* A program is triggered by the digital inputs or by other instruments.
HasOneTrigger(calls) ==
  LET used == {c.name : c \in calls} IN OfDIO \cap used = {} \/ OfZSync \cap used = {}

\* A name is given to one function of as many parameters.
IsDefinedOnce(list) ==
  \A j, k \in DOMAIN list.kids :
    LET f == list.kids[j]
        g == list.kids[k]
    IN  f.op = "def" /\ g.op = "def" /\ f.name = g.name
          /\ Len(f.kids[2].kids) = Len(g.kids[2].kids) => j = k

Legal(t) ==
  LET defs   == Nodes(t, "def")
      own    == {f.name : f \in defs}
      others == {c \in Nodes(t, "call") : c.name \notin own}
      live   == Names(t, {"var"}) \cup {f.name : f \in {f \in defs : f.kids[1].name = "var"}}
                  \cup (Answering \ own)
  IN  /\ Respects(t, live, Names(t, {"const", "cvar", "wave"}))
      /\ \A f \in defs : IsWellDefined(f, live)
      /\ \A list \in Nodes(t, "list") : IsDefinedOnce(list)
      /\ \A c \in Nodes(t, "call") \ others : IsWellCalled(c, defs, live)
      /\ \A c \in others : IsWellUsed(c, t, live)
      /\ HasOneTrigger(others)

\* The program on the inputs in; name and num of its list are the instrument
\* and its groups of channels.
Ran(t, in) == Run(t, 1, Started(t.name, t.num, in)).s

\* A program that breaks a rule means nothing.
IsMeant(t, in) == Legal(t) /\ ~Ran(t, in).bad
Events(t, in) == IF IsMeant(t, in) THEN Ran(t, in).events ELSE <<>>
=============================================================================
