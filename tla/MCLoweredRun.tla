---------------------------- MODULE MCLoweredRun ----------------------------
(***************************************************************************)
(* Programs for the lowering: every operator on every kind of operand,     *)
(* every control statement around pairs of statements, functions, and the  *)
(* built-in functions of every instrument.  x and y are run-time           *)
(* variables, i and j compile-time variables, k a constant.                *)
(***************************************************************************)
EXTENDS LoweredRun

Leaf(op, name, num) == [op |-> op, name |-> name, num |-> num, kids |-> <<>>]
Num(n)     == Leaf("int", "", n)
Name(v)     == Leaf("name", v, 0)
x == Name("x")
y == Name("y")
i == Name("i")
j == Name("j")
k == Name("k")
Use(f, args) == [Tree("call", args) EXCEPT !.name = f]
Input       == Use("getUserReg", <<Num(0)>>)
Bin(l, op, r) == Tree(op, <<l, r>>)
Let(l, r)   == Tree("=", <<l, r>>)
New(type, v, r) == Let(Leaf(type, v, 0), r)
Put(n, e)   == Use("setUserReg", <<Num(n), e>>)
Bump(sign, n, v) == [Tree("step", <<v>>) EXCEPT !.name = sign, !.num = n]
List(s)     == Tree("list", s)
Rect(n, m)  == Use("rect", <<Num(n), Num(m)>>)
PlayOf(m)   == Use("playWave", <<Rect(1, m)>>)
When(n, s) == [Tree("case", s) EXCEPT !.num = n]

\* x is read from the outside world.
Opening == <<New("var", "x", Input), New("var", "y", Num(5)),
             New("cvar", "i", Num(2)), New("const", "k", Num(3))>>
Closing == <<Put(1, x), Put(2, y), Put(3, i)>>

Operands == {x, y, i, k, Num(4), Num(5000), Bin(x, "+", Num(1))}
IsRunTime(e) == e \in {x, y, Bin(x, "+", Num(1))}

\* Left out: products and remainders the language lacks, the comparison of a
\* stored number with a literal, amounts that need code of their own.
IsCovered(l, op, r) ==
  CASE op = "*" -> ~(IsRunTime(l) /\ IsRunTime(r))
    [] op = "%" -> ~IsRunTime(l) /\ ~IsRunTime(r)
    [] op \in {"==", "!="} -> (IsRunTime(l) \/ IsRunTime(r) \/ (l.op = r.op))
    [] op \in {"<<", ">>"} -> r \in {x, y, i, k, Num(4)}
    [] OTHER -> TRUE

AllBinary ==
  {Bin(l, op, r) : l \in Operands, op \in BinaryOps, r \in Operands}
Covered == {e \in AllBinary : IsCovered(e.kids[1], e.op, e.kids[2])}
Others ==
  {Tree(op, <<e>>) : op \in {"neg", "~", "!"}, e \in {x, y, i, Bin(x, ">", y)}}
    \cup {Tree("?", <<c, a, b>>) : c \in {x, Bin(x, "<", y), i, Bin(i, ">", k)},
                                   a \in {x, i, Bin(x, "-", y)}, b \in {y, Num(5000)}}
    \cup {Bin(Bin(x, "<", y), op, Bin(y, "<=", k)) : op \in {"&&", "||", "&", "|"}}
    \cup {Bin(Bin(x, op, y), "*", k) : op \in {"==", "!=", ">="}}

Small(s) ==
  CASE s = "put"    -> Put(4, x)
    [] s = "sum"    -> Let(y, Bin(y, "+", Num(2)))
    [] s = "count"  -> Let(i, Bin(i, "+", Num(1)))
    [] s = "bump"   -> List(<<Put(5, Bump("post", 1, y)), Put(6, Bump("pre", -1, y))>>)
    [] s = "next"   -> Put(5, Bump("post", 1, i))
    [] s = "if"     -> Tree("if", <<Bin(y, ">", Num(6)), Put(4, y)>>)
    [] s = "known"  -> Tree("ifelse", <<Bin(i, "<", Num(3)), Put(5, i), Let(y, Num(9))>>)
    [] s = "shadow" -> Tree("if", <<Num(1), List(<<New("var", "x", Num(7)), Put(6, x)>>)>>)
    [] s = "inner"  -> Tree("if", <<Num(1),
                         List(<<New("cvar", "j", Num(0)),
                                Tree("while", <<Bin(j, "<", Num(2)),
                                  List(<<Put(7, j), Let(j, Bin(j, "+", Num(1)))>>)>>)>>)>>)
    [] s = "twice"  -> Tree("repeat", <<Num(2), Put(4, y)>>)
    [] s = "play"   -> PlayOf(1)
    [] s = "plays"  -> Tree("ifelse", <<Bin(y, ">", Num(6)), List(<<Use("setRate", <<Num(1)>>), PlayOf(1)>>),
                                        List(<<PlayOf(2), Use("playZero", <<Num(32)>>)>>)>>)
    [] s = "some"   -> Tree("while", <<Bin(y, ">", Num(6)),
                         List(<<Tree("if", <<Bin(y, ">", Num(7)), PlayOf(1)>>), Bump("pre", -1, y)>>)>>)
    [] s = "none"   -> List(<<>>)

Control(how, b) ==
  LET less  == Let(x, Bin(x, "-", Num(1)))
      more  == Let(i, Bin(i, "+", Num(1)))
  IN  CASE how = "if"      -> Tree("if", <<Bin(x, ">", Num(2)), b>>)
        [] how = "ifelse"  -> Tree("ifelse", <<Bin(x, "<", y), b, Put(7, y)>>)
        [] how = "known"   -> Tree("if", <<Bin(i, "<", k), b>>)
        [] how = "either"  -> Tree("ifelse", <<Bin(i, ">", k), Put(7, x), b>>)
        [] how = "while"   -> Tree("while", <<x, List(<<b, less>>)>>)
        [] how = "unroll"  -> Tree("while", <<Bin(i, "<", Num(5)), List(<<b, more>>)>>)
        [] how = "do"      -> Tree("do", <<List(<<b, less>>), Bin(x, ">", Num(0))>>)
        [] how = "dotwice" -> Tree("do", <<List(<<b, more>>), Bin(i, "<", Num(6))>>)
        [] how = "repeat"  -> Tree("repeat", <<Num(2), b>>)
        [] how = "times"   -> Tree("repeat", <<x, b>>)
        [] how = "for"     -> Tree("for", <<Let(x, Num(0)), Bin(x, "<", Num(2)), Bump("post", 1, x), b>>)
        [] how = "each"    -> Tree("for", <<Let(i, Num(0)), Bin(i, "<", Num(2)), Bump("post", 1, i), b>>)
        [] how = "switch"  -> Tree("switch", <<x, When(1, <<b>>), When(3, <<Put(7, y), Put(8, x)>>),
                                             [Tree("default", <<Put(9, x)>>) EXCEPT !.num = 0]>>)
        [] how = "chosen"  -> Tree("switch", <<Num(3), When(1, <<Put(7, x)>>), When(3, <<b>>)>>)

Controls == {"if", "ifelse", "known", "either", "while", "unroll", "do", "dotwice",
             "repeat", "times", "for", "each", "switch", "chosen"}
Firsts  == {"put", "sum", "count", "bump", "next", "if", "known", "shadow", "inner", "twice"}
Seconds == {"none", "sum", "count", "known"}
PlayingSmalls == {"play", "plays", "some"}

\* Functions: v is a parameter known only at run time, c one known before.
v == Name("v")
c == Name("c")
Give(e) == Tree("return", <<e>>)
Call1(e) == Use("f", <<e>>)
Fun(type, params, s) ==
  [Tree("def", <<Leaf("returns", type, 0), Tree("params", params), List(s)>>) EXCEPT !.name = "f"]
V == <<Leaf("var", "v", 0)>>
C == <<Leaf("cvar", "c", 0)>>
K == <<Leaf("const", "c", 0)>>

OfVar == {
  Fun("void", V, <<Put(5, v), Let(v, Bin(v, "+", Num(1))), Put(6, Bin(v, "*", k))>>),
  Fun("void", V, <<Tree("if", <<Bin(v, ">", Num(2)), Tree("return", <<>>)>>), Put(5, v)>>),
  Fun("var", V, <<Tree("if", <<Bin(v, ">", Num(2)), Give(Bin(v, "-", Num(1)))>>), Give(v)>>),
  Fun("var", V, <<Tree("ifelse", <<Bin(v, ">", y), Give(Num(7)), List(<<Put(5, v), Give(v)>>)>>)>>),
  Fun("var", V, <<Tree("ifelse", <<Bin(v, ">", Num(2)), Give(Num(7)), Put(5, v)>>), Give(y)>>),
  Fun("var", V, <<Tree("while", <<v, List(<<Tree("if", <<Bin(v, "==", Num(2)), Give(y)>>),
                                             Put(5, v), Let(v, Bin(v, "-", Num(1)))>>)>>),
                   Give(Num(4))>>),
  Fun("var", V, <<New("var", "y", Bin(v, "+", i)), Tree("repeat", <<Num(2), Bump("post", 2, y)>>),
                   Give(y)>>),
  Fun("var", V, <<Tree("if", <<Bin(v, ">", Num(2)), Give(Num(1))>>)>>),
  Fun("var", V, <<Tree("return", <<>>)>>),
  Fun("void", V, <<Give(v)>>),
  Fun("cvar", V, <<Give(Num(1))>>)}
OfNumber == {
  Fun("cvar", K, <<Give(Bin(c, "*", Bin(c, "+", k)))>>),
  Fun("const", C, <<Let(c, Bin(c, "+", i)), Give(c)>>),
  Fun("cvar", C, <<Tree("ifelse", <<Bin(c, ">", Num(1)), Give(Num(8)), Give(c)>>)>>),
  Fun("cvar", C, <<New("cvar", "n", Num(0)),
                    Tree("while", <<Bin(Name("n"), "<", Num(5)),
                      List(<<Tree("if", <<Bin(Bin(Name("n"), "*", Num(2)), ">=", c), Give(Name("n"))>>),
                             Bump("post", 1, Name("n"))>>)>>),
                    Give(Num(9))>>),
  Fun("cvar", C, <<Tree("if", <<Bin(c, "<", Num(2)), Give(Num(1))>>),
                    Give(Bin(c, "+", Call1(Bin(c, "-", Num(1)))))>>),
  Fun("var", C, <<New("var", "n", x), Tree("repeat", <<c, Let(Name("n"), Bin(Name("n"), "+", c))>>),
                   Give(Name("n"))>>),
  Fun("void", K, <<Put(5, c), Tree("if", <<x, Put(6, Bin(x, "+", c))>>)>>),
  Fun("cvar", C, <<Tree("ifelse", <<Bin(c, "<", Num(3)), Give(Num(8)), Put(5, c)>>)>>),
  Fun("cvar", C, <<Give(x)>>)}
IsVoid(f) == f.kids[1].name = "void"

\* Statements with a call of a function that returns something, or nothing.
Uses(e) ==
  {Tree("if", <<Num(1), List(<<New("var", "y", Num(9)), Put(4, Call1(e)), Put(5, y)>>)>>),
   Let(y, Bin(Call1(e), "+", y)), Put(4, Call1(Call1(e))),
   Tree("ifelse", <<Bin(Call1(e), ">", Num(3)), Put(4, Call1(e)), Let(x, Num(0))>>),
   Tree("while", <<x, List(<<Put(4, Call1(e)), Let(x, Bin(x, "-", Num(1)))>>)>>),
   Tree("for", <<Let(i, Num(0)), Bin(i, "<", Num(2)), Bump("post", 1, i), Put(4, Call1(e))>>)}
VoidUses(e) ==
  {Call1(e), Tree("if", <<Bin(x, ">", Num(1)), Call1(e)>>),
   Tree("while", <<x, List(<<Call1(e), Let(x, Bin(x, "-", Num(1)))>>)>>),
   Tree("repeat", <<Num(2), List(<<Call1(e), Bump("post", -1, x)>>)>>),
   Tree("for", <<Let(i, Num(0)), Bin(i, "<", Num(2)), Bump("post", 1, i), Call1(e)>>)}
Calls ==
  UNION {{List(<<f, u>>) : u \in UNION {IF IsVoid(f) THEN VoidUses(e) ELSE Uses(e) : e \in {x, i, Num(4)}}} :
           f \in OfVar \cup OfNumber}
    \cup {List(<<f, Use("f", <<x, y>>)>>) : f \in OfVar}
    \cup {List(<<f, Put(4, Call1(x)), f>>) : f \in OfNumber}

On(device, groups, s) == [List(s) EXCEPT !.name = device, !.num = groups]
Whole(s) == On("UHFLI", 1, Opening \o <<s>> \o Closing)
OperatorPrograms == {Whole(Put(4, e)) : e \in Covered \cup Others}
ControlPrograms ==
  {Whole(Control(how, List(<<Small(a), Small(b)>>))) :
     how \in Controls, a \in Firsts, b \in Seconds}
PlayingPrograms ==
  {Whole(Control(how, List(<<Small(a), Small(b)>>))) :
     how \in Controls, a \in PlayingSmalls, b \in {"none", "sum", "count", "play"}}
OfPlays == {
  Fun("void", V, <<PlayOf(1), Tree("if", <<Bin(v, ">", Num(2)), PlayOf(2)>>), PlayOf(3)>>),
  Fun("var", V, <<Tree("ifelse", <<Bin(v, ">", y), PlayOf(1), Let(v, Num(1))>>), PlayOf(2), Give(v)>>),
  Fun("const", C, <<Tree("for", <<New("cvar", "n", Num(0)), Bin(Name("n"), "<", c),
                                  Bump("post", 1, Name("n")), PlayOf(1)>>), Give(c)>>)}
CallPrograms ==
  {Whole(s) : s \in Calls}
    \cup {Whole(List(<<f, u, PlayOf(4)>>)) : f \in OfPlays, u \in VoidUses(i) \cup VoidUses(Num(4))}

\* The arguments each built-in function is tried with: the right ones in every
\* form, some out of range, one too many.
Numbers == {Num(0), Num(1), Num(2), Num(40)}
Late    == {x, Bin(x, "-", y)}
Pairs(A, B) == {<<a, b>> : a \in A, b \in B}
One1(A) == {<<a>> : a \in A}
ArgumentsOf(f) ==
  CASE f \in {"setTrigger", "setInternalTrigger", "setDIO", "setID", "setPRNGSeed", "at", "wait"} ->
         One1(Late \cup {k, Num(0), Num(300)}) \cup {<<>>, <<x, k>>}
    [] f = "setUserReg"   -> Pairs({Num(5), Num(16)}, Late \cup {k}) \cup {<<x, k>>, <<k>>}
    [] f = "getUserReg"   -> One1({Num(5), Num(16), x})
    [] f = "getTrigger"   -> One1(Numbers \cup {x, k}) \cup {<<>>}
    [] f \in {"getSweeperLength", "getCnt", "getAnaTrigger", "getDigTrigger",
              "waitCntTrigger"} -> One1(Numbers \cup {x}) \cup {<<>>}
    [] f = "waitTrigger"  -> Pairs({Num(1), k}, {Num(1), k, x})
    [] f = "waitAnaTrigger" -> Pairs({Num(1), Num(3)}, {Num(0), k, x})
    [] f = "waitDigTrigger" -> Pairs({Num(2), Num(3)}, {Num(0), k, x}) \cup One1({Num(1), Num(2), Num(3)})
    [] f \in {"waitDemodOscPhase", "waitDemodSample", "waitSineOscPhase"} ->
         One1({Num(1), Num(2), Num(9)}) \cup {<<>>, <<Num(1), Num(1)>>}
    [] f = "executeTableEntry" ->
         One1({x, Num(3), Num(16), Num(17), Num(18), Num(19)}) \cup Pairs({x, Num(3)}, {x, Num(9)})
    [] f \in {"getZSyncData", "getFeedback"} ->
         One1({Num(n) : n \in {0} \cup 16 .. 21}) \cup Pairs({Num(0), Num(16)}, {x, Num(9)})
    [] f = "setPRNGRange" -> {<<Num(1), Num(7)>>, <<i, k>>, <<Num(7), Num(1)>>, <<Num(1)>>}
    [] f = "configureFeedbackProcessing" ->
         {<<Num(a), Num(3), Num(b), Num(9)>> : a \in 16 .. 20, b \in {1, 17}}
    [] f = "configFreqSweep" -> {<<a, Num(2), b>> : a \in {Num(1), Num(2)}, b \in {k, Num(0), x}}
    [] f \in {"setSweepStep", "setOscFreq"} -> Pairs({Num(1), Num(2), x}, {x, k, Num(0)})
    [] f = "resetOscPhase" -> {<<>>, <<Num(2)>>, <<Num(4)>>, <<x>>}
    [] f \in {"setSinePhase", "incrementSinePhase"} ->
         One1({Num(d) : d \in {0, 45, 180, 200, 500, 900}}) \cup Pairs({Num(1), Num(2)}, {Num(270), k})
    [] f \in {"startQAResult", "startQAMonitor"} ->
         {<<>>, <<Num(3)>>, <<Num(3), Num(4)>>, <<x>>, <<Num(3), Num(4), Num(5)>>}
    [] f = "startQA" ->
         {<<>>, <<Num(3)>>, <<Num(0), Num(1)>>, <<Num(3), Num(2), Num(5), Num(9)>>,
          <<Num(3), Num(2), Num(32), Num(9)>>, <<Num(3), Num(2), Num(0), Num(5), Num(256)>>,
          <<Num(3), Num(2), Num(1), Num(5), Num(6)>>, <<Num(1024), Num(0)>>}
    [] OTHER -> {<<>>, <<Num(1)>>}

\* A call stands on its own, or its value is used.
UsesOf(f, args) ==
  IF f \in Answering
  THEN {Put(4, Bin(x, "+", Use(f, args))),
        Tree("if", <<Use(f, args), Bump("pre", 1, y)>>)}
  ELSE {Use(f, args), Tree("while", <<x, List(<<Use(f, args), Bump("pre", -1, x)>>)>>)}
Few(d, g, s) == On(d, g, <<New("var", "x", Input), New("var", "y", Num(5)), New("cvar", "i", Num(2)),
                           New("const", "k", Num(3)), s, Put(1, y)>>)
\* One of the instruments of each kind.  The phases of an HDAWG are nodes of the
\* device tree.
Tried == DeviceTypes \ {"SHFSG", "GHFLI", "VHFLI"}
TriedOn(d) == {f \in DOMAIN SupportedBy : d \in SupportedBy[f] /\ <<d, f>> # <<"HDAWG", "resetOscPhase">>}
\* Left out are calls that the code takes for something else than they mean:
\* sources of data on an instrument without constants for them, a literal entry
\* there, and an oscillator's phase there or with an argument too many.
IsTried(d, f, args) ==
  CASE d = "SHFLI" /\ f \in {"executeTableEntry", "getZSyncData", "getFeedback"} ->
         args[1] \notin {Num(m) : m \in {3} \cup 16 .. 18}
    [] f = "waitSineOscPhase" -> d # "SHFLI" /\ (d \in SHFGen => args = <<>>)
    [] OTHER -> TRUE
CallsOn(d, f) == UNION {UsesOf(f, args) : args \in {a \in ArgumentsOf(f) : IsTried(d, f, a)}}
EachPrograms == UNION {UNION {{Few(d, 1, s) : s \in CallsOn(d, f)} : f \in TriedOn(d)} : d \in Tried}

\* Two calls, with another group of channels; one of them may be dead, where the
\* lowering looks at it all the same.
External == {Use("waitDIOTrigger", <<>>), Use("setDIO", <<x>>), Let(y, Use("getDIO", <<>>)),
             Use("waitZSyncTrigger", <<>>), Let(x, Use("getZSyncData", <<Num(16), y>>)),
             Use("setUserReg", <<Num(5), Use("getUserReg", <<Num(2)>>)>>),
             Use("waitSineOscPhase", <<Num(1)>>), Use("sync", <<>>)}
PairPrograms ==
  {Few(d, 2, List(<<a, b>>)) : d \in {"HDAWG", "UHFLI"}, a \in External,
     b \in External \cup {Tree("ifelse", <<Bin(i, ">", k), b, Put(4, y)>>) : b \in External}}

\* A call in a function, and a function that takes the name of a built-in one.
Wrapped1(type, e) == Fun(type, V, <<Use("at", <<v>>), e>>)
OwnPrograms ==
  {Few("UHFLI", 1, List(<<f, Put(4, Call1(e))>>)) : e \in {x, i},
     f \in {Wrapped1("var", Give(Bin(v, "+", Use("getDIO", <<>>)))),
            Wrapped1("var", Tree("ifelse", <<Use("getAnaTrigger", <<Num(1)>>), Give(v), Give(k)>>))}}
    \cup {Few("UHFQA", 1, List(<<[f EXCEPT !.name = "getDIO"], Put(4, Use("getDIO", <<x>>))>>)) :
            f \in {Fun("var", V, <<Give(Bin(v, "+", Num(1)))>>)}}
BuiltInPrograms == UNION {EachPrograms, PairPrograms, OwnPrograms}

\* Waves: w and u hold waves of three and five samples, q is a parameter.
w == Name("w")
u == Name("u")
q == Name("q")
Element1(a, n) == Tree("index", <<a, n>>)
Empty == Leaf("empty", "", 0)
OnWavesOf(d, g, s) ==
  On(d, g, <<New("var", "x", Input), New("cvar", "i", Num(2)), New("const", "k", Num(3)),
             New("wave", "w", Use("vect", <<Num(1), Num(5), Num(2)>>)),
             New("wave", "u", Use("marker", <<Num(5), Num(2)>>)), s, Put(1, x)>>)
Heard(e) == OnWavesOf("UHFLI", 1, List(<<Use("playWave", <<e>>), Use("playWave", <<w, u>>)>>))

Shaped ==
  UNION {LET p == SubSeq(<<Num(2), Num(4)>>, 3 - Shaping[f], 2)
         IN  {Use(f, a \o p) : a \in {<<Num(3)>>, <<Num(3), Num(7)>>, <<>>, <<Num(3), Num(7), Num(1)>>}} :
           f \in DOMAIN Shaping}
    \cup {Use(f, <<Num(3), Num(1), Num(0)>>) : f \in {"gauss", "sinc", "drag", "sine", "triangle"}}
NumberWaves == {
  Use("zeros", <<Num(3)>>), Use("ones", <<Num(2)>>), Use("ones", <<Num(2), Num(2)>>), Rect(2, 5),
  Use("ramp", <<Num(3), Num(0), Num(1)>>), Use("ramp", <<Num(1), Num(0), Num(1)>>),
  Use("ramp", <<Num(3), Num(0), Num(2)>>), Use("ramp", <<Num(3), Num(1), Tree("neg", <<Num(1)>>)>>),
  Use("chirp", <<Num(2), Num(3), Num(4)>>), Use("chirp", <<Num(2), Num(6), Num(3), Num(4), Num(1)>>),
  Use("chirp", <<Num(2), Num(3), Num(4), Num(1)>>), Use("chirp", <<Num(2), Num(3)>>),
  Use("rrc", <<Num(3), Num(2), Num(1)>>), Use("rrc", <<Num(3), Num(2), Num(1), Num(4)>>),
  Use("marker", <<Num(2), Num(7)>>), Use("mask", <<Num(2), i>>), Use("marker", <<Num(2)>>),
  Use("lfsrGaloisMarker", <<Num(4), Num(2), Num(6), Num(5)>>),
  Use("lfsrGaloisMarker", <<Num(4), Num(3), Num(6), Num(5)>>),
  Use("placeholder", <<Num(3)>>), Use("placeholder", <<Num(3), Num(1), Num(1)>>),
  Use("rect", <<x, Num(2)>>), Use("rect", <<Num(3)>>), Use("noise", <<Num(3)>>),
  Use("rect", <<k, Bin(i, "*", k)>>)}
Marks3 == Use("marker", <<Num(3), Num(2)>>)
WaveWaves ==
  {Use(f, <<a, b>>) : f \in {"multiply", "join", "interleave"}, a \in {w, Rect(2, 4)}, b \in {w, u}}
    \cup {Use(f, <<u, w, Rect(7, 2)>>) : f \in {"multiply", "join", "interleave"}}
    \cup {
      Use("add", <<w, Rect(5, 2)>>), Use("add", <<w, w, Marks3>>), Use("add", <<w>>), Use("multiply", <<w, Num(2)>>),
      Use("join", <<w, u, w, Num(4)>>), Use("join", <<w, Num(2)>>), Use("join", <<Num(2), w, u, Num(0)>>),
      Use("join", <<Num(2), Num(3)>>), Use("interleave", <<w, u, Num(9)>>),
      Use("scale", <<w, Num(3)>>), Use("scale", <<Num(3), w>>), Use("cut", <<w, Num(1), Num(2)>>),
      Use("cut", <<u, i, Num(1)>>), Use("cut", <<w, Num(1), Num(3)>>), Use("cut", <<u, Num(3), Num(1)>>),
      Use("flip", <<w>>), Use("flip", <<Use("join", <<u, w>>)>>), Use("flip", <<w, u>>),
      Use("circshift", <<w, Num(1)>>), Use("circshift", <<Use("join", <<w, u>>), Num(10)>>),
      Use("filter", <<w, Use("vect", <<Num(1), Num(2)>>), Use("vect", <<Num(3), Num(1), Num(4), Num(1)>>)>>),
      Use("filter", <<w, u, w>>)}
WaveSums ==
  {Bin(w, op, e) : op \in {"+", "-", "*"}, e \in {Marks3, Rect(5, 2)}} \cup {Bin(Rect(3, 2), op, w) : op \in {"+", "-", "*", "%", "<"}}
    \cup {Bin(w, op, e) : op \in {"+", "-", "*", "&"}, e \in {Num(2), i}}
    \cup {Bin(e, op, u) : op \in {"+", "-", "*"}, e \in {Num(3), i}}
    \cup {Tree("neg", <<w>>), Tree("neg", <<Bin(w, "+", Marks3)>>), Tree("?", <<Bin(i, ">", k), w, u>>),
          Tree("?", <<i, Rect(2, 1), u>>), Bin(Bin(w, "*", i), "-", Rect(4, 1))}

\* Statements about waves, each followed by plays of both.
WaveStatements == {
  Let(w, u), Let(w, Bin(w, "+", Marks3)), Let(w, Num(2)), Let(i, w), Let(w, Empty),
  New("wave", "q", Rect(2, 1)), Let(Element1(w, Num(1)), Num(7)),
  Let(Element1(w, i), Bin(Element1(w, Num(1)), "+", k)), Let(Element1(w, Num(3)), Num(7)),
  List(<<Let(Element1(w, Num(1)), Num(7)),
         New("wave", "q", Use("vect", <<Num(1), Num(5), Num(2)>>)), Use("playWave", <<q>>)>>),
  Put(4, Element1(w, Num(1))), Put(4, Element1(u, Num(5))), Put(4, Element1(i, Num(0))),
  Let(i, Bin(Element1(w, Num(1)), "+", Num(1))), List(<<Leaf("wave", "q", 0), Let(q, w), Let(q, u)>>),
  Tree("if", <<Bin(i, "<", k), Let(w, u)>>), Tree("if", <<Bin(x, "<", k), Let(w, u)>>),
  Tree("if", <<Bin(x, "<", k), List(<<New("wave", "w", u), Use("playWave", <<w>>)>>)>>),
  Tree("repeat", <<Num(2), Let(u, Use("join", <<u, w>>))>>),
  Tree("while", <<Bin(i, "<", Num(5)), List(<<Let(w, Use("join", <<u, w>>)), Let(i, Bin(i, "+", Num(1)))>>)>>),
  Tree("while", <<x, List(<<Use("playWave", <<Bin(w, "*", i)>>), Let(x, Bin(x, "-", Num(1)))>>)>>),
  Tree("for", <<Let(i, Num(0)), Bin(i, "<", Num(3)), Bump("post", 1, i),
                List(<<Let(Element1(w, i), Bin(i, "*", k)), Let(u, Bin(u, "+", i))>>)>>)}
WaveParameter == <<Leaf("wave", "q", 0)>>
WaveFunction == {
  Fun("void", WaveParameter, <<Use("playWave", <<q>>), Use("playWave", <<u, q>>)>>),
  Fun("void", WaveParameter, <<Use("playWave", <<Bin(q, "*", Num(2))>>)>>),
  Fun("void", WaveParameter, <<Let(q, u), Tree("if", <<x, Use("playWave", <<Num(2), u>>)>>)>>),
  Fun("var", WaveParameter, <<Use("playWave", <<Bin(q, "+", q)>>), Give(Bin(x, "+", Num(1)))>>)}
WaveUses(e) == {<<Call1(e)>>, <<Call1(e), Call1(u)>>, <<Tree("if", <<Bin(x, ">", Num(1)), Call1(e)>>)>>}
WavePrograms ==
  {Heard(e) : e \in UNION {Shaped, NumberWaves, WaveWaves, WaveSums}}
    \cup {OnWavesOf("HDAWG", 1, List(<<s, Use("playWave", <<w>>), Use("playWave", <<u>>)>>)) : s \in WaveStatements}
    \cup {OnWavesOf("UHFQA", 1, List(<<f>> \o s)) : f \in WaveFunction,
             s \in UNION {WaveUses(e) : e \in {w, Rect(2, 3)}}}

\* The plays, with the right arguments in every form and with some wrong ones.
Played1(f) ==
  CASE f \in {"playWave", "playWaveNow", "prefetch"} ->
         {<<w>>, <<w, u>>, <<Num(1), w>>, <<Num(2), u>>, <<Num(1), Num(2), w>>, <<Num(2), w, Num(1), u>>,
          <<w, Num(3)>>, <<w, u, Num(2)>>, <<Num(2), w, Num(4)>>, <<w, Empty>>, <<w, u, w>>, <<Num(3), w>>,
          <<Num(1), w, Num(3), u>>, <<Num(1), Num(3), w>>, <<w, Num(1), u>>, <<w, Num(1), Num(2)>>,
          <<Num(1), Num(1), w>>, <<Name("n")>>, <<Num(1)>>, <<>>, <<w, x>>, <<w, u, w, w, w>>}
    [] f = "playWaveDigTrigger" ->
         {<<Num(3), w>>, <<Num(4), w, u>>, <<Num(3), Num(2), w>>, <<Num(1), w>>, <<Num(3), Rect(2, 1)>>,
          <<w>>, <<i, w>>}
    [] f = "playAuxWaveIndexed" ->
         {<<w, x, Num(0)>>, <<Num(2), w, x, Num(0)>>, <<w, u, i, Num(0)>>, <<w, x, Num(0), Num(7)>>,
          <<w, Num(1), Num(9)>>, <<w, x, Num(0), Num(3)>>, <<w, Num(1)>>}
    [] f \in {"playWaveIndexed", "playWaveIndexedNow"} ->
         {<<w, x, Num(2)>>, <<w, Num(1), Num(2)>>, <<Num(2), w, x, Num(2)>>, <<w, u, i, Num(4)>>,
          <<w, Num(1), Num(9)>>, <<w, x, Num(0)>>, <<w, x, Num(2), Num(3)>>, <<w, Num(1)>>}
    [] f = "playAuxWave" ->
         {<<w>>, <<w, u, w, u>>, <<Num(2), w>>, <<Num(1), Num(3), w, Num(2), u>>, <<w, Num(7)>>,
          <<w, Num(3)>>, <<Num(5), w>>, <<>>}
    [] f = "playDIOWave" -> {<<w, u, Num(3)>>, <<w, Num(3)>>, <<Num(2), w, Num(2)>>, <<w>>, <<w, u, Num(1)>>}
    [] f = "playWaveDIO" -> {<<>>, <<w>>}
    [] f = "playWaveZSync" -> {<<Num(n)>> : n \in 15 .. 19} \cup {<<>>}
    [] f \in {"setRate", "setPrecompClear"} -> {<<Num(2)>>, <<i>>, <<>>, <<x>>, <<Num(1), Num(2)>>}
    [] f \in {"playZero", "playHold"} ->
         {<<Num(1)>>, <<Num(5)>>, <<Num(8)>>, <<Num(8), Num(3)>>, <<Bin(x, "*", Num(4))>>, <<i>>, <<>>,
          <<w>>, <<Num(8), x>>}
PlayPrograms ==
  {OnWavesOf(d[1], d[2], List(<<Leaf("wave", "n", 0), s>>)) :
     d \in {<<"UHFLI", 1>>, <<"UHFQA", 2>>, <<"HDAWG", 2>>, <<"SHFSG", 1>>, <<"SHFQA", 1>>, <<"SHFLI", 1>>},
     s \in UNION {{Use(f, a) : a \in Played1(f)} : f \in DOMAIN PlayedBy}}
SoundPrograms == UNION {WavePrograms, PlayPrograms}

CurveNumber ==
  [gauss |-> 1, sine |-> 2, cosine |-> 3, sinc |-> 4, sawtooth |-> 5, triangle |-> 6, drag |-> 7,
   rand |-> 8, randomGauss |-> 9, blackman |-> 10, hamming |-> 11, hann |-> 12, randomUniform |-> 13,
   chirp |-> 14, rrc |-> 15]
MCCurve(f, p, m) == CurveNumber[f] * 100 + 10 * p[Len(p)] + m + (IF Len(p) > 1 THEN 50 * p[2] ELSE 0)

AllPrograms ==
  UNION {OperatorPrograms, ControlPrograms, PlayingPrograms, CallPrograms, BuiltInPrograms, SoundPrograms}
\* A name of its own: TLC computes the set above once.
MCPrograms == AllPrograms
MCBuiltIn == BuiltInPrograms
MCSound == SoundPrograms

MCInputs == {[n \in 1 .. 200 |-> 3], [n \in 1 .. 200 |-> 1]}

MCTriggerMask == [n \in 0 .. 32 |-> IF n < 4 THEN 2^n ELSE n + 300]
MCLimit ==
  [d \in DeviceTypes |->
     [memoryDepth |-> 16, counters |-> 2, oscillators |-> 2, tableBits |-> 4, divider |-> 6,
      grain |-> 2, minPlay |-> 4, trigMin |-> 3, sampleBits |-> 16,
      cores |-> IF d \in {"SHFQA", "UHFLI"} THEN 0 ELSE 3]]
=============================================================================
