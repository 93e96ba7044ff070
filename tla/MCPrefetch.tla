----------------------------- MODULE MCPrefetch -----------------------------
(***************************************************************************)
(* Programs for Prefetch: statement sequences with bodies, turned into the *)
(* trees the lowering builds, whose nodes are numbered in program order    *)
(* and whose parents stepBuildAsmPreamble has set.                         *)
(***************************************************************************)
EXTENDS Prefetch

St(t, cfg, bodies, flag) == [t |-> t, cfg |-> cfg, bodies |-> bodies, flag |-> flag]

Play(w, rate) == St("play", Config(w, rate, 0, w = 0), << >>, FALSE)
A == Play(1, -1)
B == Play(2, -1)
Zero == Play(0, -1)
Rate(r) == St("rate", Config(0, r, 0, FALSE), << >>, FALSE)
Precomp(p) == St("setprecomp", Config(0, 0, p, FALSE), << >>, FALSE)
SetVar == St("setvar", ZeroConfig, << >>, FALSE)
If(b) == St("branch", ZeroConfig, <<b>>, TRUE)
IfElse(b, c) == St("branch", ZeroConfig, <<b, c>>, b = << >> \/ c = << >>)
While(b) == St("loop", ZeroConfig, <<b>>, FALSE)
Repeat(b) == St("loop", ZeroConfig, <<b>>, TRUE)

RECURSIVE Size(_)
Size(b) == IF b = << >> THEN 0
           ELSE 1 + FoldLeft(LAMBDA n, c : n + Size(c), 0, b[1].bodies) + Size(Tail(b))

\* The nodes of the sequence b, numbered from n, hanging from parent.
RECURSIVE Listed(_, _, _)
Listed(b, n, parent) ==
    IF b = << >> THEN << >> ELSE
    LET s     == b[1]
        start == [i \in 1..(Len(s.bodies) + 1) |->
                    n + 1 + FoldLeft(LAMBDA k, c : k + Size(c), 0, SubSeq(s.bodies, 1, i - 1))]
        end   == start[Len(s.bodies) + 1]
        child(i) == IF s.bodies[i] = << >> THEN NoNode ELSE start[i]
        node  == [NewNode(s.t, n) EXCEPT
                    !.wave = IF s.t = "play" THEN s.cfg.sel ELSE 0,
                    !.config = IF s.t = "play" THEN s.cfg ELSE @,
                    !.rate = IF s.t = "rate" THEN s.cfg.rate ELSE @,
                    !.precomp = s.cfg.precomp,
                    !.next = IF Tail(b) = << >> THEN NoNode ELSE end,
                    !.branches = IF s.t = "branch" THEN [i \in DOMAIN s.bodies |-> child(i)] ELSE @,
                    !.loop = IF s.t = "loop" THEN child(1) ELSE @,
                    !.once = s.t = "loop" /\ s.flag,
                    !.maySkip = s.t = "branch" /\ s.flag,
                    !.parent = parent]
    IN <<node>> \o FlattenSeq([i \in DOMAIN s.bodies |-> Listed(s.bodies[i], start[i], n)])
                \o Listed(Tail(b), end, n)

TreeOf(b) == Listed(<<St("load", ZeroConfig, << >>, FALSE)>> \o b, Root, NoNode)

Simple == {A, B, Zero}
Pairs  == { <<s, t>> : s \in {A, B}, t \in Simple }
Single == { <<s>> : s \in Simple }
OneLevel ==
    { If(b) : b \in Single \cup Pairs \cup {<< >>} }
    \cup { IfElse(b, c) : b, c \in Single \cup {<< >>} }
    \cup { While(b) : b \in Single \cup Pairs } \cup { Repeat(b) : b \in Single }

Inner == { If(<<A>>), IfElse(<<A>>, <<A>>), IfElse(<<A>>, <<B>>), While(<<A>>), Repeat(<<B>>) }
InnerBodies == { <<n>> : n \in Inner } \cup { <<n, s>> : n \in Inner, s \in {A, B} }
               \cup { <<s, n>> : n \in Inner, s \in {A, B} }
LoopBodies  == { b \in InnerBodies : b[1].t # "branch" }
TwoLevels ==
    { While(b) : b \in LoopBodies } \cup { Repeat(b) : b \in LoopBodies }
    \cup { If(b) : b \in InnerBodies } \cup { IfElse(b, <<A>>) : b \in InnerBodies }

\* Statements that set the rate, the precompensation flags or a variable, and
\* plays with a rate of their own.
Settings == { Rate(1), Precomp(1), SetVar, Play(1, 1), Play(0, 1) }
WithSettings ==
    { <<s, x, t>> : s \in Simple, x \in Settings, t \in Simple \cup {While(<<A>>), If(<<B>>)} }
    \cup { <<While(b), s>> : s \in Simple,
              b \in { <<x, A>> : x \in Settings } \cup { <<A, x>> : x \in Settings } }
    \cup { <<Repeat(<<While(<<A, SetVar>>)>>), s>> : s \in Simple }
    \cup { <<IfElse(<<x>>, <<y>>), A>> : x, y \in Settings }
    \cup { <<IfElse(<<Precomp(1)>>, <<A>>), Precomp(0), A>> }

\* No loop body starts with a branch: see ShortSources.
MCSources == { TreeOf(b) : b \in
    { <<s>> : s \in OneLevel } \cup { <<s, t>> : s, t \in OneLevel \cup Simple }
    \cup { <<s, t, u>> : s, u \in Simple, t \in OneLevel }
    \cup { <<s, r, t, u>> : s, r, u \in {A, B}, t \in TwoLevels }
    \cup { <<t, u>> : t \in TwoLevels, u \in {A, B} } \cup WithSettings }

\* Three programs whose plays miss their cwvf: a loop at the start that may
\* not run, a body that may be skipped, a loop whose body starts with a branch.
ShortSources == { TreeOf(b) : b \in
    { <<While(<<A, B>>), B>>, <<B, If(<<A>>), A, B>>,
      <<A, B, While(<<IfElse(<<A>>, <<A>>)>>), B>>, <<A, B, While(<<A>>), B>> } }
=============================================================================
