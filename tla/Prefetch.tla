------------------------------ MODULE Prefetch ------------------------------
(***************************************************************************)
(* The waveform planner of codegen/prefetch*.cpp, from the program tree    *)
(* the lowering built to the instructions it fills into the placeholders,  *)
(* and then any execution of the program with these instructions in it.    *)
(*                                                                         *)
(* Planning: the loads are made and moved to the front (PrefetchTree); the *)
(* playback configuration is propagated through the                        *)
(* tree to find the plays that need no cwvf of their own (optimizeCwvf,    *)
(* needsNewCwvf); loads get memory (allocate); commands are                *)
(* emitted in front of the placeholder with the node's asm id.             *)
(*                                                                         *)
(* The waves fit (or the device is a Hirzel one, which takes the same      *)
(* path): `optimize', for waves that do not, is a stub in the source.      *)
(* Left out: Lock, Placeholder and Table nodes, which nothing creates;     *)
(* countBranches and definePlaySize, whose results reach only the cache    *)
(* (WaveCache has its own model) and splitPlay, which needs two pages and  *)
(* never gets them; indexed plays and sizes.                               *)
(***************************************************************************)
EXTENDS PrefetchPlan

VARIABLES
    calls,      \* the calls of optimizeCwvf under way, the innermost last
    global,     \* cwvfConfig_, lastCwvfNode_ and globalCwvfValid_
    \* The program that runs:
    inForce,    \* the word in the playback configuration register
    skipped     \* a body the planner took for executed was passed by

configuration == <<calls, global, inForce, skipped>>
vars == <<plan, configuration>>

-----------------------------------------------------------------------------
\* optimizeCwvf: a step is a node of a chain, or one of the bodies of a Branch
\* or Loop, for which it calls itself.

NoGlobal == [config |-> ResetConfig, last |-> NoNode, valid |-> FALSE]

\* Mutant: the first configuration stays the global one.
GlobalCwvfFirst(g, t, n) ==
    IF t[n].type # "play" \/ g.config.sel # Unset THEN g
    ELSE [config |-> t[n].config, last |-> n, valid |-> TRUE]

\* globalCwvf: the program has a global configuration as long as every play
\* has the configuration of the first one.
GlobalCwvf(g, t, n) ==
    CASE t[n].type # "play" \/ IsQuiet(t[n].config, t[n].rate) -> g
      [] g.config.sel = Unset -> [config |-> t[n].config, last |-> n, valid |-> TRUE]
      [] Differs(g.config, t[n].config) -> [g EXCEPT !.valid = FALSE]
      [] OTHER -> g

\* Mutant: a node of its own holds what the head of a chain is given.
EnterChainByNode(t, n, in) ==
    InsertBefore(Append(t, [NewNode("rate", t[n].asmId) EXCEPT !.rate = in.rate]), n, Fresh(t))

\* What the head of a branch or of a body is given before it is analysed.
EnterChain(t, n, in) ==
    LET rated == [t[n] EXCEPT !.rate = in.rate]
        full  == [rated EXCEPT !.precomp = in.precomp]
        bare  == [full EXCEPT !.config = in.cwvf, !.cur = in.cwvf]
    IN [t EXCEPT ![n] =
           CASE @.type = "play" ->
                  [full EXCEPT !.cur = IF IsQuiet(full.config, in.rate) THEN in.cwvf ELSE full.config]
             [] @.type = "rate" -> [bare EXCEPT !.rate = t[n].rate]
             [] @.type = "setprecomp" -> [bare EXCEPT !.precomp = t[n].precomp]
             [] OTHER -> bare]

\* A call that has reached node n of the chain of head: `in' is what it carries
\* along.  At a Branch, `bodies' are still to be analysed, and the others left
\* `exp' and `pre' or, if not `same' and `samePre', different ones.
AtNode(t, head, n, in) ==
    [head |-> head, n |-> n, in |-> in,
     bodies |-> IF n = NoNode THEN << >> ELSE Bodies(t[n].branches),
     exp |-> in.cwvf, pre |-> in.precomp, first |-> TRUE, same |-> TRUE, samePre |-> TRUE]

Called(t, n) == AtNode(t, n, n, [cwvf |-> t[n].cur, rate |-> t[n].rate, precomp |-> t[n].precomp])

\* The innermost call c is through with its node: t is what became of the tree,
\* and `out' is stored in the node and carried to the next one.
Advance(outer, c, t, out) ==
    /\ h' = [t EXCEPT ![c.n].cur = out.cwvf, ![c.n].precomp = out.precomp]
    /\ calls' = Append(outer, AtNode(t, c.head, t[c.n].next, out))

\* Call c enters the chain that starts at b, in tree t.
Enter(outer, c, t, b) ==
    /\ h' = EnterChain(t, b, c.in)
    /\ calls' = Append(Append(outer, c), Called(h', b))

Analysing(types) ==
    /\ phase = "cwvf" /\ calls # << >>
    /\ Top(calls).n # NoNode /\ h[Top(calls).n].type \in types

AnalysePlay ==
    /\ Analysing({"play"})
    /\ LET c     == Top(calls)
           own   == h[c.n].config
           cfg   == [own EXCEPT !.rate = IF @ = -1 THEN c.in.rate ELSE @, !.precomp = c.in.precomp]
           t     == [h EXCEPT ![c.n].rate = c.in.rate, ![c.n].config = cfg]
           quiet == IsQuiet(own, c.in.rate)
       IN /\ Advance(Below(calls), c, t, IF quiet THEN c.in ELSE [c.in EXCEPT !.cwvf = cfg])
          /\ global' = IF quiet THEN global ELSE GlobalCwvf(global, t, c.n)
    /\ UNCHANGED <<src, phase, work, todo, used, front, commands, program, inForce, skipped>>

AnalyseOther ==
    /\ Analysing({"load", "setvar", "rate", "setprecomp", "ready"})
    /\ LET c    == Top(calls)
           node == h[c.n]
           t    == [h EXCEPT ![c.n].config = c.in.cwvf,
                             ![c.n].rate = IF node.type = "rate" THEN @ ELSE c.in.rate]
       IN Advance(Below(calls), c, t,
                  [c.in EXCEPT !.rate = IF node.type = "rate" THEN node.rate ELSE @,
                               !.precomp = IF node.type = "setprecomp" THEN node.precomp ELSE @])
    /\ UNCHANGED <<src, phase, work, todo, used, front, commands, program, global, inForce, skipped>>

\* A Loop is given what holds before it, and its body too.
AnalyseLoop ==
    /\ Analysing({"loop"})
    /\ LET c == Top(calls)
           t == [h EXCEPT ![c.n].config = c.in.cwvf, ![c.n].cur = c.in.cwvf,
                          ![c.n].rate = c.in.rate, ![c.n].precomp = c.in.precomp]
           b == h[c.n].loop
       IN IF b = NoNode THEN Advance(Below(calls), c, t, c.in) ELSE Enter(Below(calls), c, t, b)
    /\ UNCHANGED <<src, phase, work, todo, used, front, commands, program, global, inForce, skipped>>

EnterBody ==
    /\ Analysing({"branch"}) /\ Top(calls).bodies # << >>
    /\ LET c == Top(calls)
       IN Enter(Below(calls), [c EXCEPT !.bodies = Tail(@)], h, Head(c.bodies))
    /\ UNCHANGED <<src, phase, work, todo, used, front, commands, program, global, inForce, skipped>>

\* The chain is at its end: the call returns, and its caller looks at the last
\* node of the chain.
Returning(type) ==
    /\ phase = "cwvf" /\ Len(calls) > 1
    /\ Top(calls).n = NoNode /\ h[Top(Below(calls)).n].type = type

\* The code reads branchMaySkipAllBodies of the head of the chain, not of the
\* Branch itself.
SkipFlagOf(t, head, n) == t[head].maySkip

LeaveBody ==
    /\ Returning("branch")
    /\ LET c    == Top(Below(calls))
           tail == h[LastOf(h, Top(calls).head)]
           sure == c.first /\ ~SkipFlagOf(h, c.head, c.n)
           exp  == IF sure THEN tail.cur ELSE c.exp
           pre  == IF sure THEN tail.precomp ELSE c.pre
           met  == ~Differs(exp, tail.cur) /\ Differs(exp, ResetConfig)
       IN calls' = Append(Below(Below(calls)),
                          [c EXCEPT !.exp = exp, !.pre = pre, !.first = FALSE, !.same = @ /\ met,
                                    !.samePre = @ /\ pre = tail.precomp])
    /\ UNCHANGED <<plan, global, inForce, skipped>>

LeaveLoop ==
    /\ Returning("loop")
    /\ LET c    == Top(Below(calls))
           tail == h[LastOf(h, Top(calls).head)]
       IN Advance(Below(Below(calls)), c, [h EXCEPT ![c.n].config = tail.config],
                  [cwvf |-> tail.config, rate |-> tail.rate, precomp |-> tail.precomp])
    /\ UNCHANGED <<src, phase, work, todo, used, front, commands, program, global, inForce, skipped>>

\* A SetPrecomp before the next Play, Branch or Loop of the chain.
PrecompIsSetAfter(t, n) ==
    LET set[m \in DOMAIN t] ==
            LET next == t[m].next
            IN /\ next # NoNode
               /\ \/ t[next].type = "setprecomp"
                  \/ t[next].type \notin {"play", "branch", "loop"} /\ set[next]
    IN set[n]

\* The bodies of a Branch are through.  What they agree on holds after it; if
\* they leave different precompensation flags, these have to be set anew.
LeaveBranch ==
    /\ Analysing({"branch"}) /\ Top(calls).bodies = << >>
    /\ LET c    == Top(calls)
           cwvf == IF c.same THEN c.exp ELSE ResetConfig
           t    == [h EXCEPT ![c.n].rate = c.in.rate, ![c.n].config = cwvf]
       IN IF c.samePre \/ PrecompIsSetAfter(h, c.n)
          THEN /\ Advance(Below(calls), c, t, [cwvf |-> cwvf, rate |-> c.in.rate, precomp |-> c.pre])
               /\ UNCHANGED phase
          ELSE h' = t /\ phase' = "error" /\ UNCHANGED calls
    /\ UNCHANGED <<src, work, todo, used, front, commands, program, global, inForce, skipped>>

StartCwvf ==
    /\ phase = "cwvf" /\ calls = << >>
    /\ calls' = <<Called(h, Root)>>
    /\ UNCHANGED <<plan, global, inForce, skipped>>

EndCwvf ==
    /\ phase = "cwvf" /\ Len(calls) = 1 /\ Top(calls).n = NoNode
    /\ phase' = "allocate" /\ calls' = << >> /\ due' = <<Root>>
    /\ UNCHANGED <<src, h, work, todo, used, front, ptr, code, program, global, inForce, skipped>>

OptimizeCwvf ==
    \/ StartCwvf \/ AnalysePlay \/ AnalyseOther \/ AnalyseLoop \/ EnterBody
    \/ LeaveBody \/ LeaveLoop \/ LeaveBranch \/ EndCwvf

-----------------------------------------------------------------------------
\* needsNewCwvf.

\* The walk up to the play before: TRUE when a loop on the way ends with
\* another configuration, or when a loop that may not run at all lies between
\* and the play found has another configuration.
ChangedBefore(n) ==
    LET changed[m \in DOMAIN h, mayNotRun \in BOOLEAN] ==
            LET prev   == h[m].parent
                p      == h[prev]
                differ == Differs(p.cur, h[n].cur)
            IN CASE prev = NoNode -> FALSE
                 [] prev # NoNode /\ p.type = "loop" /\ differ -> TRUE
                 [] prev # NoNode /\ p.type = "loop" /\ ~differ /\ p.loop = m -> changed[prev, mayNotRun]
                 [] prev # NoNode /\ p.type = "loop" /\ ~differ /\ p.loop # m ->
                      ~p.once /\ changed[prev, TRUE]
                 [] prev # NoNode /\ p.type = "play" /\ ~IsQuiet(p.config, p.rate) -> mayNotRun /\ differ
                 [] OTHER -> changed[prev, mayNotRun]
    IN changed[n, FALSE]

\* The first ancestor that is the `next' of its parent or the body of a loop.
Ancestor(n) ==
    LET up[m \in DOMAIN h] ==
            LET p == h[m].parent
            IN IF p = NoNode \/ h[p].next = m \/ h[p].loop = m THEN m ELSE up[p]
    IN up[n]

NeedsNewCwvf(n) ==
    LET needs[m \in DOMAIN h] ==
            LET node   == h[m]
                p      == node.parent
                g      == h[p].parent
                Off(k) == Differs(h[k].cur, node.cur)
                a      == Ancestor(p)
                b      == h[a].parent
                c      == h[b].parent
                d      == h[c].parent
                ChainEntry ==     \* p = Branch: what held before the outermost chain entry
                    IF h[b].next = a THEN Off(b)
                    ELSE Off(b) \/ (c # NoNode /\ d # NoNode /\ Off(d))
            IN CASE node.type = "play" /\ IsQuiet(node.config, node.rate) -> FALSE
                 [] OTHER ->
                      \/ ChangedBefore(m)
                      \/ CASE p = NoNode -> FALSE
                           [] p # NoNode /\ h[p].next = m -> Off(p)
                           [] p # NoNode /\ h[p].next # m /\ h[p].loop = m ->
                                Off(p) \/ (IF g # NoNode /\ h[g].next = p THEN Off(g) ELSE needs[p])
                           [] p # NoNode /\ h[p].next # m /\ h[p].loop # m ->
                                \/ \A i \in DOMAIN h[p].branches : h[p].branches[i] # m
                                \/ ChainEntry
    IN needs[n]

-----------------------------------------------------------------------------
\* The configurations that placeSingleCommand puts before a node's commands.

\* Every output suppressed at the default rate.
SilentWord == Word(Config(Unset, -1, 0, FALSE), -1)

SettingsFor(n) ==
    CASE h[n].type = "load" /\ h[n].wave = 0 /\ global.valid -> <<Cwvf(global.last)>>
      [] h[n].type = "play" /\ ~global.valid /\ NeedsNewCwvf(n) -> <<Cwvf(n)>>
      [] OTHER -> << >>

FillInPlaceholders ==
    /\ phase = "emit" /\ due # << >>
    /\ Emit(SettingsFor(Top(due)))
    /\ UNCHANGED configuration

-----------------------------------------------------------------------------
\* The program runs: the last cwvf of a placeholder is in force after it.

Configures(n) ==
    LET words == SelectSeq(code[src[n].asmId], LAMBDA i : i.op = "cwvf")
    IN inForce' = IF words = << >> THEN inForce ELSE Top(words).word

\* A Loop inside a chain, right after a play: needsNewCwvf compares with the
\* play when such a loop may not run at all.
FollowsPlay(n) == src[n].next # NoNode /\ src[n].parent = at /\ src[at].type = "play"
                                          /\ ~src[at].config.dummy

\* The Branch skips all its bodies, the Loop does not run its body at all.
PassesBy(n) == at \notin NodesOf(src, src[n].loop) /\ ~FollowsPlay(n)

Run ==
    \/ RunStatement /\ Configures(Top(rest)) /\ UNCHANGED <<calls, global, skipped>>
    \/ \E b \in 0..Len(src) : /\ RunBranch(b) /\ Configures(Top(rest))
                              /\ skipped' = (skipped \/ b = NoNode) /\ UNCHANGED <<calls, global>>
    \/ RunBody /\ Configures(Top(rest)) /\ UNCHANGED <<calls, global, skipped>>
    \/ /\ RunPast /\ Configures(Top(rest))
       /\ skipped' = (skipped \/ PassesBy(Top(rest))) /\ UNCHANGED <<calls, global>>

-----------------------------------------------------------------------------
Init == PlanInit /\ calls = << >> /\ global = NoGlobal /\ inForce = SilentWord /\ skipped = FALSE

Next == \/ TreePasses /\ UNCHANGED <<commands, program, configuration>>
        \/ OptimizeCwvf
        \/ (Allocate \/ EndAllocate \/ EndEmit) /\ UNCHANGED configuration
        \/ FillInPlaceholders
        \/ Run

Spec == Init /\ [][Next]_vars

-----------------------------------------------------------------------------
\* Properties.

\* The configuration register holds a play's own configuration when the play
\* is executed, although most plays have no cwvf of their own.
ConfigInForce ==
    AtPlay /\ ~IsQuiet(src[at].config, h[at].rate) =>
        /\ inForce = Word(h[at].config, h[at].rate)
        /\ inForce.sel = src[at].config.sel

\* The same on every execution that passed no body by which the planner took
\* for executed: the last branch of an `if' without else, a loop at its test.
ConfigInForceIfTaken == skipped \/ ConfigInForce
=============================================================================
