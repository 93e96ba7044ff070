---------------------------- MODULE PrefetchPlan ----------------------------
(***************************************************************************)
(* What the waveform planner of codegen/prefetch*.cpp makes of the tree    *)
(* that PrefetchTree built, as far as the waves go: loads get memory       *)
(* (allocate), the commands of every node are put at the placeholder with  *)
(* its asm id (fillInPlaceholders), and then the program runs with them.   *)
(* Which configurations optimizeCwvf computes, and where it wants a cwvf   *)
(* command, is left open here: Prefetch says it.                           *)
(*                                                                         *)
(* Both passes go down the tree depth first; a step is one node of them.   *)
(* The program runs by itself, on any of its paths.                        *)
(***************************************************************************)
EXTENDS PrefetchTree

CONSTANT HasPrecomp  \* DeviceConstants::hasPrecomp

\* Every node has an asm id of its own (AsmCommands::emitNodeEntry), and a
\* play is a dummy when it has no wave (genPlayConfig).
ASSUME PlanAssumption ==
    /\ HasPrecomp \in BOOLEAN
    /\ \A t \in Sources : \A n \in DOMAIN t :
          /\ \A m \in DOMAIN t : t[m].asmId = t[n].asmId => m = n
          /\ t[n].type = "play" => (t[n].config.dummy <=> t[n].wave = 0)

VARIABLES
    due,        \* the nodes allocate or fillInPlaceholders has still to visit
    ptr,        \* loads whose nodeStates_ entry has a cache pointer
    code,       \* what was inserted before the placeholder of each asm id
    \* The program that runs:
    at,         \* the statement just executed
    rest,       \* the statements still to execute, innermost first
    loaded      \* the wave each register points at, of those loaded

commands == <<due, ptr, code>>
program  == <<at, rest, loaded>>
plan == <<tree, commands, program>>

-----------------------------------------------------------------------------
\* optimizeCwvf: any number of steps that fill in configurations.  It may throw.

Optimized ==
    /\ phase = "cwvf" /\ Configure /\ phase' \in {"cwvf", "error"}
    /\ UNCHANGED <<commands, program>>

EndOptimized ==
    /\ phase = "cwvf" /\ phase' = "allocate" /\ due' = <<Root>>
    /\ UNCHANGED <<src, h, work, todo, used, front, ptr, code, program>>

\* A dummy or a hold of a device with precompensation programs itself.
IsQuiet(cfg, rate) ==
    HasPrecomp /\ cfg.dummy /\ (cfg.rate = 0 \/ (cfg.rate = -1 /\ rate <= 0))

-----------------------------------------------------------------------------
\* Depth first: the branches of a node in their order, its body, and then
\* what follows it.
Descend(below, n) ==
    PushNode(PushNode(below, h[n].next), h[n].loop) \o Reverse(Bodies(h[n].branches))

\* allocate: a Load with a wave gets a cache pointer; a play that is no dummy
\* needs a load, and the load a pointer by then.

LacksLoad(n) ==
    /\ h[n].type = "play"
    /\ IF h[n].loadRef = NoNode THEN ~h[n].config.dummy ELSE h[n].loadRef \notin ptr

Allocate ==
    /\ phase = "allocate" /\ due # << >>
    /\ LET n == Top(due)
       IN IF LacksLoad(n) THEN phase' = "missing" /\ UNCHANGED <<due, ptr>>
          ELSE /\ ptr' = IF h[n].type = "load" /\ h[n].wave # 0 THEN ptr \cup {n} ELSE ptr
               /\ due' = Descend(Below(due), n)
               /\ UNCHANGED phase
    /\ UNCHANGED <<src, h, work, todo, used, front, code, program>>

EndAllocate ==
    /\ phase = "allocate" /\ due = << >>
    /\ phase' = "emit" /\ due' = <<Root>>
    /\ UNCHANGED <<src, h, work, todo, used, front, ptr, code, program>>

-----------------------------------------------------------------------------
\* fillInPlaceholders: placeCommands and placeSingleCommand, and the words of
\* PlayConfig::encodeCwvf.

Word(cfg, rate) ==
    LET eff == IF cfg.rate >= 0 THEN cfg.rate ELSE rate
    IN [sel |-> IF cfg.dummy THEN 0 ELSE cfg.sel, rate |-> IF eff > 0 THEN eff ELSE 0,
        default |-> eff < 0, precomp |-> cfg.precomp, dummy |-> cfg.dummy]

Cwvf(n) == [op |-> "cwvf", word |-> Word(h[n].config, h[n].rate)]

\* The commands of a node, but for the configurations they are given.
WaveCommands(n) ==
    LET node == h[n]
    IN CASE node.type = "load" /\ node.wave # 0 ->
              <<[op |-> "load", reg |-> node.reg, wave |-> node.wave]>>
         [] node.type = "play" /\ node.loadRef \in ptr -> <<[op |-> "wvf", reg |-> node.reg]>>
         [] node.type = "play" /\ node.loadRef \notin ptr /\ node.config.dummy ->
              <<[op |-> IF IsQuiet(node.config, node.rate) THEN "wvfs" ELSE "zero"]>>
         [] node.type = "ready" -> <<[op |-> "st"]>>
         [] OTHER -> << >>

\* The node on top gets its commands, after the configurations `settings'.
Emit(settings) ==
    /\ phase = "emit" /\ due # << >>
    /\ LET n == Top(due)
       IN /\ code' = [code EXCEPT ![h[n].asmId] = @ \o settings \o WaveCommands(n)]
          /\ due' = Descend(Below(due), n)
    /\ UNCHANGED <<tree, ptr, program>>

\* No configuration, or that of some node.
SettingsOf(t) == {<< >>} \cup { <<Cwvf(m)>> : m \in DOMAIN t }

EndEmit ==
    /\ phase = "emit" /\ due = << >>
    /\ phase' = "run" /\ rest' = <<Root>>
    /\ UNCHANGED <<src, h, work, todo, used, front, commands, at, loaded>>

-----------------------------------------------------------------------------
\* The program runs: its statements in the order the lowering gave them, the
\* commands of a statement at its placeholder.

\* The registers once the commands c have run: each holds what was last
\* loaded into it.
AfterLoads(c) ==
    LET loads == { i \in DOMAIN c : c[i].op = "load" }
        Into(r) == { i \in loads : c[i].reg = r }
        Latest(r) == CHOOSE i \in Into(r) : \A j \in Into(r) : j <= i
    IN [r \in DOMAIN loaded \cup { c[i].reg : i \in loads } |->
           IF Into(r) = {} THEN loaded[r] ELSE c[Latest(r)].wave]

RunPlaceholder(n) == at' = n /\ loaded' = AfterLoads(code[src[n].asmId])

\* What follows statement n when it is done.
After(n) == PushNode(Below(rest), src[n].next)

RunStatement ==
    /\ phase = "run" /\ rest # << >>
    /\ LET n == Top(rest)
       IN src[n].type \notin {"branch", "loop"} /\ RunPlaceholder(n) /\ rest' = After(n)
    /\ UNCHANGED <<tree, commands>>

\* A Branch enters one of its bodies, b; one without a statement, or none when
\* the Branch may skip them all.
RunBranch(b) ==
    /\ phase = "run" /\ rest # << >>
    /\ LET n == Top(rest)
       IN /\ src[n].type = "branch" /\ RunPlaceholder(n)
          /\ b \in Range(src[n].branches) \/ (src[n].maySkip /\ b = NoNode)
          /\ rest' = PushNode(After(n), b)
    /\ UNCHANGED <<tree, commands>>

\* A Loop runs its body once more,
RunBody ==
    /\ phase = "run" /\ rest # << >>
    /\ LET n == Top(rest)
       IN /\ src[n].type = "loop" /\ RunPlaceholder(n)
          /\ src[n].loop # NoNode /\ rest' = Append(rest, src[n].loop)
    /\ UNCHANGED <<tree, commands>>

\* or ends; one that runs at least once ends only after its body (`at' is then
\* a statement of it).
RunPast ==
    /\ phase = "run" /\ rest # << >>
    /\ LET n == Top(rest)
       IN /\ src[n].type = "loop" /\ RunPlaceholder(n)
          /\ ~src[n].once \/ src[n].loop = NoNode \/ at \in NodesOf(src, src[n].loop)
          /\ rest' = After(n)
    /\ UNCHANGED <<tree, commands>>

-----------------------------------------------------------------------------
PlanInit ==
    /\ TreeInit
    /\ due = << >> /\ ptr = {}
    /\ code = [i \in { src[n].asmId : n \in DOMAIN src } |-> << >>]
    /\ at = NoNode /\ rest = << >> /\ loaded = << >>

PlanNext ==
    \/ TreePasses /\ UNCHANGED <<commands, program>>
    \/ Optimized \/ EndOptimized \/ Allocate \/ EndAllocate
    \/ \E settings \in SettingsOf(h) : Emit(settings)
    \/ EndEmit
    \/ RunStatement \/ (\E b \in 0..Len(src) : RunBranch(b)) \/ RunBody \/ RunPast

\* All that the planner and the program do, whatever configurations they use.
OnlyPlans == [][PlanNext]_plan

PlanSpec == PlanInit /\ OnlyPlans

-----------------------------------------------------------------------------
\* Properties.

AtPlay == phase = "run" /\ at # NoNode /\ src[at].type = "play"

\* Merging the loads of a wave leaves no play behind without a load, and a play
\* is executed once per visit, with a register that was loaded with its wave on
\* the way there, whatever way that was.
PlaysItsWave ==
    /\ phase # "missing"
    /\ AtPlay /\ src[at].wave # 0 =>
        LET c == code[src[at].asmId]
        IN \E i \in DOMAIN c :
              /\ c[i].op = "wvf" /\ \A j \in DOMAIN c : c[j].op = "wvf" => j = i
              /\ c[i].reg \in DOMAIN loaded /\ loaded[c[i].reg] = src[at].wave
=============================================================================
