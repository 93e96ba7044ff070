----------------------------- MODULE LoweredRun -----------------------------
(***************************************************************************)
(* A program is lowered, and the sequencer runs the code, with a play at   *)
(* the place in the code of every play the planner finds in the program    *)
(* tree; SourceRun is what they promise together.                          *)
(***************************************************************************)
EXTENDS Lowering, AsmMachine, SeqcMeaning
Chains == INSTANCE SequencesExt
Sounds == INSTANCE Signals

CONSTANTS Programs, Inputs

VARIABLES
  program, input,
  phase,            \* "source", "code" or "refused"
  code,             \* the instructions of the lowered program
  plan,             \* its plays: those of each entry, their order, which is next
  named,            \* the registers of the program's own variables
  machine,          \* the sequencer
  meant             \* the events the program means, to compare with

vars == <<program, input, phase, code, plan, named, machine, meant>>

NoPlan == [plays |-> <<>>, order |-> {}, next |-> {}]
Init ==
  /\ program \in Programs /\ input \in Inputs
  /\ phase = "source" /\ code = <<>> /\ plan = NoPlan /\ named = {} /\ machine = Start
  /\ meant = Events(program, input)

RegistersOf(cs) ==
  UNION {{cs.scopes[k].vars[v].reg : v \in DOMAIN cs.scopes[k].vars} : k \in DOMAIN cs.scopes}

-----------------------------------------------------------------------------
(* Ways through the tree, as the planner takes them: any body of a branch,  *)
(* any number of rounds of a loop.  Zero stands for the end of the tree.    *)

RECURSIVE PlaysIn(_), Begins(_, _), Succession(_, _)

PlaysIn(chain) ==
  LET own(n) == IF n.type \in PlayTypes THEN <<n>>
                ELSE Chains!FlattenSeq([b \in DOMAIN n.bodies |-> PlaysIn(n.bodies[b])])
  IN  Chains!FlattenSeq([k \in DOMAIN chain |-> own(chain[k])])

\* The plays and settings that may come first in a chain, or in what is after
\* it.
MayBePassed(n) ==
  CASE n.type = "loop" -> ~n.once
    [] n.type = "branch" -> n.maySkip \/ n.bodies = <<>>
    [] OTHER -> n.type \in {"setvar", "sync", "load"}
Begins(chain, after) ==
  IF chain = <<>> THEN after
  ELSE LET n    == Head(chain)
           rest == Begins(Tail(chain), after)
       IN  IF n.type \in PlayTypes THEN {n.id}
           ELSE UNION {Begins(b, rest) : b \in Chains!Range(n.bodies)}
                  \cup (IF MayBePassed(n) THEN rest ELSE {})

\* Which of them may come after which.
Succession(chain, after) ==
  IF chain = <<>> THEN {}
  ELSE LET n    == Head(chain)
           rest == Begins(Tail(chain), after)
           ends(b) == IF n.type = "loop" THEN rest \cup Begins(b, rest) ELSE rest
       IN  Succession(Tail(chain), after)
             \cup (IF n.type \in PlayTypes THEN {n.id} \X rest
                   ELSE UNION {Succession(b, ends(b)) : b \in Chains!Range(n.bodies)})

\* The outputs of the instrument that a play is for, and what each of them gets:
\* a channel of the wave.
ChannelOf(sig, k) ==
  IF k > sig.channels THEN <<>>
  ELSE [f \in 1 .. sig.length |->
          LET at == (f - 1) * sig.channels + k IN <<sig.samples[at], sig.markers[at]>>]
TracksOf(waves, n) ==
  LET sig == Sounds!Allocated(waves[n.wave].signal)
  IN  [b \in {r[2] : r \in n.routes} |->
         ChannelOf(sig, (CHOOSE r \in n.routes : r[2] = b)[1])]
PlayOn(waves, n) ==
  IF n.type = "zero" THEN <<"ZERO", n.num, n.setting, n.how>>
  ELSE <<"PLAY", TracksOf(waves, n), n.setting, n.how, n.num, 0>>

\* The plays of each entry, with the register they take a place or a length from.
PlanOf(tree, waves) ==
  LET all == PlaysIn(tree)
      at(id) == SelectSeq(all, LAMBDA n : n.id = id /\ n.type \in {"play", "zero"})
  IN  [plays |-> [id \in {n.id : n \in Chains!Range(all)} |->
                    [k \in DOMAIN at(id) |-> [event |-> PlayOn(waves, at(id)[k]), reg |-> at(id)[k].reg]]],
       order |-> Succession(tree, {0}),
       next  |-> Begins(tree, {0})]
Followed(p, id) ==
  [p EXCEPT !.next = {pair[2] : pair \in {q \in p.order : q[1] = id /\ id \in p.next}}]

-----------------------------------------------------------------------------

\* Compiler::compile up to the list of instructions.
Yield(X) ==
  /\ phase' = IF X.cs.ok THEN "code" ELSE "refused"
  /\ code' = IF X.cs.ok THEN X.asm ELSE <<>>
  /\ plan' = IF X.cs.ok THEN PlanOf(X.tree, X.cs.waves) ELSE NoPlan
  /\ named' = RegistersOf(X.cs)
Compile ==
  /\ phase = "source"
  /\ Yield(Lowered(program))
  /\ UNCHANGED <<program, input, machine, meant>>

\* The planner puts the plays of the tree in front of the entries they name.
IsPlaceholder(i) == i.cmd = "INVALID"
IsPlanned(i) == IsPlaceholder(i) /\ i.imm \in DOMAIN plan.plays
Timed(m, play) ==
  LET place == Signed(Value(m, play.reg))
  IN  CASE play.reg = 0 -> play.event
        [] play.reg # 0 /\ play.event[1] = "ZERO" -> [play.event EXCEPT ![2] = place]
        [] play.reg # 0 /\ play.event[1] = "PLAY" -> [play.event EXCEPT ![6] = place]
Passed(m, plays) ==
  [m EXCEPT !.pc = @ + 1, !.steps = @ + 1,
            !.events = @ \o [k \in DOMAIN plays |-> Timed(m, plays[k])]]

Execute ==
  /\ phase = "code" /\ ~IsStopped(code, machine)
  /\ LET i == code[machine.pc]
     IN  /\ machine' = CASE IsPlanned(i) -> Passed(machine, plan.plays[i.imm])
                         [] IsPlaceholder(i) /\ ~IsPlanned(i) -> Passed(machine, <<>>)
                         [] OTHER -> Executed(code, machine, input)
         /\ plan' = IF IsPlanned(i) THEN Followed(plan, i.imm) ELSE plan
  /\ UNCHANGED <<program, input, phase, code, named, meant>>

Next == Compile \/ Execute

\* The compiler comes to its end, and so does the sequencer.
Leave == phase = "source" /\ phase' \in {"code", "refused"}

Spec == Init /\ [][Next]_vars /\ WF_phase(Leave) /\ WF_vars(Execute)

-----------------------------------------------------------------------------
(* Properties *)

TypeOK ==
  /\ phase \in {"source", "code", "refused"}
  /\ \A k \in DOMAIN code :
       /\ code[k].cmd \in Commands
       /\ {code[k].dst, code[k].src, code[k].aux} \subseteq Nat \cup {NoReg}
       /\ code[k].cmd \in {"ADDI", "ANDI", "ORI", "XNORI"} => FitsImm(code[k].imm)

\* Every branch of the code finds its label, and no label is there twice: not
\* when a body is evaluated several times, a condition twice, or a dead branch
\* evaluated and dropped.
BranchesResolve ==
  phase = "code" /\ machine = Start =>
    /\ \A k \in DOMAIN code : IsBranch(code[k]) =>
         \E j \in DOMAIN code : code[j].cmd = "LABEL" /\ code[j].label = code[k].label
    /\ \A j, k \in DOMAIN code :
         code[j].cmd = "LABEL" /\ code[k].cmd = "LABEL" /\ code[j].label = code[k].label => j = k

\* The sequencer never reads a register of an intermediate value before the
\* code that computes it has run: the code of no operand is lost or late.
ReadBy(i) == {r \in {i.src, i.aux} : r > R0 /\ IsRead(i, r)}
OperandsComputed ==
  phase = "code" /\ ~IsStopped(code, machine) =>
    ReadBy(code[machine.pc]) \subseteq DOMAIN machine.regs \cup named

\* The planner goes by the tree: every run of the code is a way through the
\* tree, play by play and setting by setting, from its beginning to its end.
TreeDescribesCode ==
  phase = "code" => /\ plan.next # {}
                    /\ IsHalted(code, machine) => 0 \in plan.next

\* The timer of a wait is a matter of time only.
IsTimer(e) ==
  \/ e[1] = "ST" /\ e[2] = Address.triggerLoad
  \/ e[1] = "WTRIG" /\ {e[2], e[3]} = {WaitTrigger}
\* An entry of the command table has its number in the code or in a register.
AsEntry(e) ==
  Entry(IF e[2] = 2^(Limit[program.name].tableBits + 1) THEN e[3] ELSE e[2])
Shown ==
  LET seen == SelectSeq(machine.events, LAMBDA e : ~IsTimer(e))
  IN  [k \in DOMAIN seen |-> IF seen[k][1] = "WVFET" THEN AsEntry(seen[k]) ELSE seen[k]]

Source == INSTANCE SourceRun WITH
  verdict <- CASE phase = "source" -> "none" [] phase = "code" -> "accepted"
               [] phase = "refused" -> "refused",
  shown   <- Shown,
  due     <- SubSeq(meant, Len(Shown) + 1, Len(meant))

=============================================================================
