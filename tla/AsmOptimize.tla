---------------------------- MODULE AsmOptimize ----------------------------
(***************************************************************************)
(* The optimizer of the back end, class AsmOptimize (asm/asm_optimize.cpp, *)
(* asm/asm_optimize_regalloc.cpp).  optimizePreWaveform drops dead code;   *)
(* optimizePostWaveform drops jumps and labels, folds the zeroing of a     *)
(* register into the load that follows it, drops what is never read, and   *)
(* maps the program's unlimited registers onto those of the sequencer.     *)
(* When they do not fit it goes back to the program before the allocation, *)
(* reloads constants next to their late uses, and allocates once more; a   *)
(* second failure leaves as an exception.  The user's messages are         *)
(* reported last.  The instructions the prefetcher adds between the two    *)
(* entry points are taken as part of the program from the start.           *)
(*                                                                         *)
(* A pass that looks at one instruction after the other without carrying   *)
(* anything along is a function of the program.  The others take a step    *)
(* per jump, register, merge or constant they deal with.  A sub-range of a *)
(* live range, a sorted vector in the source, is the set of its indices.   *)
(***************************************************************************)
EXTENDS AsmCode, SequencesExt, FiniteSetsExt

CONSTANTS
  Programs,     \* the instruction lists to optimize
  FlagSets,     \* the sets of OptPassFlag bits to run with
  NumPhysical,  \* numPhysicalRegs_, DeviceConstants::registerDepth
  Gaps          \* bound: registers the front end numbered and did not use

Instruction ==
  [cmd : Commands, dst : Int, src : Int, aux : Int, imm : Int, label : Nat,
   noOpt : BOOLEAN]

ASSUME OptimizeAssumption ==
  /\ Programs \subseteq Seq(Instruction)
  /\ NumPhysical \in Nat \ {0}
  /\ Gaps \subseteq Nat
  /\ FlagSets \subseteq SUBSET {"jumps", "labels", "dead", "zero", "regs"}

VARIABLES
  code,       \* asm_
  flags,      \* optFlags_
  phase,      \* the pass that runs next
  regNumber,  \* GlobalResources::regNumber, the next register to number
  numRegs,    \* the highest register, as removeUnusedRegs returns it
  phys,       \* physRegs: the live ranges every register holds
  pool,       \* conflicts: the registers not merged into another
  vreg,       \* the register that absorbs others
  cand,       \* the last one it absorbed or, at first, itself
  at,         \* the entry a pass that walks the program looked at last
  seen,       \* writeOnlyRegs: the registers removeUnusedRegs looked at
  backup,     \* asm_ before the first allocation
  retried,    \* the first allocation failed
  reported    \* the messages handed to the callbacks

opVars == <<code, flags, phase, regNumber, numRegs, phys, pool, vreg, cand,
            at, seen, backup, retried, reported>>

Max0(S) == IF S = {} THEN 0 ELSE Max(S)

\* AsmList::maxRegister; a barrier register never reaches it.
MaxRegister(c) == Max0((UNION {Registers(c[k]) : k \in DOMAIN c}) \cap Nat)

-----------------------------------------------------------------------------
(* Dead code *)

\* isLabelCalled: a branch before k names the label.
IsLabelCalled(c, label, k) ==
  \E j \in 1 .. k - 1 : IsBranch(c[j]) /\ c[j].label = label

\* Mutant: a label that is called from before does not end the dead code.
CutOffToEnd(c, u) == {k \in u + 1 .. Len(c) : c[k].cmd # "LABEL"}

\* What the branch at u cuts off: everything up to a label that is called
\* from before; labels stay.
CutOff(c, u) ==
  {k \in u + 1 .. Len(c) :
     /\ c[k].cmd # "LABEL"
     /\ \A j \in u + 1 .. k : c[j].cmd = "LABEL" => ~IsLabelCalled(c, c[j].label, u + 1)}

KillAll(c, K) == [k \in DOMAIN c |-> IF k \in K THEN Kill(c[k]) ELSE c[k]]

Unconditionals == {k \in DOMAIN code : k > at /\ IsUnconditional(code[k])}

-----------------------------------------------------------------------------
(* Jumps and labels *)

\* Only dead entries, NOPs and other labels lie between a branch and its label.
IsOneStep(c, k) ==
  \E t \in k + 1 .. Len(c) :
    /\ c[t].cmd = "LABEL" /\ c[t].label = c[k].label
    /\ \A j \in k + 1 .. t - 1 : c[j].cmd \in {"INVALID", "NOP", "LABEL"}

OneStepJumps(c) ==
  [k \in DOMAIN c |->
     IF IsBranch(c[k]) /\ ~c[k].noOpt /\ IsOneStep(c, k)
     THEN Kill(c[k]) ELSE c[k]]

Named(c) == {c[k].label : k \in {j \in DOMAIN c : IsBranch(c[j])}}

\* Mutant: only the branches before a label count as its uses.
CalledLabels(c) ==
  [k \in DOMAIN c |->
     IF c[k].cmd = "LABEL" /\ ~IsLabelCalled(c, c[k].label, k)
     THEN DropLabel(c[k]) ELSE c[k]]

UnusedLabels(c) ==
  [k \in DOMAIN c |->
     IF c[k].cmd = "LABEL" /\ c[k].label \notin Named(c)
     THEN DropLabel(c[k]) ELSE c[k]]

Labels(c) == {k \in DOMAIN c : c[k].cmd = "LABEL"}
Follows(c, k) == k \in Labels(c) /\ k - 1 \in Labels(c)

\* The label that heads the run of labels k is in.
RunHead(c, k) == Max({j \in 1 .. k : j \in Labels(c) /\ ~Follows(c, j)})

\* What a branch to the label goes to when the runs are merged.
Merged(c, label) ==
  LET K == {k \in Labels(c) : c[k].label = label /\ Follows(c, k)}
  IN  IF K = {} THEN label ELSE c[RunHead(c, Max(K))].label

MergeLabels(c) ==
  [k \in DOMAIN c |->
     IF IsBranch(c[k]) THEN [c[k] EXCEPT !.label = Merged(c, @)]
     ELSE IF Follows(c, k) THEN DropLabel(c[k]) ELSE c[k]]

-----------------------------------------------------------------------------
(* Register zeroing: ADDI r, R0, 0 before ADDIU r, r, x *)

IsZeroed(c, k) ==
  /\ k - 1 \in DOMAIN c /\ k \in DOMAIN c
  /\ ~c[k].noOpt
  /\ c[k - 1].cmd = "ADDI" /\ c[k - 1].src = R0 /\ c[k - 1].imm = 0
  /\ c[k].cmd = "ADDIU" /\ c[k].src = c[k].dst /\ c[k].src = c[k - 1].dst

RegisterZeroing(c) ==
  [k \in DOMAIN c |->
     IF IsZeroed(c, k) THEN [c[k] EXCEPT !.src = R0]
     ELSE IF IsZeroed(c, k + 1) THEN Kill(c[k]) ELSE c[k]]

-----------------------------------------------------------------------------
(* Registers that are written and never read *)

Later(c, k) == {j \in k + 1 .. Len(c) : c[j].cmd # "INVALID"}

InSource(c, k, r) == \E j \in Later(c, k) : c[j].src = r
InDest(c, k, r)   == \E j \in Later(c, k) : c[j].dst = r

\* A branch on the register, or any use in the slot that may be both.
IsTangled(c, k, r) ==
  \E j \in Later(c, k) : c[j].aux = r \/ (c[j].src = r /\ IsBranch(c[j]))

UsesDest(i) == i.dst \notin {NoReg, R0}
Target(i) == IF UsesDest(i) THEN i.dst ELSE i.aux

DropWrite(i) ==
  IF UsesDest(i) THEN [Kill(i) EXCEPT !.dst = NoReg]
                 ELSE [Kill(i) EXCEPT !.aux = NoReg]

\* Mutant: the value that was copied may be used again.
IsCopyNext(c, k) ==
  /\ k + 1 \in DOMAIN c
  /\ c[k + 1].cmd = "ADDI" /\ c[k + 1].imm = 0 /\ c[k + 1].src = c[k].dst

\* simplifyAssign: the next instruction only copies what this one computes.
IsCopied(c, k) ==
  /\ k + 1 \in DOMAIN c
  /\ c[k + 1].cmd = "ADDI" /\ c[k + 1].imm = 0 /\ c[k + 1].src = c[k].dst
  /\ \A j \in k + 2 .. Len(c) : c[k].dst \notin {c[j].src, c[j].aux}

SimplifyAssign(c, k) ==
  IF IsCopied(c, k)
  THEN [c EXCEPT ![k].dst = c[k + 1].dst, ![k + 1] = Kill(@)]
  ELSE c

WriteOnly(c, k, r) ==
  CASE IsTangled(c, k, r)                        -> c
    [] InSource(c, k, r) /\ InDest(c, k, r)      -> c
    [] InSource(c, k, r) /\ ~InDest(c, k, r)     -> SimplifyAssign(c, k)
    [] OTHER                                     -> [c EXCEPT ![k] = DropWrite(@)]

\* The next write of a register no write of which was looked at.
NewWrites ==
  {k \in DOMAIN code :
     k > at /\ ~Skipped(code[k]) /\ WritesDest(code[k]) /\ Target(code[k]) \notin seen}

\* The highest register of the entries up to k that were not looked at.
Highest(k) ==
  Max({numRegs} \cup (UNION {Registers(code[j]) : j \in {n \in at + 1 .. k : ~Skipped(code[n])}}))

-----------------------------------------------------------------------------
(* Live ranges *)

Uses(c, r) == {k \in DOMAIN c : ~Skipped(c[k]) /\ r \in Registers(c[k])}

\* The branches to an earlier label, with that label's index.
LabelIndex(c, label) == Max0({k \in Labels(c) : c[k].label = label})
Backward(c) ==
  {<<LabelIndex(c, c[s].label), s>> :
     s \in {k \in DOMAIN c : /\ IsBranch(c[k])
                             /\ LabelIndex(c, c[k].label) \in 1 .. k - 1}}

\* Going straight through the body, r is read before it is written.
IsReadFirst(c, r, t, s) ==
  \E k \in t .. s - 1 :
    /\ IsRead(c[k], r)
    /\ \A j \in t .. k - 1 : ~IsWritten(c[j], r)

\* The live range of r, with the branches across which it stays live.
LiveRange(c, r) ==
  LET u == Uses(c, r)
  IN  IF u = {} THEN {}
      ELSE u \cup {b[2] : b \in {e \in Backward(c) :
                                   /\ Max(u) < e[2]
                                   /\ IsReadFirst(c, r, e[1], e[2])}}

-----------------------------------------------------------------------------
(* Merging live ranges *)

\* Mutant: a range that ends where the next one begins, or later, fits.
SlotsAfter(pv, r) == {p \in 0 .. Len(pv) : p > 0 => Max(pv[p]) < Min(r)}

\* After which of the ranges of pv the range r fits: none before it ends
\* later, none after it begins earlier.
Slots(pv, r) ==
  {p \in 0 .. Len(pv) :
     /\ p > 0 => Max(pv[p]) < Min(r)
     /\ p < Len(pv) => Max(r) < Min(pv[p + 1])}

Fits(p) == Slots(phys[vreg], phys[p][1]) # {}

Mergeable == {p \in pool : p > cand /\ Fits(p)}

\* Registers are left to place at or above vreg.
IsLeft == \E p \in pool : p >= vreg

\* vreg holds a range and is not a register of the sequencer: the source
\* throws for it, at once or after merging into it in vain.
IsTooHigh == vreg >= NumPhysical /\ phys[vreg] # <<>>

-----------------------------------------------------------------------------
(* Splitting constants *)

Barrier(i) == [Kill(i) EXCEPT !.src = Magic]

\* The n-th number of K, and the entries at K in their order.
Nth(K, n) == CHOOSE k \in K : Cardinality({j \in K : j <= k}) = n
Entries(t, K) == [n \in 1 .. Cardinality(K) |-> t[Nth(K, n)]]

\* Two barrier slots before every instruction that is not skipped.
Padded(c) ==
  [n \in 1 .. 3 * Len(c) |->
     LET k == (n + 2) \div 3 IN IF n = 3 * k THEN c[k] ELSE Barrier(c[k])]
Barriered(c) ==
  Entries(Padded(c), {n \in DOMAIN Padded(c) : n % 3 = 0 \/ ~Skipped(c[(n + 2) \div 3])})

Stripped(t) == Entries(t, {k \in DOMAIN t : ~(t[k].cmd = "INVALID" /\ t[k].src = Magic)})

\* The load of the upper half that completes the constant of k, 0 if none.
UpperOf(t, k) ==
  LET next == {j \in k + 1 .. Len(t) : t[j].cmd # "INVALID"}
      j == Min(next)
  IN  IF /\ next # {}
         /\ t[j].cmd = "ADDIU" /\ t[j].dst = t[k].dst
         /\ t[j].src = IF t[k].cmd = "ADDI" THEN t[k].dst ELSE R0
      THEN j ELSE 0

\* A constant load nothing later overwrites.
IsConstant(t, k) ==
  /\ t[k].cmd \in {"INVALID", "ADDI"} /\ t[k].src = R0
  /\ t[k].cmd = "INVALID" => UpperOf(t, k) # 0
  /\ \A j \in k + 1 .. Len(t) :
       j # UpperOf(t, k) => ~IsWritten(t[j], t[k].dst)

SplitThreshold == 10

\* The uses of the constant of k, those far enough from it, and the number
\* of the register that reloads it for the use at j.
UsesOf(t, k) ==
  {j \in k + 1 .. Len(t) :
     ~Skipped(t[j]) /\ IsRead(t[j], t[k].dst) /\ ~IsWritten(t[j], t[k].dst)}
Distance(t, k, j) == Cardinality({n \in k + 1 .. j - 1 : ~Skipped(t[n])})
FarUses(t, k) == {j \in UsesOf(t, k) : Distance(t, k, j) >= SplitThreshold}
Reload(t, k, j, fresh) == fresh + Cardinality({n \in FarUses(t, k) : n < j})

\* splitReg: the two slots before a far use reload the constant, the use
\* reads the new register, and the constant goes when no use is near.
SplitReg(t, k, fresh) ==
  LET far  == FarUses(t, k)
      up   == UpperOf(t, k)
      r    == t[k].dst
      gone == far # {} /\ UsesOf(t, k) = far
      Low(j)  == [t[k] EXCEPT !.dst = Reload(t, k, j, fresh)]
      High(j) == [t[up] EXCEPT
                    !.dst = Reload(t, k, j, fresh),
                    !.src = IF t[k].cmd = "ADDI" THEN Reload(t, k, j, fresh)
                                                 ELSE R0]
      Use(j)  == [t[j] EXCEPT !.src = RenameIn(@, r, Reload(t, k, j, fresh)),
                              !.aux = RenameIn(@, r, Reload(t, k, j, fresh))]
  IN  [j \in DOMAIN t |->
         CASE j + 2 \in far                -> Low(j + 2)
           [] j + 1 \in far /\ up # 0     -> High(j + 1)
           [] j \in far                    -> Use(j)
           [] j \in {k, up} /\ gone       -> Kill(t[j])
           [] OTHER                        -> t[j]]

Constants == {k \in DOMAIN code : k > at /\ IsConstant(code, k)}

-----------------------------------------------------------------------------
(* The passes *)

\* Every branch of c has exactly one label to go to.
Resolves(c) ==
  \A k \in DOMAIN c :
    IsBranch(c[k]) => Cardinality({j \in Labels(c) : c[j].label = c[k].label}) = 1

\* Constants are loaded into registers, never into the one that reads as zero.
LoadsRegisters(c) == \A k \in DOMAIN c : c[k].cmd \in {"ADDI", "ADDIU"} => c[k].dst # R0

\* What the front end hands over: it names each label once, and loads into
\* registers it numbered, from 1 on.
ASSUME ProgramsAssumption == \A c \in Programs : Resolves(c) /\ LoadsRegisters(c)

Init ==
  /\ code \in Programs /\ flags \in FlagSets
  /\ \E gap \in Gaps : regNumber = MaxRegister(code) + 1 + gap
  /\ phase = "pre" /\ numRegs = 0 /\ phys = <<>> /\ pool = {}
  /\ vreg = 0 /\ cand = 0 /\ at = 0 /\ seen = {} /\ backup = <<>>
  /\ retried = FALSE /\ reported = <<>>

table == <<phys, pool, vreg, cand>>
rest == <<flags, backup, retried, reported>>

\* prepareResources numbers past every register.
PrepareResources ==
  /\ phase = "pre"
  /\ phase' = IF "dead" \in flags THEN "dead" ELSE "jumps"
  /\ regNumber' = Max({regNumber, MaxRegister(code) + 1})
  /\ UNCHANGED <<code, numRegs, at, seen, table, rest>>

\* optimizePreWaveform, one branch that is always taken at a time.
DeadCodeElimination ==
  /\ phase = "dead" /\ Unconditionals # {}
  /\ at' = Min(Unconditionals) /\ code' = KillAll(code, CutOff(code, at'))
  /\ UNCHANGED <<phase, regNumber, numRegs, seen, table, rest>>

EndDeadCode ==
  /\ phase = "dead" /\ Unconditionals = {} /\ phase' = "jumps"
  /\ UNCHANGED <<code, regNumber, numRegs, at, seen, table, rest>>

OneStepJumpElimination ==
  /\ phase = "jumps" /\ phase' = "labels"
  /\ code' = IF "jumps" \in flags THEN OneStepJumps(code) ELSE code
  /\ UNCHANGED <<regNumber, numRegs, at, seen, table, rest>>

LabelCleanup ==
  /\ phase = "labels" /\ phase' = "zeroing"
  /\ code' = IF "labels" \in flags THEN MergeLabels(UnusedLabels(code)) ELSE code
  /\ UNCHANGED <<regNumber, numRegs, at, seen, table, rest>>

MergeRegisterZeroing ==
  /\ phase = "zeroing" /\ at' = 0
  /\ phase' = IF "regs" \in flags THEN "unused" ELSE "report"
  /\ code' = IF "zero" \in flags THEN RegisterZeroing(code) ELSE code
  /\ UNCHANGED <<regNumber, numRegs, seen, table, rest>>

\* removeUnusedRegs, one register at a time.
RemoveUnusedReg ==
  /\ phase = "unused" /\ "zero" \in flags /\ NewWrites # {}
  /\ LET k == Min(NewWrites)
     IN  /\ at' = k /\ seen' = seen \cup {Target(code[k])}
         /\ numRegs' = Highest(k) /\ code' = WriteOnly(code, k, Target(code[k]))
  /\ UNCHANGED <<phase, regNumber, table, rest>>

\* It ends with the copy of the program a failed allocation goes back to.
EndUnusedRegs ==
  /\ phase = "unused" /\ phase' = "ranges"
  /\ "zero" \in flags => NewWrites = {}
  /\ numRegs' = Highest(Len(code)) /\ backup' = code
  /\ UNCHANGED <<code, regNumber, at, seen, table, flags, retried, reported>>

\* Mutant: the pool begins with register 0.
BuildRangesFromZero ==
  /\ phase = "ranges" /\ phase' = "merge"
  /\ phys' = [r \in 1 .. numRegs |->
               IF Uses(code, r) = {} THEN <<>> ELSE <<LiveRange(code, r)>>]
  /\ pool' = {r \in 0 .. numRegs : Uses(code, r) # {}}
  /\ vreg' = 1 /\ cand' = 1
  /\ UNCHANGED <<code, regNumber, numRegs, at, seen, rest>>

\* The first half of registerAllocation.
BuildRanges ==
  /\ phase = "ranges" /\ phase' = "merge"
  /\ phys' = [r \in 1 .. numRegs |->
               IF Uses(code, r) = {} THEN <<>> ELSE <<LiveRange(code, r)>>]
  /\ pool' = {r \in 1 .. numRegs : Uses(code, r) # {}}
  /\ vreg' = 1 /\ cand' = 1
  /\ UNCHANGED <<code, regNumber, numRegs, at, seen, rest>>

\* vreg absorbs the next register that fits, and its instructions rename it.
Merge ==
  /\ phase = "merge" /\ vreg <= numRegs /\ vreg < NumPhysical
  /\ IsLeft /\ Mergeable # {}
  /\ LET p == Min(Mergeable)
         r == phys[p][1]
         s == CHOOSE s \in Slots(phys[vreg], r) : TRUE
     IN  /\ code' = [k \in DOMAIN code |->
                      IF k \in r THEN Rename(code[k], p, vreg) ELSE code[k]]
         /\ phys' = [phys EXCEPT ![vreg] = InsertAt(@, s + 1, r), ![p] = <<>>]
         /\ pool' = pool \ {p} /\ cand' = p
  /\ UNCHANGED <<phase, regNumber, numRegs, vreg, at, seen, rest>>

NextRegister ==
  /\ phase = "merge" /\ vreg <= numRegs
  /\ IF vreg < NumPhysical THEN IsLeft /\ Mergeable = {} ELSE phys[vreg] = <<>>
  /\ vreg' = vreg + 1 /\ cand' = vreg + 1
  /\ UNCHANGED <<code, phase, regNumber, numRegs, phys, pool, at, seen, rest>>

\* Mutant: the walk ends quietly where the registers end.
EndAllocationFull ==
  /\ phase = "merge" /\ phase' = "report"
  /\ vreg <= numRegs => vreg >= NumPhysical \/ ~IsLeft
  /\ UNCHANGED <<code, regNumber, numRegs, at, seen, table, rest>>

EndAllocation ==
  /\ phase = "merge" /\ phase' = "report"
  /\ vreg <= numRegs => vreg < NumPhysical /\ ~IsLeft
  /\ UNCHANGED <<code, regNumber, numRegs, at, seen, table, rest>>

\* The first allocation throws; what it merged is lost with its program.
SplitConstRegisters ==
  /\ phase = "merge" /\ phase' = "split"
  /\ vreg <= numRegs /\ IsTooHigh /\ ~retried
  /\ retried' = TRUE /\ code' = Barriered(backup) /\ at' = 0
  /\ UNCHANGED <<regNumber, numRegs, seen, table, flags, backup, reported>>

SplitNext ==
  /\ phase = "split" /\ Constants # {}
  /\ LET k == Min(Constants)
     IN  /\ code' = SplitReg(code, k, regNumber)
         /\ regNumber' = regNumber + Cardinality(FarUses(code, k))
         /\ numRegs' = numRegs + 1 /\ at' = k
  /\ UNCHANGED <<phase, seen, table, rest>>

StripBarriers ==
  /\ phase = "split" /\ Constants = {} /\ phase' = "ranges"
  /\ code' = Stripped(code)
  /\ UNCHANGED <<regNumber, numRegs, at, seen, table, rest>>

\* The second one throws past optimizePostWaveform.
OutOfRegisters ==
  /\ phase = "merge" /\ phase' = "failed"
  /\ vreg <= numRegs /\ IsTooHigh /\ retried
  /\ UNCHANGED <<code, regNumber, numRegs, at, seen, table, rest>>

ReportUserMessages ==
  /\ phase = "report" /\ phase' = "done"
  /\ reported' = Entries(code, {k \in DOMAIN code : code[k].cmd \in Messages})
  /\ code' = [k \in DOMAIN code |->
               IF code[k].cmd \in Messages /\ flags # {} THEN Kill(code[k])
                                                        ELSE code[k]]
  /\ UNCHANGED <<regNumber, numRegs, at, seen, table, flags, backup, retried>>

Optimize ==
  \/ PrepareResources \/ DeadCodeElimination \/ EndDeadCode
  \/ OneStepJumpElimination \/ LabelCleanup \/ MergeRegisterZeroing
  \/ RemoveUnusedReg \/ EndUnusedRegs \/ BuildRanges
  \/ Merge \/ NextRegister \/ EndAllocation
  \/ SplitConstRegisters \/ SplitNext \/ StripBarriers \/ OutOfRegisters
  \/ ReportUserMessages

Spec == Init /\ [][Optimize]_opVars

-----------------------------------------------------------------------------
(* Properties *)

Phases == {"pre", "dead", "jumps", "labels", "zeroing", "unused", "ranges",
           "merge", "split", "report", "done", "failed"}

TypeOK ==
  /\ code \in Seq(Instruction) /\ backup \in Seq(Instruction)
  /\ reported \in Seq(Instruction)
  /\ flags \in FlagSets /\ phase \in Phases
  /\ {regNumber, numRegs, vreg, cand, at} \subseteq Nat
  /\ phys \in Seq(Seq(SUBSET Nat)) /\ pool \subseteq 1 .. Len(phys)
  /\ seen \subseteq Int /\ retried \in BOOLEAN

\* No two values share a register of the sequencer at one instruction: the
\* live ranges a register absorbed lie one after the other.
RangesDisjoint ==
  \A r \in DOMAIN phys : \A i, j \in DOMAIN phys[r] :
    i < j => \A a \in phys[r][i], b \in phys[r][j] : a < b

\* Every instruction that mentions a register of the table is in one of the
\* ranges the register holds: a merge renames all the instructions it moves.
RangesHold ==
  phase = "merge" =>
    \A k \in DOMAIN code : \A r \in Registers(code[k]) \cap DOMAIN phys :
      Skipped(code[k]) \/ \E j \in DOMAIN phys[r] : k \in phys[r][j]

\* An allocation that succeeds leaves no register of the table that the
\* sequencer does not have.
TableFits ==
  phase \in {"report", "done"} /\ "regs" \in flags =>
    \A k \in DOMAIN code : \A r \in Registers(code[k]) \cap 1 .. numRegs :
      Skipped(code[k]) \/ r < NumPhysical

\* The table of live ranges is sound through every merge, and the allocation
\* that works on it only ends well when the sequencer has the registers.
AllocationSound == RangesDisjoint /\ RangesHold /\ TableFits

\* Every branch that is left has exactly one label to go to, whatever the
\* passes before dropped or renamed.
LabelsResolve == Resolves(code)
=============================================================================
