------------------------- MODULE AsmOptimizeProofs -------------------------
(* Whatever the program, the passes keep it a program, a merge keeps the    *)
(* live ranges of a register apart and renames every instruction it moves,  *)
(* and an allocation that succeeds leaves no register the sequencer lacks.  *)
(* If each branch of the program has its label, each has it after any pass. *)
EXTENDS AsmOptimize, NatFacts, FiniteSetTheorems, SequenceTheorems, TLAPS

----------------------------------------------------------------------------
(* Largest and least elements.                                             *)

\* A nonempty finite set of integers has a largest element: the one with the
\* fewest others above it.
LEMMA LargestElement ==
  ASSUME NEW S \in SUBSET Int, IsFiniteSet(S), S # {}
  PROVE  \E x \in S : \A y \in S : x >= y
<1> DEFINE Above(x) == {y \in S : y > x}
           counts == {Cardinality(Above(x)) : x \in S}
<1>1. \A x \in S : IsFiniteSet(Above(x)) /\ Cardinality(Above(x)) \in Nat
  BY FS_Subset, FS_CardinalityType
<1>2. counts \in SUBSET Nat /\ counts # {}
  BY <1>1
<1>3. PICK n \in counts : \A m \in counts : n <= m
  BY <1>2, LeastElement
<1>4. PICK x \in S : n = Cardinality(Above(x))
  OBVIOUS
<1>5. \A y \in S : x >= y
  <2> SUFFICES ASSUME NEW y \in S, ~(x >= y) PROVE FALSE
    OBVIOUS
  <2>0. x \in Int /\ y \in Int /\ y > x
    OBVIOUS
  <2>1. Above(y) \subseteq Above(x) /\ y \in Above(x) /\ y \notin Above(y)
    <3>1. \A z \in Above(y) : z \in Int /\ z > x
      BY <2>0
    <3>2. Above(y) \subseteq Above(x)
      BY <3>1
    <3>3. y \in Above(x) /\ y \notin Above(y)
      BY <2>0
    <3> QED
      BY <3>2, <3>3
  <2>2. Cardinality(Above(y)) <= Cardinality(Above(x))
    BY <1>1, <2>1, FS_Subset
  <2>3. Cardinality(Above(y)) # Cardinality(Above(x))
    BY <1>1, <2>1, FS_Subset
  <2>4. n <= Cardinality(Above(y))
    BY <1>3
  <2>5. Cardinality(Above(x)) \in Nat /\ Cardinality(Above(y)) \in Nat
    BY <1>1
  <2> HIDE DEF Above
  <2> QED
    BY <1>4, <2>2, <2>3, <2>4, <2>5
<1> QED
  BY <1>5

\* What Max and Min return.
LEMMA MaxIsLargest ==
  ASSUME NEW S \in SUBSET Int, IsFiniteSet(S), S # {}
  PROVE  Max(S) \in S /\ \A y \in S : Max(S) >= y
BY LargestElement DEF Max

LEMMA MinIsLeast ==
  ASSUME NEW S \in SUBSET Nat, S # {}
  PROVE  Min(S) \in S /\ \A y \in S : Min(S) <= y
BY LeastElement DEF Min

----------------------------------------------------------------------------
(* Programs.                                                               *)

\* A function on 1..n into S is a sequence over S.
LEMMA FunctionIsSeq ==
  ASSUME NEW S, NEW n \in Nat, NEW f, f = [k \in 1 .. n |-> f[k]],
         \A k \in 1 .. n : f[k] \in S
  PROVE  f \in Seq(S) /\ Len(f) = n /\ DOMAIN f = 1 .. n
<1>1. f \in [1 .. n -> S]
  OBVIOUS
<1> QED
  BY <1>1

\* A change of every entry that leaves instructions leaves a program.
LEMMA ProgramOf ==
  ASSUME NEW c \in Seq(Instruction), NEW f, f = [k \in DOMAIN c |-> f[k]],
         \A k \in DOMAIN c : f[k] \in Instruction
  PROVE  f \in Seq(Instruction) /\ DOMAIN f = DOMAIN c /\ Len(f) = Len(c)
<1>1. Len(c) \in Nat /\ DOMAIN c = 1 .. Len(c)
  OBVIOUS
<1> QED
  BY <1>1, FunctionIsSeq

\* What the passes do to one instruction.
LEMMA InstructionKept ==
  ASSUME NEW i \in Instruction
  PROVE  /\ Kill(i) \in Instruction /\ DropLabel(i) \in Instruction
         /\ DropWrite(i) \in Instruction /\ Barrier(i) \in Instruction
         /\ Registers(i) \subseteq Int /\ Target(i) \in Int
         /\ \A p, v \in Int : Rename(i, p, v) \in Instruction
<1>1. Kill(i) \in Instruction /\ DropLabel(i) \in Instruction
  <2>1. "INVALID" \in Commands
    BY DEF Commands
  <2> QED
    BY <2>1 DEF Kill, DropLabel, Instruction, NoLabel
<1>2. DropWrite(i) \in Instruction /\ Barrier(i) \in Instruction
  <2> DEFINE dead == Kill(i)
  <2>1. dead \in Instruction /\ NoReg \in Int /\ Magic \in Int
    BY <1>1 DEF NoReg, Magic
  <2> HIDE DEF dead
  <2>2. [dead EXCEPT !.dst = NoReg] \in Instruction
    BY <2>1 DEF Instruction
  <2>3. [dead EXCEPT !.aux = NoReg] \in Instruction
    BY <2>1 DEF Instruction
  <2>4. [dead EXCEPT !.src = Magic] \in Instruction
    BY <2>1 DEF Instruction
  <2> QED
    BY <2>2, <2>3, <2>4 DEF DropWrite, Barrier, dead
<1>3. Registers(i) \subseteq Int /\ Target(i) \in Int
  BY DEF Registers, Target, Instruction
<1>4. \A p, v \in Int : Rename(i, p, v) \in Instruction
  BY DEF Rename, RenameIn, Instruction
<1> QED
  BY <1>1, <1>2, <1>3, <1>4

\* The passes that are functions of the program.
LEMMA KillAllProgram ==
  ASSUME NEW c \in Seq(Instruction), NEW K
  PROVE  KillAll(c, K) \in Seq(Instruction)
<1>1. \A k \in DOMAIN c : c[k] \in Instruction
  OBVIOUS
<1>2. \A k \in DOMAIN c : KillAll(c, K)[k] \in Instruction
  BY <1>1, InstructionKept DEF KillAll
<1>3. KillAll(c, K) = [k \in DOMAIN c |-> KillAll(c, K)[k]]
  BY DEF KillAll
<1> QED
  BY <1>2, <1>3, ProgramOf

LEMMA OneStepProgram ==
  ASSUME NEW c \in Seq(Instruction)
  PROVE  OneStepJumps(c) \in Seq(Instruction)
<1>1. \A k \in DOMAIN c : c[k] \in Instruction
  OBVIOUS
<1>2. \A k \in DOMAIN c : OneStepJumps(c)[k] \in Instruction
  BY <1>1, InstructionKept DEF OneStepJumps
<1>3. OneStepJumps(c) = [k \in DOMAIN c |-> OneStepJumps(c)[k]]
  BY DEF OneStepJumps
<1> QED
  BY <1>2, <1>3, ProgramOf

LEMMA UnusedLabelsProgram ==
  ASSUME NEW c \in Seq(Instruction)
  PROVE  UnusedLabels(c) \in Seq(Instruction)
<1>1. \A k \in DOMAIN c : c[k] \in Instruction
  OBVIOUS
<1>2. \A k \in DOMAIN c : UnusedLabels(c)[k] \in Instruction
  BY <1>1, InstructionKept DEF UnusedLabels
<1>3. UnusedLabels(c) = [k \in DOMAIN c |-> UnusedLabels(c)[k]]
  BY DEF UnusedLabels
<1> QED
  BY <1>2, <1>3, ProgramOf

\* A run of labels has a head, the least label of the list at the latest.
LEMMA HeadOfRun ==
  ASSUME NEW c \in Seq(Instruction), NEW m \in Labels(c)
  PROVE  RunHead(c, m) \in Labels(c) /\ ~Follows(c, RunHead(c, m))
<1> DEFINE heads == {j \in 1 .. m : j \in Labels(c) /\ ~Follows(c, j)}
<1>0. Len(c) \in Nat /\ DOMAIN c = 1 .. Len(c)
  OBVIOUS
<1>1. Labels(c) \in SUBSET (1 .. Len(c)) /\ Labels(c) \in SUBSET Nat /\ m \in Nat
  BY <1>0 DEF Labels
<1>2. heads # {}
  <2>1. PICK j \in Labels(c) : \A n \in Labels(c) : j <= n
    BY <1>1, LeastElement
  <2>2. j \in 1 .. m
    BY <1>0, <1>1, <2>1
  <2>3. ~Follows(c, j)
    BY <1>0, <1>1, <2>1 DEF Follows
  <2> QED
    BY <2>1, <2>2, <2>3
<1>3. heads \in SUBSET Int /\ IsFiniteSet(heads)
  <2>1. IsFiniteSet(1 .. m) /\ heads \in SUBSET (1 .. m)
    BY <1>1, FS_Interval
  <2> HIDE DEF heads
  <2>2. IsFiniteSet(heads)
    BY <2>1, FS_Subset
  <2> QED
    BY <2>1, <2>2
<1>4. Max(heads) \in heads
  BY <1>2, <1>3, MaxIsLargest
<1> QED
  BY <1>4 DEF RunHead

LEMMA MergedIsLabel ==
  ASSUME NEW c \in Seq(Instruction), NEW label \in Nat
  PROVE  Merged(c, label) \in Nat
<1> DEFINE K == {k \in Labels(c) : c[k].label = label /\ Follows(c, k)}
<1>0. Len(c) \in Nat /\ DOMAIN c = 1 .. Len(c) /\ \A k \in DOMAIN c : c[k].label \in Nat
  <2>1. \A k \in DOMAIN c : c[k] \in Instruction
    OBVIOUS
  <2> QED
    BY <2>1 DEF Instruction
<1>1. SUFFICES ASSUME K # {} PROVE c[RunHead(c, Max(K))].label \in Nat
  BY DEF Merged
<1>2. K \in SUBSET (1 .. Len(c)) /\ K \in SUBSET Int /\ IsFiniteSet(K)
  <2>1. K \in SUBSET (1 .. Len(c))
    BY <1>0 DEF Labels
  <2>2. IsFiniteSet(1 .. Len(c))
    BY <1>0, FS_Interval
  <2> QED
    BY <1>0, <2>1, <2>2, FS_Subset
<1>3. Max(K) \in K
  BY <1>1, <1>2, MaxIsLargest
<1>4. RunHead(c, Max(K)) \in DOMAIN c
  BY <1>3, HeadOfRun DEF Labels
<1> QED
  BY <1>0, <1>4

LEMMA MergeLabelsProgram ==
  ASSUME NEW c \in Seq(Instruction)
  PROVE  MergeLabels(c) \in Seq(Instruction)
<1>1. \A k \in DOMAIN c : c[k] \in Instruction
  OBVIOUS
<1>2. \A k \in DOMAIN c : [c[k] EXCEPT !.label = Merged(c, @)] \in Instruction
  <2> TAKE k \in DOMAIN c
  <2>1. Merged(c, c[k].label) \in Nat
    BY <1>1, MergedIsLabel DEF Instruction
  <2> QED
    BY <1>1, <2>1 DEF Instruction
<1>3. \A k \in DOMAIN c : MergeLabels(c)[k] \in Instruction
  BY <1>1, <1>2, InstructionKept DEF MergeLabels
<1>4. MergeLabels(c) = [k \in DOMAIN c |-> MergeLabels(c)[k]]
  BY DEF MergeLabels
<1> QED
  BY <1>3, <1>4, ProgramOf

LEMMA ZeroingProgram ==
  ASSUME NEW c \in Seq(Instruction)
  PROVE  RegisterZeroing(c) \in Seq(Instruction)
<1>1. \A k \in DOMAIN c : c[k] \in Instruction
  OBVIOUS
<1>2. \A k \in DOMAIN c : [c[k] EXCEPT !.src = R0] \in Instruction
  <2> TAKE k \in DOMAIN c
  <2>1. c[k] \in Instruction /\ R0 \in Int
    BY <1>1 DEF R0
  <2> QED
    BY <2>1 DEF Instruction
<1>3. \A k \in DOMAIN c : RegisterZeroing(c)[k] \in Instruction
  BY <1>1, <1>2, InstructionKept DEF RegisterZeroing
<1>4. RegisterZeroing(c) = [k \in DOMAIN c |-> RegisterZeroing(c)[k]]
  BY DEF RegisterZeroing
<1> QED
  BY <1>3, <1>4, ProgramOf

\* Counting from below maps a finite set one to one into 1 .. Cardinality.
LEMMA RankFacts ==
  ASSUME NEW K \in SUBSET Nat, IsFiniteSet(K)
  PROVE  /\ \A k \in K : /\ IsFiniteSet({j \in K : j <= k})
                         /\ Cardinality({j \in K : j <= k}) \in 1 .. Cardinality(K)
         /\ \A i, k \in K : Cardinality({j \in K : j <= i}) = Cardinality({j \in K : j <= k}) => i = k
<1> DEFINE Upto(k) == {j \in K : j <= k}
           c == Cardinality(K)
<1>1. \A k \in K : IsFiniteSet(Upto(k)) /\ Cardinality(Upto(k)) \in 1 .. c
  <2> TAKE k \in K
  <2>1. Upto(k) \in SUBSET K /\ k \in Upto(k)
    OBVIOUS
  <2>2. IsFiniteSet(Upto(k)) /\ Cardinality(Upto(k)) <= c
    BY <2>1, FS_Subset
  <2>3. Cardinality(Upto(k)) \in Nat /\ Cardinality(Upto(k)) # 0 /\ c \in Nat
    BY <2>1, <2>2, FS_CardinalityType, FS_EmptySet
  <2> QED
    BY <2>2, <2>3
<1>2. \A j, k \in K : j < k => Cardinality(Upto(j)) # Cardinality(Upto(k))
  <2> SUFFICES ASSUME NEW j \in K, NEW k \in K, j < k PROVE Cardinality(Upto(j)) # Cardinality(Upto(k))
    OBVIOUS
  <2>1. Upto(j) \in SUBSET Upto(k) /\ k \in Upto(k) /\ k \notin Upto(j)
    <3>1. j \in Nat /\ k \in Nat
      OBVIOUS
    <3>2. \A m \in Upto(j) : m \in K /\ m <= k
      BY <3>1
    <3>3. k \in Upto(k) /\ k \notin Upto(j)
      BY <3>1
    <3> QED
      BY <3>2, <3>3
  <2> HIDE DEF Upto
  <2> QED
    BY <1>1, <2>1, FS_Subset
<1> HIDE DEF Upto
<1>3. \A i, k \in K : Cardinality(Upto(i)) = Cardinality(Upto(k)) => i = k
  <2> SUFFICES ASSUME NEW i \in K, NEW k \in K, i # k PROVE Cardinality(Upto(i)) # Cardinality(Upto(k))
    OBVIOUS
  <2>1. i < k \/ k < i
    OBVIOUS
  <2> QED
    BY <1>2, <2>1
<1> QED
  BY <1>1, <1>3 DEF Upto

\* Every finite set of numbers has an n-th one, for each n it has place for.
LEMMA NthExists ==
  ASSUME NEW K \in SUBSET Nat, IsFiniteSet(K), NEW n \in 1 .. Cardinality(K)
  PROVE  Nth(K, n) \in K /\ Cardinality({j \in K : j <= Nth(K, n)}) = n
<1> DEFINE Upto(k) == {j \in K : j <= k}
           rank == [k \in K |-> Cardinality(Upto(k))]
           c == Cardinality(K)
<1>1. \A k \in K : Cardinality(Upto(k)) \in 1 .. c
  BY RankFacts
<1>2. \A j, k \in K : Cardinality(Upto(j)) = Cardinality(Upto(k)) => j = k
  BY RankFacts
<1> HIDE DEF Upto
<1>3. rank \in Injection(K, 1 .. c)
  <2>1. rank \in [K -> 1 .. c]
    BY <1>1
  <2>2. \A j, k \in K : rank[j] = rank[k] => j = k
    BY <1>2
  <2> QED
    BY <2>1, <2>2 DEF Injection, IsInjective
<1>4. IsFiniteSet(1 .. c) /\ Cardinality(1 .. c) = c
  <2>1. c \in Nat
    BY FS_CardinalityType
  <2> QED
    BY <2>1, FS_Interval
<1>5. rank \in Surjection(K, 1 .. c)
  BY <1>3, <1>4, FS_Injection
<1>6. PICK k \in K : rank[k] = n
  BY <1>5 DEF Surjection
<1>7. Cardinality({j \in K : j <= k}) = n
  BY <1>6 DEF Upto
<1> QED
  BY <1>7 DEF Nth

\* Each of its numbers has one place, and what follows it directly the next.
LEMMA NthPlace ==
  ASSUME NEW K \in SUBSET Nat, IsFiniteSet(K), NEW k \in K
  PROVE  /\ \E n \in 1 .. Cardinality(K) : Nth(K, n) = k
         /\ \A n \in 1 .. Cardinality(K) : Nth(K, n) = k => n = Cardinality({j \in K : j <= k})
         /\ k - 1 \in K => \A n \in 1 .. Cardinality(K) :
              Nth(K, n) = k => n - 1 \in 1 .. Cardinality(K) /\ Nth(K, n - 1) = k - 1
<1> DEFINE Upto(i) == {j \in K : j <= i}
           c == Cardinality(K)
<1>1. ASSUME NEW i \in K PROVE Cardinality(Upto(i)) \in 1 .. c /\ Nth(K, Cardinality(Upto(i))) = i
  <2> DEFINE n == Cardinality(Upto(i))
  <2>1. n \in 1 .. c
    BY RankFacts
  <2>2. Nth(K, n) \in K /\ Cardinality({j \in K : j <= Nth(K, n)}) = n
    <3> HIDE DEF n
    <3> QED
      BY <2>1, NthExists
  <2>3. Nth(K, n) = i
    <3>1. \A x, y \in K : Cardinality({j \in K : j <= x}) = Cardinality({j \in K : j <= y}) => x = y
      BY RankFacts
    <3>2. n = Cardinality({j \in K : j <= i})
      OBVIOUS
    <3> HIDE DEF n
    <3>3. Cardinality({j \in K : j <= Nth(K, n)}) = Cardinality({j \in K : j <= i})
      BY <2>2, <3>2
    <3> QED
      BY <2>2, <3>1, <3>3
  <2> QED
    BY <2>1, <2>3
<1>2. \A n \in 1 .. c : Nth(K, n) = k => n = Cardinality({j \in K : j <= k})
  BY NthExists
<1>3. ASSUME k - 1 \in K PROVE Cardinality(Upto(k - 1)) = Cardinality(Upto(k)) - 1
  <2>1. k \in Nat /\ k - 1 \in Nat
    BY <1>3
  <2>2. Upto(k) = Upto(k - 1) \cup {k} /\ k \notin Upto(k - 1)
    <3>1. \A j \in K : j <= k <=> j <= k - 1 \/ j = k
      BY <2>1
    <3>2. ~(k <= k - 1)
      BY <2>1
    <3> QED
      BY <3>1, <3>2
  <2>3. IsFiniteSet(Upto(k - 1))
    <3>1. \A i \in K : IsFiniteSet(Upto(i))
      BY RankFacts
    <3> HIDE DEF Upto
    <3> QED
      BY <1>3, <3>1
  <2> HIDE DEF Upto
  <2>4. Cardinality(Upto(k)) = Cardinality(Upto(k - 1)) + 1
    BY <2>2, <2>3, FS_AddElement
  <2>5. Cardinality(Upto(k - 1)) \in Nat
    BY <2>3, FS_CardinalityType
  <2> QED
    BY <2>4, <2>5
<1>4. ASSUME k - 1 \in K, NEW n \in 1 .. c, Nth(K, n) = k
      PROVE  n - 1 \in 1 .. c /\ Nth(K, n - 1) = k - 1
  <2>1. n - 1 = Cardinality(Upto(k - 1))
    BY <1>2, <1>3, <1>4
  <2>2. Cardinality(Upto(k - 1)) \in 1 .. c /\ Nth(K, Cardinality(Upto(k - 1))) = k - 1
    BY <1>1, <1>4
  <2> QED
    BY <2>1, <2>2
<1> QED
  BY <1>1, <1>2, <1>4

\* A part of a program, in its order, is a program.
LEMMA EntriesProgram ==
  ASSUME NEW c \in Seq(Instruction), NEW K \in SUBSET (DOMAIN c)
  PROVE  Entries(c, K) \in Seq(Instruction)
<1>1. Len(c) \in Nat /\ DOMAIN c = 1 .. Len(c)
  OBVIOUS
<1>2. K \in SUBSET Nat /\ IsFiniteSet(K)
  <2>1. IsFiniteSet(1 .. Len(c))
    BY <1>1, FS_Interval
  <2> QED
    BY <1>1, <2>1, FS_Subset
<1>3. Cardinality(K) \in Nat
  BY <1>2, FS_CardinalityType
<1>4. \A n \in 1 .. Cardinality(K) : Entries(c, K)[n] \in Instruction
  <2> TAKE n \in 1 .. Cardinality(K)
  <2>1. Nth(K, n) \in DOMAIN c
    BY <1>2, NthExists
  <2>2. c[Nth(K, n)] \in Instruction
    BY <2>1
  <2> QED
    BY <2>2 DEF Entries
<1>5. Entries(c, K) = [n \in 1 .. Cardinality(K) |-> Entries(c, K)[n]]
  BY DEF Entries
<1> QED
  BY <1>3, <1>4, <1>5, FunctionIsSeq

LEMMA BarrieredProgram ==
  ASSUME NEW c \in Seq(Instruction)
  PROVE  Barriered(c) \in Seq(Instruction)
<1> DEFINE p == Padded(c)
<1>1. Len(c) \in Nat /\ DOMAIN c = 1 .. Len(c) /\ 3 * Len(c) \in Nat
  OBVIOUS
<1>2. \A n \in 1 .. 3 * Len(c) : p[n] \in Instruction
  <2> TAKE n \in 1 .. 3 * Len(c)
  <2>1. (n + 2) \div 3 \in DOMAIN c
    BY <1>1
  <2>2. c[(n + 2) \div 3] \in Instruction
    BY <2>1
  <2> QED
    BY <2>2, InstructionKept DEF Padded
<1>3. p = [n \in 1 .. 3 * Len(c) |-> p[n]]
  BY DEF Padded
<1> HIDE DEF p
<1>4. p \in Seq(Instruction)
  BY <1>1, <1>2, <1>3, FunctionIsSeq
<1> QED
  BY <1>4, EntriesProgram DEF Barriered, p

LEMMA StrippedProgram ==
  ASSUME NEW c \in Seq(Instruction)
  PROVE  Stripped(c) \in Seq(Instruction)
BY EntriesProgram DEF Stripped

LEMMA WriteOnlyProgram ==
  ASSUME NEW c \in Seq(Instruction), NEW k \in DOMAIN c, NEW r \in Int
  PROVE  WriteOnly(c, k, r) \in Seq(Instruction)
<1>1. c[k] \in Instruction /\ Len(c) \in Nat /\ DOMAIN c = 1 .. Len(c)
  OBVIOUS
<1>2. [c EXCEPT ![k] = DropWrite(c[k])] \in Seq(Instruction)
  <2>1. DropWrite(c[k]) \in Instruction
    BY <1>1, InstructionKept
  <2> QED
    BY <2>1
<1>3. SimplifyAssign(c, k) \in Seq(Instruction)
  <2>1. CASE ~IsCopied(c, k)
    BY <2>1 DEF SimplifyAssign
  <2>2. CASE IsCopied(c, k)
    <3>1. k + 1 \in DOMAIN c /\ c[k + 1] \in Instruction
      BY <2>2 DEF IsCopied
    <3>2. Kill(c[k + 1]) \in Instruction
      BY <3>1, InstructionKept
    <3>3. [c[k] EXCEPT !.dst = c[k + 1].dst] \in Instruction
      BY <1>1, <3>1 DEF Instruction
    <3>4. [c EXCEPT ![k] = [c[k] EXCEPT !.dst = c[k + 1].dst],
                    ![k + 1] = Kill(c[k + 1])] \in Seq(Instruction)
      BY <1>1, <3>1, <3>2, <3>3
    <3>5. SimplifyAssign(c, k) =
            [c EXCEPT ![k] = [c[k] EXCEPT !.dst = c[k + 1].dst],
                      ![k + 1] = Kill(c[k + 1])]
      BY <1>1, <2>2, <3>1 DEF SimplifyAssign
    <3> QED
      BY <3>4, <3>5
  <2> QED
    BY <2>1, <2>2
<1>4. WriteOnly(c, k, r) \in
        {c, SimplifyAssign(c, k), [c EXCEPT ![k] = DropWrite(c[k])]}
  BY <1>1 DEF WriteOnly
<1> QED
  BY <1>2, <1>3, <1>4

\* The load of the upper half is an entry of the list.
LEMMA UpperIsEntry ==
  ASSUME NEW t \in Seq(Instruction), NEW k \in DOMAIN t
  PROVE  UpperOf(t, k) \in {0} \cup DOMAIN t
<1> DEFINE next == {j \in k + 1 .. Len(t) : t[j].cmd # "INVALID"}
<1>1. Len(t) \in Nat /\ DOMAIN t = 1 .. Len(t)
  OBVIOUS
<1>2. next \in SUBSET (DOMAIN t) /\ next \in SUBSET Nat
  BY <1>1
<1>3. next # {} => Min(next) \in DOMAIN t
  <2> HIDE DEF next
  <2> QED
    BY <1>2, MinIsLeast
<1> QED
  BY <1>3 DEF UpperOf

\* The positions of the far uses are a finite set, so the reloads have numbers.
LEMMA FarUsesFinite ==
  ASSUME NEW t \in Seq(Instruction), NEW k \in DOMAIN t
  PROVE  /\ IsFiniteSet(FarUses(t, k)) /\ FarUses(t, k) \subseteq DOMAIN t
         /\ Cardinality(FarUses(t, k)) \in Nat
         /\ \A j, fresh \in Nat : Reload(t, k, j, fresh) \in Nat
<1>1. Len(t) \in Nat /\ DOMAIN t = 1 .. Len(t)
  OBVIOUS
<1>2. FarUses(t, k) \in SUBSET (1 .. Len(t))
  BY <1>1 DEF FarUses, UsesOf
<1>3. IsFiniteSet(1 .. Len(t))
  BY <1>1, FS_Interval
<1>4. IsFiniteSet(FarUses(t, k))
  BY <1>2, <1>3, FS_Subset
<1>5. \A j \in Nat : Cardinality({n \in FarUses(t, k) : n < j}) \in Nat
  <2> TAKE j \in Nat
  <2>1. {n \in FarUses(t, k) : n < j} \in SUBSET FarUses(t, k)
    OBVIOUS
  <2>2. IsFiniteSet({n \in FarUses(t, k) : n < j})
    BY <1>4, <2>1, FS_Subset
  <2> QED
    BY <2>2, FS_CardinalityType
<1>6. Cardinality(FarUses(t, k)) \in Nat
  BY <1>4, FS_CardinalityType
<1> QED
  BY <1>1, <1>2, <1>4, <1>5, <1>6 DEF Reload

LEMMA SplitRegProgram ==
  ASSUME NEW t \in Seq(Instruction), NEW k \in DOMAIN t, NEW fresh \in Nat
  PROVE  SplitReg(t, k, fresh) \in Seq(Instruction)
<1> DEFINE far == FarUses(t, k)
           up == UpperOf(t, k)
           r == t[k].dst
           gone == far # {} /\ UsesOf(t, k) = far
           New(j) == Reload(t, k, j, fresh)
           Low(j) == [t[k] EXCEPT !.dst = New(j)]
           High(j) == [t[up] EXCEPT !.dst = New(j),
                                    !.src = IF t[k].cmd = "ADDI" THEN New(j) ELSE R0]
           Use(j) == [t[j] EXCEPT !.src = RenameIn(@, r, New(j)),
                                  !.aux = RenameIn(@, r, New(j))]
           f == SplitReg(t, k, fresh)
<1>0. Len(t) \in Nat /\ DOMAIN t = 1 .. Len(t) /\ \A j \in DOMAIN t : t[j] \in Instruction
  OBVIOUS
<1>1. \A j \in Nat : New(j) \in Int
  BY FarUsesFinite
<1>2. far \in SUBSET Nat /\ up \in {0} \cup DOMAIN t
  <2>1. far \subseteq DOMAIN t
    BY FarUsesFinite
  <2>2. up \in {0} \cup DOMAIN t
    BY UpperIsEntry
  <2> HIDE DEF far, up
  <2> QED
    BY <1>0, <2>1, <2>2
<1> HIDE DEF New, far, up
<1>3. \A j \in far : Low(j) \in Instruction
  BY <1>0, <1>1, <1>2 DEF Instruction
<1>4. up # 0 => \A j \in far : High(j) \in Instruction
  <2> SUFFICES ASSUME up # 0, NEW j \in far PROVE High(j) \in Instruction
    OBVIOUS
  <2>1. t[up] \in Instruction /\ New(j) \in Int
    BY <1>0, <1>1, <1>2
  <2> DEFINE s == IF t[k].cmd = "ADDI" THEN New(j) ELSE R0
  <2>2. s \in Int
    BY <2>1 DEF R0
  <2> HIDE DEF s
  <2>3. [t[up] EXCEPT !.dst = New(j), !.src = s] \in Instruction
    BY <2>1, <2>2 DEF Instruction
  <2> QED
    BY <2>3 DEF s
<1>5. \A j \in DOMAIN t : Use(j) \in Instruction
  <2> TAKE j \in DOMAIN t
  <2>1. t[j] \in Instruction /\ New(j) \in Int
    BY <1>0, <1>1
  <2> QED
    BY <2>1 DEF Instruction, RenameIn
<1>6. f = [j \in DOMAIN t |->
             CASE j + 2 \in far                -> Low(j + 2)
               [] j + 1 \in far /\ up # 0     -> High(j + 1)
               [] j \in far                    -> Use(j)
               [] j \in {k, up} /\ gone       -> Kill(t[j])
               [] OTHER                        -> t[j]]
  BY DEF SplitReg, far, up, New
<1>7. \A j \in DOMAIN t : Kill(t[j]) \in Instruction
  BY <1>0, InstructionKept
<1> HIDE DEF Low, High, Use, gone
<1>8. \A j \in DOMAIN t : f[j] \in Instruction
  BY <1>0, <1>3, <1>4, <1>5, <1>6, <1>7
<1>9. f = [j \in DOMAIN t |-> f[j]]
  BY <1>6
<1> HIDE DEF f
<1> QED
  BY <1>8, <1>9, ProgramOf DEF f

\* The registers of a part of a program are finitely many integers.
LEMMA RegistersFinite ==
  ASSUME NEW c \in Seq(Instruction), NEW J \in SUBSET (DOMAIN c)
  PROVE  /\ IsFiniteSet(UNION {Registers(c[k]) : k \in J})
         /\ UNION {Registers(c[k]) : k \in J} \subseteq Int
<1> DEFINE T == {Registers(c[k]) : k \in J}
           f == [k \in J |-> Registers(c[k])]
<1>1. IsFiniteSet(J)
  <2>1. Len(c) \in Nat /\ DOMAIN c = 1 .. Len(c)
    OBVIOUS
  <2>2. IsFiniteSet(DOMAIN c)
    BY <2>1, FS_Interval
  <2> QED
    BY <2>2, FS_Subset
<1>2. f \in Surjection(J, T)
  BY DEF Surjection
<1>3. IsFiniteSet(T)
  <2> HIDE DEF f, T
  <2> QED
    BY <1>1, <1>2, FS_Surjection
<1>4. \A R \in T : IsFiniteSet(R)
  <2>1. \A i : IsFiniteSet(Registers(i))
    <3> TAKE i
    <3>1. IsFiniteSet({i.dst}) /\ IsFiniteSet({i.src}) /\ IsFiniteSet({i.aux})
      BY FS_Singleton
    <3>2. Registers(i) = ({i.dst} \cup {i.src}) \cup {i.aux}
      BY DEF Registers
    <3>3. IsFiniteSet({i.dst} \cup {i.src})
      BY <3>1, FS_Union
    <3>4. IsFiniteSet(({i.dst} \cup {i.src}) \cup {i.aux})
      BY <3>1, <3>3, FS_Union
    <3> QED
      BY <3>2, <3>4
  <2> QED
    BY <2>1
<1>5. \A k \in J : Registers(c[k]) \subseteq Int
  <2>1. \A k \in J : c[k] \in Instruction
    OBVIOUS
  <2> QED
    BY <2>1, InstructionKept
<1>6. UNION T \subseteq Int
  BY <1>5
<1>7. IsFiniteSet(UNION T)
  <2> HIDE DEF T
  <2> QED
    BY <1>3, <1>4, FS_UNION
<1> QED
  BY <1>6, <1>7

LEMMA MaxRegisterNat ==
  ASSUME NEW c \in Seq(Instruction)
  PROVE  MaxRegister(c) \in Nat
<1> DEFINE U == UNION {Registers(c[k]) : k \in DOMAIN c}
           S == U \cap Nat
<1>1. IsFiniteSet(U)
  BY RegistersFinite
<1>2. IsFiniteSet(S) /\ S \in SUBSET Int /\ S \subseteq Nat
  BY <1>1, FS_Subset
<1> HIDE DEF U
<1>3. S # {} => Max(S) \in Nat
  <2> HIDE DEF S
  <2> QED
    BY <1>2, MaxIsLargest
<1> QED
  BY <1>3 DEF MaxRegister, Max0, U

LEMMA MaxOfTwo ==
  ASSUME NEW a \in Nat, NEW b \in Nat
  PROVE  Max({a, b}) \in Nat
<1>1. IsFiniteSet({a} \cup {b})
  BY FS_Singleton, FS_Union
<1>2. {a} \cup {b} = {a, b}
  OBVIOUS
<1>3. Max({a, b}) \in {a, b}
  BY <1>1, <1>2, MaxIsLargest
<1> QED
  BY <1>3

LEMMA HighestNat ==
  ASSUME TypeOK, NEW k \in 0 .. Len(code)
  PROVE  Highest(k) \in Nat
<1> DEFINE J == {n \in at + 1 .. k : ~Skipped(code[n])}
           U == UNION {Registers(code[j]) : j \in J}
           S == {numRegs} \cup U
<1>1. code \in Seq(Instruction) /\ Len(code) \in Nat /\ at \in Nat /\ numRegs \in Nat
  BY DEF TypeOK
<1>2. J \in SUBSET (DOMAIN code)
  BY <1>1
<1>3. IsFiniteSet(U) /\ U \subseteq Int
  <2> HIDE DEF J
  <2> QED
    BY <1>1, <1>2, RegistersFinite
<1> HIDE DEF U
<1>4. IsFiniteSet(S) /\ S \in SUBSET Int /\ numRegs \in S
  <2>1. IsFiniteSet({numRegs})
    BY FS_Singleton
  <2>2. IsFiniteSet(S)
    BY <1>3, <2>1, FS_Union
  <2> QED
    BY <1>1, <1>3, <2>2
<1> HIDE DEF S
<1>5. Max(S) \in Int /\ Max(S) >= numRegs
  BY <1>4, MaxIsLargest
<1> QED
  BY <1>1, <1>5 DEF Highest, S, U

----------------------------------------------------------------------------
(* The table of live ranges.                                               *)

\* Where InsertAt puts what.
LEMMA Inserted ==
  ASSUME NEW pv \in Seq(SUBSET Nat), NEW r \in SUBSET Nat, NEW s \in 0 .. Len(pv)
  PROVE  LET q == InsertAt(pv, s + 1, r)
         IN  /\ q \in Seq(SUBSET Nat) /\ Len(q) = Len(pv) + 1 /\ q[s + 1] = r
             /\ \A i \in 1 .. s : q[i] = pv[i]
             /\ \A i \in s + 2 .. Len(pv) + 1 : q[i] = pv[i - 1]
<1> DEFINE a == SubSeq(pv, 1, s)
           b == SubSeq(pv, s + 1, Len(pv))
           q == (a \o <<r>>) \o b
<1>1. Len(pv) \in Nat /\ s \in Nat /\ s <= Len(pv)
  OBVIOUS
<1>2. a \in Seq(SUBSET Nat) /\ Len(a) = s /\ \A i \in 1 .. s : a[i] = pv[i]
  BY <1>1
<1>3. /\ b \in Seq(SUBSET Nat) /\ Len(b) = Len(pv) - s
      /\ \A i \in 1 .. Len(pv) - s : b[i] = pv[s + i]
  BY <1>1
<1>4. InsertAt(pv, s + 1, r) = q
  <2>1. (s + 1) - 1 = s
    BY <1>1
  <2> QED
    BY <2>1 DEF InsertAt
<1> HIDE DEF a, b
<1> DEFINE d == a \o <<r>>
<1>d. /\ d \in Seq(SUBSET Nat) /\ Len(d) = s + 1 /\ d[s + 1] = r
      /\ \A i \in 1 .. s : d[i] = a[i]
  <2>1. <<r>> \in Seq(SUBSET Nat) /\ Len(<<r>>) = 1
    OBVIOUS
  <2> QED
    BY <1>1, <1>2, <2>1
<1> HIDE DEF d
<1>5. q \in Seq(SUBSET Nat) /\ Len(q) = Len(pv) + 1 /\ q[s + 1] = r
  <2>1. q = d \o b
    BY DEF d
  <2>2. d \o b \in Seq(SUBSET Nat)
    BY <1>3, <1>d
  <2>3. Len(d \o b) = Len(d) + Len(b)
    <3>1. \A x, y \in Seq(SUBSET Nat) : Len(x \o y) = Len(x) + Len(y)
      OBVIOUS
    <3> QED
      BY <1>3, <1>d, <3>1
  <2>4. (s + 1) + (Len(pv) - s) = Len(pv) + 1
    BY <1>1
  <2>5. (d \o b)[s + 1] = d[s + 1]
    BY <1>1, <1>3, <1>d
  <2> HIDE DEF q
  <2> QED
    BY <1>3, <1>d, <2>1, <2>2, <2>3, <2>4, <2>5
<1>6. \A i \in 1 .. s : q[i] = pv[i]
  <2> TAKE i \in 1 .. s
  <2>1. (d \o b)[i] = d[i]
    BY <1>1, <1>3, <1>d
  <2> QED
    BY <1>2, <1>d, <2>1 DEF d
<1>7. \A i \in s + 2 .. Len(pv) + 1 : q[i] = pv[i - 1]
  <2> TAKE i \in s + 2 .. Len(pv) + 1
  <2>1. i - (s + 1) \in 1 .. Len(pv) - s /\ s + (i - (s + 1)) = i - 1
    BY <1>1
  <2>2. (d \o b)[i] = b[i - (s + 1)]
    BY <1>1, <1>3, <1>d
  <2>3. b[i - (s + 1)] = pv[s + (i - (s + 1))]
    BY <1>3, <2>1
  <2> QED
    BY <2>1, <2>2, <2>3 DEF d
<1> QED
  BY <1>4, <1>5, <1>6, <1>7

\* A set of positions of a program has a first and a last one.
LEMMA Positions ==
  ASSUME NEW c \in Seq(Instruction), NEW r \in SUBSET (DOMAIN c), r # {}
  PROVE  /\ Max(r) \in r /\ \A a \in r : a <= Max(r)
         /\ Min(r) \in r /\ \A a \in r : Min(r) <= a
         /\ r \subseteq Nat
<1>1. Len(c) \in Nat /\ DOMAIN c = 1 .. Len(c)
  OBVIOUS
<1>2. r \in SUBSET Nat /\ r \in SUBSET Int /\ IsFiniteSet(r)
  <2>1. IsFiniteSet(1 .. Len(c))
    BY <1>1, FS_Interval
  <2> QED
    BY <1>1, <2>1, FS_Subset
<1>3. Max(r) \in r /\ \A a \in r : Max(r) >= a
  BY <1>2, MaxIsLargest
<1>4. Min(r) \in r /\ \A a \in r : Min(r) <= a
  BY <1>2, MinIsLeast
<1> QED
  BY <1>2, <1>3, <1>4

\* A live range is a set of positions that holds every use.
LEMMA LiveRangeHolds ==
  ASSUME NEW c \in Seq(Instruction), NEW r
  PROVE  /\ LiveRange(c, r) \in SUBSET (DOMAIN c)
         /\ Uses(c, r) \subseteq LiveRange(c, r)
<1>1. Uses(c, r) \in SUBSET (DOMAIN c)
  BY DEF Uses
<1>2. \A b \in Backward(c) : b[2] \in DOMAIN c
  BY DEF Backward
<1>3. LiveRange(c, r) \in SUBSET (DOMAIN c)
  BY <1>1, <1>2 DEF LiveRange
<1>4. Uses(c, r) \subseteq LiveRange(c, r)
  BY DEF LiveRange
<1> QED
  BY <1>3, <1>4

\* The shape of the table while registers are merged: every range is a
\* nonempty set of positions; above the register that absorbs, each holds at
\* most its own range, and is in the pool exactly when it holds it; the
\* registers passed by that the sequencer lacks hold nothing.
TableShaped ==
  phase = "merge" =>
    /\ Len(phys) = numRegs /\ 1 <= vreg /\ vreg <= cand
    /\ \A q \in DOMAIN phys : \A j \in DOMAIN phys[q] :
         phys[q][j] \in SUBSET (DOMAIN code) /\ phys[q][j] # {}
    /\ \A q \in DOMAIN phys : q > vreg =>
         Len(phys[q]) <= 1 /\ (q \in pool <=> phys[q] # <<>>)
    /\ \A q \in DOMAIN phys : NumPhysical <= q /\ q < vreg => phys[q] = <<>>

\* The inductive invariant.
AllocationInv ==
  TypeOK /\ TableShaped /\ RangesDisjoint /\ RangesHold /\ TableFits

----------------------------------------------------------------------------
(* The passes other than merging keep the types.                           *)

LEMMA TypeParts ==
  ASSUME TypeOK
  PROVE  /\ code \in Seq(Instruction) /\ backup \in Seq(Instruction)
         /\ reported \in Seq(Instruction) /\ flags \in FlagSets /\ phase \in Phases
         /\ regNumber \in Nat /\ numRegs \in Nat /\ vreg \in Nat /\ cand \in Nat
         /\ at \in Nat /\ phys \in Seq(Seq(SUBSET Nat)) /\ pool \subseteq 1 .. Len(phys)
         /\ seen \subseteq Int /\ retried \in BOOLEAN
         /\ Len(code) \in Nat /\ DOMAIN code = 1 .. Len(code)
BY DEF TypeOK

\* The passes before removeUnusedRegs.
LEMMA EarlyPassType ==
  ASSUME TypeOK,
         \/ PrepareResources \/ DeadCodeElimination \/ EndDeadCode
         \/ OneStepJumpElimination \/ LabelCleanup \/ MergeRegisterZeroing
  PROVE  TypeOK'
<1> USE TypeParts
<1>1. CASE PrepareResources
  <2>1. MaxRegister(code) \in Nat /\ MaxRegister(code) + 1 \in Nat
    BY MaxRegisterNat
  <2>2. regNumber' \in Nat
    BY <1>1, <2>1, MaxOfTwo DEF PrepareResources
  <2> QED
    BY <1>1, <2>2 DEF PrepareResources, TypeOK, table, rest, Phases
<1>2. CASE DeadCodeElimination
  <2> DEFINE U == Unconditionals
  <2>1. U \in SUBSET Nat /\ U # {}
    BY <1>2 DEF Unconditionals, DeadCodeElimination
  <2>2. Min(U) \in Nat
    <3> HIDE DEF U
    <3> QED
      BY <2>1, MinIsLeast
  <2>3. code' \in Seq(Instruction) /\ at' \in Nat
    BY <1>2, <2>2, KillAllProgram DEF DeadCodeElimination
  <2> QED
    BY <1>2, <2>3 DEF DeadCodeElimination, TypeOK, table, rest, Phases
<1>3. CASE EndDeadCode
  BY <1>3 DEF EndDeadCode, TypeOK, table, rest, Phases
<1>4. CASE OneStepJumpElimination
  <2>1. code' \in Seq(Instruction)
    BY <1>4, OneStepProgram DEF OneStepJumpElimination
  <2> QED
    BY <1>4, <2>1 DEF OneStepJumpElimination, TypeOK, table, rest, Phases
<1>5. CASE LabelCleanup
  <2>1. code' \in Seq(Instruction)
    BY <1>5, UnusedLabelsProgram, MergeLabelsProgram DEF LabelCleanup
  <2> QED
    BY <1>5, <2>1 DEF LabelCleanup, TypeOK, table, rest, Phases
<1>6. CASE MergeRegisterZeroing
  <2>1. code' \in Seq(Instruction)
    BY <1>6, ZeroingProgram DEF MergeRegisterZeroing
  <2> QED
    BY <1>6, <2>1 DEF MergeRegisterZeroing, TypeOK, table, rest, Phases
<1> QED
  BY <1>1, <1>2, <1>3, <1>4, <1>5, <1>6

LEMMA UnusedRegsType ==
  ASSUME TypeOK, RemoveUnusedReg \/ EndUnusedRegs
  PROVE  TypeOK'
<1> USE TypeParts
<1>1. CASE RemoveUnusedReg
  <2> DEFINE W == NewWrites
             k == Min(W)
  <2>1. W \in SUBSET (DOMAIN code) /\ W \in SUBSET Nat /\ W # {}
    <3>1. W \subseteq DOMAIN code
      BY DEF NewWrites
    <3>2. W # {}
      BY <1>1 DEF RemoveUnusedReg
    <3>3. DOMAIN code \subseteq Nat
      BY DEF TypeOK
    <3> HIDE DEF W
    <3> QED
      BY <3>1, <3>2, <3>3
  <2>2. k \in DOMAIN code
    <3> HIDE DEF W
    <3> QED
      BY <2>1, MinIsLeast
  <2>3. /\ at' = k /\ seen' = seen \cup {Target(code[k])}
        /\ numRegs' = Highest(k) /\ code' = WriteOnly(code, k, Target(code[k]))
    BY <1>1 DEF RemoveUnusedReg
  <2> HIDE DEF k
  <2>4. code[k] \in Instruction
    BY <2>2
  <2>5. Target(code[k]) \in Int
    BY <2>4, InstructionKept
  <2>6. code' \in Seq(Instruction)
    BY <2>2, <2>3, <2>5, WriteOnlyProgram
  <2>7. numRegs' \in Nat
    BY <2>2, <2>3, HighestNat
  <2>8. at' \in Nat /\ seen' \subseteq Int
    BY <2>2, <2>3, <2>5
  <2>9. UNCHANGED <<phase, regNumber, table, rest>>
    BY <1>1 DEF RemoveUnusedReg
  <2> QED
    BY <2>6, <2>7, <2>8, <2>9 DEF TypeOK, table, rest
<1>2. CASE EndUnusedRegs
  <2>1. numRegs' \in Nat
    BY <1>2, HighestNat DEF EndUnusedRegs
  <2> QED
    BY <1>2, <2>1 DEF EndUnusedRegs, TypeOK, table, Phases
<1> QED
  BY <1>1, <1>2

\* The passes around the allocation.
LEMMA LatePassType ==
  ASSUME TypeOK,
         \/ NextRegister \/ EndAllocation \/ SplitConstRegisters \/ SplitNext
         \/ StripBarriers \/ OutOfRegisters \/ ReportUserMessages
  PROVE  TypeOK'
<1> USE TypeParts
<1>1. CASE NextRegister
  <2>1. vreg' \in Nat /\ cand' \in Nat
    BY <1>1 DEF NextRegister
  <2> QED
    BY <1>1, <2>1 DEF NextRegister, TypeOK, rest
<1>2. CASE EndAllocation
  BY <1>2 DEF EndAllocation, TypeOK, table, rest, Phases
<1>3. CASE SplitConstRegisters
  <2>1. code' \in Seq(Instruction)
    BY <1>3, BarrieredProgram DEF SplitConstRegisters
  <2> QED
    BY <1>3, <2>1 DEF SplitConstRegisters, TypeOK, table, Phases
<1>4. CASE SplitNext
  <2> DEFINE W == Constants
             k == Min(W)
  <2>1. W \in SUBSET (DOMAIN code) /\ W \in SUBSET Nat /\ W # {}
    BY <1>4 DEF Constants, SplitNext
  <2>2. k \in DOMAIN code
    <3> HIDE DEF W
    <3> QED
      BY <2>1, MinIsLeast
  <2>3. /\ code' = SplitReg(code, k, regNumber) /\ at' = k /\ numRegs' = numRegs + 1
        /\ regNumber' = regNumber + Cardinality(FarUses(code, k))
        /\ UNCHANGED <<phase, seen, table, rest>>
    BY <1>4 DEF SplitNext
  <2> HIDE DEF k, W
  <2>4. code' \in Seq(Instruction)
    BY <2>2, <2>3, SplitRegProgram
  <2>5. Cardinality(FarUses(code, k)) \in Nat
    <3>1. \A n \in DOMAIN code : Cardinality(FarUses(code, n)) \in Nat
      BY FarUsesFinite
    <3> QED
      BY <2>2, <3>1
  <2>6. regNumber' \in Nat /\ numRegs' \in Nat /\ at' \in Nat
    <3>1. regNumber \in Nat /\ numRegs \in Nat /\ k \in Nat
      BY <2>2
    <3> QED
      BY <2>3, <2>5, <3>1
  <2> QED
    BY <2>3, <2>4, <2>6 DEF TypeOK, table, rest
<1>5. CASE StripBarriers
  <2>1. code' \in Seq(Instruction)
    BY <1>5, StrippedProgram DEF StripBarriers
  <2> QED
    BY <1>5, <2>1 DEF StripBarriers, TypeOK, table, rest, Phases
<1>6. CASE OutOfRegisters
  BY <1>6 DEF OutOfRegisters, TypeOK, table, rest, Phases
<1>7. CASE ReportUserMessages
  <2>1. \A k \in DOMAIN code : code[k] \in Instruction /\ Kill(code[k]) \in Instruction
    BY InstructionKept
  <2>2. code' = [k \in DOMAIN code |->
                  IF code[k].cmd \in Messages /\ flags # {} THEN Kill(code[k])
                                                            ELSE code[k]]
    BY <1>7 DEF ReportUserMessages
  <2>3. \A k \in DOMAIN code : code'[k] \in Instruction
    BY <2>1, <2>2
  <2>4. code' = [k \in DOMAIN code |-> code'[k]]
    BY <2>2
  <2>5. code' \in Seq(Instruction)
    BY <2>3, <2>4, ProgramOf
  <2>6. reported' \in Seq(Instruction)
    BY <1>7, EntriesProgram DEF ReportUserMessages
  <2> QED
    BY <1>7, <2>5, <2>6 DEF ReportUserMessages, TypeOK, table, Phases
<1> QED
  BY <1>1, <1>2, <1>3, <1>4, <1>5, <1>6, <1>7

----------------------------------------------------------------------------
(* Building the table and merging in it.                                   *)

LEMMA BuildRangesStep ==
  ASSUME AllocationInv, BuildRanges
  PROVE  AllocationInv'
<1> USE TypeParts
<1>0. TypeOK
  BY DEF AllocationInv
<1>1. /\ phase' = "merge" /\ vreg' = 1 /\ cand' = 1
      /\ phys' = [r \in 1 .. numRegs |->
                   IF Uses(code, r) = {} THEN <<>> ELSE <<LiveRange(code, r)>>]
      /\ pool' = {r \in 1 .. numRegs : Uses(code, r) # {}}
      /\ UNCHANGED <<code, regNumber, numRegs, at, seen, rest>>
  BY DEF BuildRanges
<1>2. \A r : LiveRange(code, r) \in SUBSET (DOMAIN code)
             /\ Uses(code, r) \subseteq LiveRange(code, r)
  BY <1>0, LiveRangeHolds
<1>3. \A q \in 1 .. numRegs : phys'[q] \in Seq(SUBSET Nat) /\ Len(phys'[q]) <= 1
  <2> TAKE q \in 1 .. numRegs
  <2>1. LiveRange(code, q) \in SUBSET Nat
    BY <1>0, <1>2
  <2>2. <<LiveRange(code, q)>> \in Seq(SUBSET Nat) /\ Len(<<LiveRange(code, q)>>) = 1
    BY <2>1
  <2>3. <<>> \in Seq(SUBSET Nat) /\ Len(<<>>) = 0
    OBVIOUS
  <2>4. phys'[q] = <<>> \/ phys'[q] = <<LiveRange(code, q)>>
    BY <1>1
  <2>5. CASE phys'[q] = <<>>
    BY <2>3, <2>5
  <2>6. CASE phys'[q] = <<LiveRange(code, q)>>
    <3> DEFINE one == <<LiveRange(code, q)>>
    <3>1. one \in Seq(SUBSET Nat) /\ Len(one) <= 1
      BY <2>2
    <3> HIDE DEF one
    <3>2. phys'[q] = one
      BY <2>6 DEF one
    <3> QED
      BY <3>1, <3>2
  <2> QED
    BY <2>4, <2>5, <2>6
<1>4. phys' \in Seq(Seq(SUBSET Nat)) /\ Len(phys') = numRegs /\ DOMAIN phys' = 1 .. numRegs
  <2>1. phys' = [q \in 1 .. numRegs |-> phys'[q]]
    BY <1>1
  <2>2. numRegs \in Nat /\ \A q \in 1 .. numRegs : phys'[q] \in Seq(SUBSET Nat)
    BY <1>0, <1>3
  <2> DEFINE T == Seq(SUBSET Nat)
             f == phys'
  <2> HIDE DEF T, f
  <2>3. f = [q \in 1 .. numRegs |-> f[q]] /\ \A q \in 1 .. numRegs : f[q] \in T
    BY <2>1, <2>2 DEF T, f
  <2>4. f \in Seq(T) /\ Len(f) = numRegs /\ DOMAIN f = 1 .. numRegs
    BY <2>2, <2>3, FunctionIsSeq
  <2> QED
    BY <2>4 DEF T, f
<1>5. \A q \in DOMAIN phys' : \A j \in DOMAIN phys'[q] :
        j = 1 /\ phys'[q][j] = LiveRange(code, q) /\ Uses(code, q) # {}
  <2> TAKE q \in DOMAIN phys'
  <2>1. CASE Uses(code, q) = {}
    <3>1. phys'[q] = <<>>
      BY <1>1, <1>4, <2>1
    <3> QED
      BY <3>1
  <2>2. CASE Uses(code, q) # {}
    <3>1. phys'[q] = <<LiveRange(code, q)>>
      BY <1>1, <1>4, <2>2
    <3> QED
      BY <2>2, <3>1
  <2> QED
    BY <2>1, <2>2
<1>6. TypeOK'
  <2>1. pool' \subseteq 1 .. Len(phys')
    BY <1>1, <1>4
  <2>2. 1 \in Nat /\ "merge" \in Phases
    BY DEF Phases
  <2> QED
    BY <1>0, <1>1, <1>4, <2>1, <2>2 DEF TypeOK, rest
<1>7. TableShaped'
  <2>1. \A q \in DOMAIN phys' : q \in pool' <=> phys'[q] # <<>>
    <3> TAKE q \in DOMAIN phys'
    <3>1. <<LiveRange(code, q)>> # <<>>
      OBVIOUS
    <3> QED
      BY <1>1, <1>4, <3>1
  <2>2. \A q \in DOMAIN phys' : \A j \in DOMAIN phys'[q] :
          phys'[q][j] \in SUBSET (DOMAIN code) /\ phys'[q][j] # {}
    BY <1>2, <1>5
  <2>3. \A q \in DOMAIN phys' : ~(NumPhysical <= q /\ q < 1)
    BY <1>0, <1>4
  <2>4. \A q \in DOMAIN phys' : Len(phys'[q]) <= 1
    BY <1>3, <1>4
  <2>5. DOMAIN code' = DOMAIN code /\ numRegs' = numRegs /\ Len(phys') = numRegs
    BY <1>1, <1>4
  <2>6. vreg' = 1 /\ cand' = 1
    BY <1>1
  <2> QED
    BY <2>1, <2>2, <2>3, <2>4, <2>5, <2>6 DEF TableShaped
<1>8. RangesDisjoint'
  <2> SUFFICES ASSUME NEW q \in DOMAIN phys', NEW i \in DOMAIN phys'[q],
                      NEW j \in DOMAIN phys'[q], i < j
               PROVE  FALSE
    BY DEF RangesDisjoint
  <2>1. i = 1 /\ j = 1
    BY <1>5
  <2> QED
    BY <2>1
<1>9. RangesHold'
  <2> SUFFICES ASSUME NEW k \in DOMAIN code, NEW q \in Registers(code[k]) \cap DOMAIN phys',
                      ~Skipped(code[k])
               PROVE  \E j \in DOMAIN phys'[q] : k \in phys'[q][j]
    BY <1>1 DEF RangesHold
  <2>1. k \in Uses(code, q)
    BY DEF Uses
  <2>2. phys'[q] = <<LiveRange(code, q)>>
    BY <1>1, <1>4, <2>1
  <2>3. 1 \in DOMAIN phys'[q] /\ k \in phys'[q][1]
    BY <1>2, <2>1, <2>2
  <2> QED
    BY <2>3
<1>10. TableFits'
  BY <1>1 DEF TableFits
<1> QED
  BY <1>6, <1>7, <1>8, <1>9, <1>10 DEF AllocationInv

\* A merge moves the one range of the register it takes, between two ranges
\* of the one that absorbs, and renames the instructions in it.
LEMMA MergeStep ==
  ASSUME AllocationInv, Merge
  PROVE  AllocationInv'
<1> USE TypeParts
<1>0. TypeOK /\ TableShaped /\ RangesDisjoint /\ RangesHold
  BY DEF AllocationInv
<1>1. phase = "merge" /\ vreg <= numRegs /\ vreg < NumPhysical /\ Mergeable # {}
  BY DEF Merge
<1>2. /\ Len(phys) = numRegs /\ 1 <= vreg /\ vreg <= cand
      /\ \A q \in DOMAIN phys : \A j \in DOMAIN phys[q] :
           phys[q][j] \in SUBSET (DOMAIN code) /\ phys[q][j] # {}
      /\ \A q \in DOMAIN phys : q > vreg =>
           Len(phys[q]) <= 1 /\ (q \in pool <=> phys[q] # <<>>)
      /\ \A q \in DOMAIN phys : NumPhysical <= q /\ q < vreg => phys[q] = <<>>
  BY <1>0, <1>1 DEF TableShaped
<1> DEFINE p == Min(Mergeable)
           r == phys[p][1]
           pv == phys[vreg]
           s == CHOOSE s \in Slots(pv, r) : TRUE
           pw == InsertAt(pv, s + 1, r)
<1>3. /\ code' = [k \in DOMAIN code |-> IF k \in r THEN Rename(code[k], p, vreg)
                                                   ELSE code[k]]
      /\ phys' = [phys EXCEPT ![vreg] = pw, ![p] = <<>>]
      /\ pool' = pool \ {p} /\ cand' = p
      /\ UNCHANGED <<phase, regNumber, numRegs, vreg, at, seen, rest>>
  <2>1. vreg \in DOMAIN phys
    BY <1>0, <1>1, <1>2
  <2> QED
    BY <2>1 DEF Merge
<1>4. p \in Mergeable
  <2> DEFINE W == Mergeable
  <2>1. W \in SUBSET Nat /\ W # {}
    BY <1>0, <1>1 DEF Mergeable
  <2> HIDE DEF W
  <2> QED
    BY <2>1, MinIsLeast DEF W
<1>5. p \in pool /\ p > cand /\ p > vreg /\ Fits(p) /\ p \in 1 .. numRegs
  BY <1>0, <1>2, <1>4 DEF Mergeable
<1>6. vreg \in DOMAIN phys /\ p \in DOMAIN phys /\ DOMAIN phys = 1 .. numRegs /\ p # vreg
  BY <1>0, <1>1, <1>2, <1>5
<1>7. pv \in Seq(SUBSET Nat) /\ phys[p] \in Seq(SUBSET Nat) /\ Len(phys[p]) = 1
  <2>1. pv \in Seq(SUBSET Nat) /\ phys[p] \in Seq(SUBSET Nat)
    BY <1>0, <1>6
  <2>2. Len(phys[p]) <= 1 /\ phys[p] # <<>>
    BY <1>2, <1>5, <1>6
  <2> DEFINE one == phys[p]
  <2> HIDE DEF one
  <2>3. one \in Seq(SUBSET Nat) /\ Len(one) <= 1 /\ one # <<>>
    BY <2>1, <2>2 DEF one
  <2>4. Len(one) = 1
    <3> DEFINE n == Len(one)
    <3>1. n \in Nat /\ n # 0
      BY <2>3, EmptySeq
    <3>2. n <= 1
      BY <2>3
    <3> HIDE DEF n
    <3>3. n = 1
      BY <3>1, <3>2
    <3> QED
      BY <3>3 DEF n
  <2> QED
    BY <2>1, <2>4 DEF one
<1>8. r \in SUBSET Nat /\ r \in SUBSET (DOMAIN code) /\ r # {}
  <2>1. 1 \in DOMAIN phys[p]
    BY <1>7
  <2>2. r \in SUBSET (DOMAIN code) /\ r # {}
    BY <1>2, <1>6, <2>1
  <2>3. DOMAIN code \subseteq Nat
    BY <1>0
  <2> HIDE DEF r
  <2> QED
    BY <2>2, <2>3
<1>9. /\ s \in 0 .. Len(pv) /\ (s > 0 => Max(pv[s]) < Min(r))
      /\ (s < Len(pv) => Max(r) < Min(pv[s + 1]))
  <2>1. Slots(pv, r) # {}
    BY <1>5 DEF Fits
  <2>2. s \in Slots(pv, r)
    BY <2>1
  <2> HIDE DEF s, pv, r
  <2> QED
    BY <2>2 DEF Slots
<1>10. Len(pv) \in Nat /\ s \in Nat /\ s <= Len(pv) /\ DOMAIN pv = 1 .. Len(pv)
  BY <1>7, <1>9
<1> HIDE DEF p, r, pv, s
<1>11. /\ pw \in Seq(SUBSET Nat) /\ Len(pw) = Len(pv) + 1 /\ pw[s + 1] = r
       /\ \A i \in 1 .. s : pw[i] = pv[i]
       /\ \A i \in s + 2 .. Len(pv) + 1 : pw[i] = pv[i - 1]
  BY <1>7, <1>8, <1>9, Inserted
<1> HIDE DEF pw
<1>12. DOMAIN pw = 1 .. Len(pv) + 1
  BY <1>10, <1>11
<1>13. phys' \in Seq(Seq(SUBSET Nat)) /\ Len(phys') = numRegs /\ DOMAIN phys' = DOMAIN phys
  <2>1. phys \in Seq(Seq(SUBSET Nat)) /\ <<>> \in Seq(SUBSET Nat) /\ Len(phys) = numRegs
    BY <1>0, <1>2
  <2> QED
    BY <1>3, <1>6, <1>11, <2>1
<1>14. /\ phys'[vreg] = pw /\ phys'[p] = <<>>
       /\ \A q \in DOMAIN phys : q # vreg /\ q # p => phys'[q] = phys[q]
  <2>1. phys \in Seq(Seq(SUBSET Nat))
    BY <1>0
  <2> QED
    BY <1>3, <1>6, <2>1
<1>15. DOMAIN code' = DOMAIN code /\ code' \in Seq(Instruction)
  <2>1. \A k \in DOMAIN code : code'[k] \in Instruction
    <3> TAKE k \in DOMAIN code
    <3>1. code[k] \in Instruction /\ p \in Int /\ vreg \in Int
      BY <1>0, <1>5
    <3> QED
      BY <1>3, <3>1, InstructionKept
  <2>2. code' = [k \in DOMAIN code |-> code'[k]]
    BY <1>3
  <2> QED
    BY <1>0, <2>1, <2>2, ProgramOf
\* Every range of the register that absorbs is one it had, or r.
<1>16. \A i \in DOMAIN pw :
         \/ i = s + 1 /\ pw[i] = r
         \/ i <= s /\ i \in DOMAIN pv /\ pw[i] = pv[i]
         \/ i > s + 1 /\ i - 1 \in DOMAIN pv /\ pw[i] = pv[i - 1]
  BY <1>10, <1>11, <1>12
<1>17. TypeOK'
  <2>1. pool' \subseteq 1 .. Len(phys')
    BY <1>0, <1>2, <1>3, <1>13
  <2>2. cand' \in Nat
    BY <1>0, <1>3, <1>5
  <2> QED
    BY <1>0, <1>3, <1>13, <1>15, <2>1, <2>2 DEF TypeOK, rest
<1>18. TableShaped'
  <2>1. \A q \in DOMAIN phys' : \A j \in DOMAIN phys'[q] :
          phys'[q][j] \in SUBSET (DOMAIN code) /\ phys'[q][j] # {}
    <3> TAKE q \in DOMAIN phys'
    <3>1. CASE q = vreg
      <4>1. \A j \in DOMAIN pv : pv[j] \in SUBSET (DOMAIN code) /\ pv[j] # {}
        BY <1>2, <1>6 DEF pv
      <4> SUFFICES ASSUME NEW j \in DOMAIN pw
                   PROVE  pw[j] \in SUBSET (DOMAIN code) /\ pw[j] # {}
        BY <1>14, <3>1
      <4>2. CASE pw[j] = r
        BY <1>8, <4>2
      <4>3. CASE pw[j] # r
        <5>1. \E n \in DOMAIN pv : pw[j] = pv[n]
          BY <1>16, <4>3
        <5> QED
          BY <4>1, <5>1
      <4> QED
        BY <4>2, <4>3
    <3>2. CASE q = p
      BY <1>14, <3>2
    <3>3. CASE q # vreg /\ q # p
      BY <1>2, <1>13, <1>14, <3>3
    <3> QED
      BY <3>1, <3>2, <3>3
  <2>2. \A q \in DOMAIN phys' : q > vreg =>
          Len(phys'[q]) <= 1 /\ (q \in pool' <=> phys'[q] # <<>>)
    <3> SUFFICES ASSUME NEW q \in DOMAIN phys', q > vreg
                 PROVE  Len(phys'[q]) <= 1 /\ (q \in pool' <=> phys'[q] # <<>>)
      OBVIOUS
    <3>1. CASE q = p
      <4>1. Len(<<>>) <= 1
        OBVIOUS
      <4> QED
        BY <1>3, <1>14, <3>1, <4>1
    <3>2. CASE q # p
      <4>1. phys'[q] = phys[q] /\ q \in DOMAIN phys
        BY <1>0, <1>6, <1>13, <1>14, <3>2
      <4> QED
        BY <1>2, <1>3, <3>2, <4>1
    <3> QED
      BY <3>1, <3>2
  <2>3. \A q \in DOMAIN phys' : NumPhysical <= q /\ q < vreg => phys'[q] = <<>>
    <3> SUFFICES ASSUME NEW q \in DOMAIN phys', NumPhysical <= q, q < vreg
                 PROVE  FALSE
      OBVIOUS
    <3>1. q \in Int /\ vreg \in Int /\ NumPhysical \in Int
      BY <1>0, <1>6, <1>13, OptimizeAssumption
    <3> QED
      BY <1>1, <3>1
  <2>4. vreg' = vreg /\ numRegs' = numRegs /\ vreg <= cand' /\ 1 <= vreg
    BY <1>0, <1>2, <1>3, <1>5
  <2> QED
    BY <1>13, <1>15, <2>1, <2>2, <2>3, <2>4 DEF TableShaped
<1>19. RangesDisjoint'
  <2> SUFFICES ASSUME NEW q \in DOMAIN phys', NEW i \in DOMAIN phys'[q],
                      NEW j \in DOMAIN phys'[q], i < j,
                      NEW a \in phys'[q][i], NEW b \in phys'[q][j]
               PROVE  a < b
    BY DEF RangesDisjoint
  <2>1. CASE q # vreg /\ q # p
    BY <1>0, <1>13, <1>14, <2>1 DEF RangesDisjoint
  <2>2. CASE q = p
    BY <1>14, <2>2
  <2>3. CASE q = vreg
    <3>1. i \in DOMAIN pw /\ j \in DOMAIN pw /\ a \in pw[i] /\ b \in pw[j]
      BY <1>14, <2>3
    <3>2. i \in Nat /\ j \in Nat
      BY <1>10, <1>12, <3>1
    <3>3. \A m, n \in DOMAIN pv : m < n => \A x \in pv[m], y \in pv[n] : x < y
      BY <1>0, <1>6 DEF RangesDisjoint, pv
    <3>4. \A n \in DOMAIN pv : pv[n] \in SUBSET (DOMAIN code) /\ pv[n] # {}
      BY <1>2, <1>6 DEF pv
    <3>5. \A n \in DOMAIN pv :
            /\ Max(pv[n]) \in pv[n] /\ \A z \in pv[n] : z <= Max(pv[n])
            /\ Min(pv[n]) \in pv[n] /\ \A z \in pv[n] : Min(pv[n]) <= z
            /\ pv[n] \subseteq Nat
      BY <1>0, <3>4, Positions
    <3>6. /\ Max(r) \in r /\ \A z \in r : z <= Max(r)
          /\ Min(r) \in r /\ \A z \in r : Min(r) <= z
          /\ r \subseteq Nat
      BY <1>0, <1>8, Positions
    <3>7. \A n \in DOMAIN pv : n <= s => \A x \in pv[n], y \in r : x < y
      <4> SUFFICES ASSUME NEW n \in DOMAIN pv, n <= s, NEW x \in pv[n], NEW y \in r
                   PROVE  x < y
        OBVIOUS
      <4>1. s \in DOMAIN pv /\ n \in Nat
        BY <1>10
      <4>2. /\ Max(pv[s]) \in pv[s] /\ \A z \in pv[s] : z <= Max(pv[s])
            /\ Min(r) \in r /\ Min(r) <= y /\ pv[s] \subseteq Nat /\ r \subseteq Nat
            /\ pv[n] \subseteq Nat
        BY <3>5, <3>6, <4>1
      <4>3. x <= Max(pv[s])
        <5>1. CASE n = s
          BY <4>2, <5>1
        <5>2. CASE n < s
          <6>1. x < Max(pv[s])
            BY <3>3, <4>1, <4>2, <5>2
          <6> QED
            BY <4>2, <6>1
        <5> QED
          BY <1>10, <4>1, <5>1, <5>2
      <4>4. Max(pv[s]) < Min(r)
        BY <1>9, <1>10, <4>1
      <4>5. x \in Nat /\ y \in Nat /\ Max(pv[s]) \in Nat /\ Min(r) \in Nat
        BY <4>2
      <4> QED
        BY <4>2, <4>3, <4>4, <4>5
    <3>8. \A n \in DOMAIN pv : n > s => \A x \in r, y \in pv[n] : x < y
      <4> SUFFICES ASSUME NEW n \in DOMAIN pv, n > s, NEW x \in r, NEW y \in pv[n]
                   PROVE  x < y
        OBVIOUS
      <4>1. s + 1 \in DOMAIN pv /\ n \in Nat /\ s < Len(pv)
        BY <1>10
      <4>2. /\ Min(pv[s + 1]) \in pv[s + 1] /\ \A z \in pv[s + 1] : Min(pv[s + 1]) <= z
            /\ Max(r) \in r /\ x <= Max(r) /\ pv[s + 1] \subseteq Nat /\ r \subseteq Nat
            /\ pv[n] \subseteq Nat
        BY <3>5, <3>6, <4>1
      <4>3. Min(pv[s + 1]) <= y
        <5>1. CASE n = s + 1
          BY <4>2, <5>1
        <5>2. CASE s + 1 < n
          <6>1. Min(pv[s + 1]) < y
            BY <3>3, <4>1, <4>2, <5>2
          <6> QED
            BY <4>2, <6>1
        <5> QED
          BY <1>10, <4>1, <5>1, <5>2
      <4>4. Max(r) < Min(pv[s + 1])
        BY <1>9, <4>1
      <4>5. x \in Nat /\ y \in Nat /\ Min(pv[s + 1]) \in Nat /\ Max(r) \in Nat
        BY <4>2
      <4> QED
        BY <4>2, <4>3, <4>4, <4>5
    <3>9. CASE i = s + 1
      <4>1. a \in r /\ j - 1 \in DOMAIN pv /\ j - 1 > s /\ b \in pv[j - 1]
        BY <1>10, <1>16, <3>1, <3>2, <3>9
      <4> QED
        BY <3>8, <4>1
    <3>10. CASE j = s + 1
      <4>1. b \in r /\ i \in DOMAIN pv /\ i <= s /\ a \in pv[i]
        BY <1>10, <1>16, <3>1, <3>2, <3>10
      <4> QED
        BY <3>7, <4>1
    <3>11. CASE i # s + 1 /\ j # s + 1
      <4>1. PICK m \in DOMAIN pv : pw[i] = pv[m] /\ m = IF i <= s THEN i ELSE i - 1
        BY <1>10, <1>16, <3>1, <3>2, <3>11
      <4>2. PICK n \in DOMAIN pv : pw[j] = pv[n] /\ n = IF j <= s THEN j ELSE j - 1
        BY <1>10, <1>16, <3>1, <3>2, <3>11
      <4>3. m < n
        BY <1>10, <3>2, <3>11, <4>1, <4>2
      <4> QED
        BY <3>1, <3>3, <4>1, <4>2, <4>3
    <3> QED
      BY <3>9, <3>10, <3>11
  <2> QED
    BY <2>1, <2>2, <2>3
<1>20. RangesHold'
  <2> SUFFICES ASSUME NEW k \in DOMAIN code, NEW q \in Registers(code'[k]) \cap DOMAIN phys,
                      ~Skipped(code'[k])
               PROVE  \E j \in DOMAIN phys'[q] : k \in phys'[q][j]
    BY <1>13, <1>15 DEF RangesHold
  <2>1. code[k] \in Instruction /\ p \in Int /\ vreg \in Int
    BY <1>0, <1>5
  <2>2. Skipped(code'[k]) <=> Skipped(code[k])
    BY <1>3, <2>1 DEF Skipped, Rename, Instruction
  <2>3. \A o \in Registers(code[k]) \cap DOMAIN phys :
          \E j \in DOMAIN phys[o] : k \in phys[o][j]
    BY <1>0, <1>1, <2>2 DEF RangesHold
  <2>4. CASE k \in r
    <3>1. q = vreg \/ (q \in Registers(code[k]) /\ q # p)
      <4>1. code'[k] = Rename(code[k], p, vreg)
        BY <1>3, <2>4
      <4> QED
        BY <1>6, <2>1, <4>1 DEF Rename, RenameIn, Registers, Instruction
    <3>2. CASE q = vreg
      <4>1. s + 1 \in DOMAIN pw /\ k \in pw[s + 1]
        BY <1>10, <1>11, <1>12, <2>4
      <4> QED
        BY <1>14, <3>2, <4>1
    <3>3. CASE q # vreg
      BY <1>14, <2>3, <3>1, <3>3
    <3> QED
      BY <3>2, <3>3
  <2>5. CASE k \notin r
    <3>1. code'[k] = code[k]
      BY <1>3, <2>5
    <3>2. PICK j \in DOMAIN phys[q] : k \in phys[q][j]
      BY <2>3, <3>1
    <3>3. q # p
      <4> SUFFICES ASSUME q = p PROVE FALSE
        OBVIOUS
      <4>1. DOMAIN phys[p] = 1 .. 1
        BY <1>7
      <4>2. j = 1
        BY <3>2, <4>1
      <4> QED
        BY <2>5, <3>2, <4>2 DEF r
    <3>4. CASE q = vreg
      <4>1. j \in DOMAIN pv /\ k \in pv[j]
        BY <3>2, <3>4 DEF pv
      <4>2. CASE j <= s
        <5>1. j \in DOMAIN pw /\ pw[j] = pv[j]
          BY <1>10, <1>11, <1>12, <4>1, <4>2
        <5> QED
          BY <1>14, <3>4, <4>1, <5>1
      <4>3. CASE j > s
        <5>1. j + 1 \in DOMAIN pw /\ pw[j + 1] = pv[(j + 1) - 1] /\ (j + 1) - 1 = j
          BY <1>10, <1>11, <1>12, <4>1, <4>3
        <5> QED
          BY <1>14, <3>4, <4>1, <5>1
      <4> QED
        BY <1>10, <4>1, <4>2, <4>3
    <3>5. CASE q # vreg
      BY <1>14, <3>2, <3>3, <3>5
    <3> QED
      BY <3>4, <3>5
  <2> QED
    BY <2>4, <2>5
<1>21. TableFits'
  BY <1>1, <1>3 DEF TableFits
<1> QED
  BY <1>17, <1>18, <1>19, <1>20, <1>21 DEF AllocationInv

----------------------------------------------------------------------------
(* The invariant is inductive.                                             *)

LEMMA InitInv ==
  ASSUME Init
  PROVE  AllocationInv
<1> DEFINE none == <<>>
<1>1. none \in Seq(Seq(SUBSET Nat)) /\ none \in Seq(Instruction) /\ DOMAIN none = {}
  OBVIOUS
<1>2. code \in Seq(Instruction) /\ flags \in FlagSets /\ phase = "pre" /\ numRegs = 0
      /\ phys = none /\ pool = {} /\ vreg = 0 /\ cand = 0 /\ at = 0 /\ seen = {}
      /\ backup = none /\ retried = FALSE /\ reported = none
  BY OptimizeAssumption DEF Init
<1>3. regNumber \in Nat
  <2>1. PICK gap \in Gaps : regNumber = MaxRegister(code) + 1 + gap
    BY DEF Init
  <2>2. gap \in Nat /\ MaxRegister(code) \in Nat
    BY <1>2, MaxRegisterNat, OptimizeAssumption
  <2> QED
    BY <2>1, <2>2
<1> HIDE DEF none
<1>4. TypeOK
  <2>1. {regNumber, numRegs, vreg, cand, at} \subseteq Nat
    BY <1>2, <1>3
  <2>2. pool \subseteq 1 .. Len(phys) /\ seen \subseteq Int /\ retried \in BOOLEAN
    BY <1>2
  <2>3. phase \in Phases
    BY <1>2 DEF Phases
  <2> QED
    BY <1>1, <1>2, <2>1, <2>2, <2>3 DEF TypeOK
<1> QED
  BY <1>1, <1>2, <1>4
  DEF AllocationInv, TableShaped, RangesDisjoint, RangesHold, TableFits

\* A pass that leaves the table alone and ends outside of the merging.
LEMMA TableKept ==
  ASSUME AllocationInv, UNCHANGED phys, phase' # "merge", TypeOK', TableFits'
  PROVE  AllocationInv'
BY DEF AllocationInv, TableShaped, RangesDisjoint, RangesHold, TableFits

\* The walk goes on past the registers of the sequencer only while the table
\* has nothing there.
LEMMA NextRegisterStep ==
  ASSUME AllocationInv, NextRegister
  PROVE  AllocationInv'
<1> USE TypeParts
<1>0. TypeOK /\ TableShaped /\ RangesDisjoint /\ RangesHold
  BY DEF AllocationInv
<1>1. /\ phase = "merge" /\ vreg <= numRegs
      /\ vreg < NumPhysical \/ phys[vreg] = <<>>
      /\ vreg' = vreg + 1 /\ cand' = vreg + 1
      /\ UNCHANGED <<code, phase, regNumber, numRegs, phys, pool, at, seen, rest>>
  BY DEF NextRegister
<1>2. TypeOK'
  BY <1>0, LatePassType
<1>3. TableShaped'
  <2>1. /\ Len(phys) = numRegs /\ 1 <= vreg
        /\ \A q \in DOMAIN phys : \A j \in DOMAIN phys[q] :
             phys[q][j] \in SUBSET (DOMAIN code) /\ phys[q][j] # {}
        /\ \A q \in DOMAIN phys : q > vreg =>
             Len(phys[q]) <= 1 /\ (q \in pool <=> phys[q] # <<>>)
        /\ \A q \in DOMAIN phys : NumPhysical <= q /\ q < vreg => phys[q] = <<>>
    BY <1>0, <1>1 DEF TableShaped
  <2>2. vreg \in Nat /\ NumPhysical \in Nat /\ DOMAIN phys = 1 .. Len(phys)
        /\ Len(phys) \in Nat
    BY <1>0, OptimizeAssumption
  <2>3. \A q \in DOMAIN phys : q > vreg + 1 =>
          Len(phys[q]) <= 1 /\ (q \in pool <=> phys[q] # <<>>)
    BY <2>1, <2>2
  <2>4. \A q \in DOMAIN phys : NumPhysical <= q /\ q < vreg + 1 => phys[q] = <<>>
    <3> SUFFICES ASSUME NEW q \in DOMAIN phys, NumPhysical <= q, q < vreg + 1
                 PROVE  phys[q] = <<>>
      OBVIOUS
    <3>1. q < vreg \/ q = vreg
      BY <2>2
    <3> QED
      BY <1>1, <2>1, <2>2, <3>1
  <2>5. 1 <= vreg + 1 /\ vreg + 1 <= vreg + 1
    BY <2>2
  <2> QED
    BY <1>1, <2>1, <2>3, <2>4, <2>5 DEF TableShaped
<1>4. RangesDisjoint' /\ RangesHold' /\ TableFits'
  BY <1>0, <1>1 DEF RangesDisjoint, RangesHold, TableFits
<1> QED
  BY <1>2, <1>3, <1>4 DEF AllocationInv

\* Where the allocation ends, every register with a range is one of the
\* sequencer: the walk ended before, or passed by empty places.
LEMMA EndAllocationStep ==
  ASSUME AllocationInv, EndAllocation
  PROVE  AllocationInv'
<1> USE TypeParts
<1>0. TypeOK /\ TableShaped /\ RangesHold
  BY DEF AllocationInv
<1>1. /\ phase = "merge" /\ phase' = "report"
      /\ vreg <= numRegs => vreg < NumPhysical /\ ~IsLeft
      /\ UNCHANGED <<code, numRegs, phys>>
  BY DEF EndAllocation, table
<1>2. TypeOK'
  BY <1>0, LatePassType
<1>3. TableFits'
  <2> SUFFICES ASSUME NEW k \in DOMAIN code,
                      NEW q \in Registers(code[k]) \cap 1 .. numRegs, ~Skipped(code[k])
               PROVE  q < NumPhysical
    BY <1>1 DEF TableFits
  <2>1. /\ Len(phys) = numRegs
        /\ \A o \in DOMAIN phys : o > vreg => (o \in pool <=> phys[o] # <<>>)
        /\ \A o \in DOMAIN phys : NumPhysical <= o /\ o < vreg => phys[o] = <<>>
    BY <1>0, <1>1 DEF TableShaped
  <2>2. q \in DOMAIN phys /\ q \in Nat /\ vreg \in Nat /\ numRegs \in Nat /\ q <= numRegs
    BY <1>0, <2>1
  <2>3. phys[q] # <<>>
    BY <1>0, <1>1, <2>2 DEF RangesHold
  <2>4. NumPhysical \in Nat
    BY OptimizeAssumption
  <2>5. CASE numRegs < vreg
    BY <2>1, <2>2, <2>3, <2>4, <2>5
  <2>6. CASE vreg <= numRegs
    <3>1. vreg < NumPhysical /\ ~IsLeft
      BY <1>1, <2>6
    <3>2. q > vreg => q \in pool
      BY <2>1, <2>2, <2>3
    <3>3. q \in pool => q < vreg
      BY <2>2, <3>1 DEF IsLeft
    <3>4. ~(q > vreg)
      BY <2>2, <3>2, <3>3
    <3> QED
      BY <2>2, <2>4, <3>1, <3>4
  <2> QED
    BY <2>2, <2>5, <2>6
<1>4. phase' # "merge" /\ UNCHANGED phys
  BY <1>1
<1> QED
  BY <1>2, <1>3, <1>4, TableKept

\* Striking the messages mentions no register anew.
LEMMA ReportStep ==
  ASSUME AllocationInv, ReportUserMessages
  PROVE  AllocationInv'
<1> USE TypeParts
<1>0. TypeOK /\ TableFits
  BY DEF AllocationInv
<1>1. /\ phase = "report" /\ phase' = "done"
      /\ code' = [k \in DOMAIN code |->
                   IF code[k].cmd \in Messages /\ flags # {} THEN Kill(code[k])
                                                             ELSE code[k]]
      /\ UNCHANGED <<numRegs, flags, phys>>
  BY DEF ReportUserMessages, table
<1>2. TypeOK'
  BY <1>0, LatePassType
<1>3. TableFits'
  <2> SUFFICES ASSUME "regs" \in flags, NEW k \in DOMAIN code,
                      NEW q \in Registers(code'[k]) \cap 1 .. numRegs, ~Skipped(code'[k])
               PROVE  q < NumPhysical
    BY <1>1 DEF TableFits
  <2>1. Skipped(Kill(code[k]))
    <3>1. code[k] \in Instruction
      BY <1>0
    <3> QED
      BY <3>1 DEF Skipped, Kill, Instruction
  <2>2. code'[k] = code[k]
    BY <1>1, <2>1
  <2> QED
    BY <1>0, <1>1, <2>2 DEF TableFits
<1>4. phase' # "merge" /\ UNCHANGED phys
  BY <1>1
<1> QED
  BY <1>2, <1>3, <1>4, TableKept

LEMMA StepInv ==
  ASSUME AllocationInv, [Optimize]_opVars
  PROVE  AllocationInv'
<1>0. TypeOK
  BY DEF AllocationInv
<1>1. CASE \/ PrepareResources \/ DeadCodeElimination \/ EndDeadCode
           \/ OneStepJumpElimination \/ LabelCleanup \/ MergeRegisterZeroing
  <2>1. TypeOK'
    BY <1>0, <1>1, EarlyPassType
  <2>2. UNCHANGED phys /\ phase' # "merge"
    BY <1>1 DEF PrepareResources, DeadCodeElimination, EndDeadCode,
                OneStepJumpElimination, LabelCleanup, MergeRegisterZeroing, table
  <2>3. TableFits'
    BY <1>1 DEF TableFits, PrepareResources, DeadCodeElimination, EndDeadCode,
                OneStepJumpElimination, LabelCleanup, MergeRegisterZeroing, rest
  <2> QED
    BY <2>1, <2>2, <2>3, TableKept
<1>2. CASE RemoveUnusedReg \/ EndUnusedRegs
  <2>1. TypeOK'
    BY <1>0, <1>2, UnusedRegsType
  <2>2. UNCHANGED phys /\ phase' \notin {"merge", "report", "done"}
    BY <1>2 DEF RemoveUnusedReg, EndUnusedRegs, table
  <2> QED
    BY <2>1, <2>2, TableKept DEF TableFits
<1>3. CASE \/ SplitConstRegisters \/ SplitNext \/ StripBarriers \/ OutOfRegisters
  <2>1. TypeOK'
    BY <1>0, <1>3, LatePassType
  <2>2. UNCHANGED phys /\ phase' \notin {"merge", "report", "done"}
    BY <1>3 DEF SplitConstRegisters, SplitNext, StripBarriers, OutOfRegisters, table
  <2> QED
    BY <2>1, <2>2, TableKept DEF TableFits
<1>4. CASE UNCHANGED opVars
  <2> USE <1>4 DEF opVars, AllocationInv
  <2>1. TypeOK'
    BY DEF TypeOK
  <2>2. TableShaped'
    BY DEF TableShaped
  <2>3. RangesDisjoint' /\ RangesHold'
    BY DEF RangesDisjoint, RangesHold
  <2>4. TableFits'
    BY DEF TableFits
  <2> QED
    BY <2>1, <2>2, <2>3, <2>4
<1> QED
  BY <1>1, <1>2, <1>3, <1>4, BuildRangesStep, MergeStep, NextRegisterStep,
     EndAllocationStep, ReportStep DEF Optimize

THEOREM AllocationInvariant == Spec => []AllocationInv
<1>1. Init => AllocationInv
  BY InitInv
<1>2. AllocationInv /\ [Optimize]_opVars => AllocationInv'
  BY StepInv
<1> QED
  BY <1>1, <1>2, PTL DEF Spec

----------------------------------------------------------------------------
(* What follows.                                                           *)

\* Every pass keeps the program a list of instructions and its numbers
\* natural, whatever it drops, renames, splits or reloads.
THEOREM TypeCorrect == Spec => []TypeOK
<1>1. AllocationInv => TypeOK
  BY DEF AllocationInv
<1> QED
  BY <1>1, AllocationInvariant, PTL

\* No two values share a register of the sequencer at one instruction, the
\* register an instruction mentions has a range with that instruction in it, and
\* an allocation without an exception fits the sequencer.
THEOREM AllocationIsSound == Spec => []AllocationSound
<1>1. AllocationInv => AllocationSound
  BY DEF AllocationInv, AllocationSound
<1> QED
  BY <1>1, AllocationInvariant, PTL
----------------------------------------------------------------------------
(* Labels.  A pass may drop or move a label only if no branch that is left  *)
(* misses it.                                                              *)

\* The entry a branch to a name goes to, and no other.
GoesTo(c, label, j) ==
  /\ j \in Labels(c) /\ c[j].label = label
  /\ \A i \in Labels(c) : c[i].label = label => i = j

LEMMA ResolvesIs ==
  ASSUME NEW c \in Seq(Instruction)
  PROVE  Resolves(c) <=> \A k \in DOMAIN c : IsBranch(c[k]) => \E j \in DOMAIN c : GoesTo(c, c[k].label, j)
<1> SUFFICES ASSUME NEW k \in DOMAIN c
             PROVE  Cardinality({j \in Labels(c) : c[j].label = c[k].label}) = 1
                      <=> \E j \in DOMAIN c : GoesTo(c, c[k].label, j)
  BY DEF Resolves
<1> DEFINE S == {j \in Labels(c) : c[j].label = c[k].label}
<1>1. ASSUME NEW j \in DOMAIN c, GoesTo(c, c[k].label, j) PROVE Cardinality(S) = 1
  <2>1. S = {j}
    BY <1>1 DEF GoesTo
  <2> HIDE DEF S
  <2> QED
    BY <2>1, FS_Singleton
<1>2. ASSUME Cardinality(S) = 1 PROVE \E j \in DOMAIN c : GoesTo(c, c[k].label, j)
  <2>1. S \in SUBSET (1 .. Len(c))
    BY DEF Labels
  <2>2. IsFiniteSet(1 .. Len(c))
    BY FS_Interval
  <2>3. PICK x : S = {x}
    <3> HIDE DEF S
    <3>1. IsFiniteSet(S)
      BY <2>1, <2>2, FS_Subset
    <3> QED
      BY <1>2, <3>1, FS_Singleton
  <2>4. x \in Labels(c) /\ x \in DOMAIN c
    BY <2>3 DEF Labels
  <2> QED
    BY <2>3, <2>4 DEF GoesTo
<1> QED
  BY <1>1, <1>2

\* A pass in place: it makes no label and no branch, and loses no label that a
\* branch it leaves goes to.
LEMMA InPlace ==
  ASSUME NEW c \in Seq(Instruction), NEW d \in Seq(Instruction), DOMAIN d = DOMAIN c, Resolves(c),
         \A j \in DOMAIN c : d[j].cmd = "LABEL" => c[j].cmd = "LABEL" /\ d[j].label = c[j].label,
         \A k \in DOMAIN c : IsBranch(d[k]) => IsBranch(c[k]) /\ d[k].label = c[k].label,
         \A j, k \in DOMAIN c :
           c[j].cmd = "LABEL" /\ IsBranch(d[k]) /\ d[k].label = c[j].label => d[j].cmd = "LABEL"
  PROVE  Resolves(d)
<1> SUFFICES ASSUME NEW k \in DOMAIN d, IsBranch(d[k])
             PROVE  \E j \in DOMAIN d : GoesTo(d, d[k].label, j)
  BY ResolvesIs
<1>1. k \in DOMAIN c /\ IsBranch(c[k]) /\ d[k].label = c[k].label
  OBVIOUS
<1>2. PICK j \in DOMAIN c : GoesTo(c, c[k].label, j)
  BY <1>1, ResolvesIs
<1>3. d[j].cmd = "LABEL" /\ d[j].label = d[k].label
  BY <1>1, <1>2 DEF GoesTo, Labels
<1>4. GoesTo(d, d[k].label, j)
  BY <1>1, <1>2, <1>3 DEF GoesTo, Labels
<1> QED
  BY <1>4

\* Instructions that are neither labels nor branches may change as they like.
LEMMA PlainChanges ==
  ASSUME NEW c \in Seq(Instruction), NEW d \in Seq(Instruction), DOMAIN d = DOMAIN c, Resolves(c),
         \A k \in DOMAIN c :
           \/ d[k].cmd = c[k].cmd /\ d[k].label = c[k].label
           \/ c[k].cmd # "LABEL" /\ d[k].cmd # "LABEL" /\ ~IsBranch(d[k])
  PROVE  Resolves(d)
<1>1. \A j \in DOMAIN c : d[j].cmd = "LABEL" => c[j].cmd = "LABEL" /\ d[j].label = c[j].label
  OBVIOUS
<1>2. \A k \in DOMAIN c : IsBranch(d[k]) => IsBranch(c[k]) /\ d[k].label = c[k].label
  BY DEF IsBranch, Branches
<1>3. \A j \in DOMAIN c : c[j].cmd = "LABEL" => d[j].cmd = "LABEL"
  OBVIOUS
<1> QED
  BY <1>1, <1>2, <1>3, InPlace

\* What the small changes leave of an instruction.
LEMMA ChangeFields ==
  ASSUME NEW i \in Instruction
  PROVE  /\ Kill(i).cmd = "INVALID" /\ Kill(i).label = i.label /\ Kill(i).dst = i.dst
         /\ DropLabel(i).cmd = "INVALID" /\ DropWrite(i).cmd = "INVALID"
         /\ Barrier(i).cmd = "INVALID" /\ Barrier(i).src = Magic
         /\ \A p, v : /\ Rename(i, p, v).cmd = i.cmd /\ Rename(i, p, v).label = i.label
                      /\ Rename(i, p, v).dst = IF i.dst = p THEN v ELSE i.dst
BY DEF Instruction, Kill, DropLabel, DropWrite, Barrier, Rename, RenameIn

LEMMA KillAllResolves ==
  ASSUME NEW c \in Seq(Instruction), Resolves(c), NEW K, \A k \in K : c[k].cmd # "LABEL"
  PROVE  Resolves(KillAll(c, K))
<1>1. \A k \in DOMAIN c : c[k] \in Instruction
  OBVIOUS
<1> DEFINE d == KillAll(c, K)
<1>2. \A k \in DOMAIN c : d[k] = IF k \in K THEN Kill(c[k]) ELSE c[k]
  BY DEF KillAll
<1>3. d \in Seq(Instruction) /\ DOMAIN d = DOMAIN c
  BY KillAllProgram DEF KillAll
<1> HIDE DEF d
<1>4. \A k \in DOMAIN c :
        \/ d[k].cmd = c[k].cmd /\ d[k].label = c[k].label
        \/ c[k].cmd # "LABEL" /\ d[k].cmd # "LABEL" /\ ~IsBranch(d[k])
  BY <1>1, <1>2, ChangeFields DEF IsBranch, Branches
<1>5. Resolves(d)
  BY <1>3, <1>4, PlainChanges
<1> QED
  BY <1>5 DEF d

LEMMA OneStepResolves ==
  ASSUME NEW c \in Seq(Instruction), Resolves(c)
  PROVE  Resolves(OneStepJumps(c))
<1>1. \A k \in DOMAIN c : c[k] \in Instruction
  OBVIOUS
<1> DEFINE d == OneStepJumps(c)
<1>2. \A k \in DOMAIN c : d[k] = c[k] \/ (IsBranch(c[k]) /\ d[k] = Kill(c[k]))
  BY DEF OneStepJumps
<1>3. d \in Seq(Instruction) /\ DOMAIN d = DOMAIN c
  BY OneStepProgram DEF OneStepJumps
<1> HIDE DEF d
<1>4. \A k \in DOMAIN c :
        \/ d[k].cmd = c[k].cmd /\ d[k].label = c[k].label
        \/ c[k].cmd # "LABEL" /\ d[k].cmd # "LABEL" /\ ~IsBranch(d[k])
  BY <1>1, <1>2, ChangeFields DEF IsBranch, Branches
<1>5. Resolves(d)
  BY <1>3, <1>4, PlainChanges
<1> QED
  BY <1>5 DEF d

\* Afterwards every label is named by a branch, and so the only one of its
\* name.
AllNamed(c) == \A j \in Labels(c) : c[j].label \in Named(c)

LEMMA UnusedLabelsResolves ==
  ASSUME NEW c \in Seq(Instruction), Resolves(c)
  PROVE  Resolves(UnusedLabels(c)) /\ AllNamed(UnusedLabels(c))
<1>1. \A k \in DOMAIN c : c[k] \in Instruction
  OBVIOUS
<1> DEFINE d == UnusedLabels(c)
<1>2. \A k \in DOMAIN c : d[k] = IF c[k].cmd = "LABEL" /\ c[k].label \notin Named(c)
                                 THEN DropLabel(c[k]) ELSE c[k]
  BY DEF UnusedLabels
<1>3. d \in Seq(Instruction) /\ DOMAIN d = DOMAIN c
  BY UnusedLabelsProgram DEF UnusedLabels
<1> HIDE DEF d
<1>4. \A k \in DOMAIN c : /\ d[k].cmd \in {"LABEL"} \cup Branches => d[k] = c[k]
                          /\ IsBranch(c[k]) => d[k] = c[k]
                          /\ c[k].cmd = "LABEL" => (d[k].cmd = "LABEL" <=> c[k].label \in Named(c))
  <2> TAKE k \in DOMAIN c
  <2>1. c[k].cmd = "LABEL" => ~IsBranch(c[k])
    BY DEF IsBranch, Branches
  <2>2. DropLabel(c[k]).cmd = "INVALID"
    BY <1>1, ChangeFields
  <2> QED
    BY <1>2, <2>1, <2>2 DEF Branches
<1>5. \A k \in DOMAIN c : IsBranch(d[k]) => d[k] = c[k] /\ d[k].label \in Named(c)
  BY <1>4 DEF IsBranch, Named
<1>6. Resolves(d)
  <2>1. \A j, k \in DOMAIN c :
          c[j].cmd = "LABEL" /\ IsBranch(d[k]) /\ d[k].label = c[j].label => d[j].cmd = "LABEL"
    BY <1>4, <1>5
  <2>2. \A j \in DOMAIN c : d[j].cmd = "LABEL" => c[j].cmd = "LABEL" /\ d[j].label = c[j].label
    BY <1>4
  <2>3. \A k \in DOMAIN c : IsBranch(d[k]) => IsBranch(c[k]) /\ d[k].label = c[k].label
    BY <1>4 DEF IsBranch
  <2> QED
    BY <1>3, <2>1, <2>2, <2>3, InPlace
<1>7. AllNamed(d)
  <2> SUFFICES ASSUME NEW j \in DOMAIN c, d[j].cmd = "LABEL" PROVE d[j].label \in Named(d)
    BY <1>3 DEF AllNamed, Labels
  <2>1. c[j].cmd = "LABEL" /\ d[j] = c[j] /\ c[j].label \in Named(c)
    BY <1>4
  <2>2. PICK k \in DOMAIN c : IsBranch(c[k]) /\ c[k].label = c[j].label
    BY <2>1 DEF Named
  <2>3. d[k] = c[k]
    BY <1>4, <2>2
  <2> QED
    BY <1>3, <2>1, <2>2, <2>3 DEF Named
<1> QED
  BY <1>6, <1>7 DEF d

LEMMA MergeLabelsResolves ==
  ASSUME NEW c \in Seq(Instruction), Resolves(c), AllNamed(c)
  PROVE  Resolves(MergeLabels(c))
<1> DEFINE d == MergeLabels(c)
<1>0. \A k \in DOMAIN c : c[k] \in Instruction
  OBVIOUS
<1>1. \A k \in DOMAIN c : /\ IsBranch(c[k]) => d[k] = [c[k] EXCEPT !.label = Merged(c, c[k].label)]
                          /\ ~IsBranch(c[k]) /\ Follows(c, k) => d[k] = DropLabel(c[k])
                          /\ ~IsBranch(c[k]) /\ ~Follows(c, k) => d[k] = c[k]
  BY DEF MergeLabels
<1>2. d \in Seq(Instruction) /\ DOMAIN d = DOMAIN c
  BY MergeLabelsProgram DEF MergeLabels
<1> HIDE DEF d
<1>3. \A k \in DOMAIN c : IsBranch(d[k]) => IsBranch(c[k]) /\ d[k].label = Merged(c, c[k].label)
  <2> TAKE k \in DOMAIN c
  <2>1. CASE IsBranch(c[k])
    BY <1>0, <1>1, <2>1 DEF Instruction
  <2>2. CASE ~IsBranch(c[k])
    <3>1. DropLabel(c[k]).cmd = "INVALID"
      BY <1>0, ChangeFields
    <3> QED
      BY <1>1, <2>2, <3>1 DEF IsBranch, Branches
  <2> QED
    BY <2>1, <2>2
<1>4. \A j \in DOMAIN c : j \in Labels(c) /\ ~Follows(c, j) => d[j] = c[j]
  BY <1>1 DEF Labels, IsBranch, Branches
<1>5. \A j \in DOMAIN c : d[j].cmd = "LABEL" => j \in Labels(c) /\ d[j] = c[j]
  <2> TAKE j \in DOMAIN c
  <2>1. CASE IsBranch(c[j])
    <3>1. d[j].cmd = c[j].cmd
      BY <1>0, <1>1, <2>1 DEF Instruction
    <3> QED
      BY <2>1, <3>1 DEF IsBranch, Branches
  <2>2. CASE ~IsBranch(c[j])
    <3>1. DropLabel(c[j]).cmd = "INVALID"
      BY <1>0, ChangeFields
    <3> QED
      BY <1>1, <2>2, <3>1 DEF Labels
  <2> QED
    BY <2>1, <2>2
<1>6. \A i, j \in Labels(c) : c[i].label = c[j].label => i = j
  <2> SUFFICES ASSUME NEW i \in Labels(c), NEW j \in Labels(c), c[i].label = c[j].label PROVE i = j
    OBVIOUS
  <2>1. PICK k \in DOMAIN c : IsBranch(c[k]) /\ c[k].label = c[j].label
    BY DEF AllNamed, Named
  <2>2. PICK t \in DOMAIN c : GoesTo(c, c[k].label, t)
    BY <2>1, ResolvesIs
  <2> QED
    BY <2>1, <2>2 DEF GoesTo
<1>7. \A j \in Labels(c) : ~Follows(c, j) => GoesTo(d, c[j].label, j)
  <2> SUFFICES ASSUME NEW j \in Labels(c), ~Follows(c, j) PROVE GoesTo(d, c[j].label, j)
    OBVIOUS
  <2>1. j \in DOMAIN c /\ d[j] = c[j] /\ c[j].cmd = "LABEL"
    BY <1>4 DEF Labels
  <2>2. \A i \in Labels(d) : i \in Labels(c) /\ d[i] = c[i]
    BY <1>2, <1>5 DEF Labels
  <2>3. j \in Labels(d)
    BY <1>2, <2>1 DEF Labels
  <2> QED
    BY <1>6, <2>1, <2>2, <2>3 DEF GoesTo
<1> SUFFICES ASSUME NEW k \in DOMAIN c, IsBranch(d[k])
             PROVE  \E j \in DOMAIN d : GoesTo(d, d[k].label, j)
  <2>1. Resolves(d)
    BY <1>2, ResolvesIs
  <2> QED
    BY <2>1 DEF d
<1>8. IsBranch(c[k]) /\ d[k].label = Merged(c, c[k].label)
  BY <1>3
<1>9. PICK j \in DOMAIN c : GoesTo(c, c[k].label, j)
  BY <1>8, ResolvesIs
<1>10. j \in Labels(c) /\ c[j].label = c[k].label
  BY <1>9 DEF GoesTo
<1> DEFINE K == {t \in Labels(c) : c[t].label = c[k].label /\ Follows(c, t)}
<1>11. CASE ~Follows(c, j)
  <2>1. K = {}
    BY <1>9, <1>11 DEF GoesTo
  <2>2. d[k].label = c[j].label
    BY <1>8, <1>10, <2>1 DEF Merged
  <2> QED
    BY <1>2, <1>7, <1>10, <1>11, <2>2
<1>12. CASE Follows(c, j)
  <2> DEFINE h == RunHead(c, j)
  <2>1. K = {j}
    BY <1>9, <1>12 DEF GoesTo
  <2>2. Max({j}) = j
    <3>1. DOMAIN c = 1 .. Len(c)
      OBVIOUS
    <3>2. j \in Int
      BY <3>1
    <3>3. {j} \in SUBSET Int /\ IsFiniteSet({j}) /\ {j} # {}
      BY <3>2, FS_Singleton
    <3>4. Max({j}) \in {j}
      BY <3>3, MaxIsLargest
    <3> QED
      BY <3>4
  <2>3. d[k].label = c[h].label
    BY <1>8, <2>1, <2>2 DEF Merged
  <2>4. h \in Labels(c) /\ ~Follows(c, h)
    BY <1>10, HeadOfRun
  <2> HIDE DEF h
  <2>5. h \in DOMAIN d
    BY <1>2, <2>4 DEF Labels
  <2> QED
    BY <1>7, <2>3, <2>4, <2>5
<1> QED
  BY <1>11, <1>12

LEMMA ZeroingResolves ==
  ASSUME NEW c \in Seq(Instruction), Resolves(c)
  PROVE  Resolves(RegisterZeroing(c))
<1> DEFINE d == RegisterZeroing(c)
<1>1. \A k \in DOMAIN c : c[k] \in Instruction
  OBVIOUS
<1>2. \A k \in DOMAIN c : \/ d[k] = c[k] \/ d[k] = [c[k] EXCEPT !.src = R0]
                          \/ c[k].cmd = "ADDI" /\ d[k] = Kill(c[k])
  <2> TAKE k \in DOMAIN c
  <2>1. IsZeroed(c, k + 1) => c[k].cmd = "ADDI"
    BY DEF IsZeroed
  <2> QED
    BY <2>1 DEF RegisterZeroing
<1>3. d \in Seq(Instruction) /\ DOMAIN d = DOMAIN c
  BY ZeroingProgram DEF RegisterZeroing
<1> HIDE DEF d
<1>4. \A k \in DOMAIN c :
        \/ d[k].cmd = c[k].cmd /\ d[k].label = c[k].label
        \/ c[k].cmd # "LABEL" /\ d[k].cmd # "LABEL" /\ ~IsBranch(d[k])
  <2> TAKE k \in DOMAIN c
  <2>1. /\ [c[k] EXCEPT !.src = R0].cmd = c[k].cmd /\ [c[k] EXCEPT !.src = R0].label = c[k].label
        /\ Kill(c[k]).cmd = "INVALID"
    BY <1>1, ChangeFields DEF Instruction
  <2> QED
    BY <1>2, <2>1 DEF IsBranch, Branches
<1>5. Resolves(d)
  BY <1>3, <1>4, PlainChanges
<1> QED
  BY <1>5 DEF d

\* Only an instruction that writes a register is dropped, or one that copies
\* it.
LEMMA WriteOnlyChanges ==
  ASSUME NEW c \in Seq(Instruction), NEW k \in DOMAIN c, WritesDest(c[k]), NEW r
  PROVE  \A j \in DOMAIN c :
           \/ WriteOnly(c, k, r)[j] = c[j]
           \/ WriteOnly(c, k, r)[j].cmd = "INVALID" /\ c[j].cmd # "LABEL"
           \/ /\ j = k /\ \E p \in DOMAIN c : /\ c[p].cmd = "ADDI"
                                              /\ WriteOnly(c, k, r)[j] = [c[j] EXCEPT !.dst = c[p].dst]
<1> SUFFICES ASSUME NEW j \in DOMAIN c
             PROVE  \/ WriteOnly(c, k, r)[j] = c[j]
                    \/ WriteOnly(c, k, r)[j].cmd = "INVALID" /\ c[j].cmd # "LABEL"
                    \/ /\ j = k /\ \E p \in DOMAIN c : /\ c[p].cmd = "ADDI"
                                                       /\ WriteOnly(c, k, r)[j] = [c[j] EXCEPT !.dst = c[p].dst]
  OBVIOUS
<1>0. /\ c[j] \in Instruction /\ c[k] \in Instruction /\ Len(c) \in Nat /\ DOMAIN c = 1 .. Len(c)
      /\ c[k].cmd # "LABEL"
  BY DEF WritesDest, CmdType
<1>1. CASE WriteOnly(c, k, r) = c
  BY <1>1
<1>2. CASE WriteOnly(c, k, r) = [c EXCEPT ![k] = DropWrite(c[k])]
  <2>1. DropWrite(c[k]).cmd = "INVALID"
    BY <1>0, ChangeFields
  <2>2. CASE j = k
    BY <1>0, <1>2, <2>1, <2>2
  <2>3. CASE j # k
    BY <1>0, <1>2, <2>3
  <2> QED
    BY <2>2, <2>3
<1>3. CASE WriteOnly(c, k, r) = SimplifyAssign(c, k)
  <2>1. CASE ~IsCopied(c, k)
    BY <1>3, <2>1 DEF SimplifyAssign
  <2>2. CASE IsCopied(c, k)
    <3>1. k + 1 \in DOMAIN c /\ c[k + 1].cmd = "ADDI" /\ c[k + 1] \in Instruction /\ k # k + 1
      BY <1>0, <2>2 DEF IsCopied
    <3>2. WriteOnly(c, k, r) = [c EXCEPT ![k].dst = c[k + 1].dst, ![k + 1] = Kill(c[k + 1])]
      BY <1>3, <2>2, <3>1 DEF SimplifyAssign
    <3>3. WriteOnly(c, k, r)[k] = [c[k] EXCEPT !.dst = c[k + 1].dst]
      BY <3>1, <3>2
    <3>4. WriteOnly(c, k, r)[k + 1].cmd = "INVALID"
      BY <3>1, <3>2, ChangeFields
    <3>5. j \notin {k, k + 1} => WriteOnly(c, k, r)[j] = c[j]
      BY <3>1, <3>2
    <3> QED
      BY <3>1, <3>3, <3>4, <3>5
  <2> QED
    BY <2>1, <2>2
<1>4. \/ WriteOnly(c, k, r) = c \/ WriteOnly(c, k, r) = SimplifyAssign(c, k)
      \/ WriteOnly(c, k, r) = [c EXCEPT ![k] = DropWrite(c[k])]
  BY DEF WriteOnly
<1> QED
  BY <1>1, <1>2, <1>3, <1>4

LEMMA WriteOnlyResolves ==
  ASSUME NEW c \in Seq(Instruction), Resolves(c), NEW k \in DOMAIN c, WritesDest(c[k]), NEW r \in Int
  PROVE  Resolves(WriteOnly(c, k, r))
<1> DEFINE d == WriteOnly(c, k, r)
<1>1. \A j \in DOMAIN c : c[j] \in Instruction
  OBVIOUS
<1>2. d \in Seq(Instruction) /\ DOMAIN d = DOMAIN c
  <2>1. DOMAIN d = DOMAIN c
    BY DEF WriteOnly, SimplifyAssign
  <2> QED
    BY <2>1, WriteOnlyProgram
<1>3. \A j \in DOMAIN c : \/ d[j] = c[j]
                          \/ d[j].cmd = "INVALID" /\ c[j].cmd # "LABEL"
                          \/ \E p \in DOMAIN c : d[j] = [c[j] EXCEPT !.dst = c[p].dst]
  <2> TAKE j \in DOMAIN c
  <2>1. \/ WriteOnly(c, k, r)[j] = c[j]
        \/ WriteOnly(c, k, r)[j].cmd = "INVALID" /\ c[j].cmd # "LABEL"
        \/ /\ j = k /\ \E p \in DOMAIN c : /\ c[p].cmd = "ADDI"
                                           /\ WriteOnly(c, k, r)[j] = [c[j] EXCEPT !.dst = c[p].dst]
    BY WriteOnlyChanges
  <2> QED
    BY <2>1
<1> HIDE DEF d
<1>4. \A j \in DOMAIN c :
        \/ d[j].cmd = c[j].cmd /\ d[j].label = c[j].label
        \/ c[j].cmd # "LABEL" /\ d[j].cmd # "LABEL" /\ ~IsBranch(d[j])
  <2> TAKE j \in DOMAIN c
  <2>1. \A x : [c[j] EXCEPT !.dst = x].cmd = c[j].cmd /\ [c[j] EXCEPT !.dst = x].label = c[j].label
    BY <1>1 DEF Instruction
  <2> QED
    BY <1>3, <2>1 DEF IsBranch, Branches
<1>5. Resolves(d)
  BY <1>2, <1>4, PlainChanges
<1> QED
  BY <1>5 DEF d

\* A part of a program that keeps all labels.
LEMMA EntriesResolve ==
  ASSUME NEW c \in Seq(Instruction), Resolves(c), NEW K \in SUBSET (DOMAIN c), Labels(c) \subseteq K
  PROVE  Resolves(Entries(c, K))
<1> DEFINE d == Entries(c, K)
           m == Cardinality(K)
<1>1. K \in SUBSET Nat /\ IsFiniteSet(K)
  <2>1. DOMAIN c = 1 .. Len(c) /\ IsFiniteSet(1 .. Len(c))
    BY FS_Interval
  <2> QED
    BY <2>1, FS_Subset
<1>2. d \in Seq(Instruction) /\ DOMAIN d = 1 .. m /\ \A n \in 1 .. m : d[n] = c[Nth(K, n)]
  BY EntriesProgram DEF Entries
<1> HIDE DEF d
<1>3. \A n \in 1 .. m : Nth(K, n) \in K
  BY <1>1, NthExists
<1> SUFFICES ASSUME NEW n \in DOMAIN d, IsBranch(d[n])
             PROVE  \E j \in DOMAIN d : GoesTo(d, d[n].label, j)
  <2>1. Resolves(d)
    BY <1>2, ResolvesIs
  <2> QED
    BY <2>1 DEF d
<1>4. n \in 1 .. m /\ Nth(K, n) \in DOMAIN c /\ d[n] = c[Nth(K, n)]
  BY <1>2, <1>3
<1>5. PICK t \in DOMAIN c : GoesTo(c, d[n].label, t)
  BY <1>4, ResolvesIs
<1>6. t \in K
  BY <1>5 DEF GoesTo
<1>7. PICK j \in 1 .. m : Nth(K, j) = t
  BY <1>1, <1>6, NthPlace
<1>8. GoesTo(d, d[n].label, j)
  <2>1. d[j] = c[t] /\ j \in DOMAIN d
    BY <1>2, <1>7
  <2>2. j \in Labels(d) /\ d[j].label = d[n].label
    BY <1>5, <2>1 DEF GoesTo, Labels
  <2>3. ASSUME NEW i \in Labels(d), d[i].label = d[n].label PROVE i = j
    <3>1. i \in 1 .. m /\ d[i] = c[Nth(K, i)] /\ Nth(K, i) \in DOMAIN c
      BY <1>2, <1>3 DEF Labels
    <3>2. Nth(K, i) \in Labels(c)
      BY <3>1 DEF Labels
    <3>3. Nth(K, i) = t
      BY <1>5, <2>3, <3>1, <3>2 DEF GoesTo
    <3>4. i = Cardinality({x \in K : x <= t}) /\ j = Cardinality({x \in K : x <= t})
      BY <1>1, <1>6, <1>7, <3>1, <3>3, NthPlace
    <3> QED
      BY <3>4
  <2> QED
    BY <2>2, <2>3 DEF GoesTo
<1> QED
  BY <1>2, <1>8

----------------------------------------------------------------------------
(* The slots before a use.  splitReg overwrites the two entries before a far *)
(* use with the reload of the constant: no label may be there.              *)

\* A load of a constant, or of its upper half: what splitReg puts there.
IsReload(i) == i.cmd \in {"ADDI", "ADDIU"} /\ i.src \in {R0, i.dst}

\* Before every other instruction there are two entries that are no labels.
Spaced(t) ==
  \A n \in DOMAIN t : \/ Skipped(t[n]) \/ IsReload(t[n])
                      \/ n - 1 \notin Labels(t) /\ n - 2 \notin Labels(t)

\* A pass in place that drops loads, or changes of them neither the opcode nor
\* the register.
LEMMA LoadsInPlace ==
  ASSUME NEW c, LoadsRegisters(c), NEW d, DOMAIN d = DOMAIN c,
         \A k \in DOMAIN c : d[k].cmd = "INVALID" \/ (d[k].cmd = c[k].cmd /\ d[k].dst = c[k].dst)
  PROVE  LoadsRegisters(d)
BY DEF LoadsRegisters

LEMMA EarlyLoads ==
  ASSUME NEW c \in Seq(Instruction), LoadsRegisters(c)
  PROVE  /\ \A K : LoadsRegisters(KillAll(c, K))
         /\ LoadsRegisters(OneStepJumps(c)) /\ LoadsRegisters(UnusedLabels(c))
         /\ LoadsRegisters(MergeLabels(c)) /\ LoadsRegisters(RegisterZeroing(c))
<1> DEFINE Kept(i, j) == j.cmd = "INVALID" \/ (j.cmd = i.cmd /\ j.dst = i.dst)
<1>1. \A k \in DOMAIN c : /\ Kept(c[k], c[k]) /\ Kept(c[k], Kill(c[k])) /\ Kept(c[k], DropLabel(c[k]))
                          /\ Kept(c[k], [c[k] EXCEPT !.src = R0])
                          /\ \A l : Kept(c[k], [c[k] EXCEPT !.label = l])
  <2> TAKE k \in DOMAIN c
  <2>1. c[k] \in Instruction
    OBVIOUS
  <2>2. Kill(c[k]).cmd = "INVALID" /\ DropLabel(c[k]).cmd = "INVALID"
    BY <2>1, ChangeFields
  <2>3. [c[k] EXCEPT !.src = R0].cmd = c[k].cmd /\ [c[k] EXCEPT !.src = R0].dst = c[k].dst
    BY <2>1 DEF Instruction
  <2>4. \A l : [c[k] EXCEPT !.label = l].cmd = c[k].cmd /\ [c[k] EXCEPT !.label = l].dst = c[k].dst
    BY <2>1 DEF Instruction
  <2> QED
    BY <2>2, <2>3, <2>4
<1> HIDE DEF Kept
<1>2. ASSUME NEW d, DOMAIN d = DOMAIN c, \A k \in DOMAIN c : Kept(c[k], d[k])
      PROVE  LoadsRegisters(d)
  BY <1>2, LoadsInPlace DEF Kept
<1>3. \A K : LoadsRegisters(KillAll(c, K))
  <2> TAKE K
  <2> DEFINE d == KillAll(c, K)
  <2>1. DOMAIN d = DOMAIN c /\ \A k \in DOMAIN c : d[k] = Kill(c[k]) \/ d[k] = c[k]
    BY DEF KillAll
  <2> HIDE DEF d
  <2>2. LoadsRegisters(d)
    BY <1>1, <1>2, <2>1
  <2> QED
    BY <2>2 DEF d
<1>4. LoadsRegisters(OneStepJumps(c))
  <2> DEFINE d == OneStepJumps(c)
  <2>1. DOMAIN d = DOMAIN c /\ \A k \in DOMAIN c : d[k] = Kill(c[k]) \/ d[k] = c[k]
    BY DEF OneStepJumps
  <2> HIDE DEF d
  <2>2. LoadsRegisters(d)
    BY <1>1, <1>2, <2>1
  <2> QED
    BY <2>2 DEF d
<1>5. LoadsRegisters(UnusedLabels(c))
  <2> DEFINE d == UnusedLabels(c)
  <2>1. DOMAIN d = DOMAIN c /\ \A k \in DOMAIN c : d[k] = DropLabel(c[k]) \/ d[k] = c[k]
    BY DEF UnusedLabels
  <2> HIDE DEF d
  <2>2. LoadsRegisters(d)
    BY <1>1, <1>2, <2>1
  <2> QED
    BY <2>2 DEF d
<1>6. LoadsRegisters(MergeLabels(c))
  <2> DEFINE d == MergeLabels(c)
  <2>1. DOMAIN d = DOMAIN c /\ \A k \in DOMAIN c :
          d[k] = DropLabel(c[k]) \/ d[k] = c[k] \/ \E l : d[k] = [c[k] EXCEPT !.label = l]
    BY DEF MergeLabels
  <2> HIDE DEF d
  <2>k. \A k \in DOMAIN c : Kept(c[k], d[k])
    <3> TAKE k \in DOMAIN c
    <3>1. CASE \E l : d[k] = [c[k] EXCEPT !.label = l]
      <4>1. PICK l : d[k] = [c[k] EXCEPT !.label = l]
        BY <3>1
      <4>2. Kept(c[k], [c[k] EXCEPT !.label = l])
        BY <1>1
      <4> QED
        BY <4>1, <4>2
    <3>2. CASE d[k] = DropLabel(c[k]) \/ d[k] = c[k]
      BY <1>1, <3>2
    <3> QED
      BY <2>1, <3>1, <3>2
  <2>2. LoadsRegisters(d)
    BY <1>2, <2>1, <2>k
  <2> QED
    BY <2>2 DEF d
<1>7. LoadsRegisters(RegisterZeroing(c))
  <2> DEFINE d == RegisterZeroing(c)
  <2>1. DOMAIN d = DOMAIN c /\ \A k \in DOMAIN c :
          d[k] = Kill(c[k]) \/ d[k] = c[k] \/ d[k] = [c[k] EXCEPT !.src = R0]
    BY DEF RegisterZeroing
  <2> HIDE DEF d
  <2>2. LoadsRegisters(d)
    BY <1>1, <1>2, <2>1
  <2> QED
    BY <2>2 DEF d
<1> QED
  BY <1>3, <1>4, <1>5, <1>6, <1>7

LEMMA WriteOnlyLoads ==
  ASSUME NEW c \in Seq(Instruction), LoadsRegisters(c), NEW k \in DOMAIN c, WritesDest(c[k]), NEW r
  PROVE  LoadsRegisters(WriteOnly(c, k, r))
<1> DEFINE d == WriteOnly(c, k, r)
<1>1. DOMAIN d = DOMAIN c
  BY DEF WriteOnly, SimplifyAssign
<1>2. \A j \in DOMAIN c : \/ d[j] = c[j]
                          \/ d[j].cmd = "INVALID"
                          \/ \E p \in DOMAIN c : c[p].cmd = "ADDI" /\ d[j] = [c[j] EXCEPT !.dst = c[p].dst]
  <2> TAKE j \in DOMAIN c
  <2>1. \/ WriteOnly(c, k, r)[j] = c[j]
        \/ WriteOnly(c, k, r)[j].cmd = "INVALID" /\ c[j].cmd # "LABEL"
        \/ /\ j = k /\ \E p \in DOMAIN c : /\ c[p].cmd = "ADDI"
                                           /\ WriteOnly(c, k, r)[j] = [c[j] EXCEPT !.dst = c[p].dst]
    BY WriteOnlyChanges
  <2> QED
    BY <2>1
<1> HIDE DEF d
<1>3. \A j \in DOMAIN c : d[j].cmd \in {"ADDI", "ADDIU"} => d[j].dst # R0
  <2> TAKE j \in DOMAIN c
  <2>1. \A x : [c[j] EXCEPT !.dst = x].dst = x
    <3>1. c[j] \in Instruction
      OBVIOUS
    <3> QED
      BY <3>1 DEF Instruction
  <2>2. CASE \E p \in DOMAIN c : c[p].cmd = "ADDI" /\ d[j] = [c[j] EXCEPT !.dst = c[p].dst]
    <3>1. PICK p \in DOMAIN c : c[p].cmd = "ADDI" /\ d[j] = [c[j] EXCEPT !.dst = c[p].dst]
      BY <2>2
    <3>2. d[j].dst = c[p].dst
      BY <2>1, <3>1
    <3> QED
      BY <3>1, <3>2 DEF LoadsRegisters
  <2>3. CASE d[j] = c[j] \/ d[j].cmd = "INVALID"
    BY <2>3 DEF LoadsRegisters
  <2> QED
    BY <1>2, <2>2, <2>3
<1>4. LoadsRegisters(d)
  BY <1>1, <1>3 DEF LoadsRegisters
<1> QED
  BY <1>4 DEF d

\* The list with two barriers before every entry.
LEMMA PaddedFacts ==
  ASSUME NEW c \in Seq(Instruction)
  PROVE  /\ Padded(c) \in Seq(Instruction) /\ DOMAIN Padded(c) = 1 .. 3 * Len(c)
         /\ \A k \in DOMAIN c : 3 * k \in DOMAIN Padded(c) /\ Padded(c)[3 * k] = c[k]
         /\ \A n \in DOMAIN Padded(c) :
              \/ n % 3 = 0 /\ \E k \in DOMAIN c : n = 3 * k /\ (n + 2) \div 3 = k
              \/ n % 3 # 0 /\ Padded(c)[n].cmd = "INVALID"
<1> DEFINE p == Padded(c)
<1>1. Len(c) \in Nat /\ DOMAIN c = 1 .. Len(c) /\ 3 * Len(c) \in Nat /\ \A k \in DOMAIN c : c[k] \in Instruction
  OBVIOUS
<1>2. DOMAIN p = 1 .. 3 * Len(c) /\ \A n \in 1 .. 3 * Len(c) :
        p[n] = IF n = 3 * ((n + 2) \div 3) THEN c[(n + 2) \div 3] ELSE Barrier(c[(n + 2) \div 3])
  BY DEF Padded
<1>3. \A n \in 1 .. 3 * Len(c) : (n + 2) \div 3 \in DOMAIN c /\ (n % 3 = 0 <=> n = 3 * ((n + 2) \div 3))
  BY <1>1
<1>4. p \in Seq(Instruction)
  <2>1. \A n \in 1 .. 3 * Len(c) : p[n] \in Instruction
    BY <1>1, <1>2, <1>3, InstructionKept
  <2>2. p = [n \in 1 .. 3 * Len(c) |-> p[n]]
    BY DEF Padded
  <2> HIDE DEF p
  <2> QED
    BY <1>1, <2>1, <2>2, FunctionIsSeq
<1> HIDE DEF p
<1>5. \A k \in DOMAIN c : 3 * k \in DOMAIN p /\ p[3 * k] = c[k]
  <2> TAKE k \in DOMAIN c
  <2>1. 3 * k \in 1 .. 3 * Len(c) /\ ((3 * k) + 2) \div 3 = k
    BY <1>1
  <2> QED
    BY <1>2, <2>1
<1>6. \A n \in DOMAIN p :
        \/ n % 3 = 0 /\ \E k \in DOMAIN c : n = 3 * k /\ (n + 2) \div 3 = k
        \/ n % 3 # 0 /\ p[n].cmd = "INVALID"
  <2> TAKE n \in DOMAIN p
  <2>1. (n + 2) \div 3 \in DOMAIN c /\ (n % 3 = 0 <=> n = 3 * ((n + 2) \div 3))
    BY <1>2, <1>3
  <2>2. n % 3 # 0 => p[n] = Barrier(c[(n + 2) \div 3])
    BY <1>2, <2>1
  <2>3. Barrier(c[(n + 2) \div 3]).cmd = "INVALID"
    BY <1>1, <2>1, ChangeFields
  <2> QED
    BY <2>1, <2>2, <2>3
<1> QED
  BY <1>2, <1>4, <1>5, <1>6 DEF p

LEMMA PaddedResolves ==
  ASSUME NEW c \in Seq(Instruction), Resolves(c)
  PROVE  Resolves(Padded(c))
<1> DEFINE p == Padded(c)
<1>1. /\ p \in Seq(Instruction) /\ DOMAIN p = 1 .. 3 * Len(c)
      /\ \A k \in DOMAIN c : 3 * k \in DOMAIN p /\ p[3 * k] = c[k]
      /\ \A n \in DOMAIN p : \/ \E k \in DOMAIN c : n = 3 * k
                             \/ p[n].cmd = "INVALID"
  BY PaddedFacts
<1> HIDE DEF p
<1> SUFFICES ASSUME NEW n \in DOMAIN p, IsBranch(p[n])
             PROVE  \E j \in DOMAIN p : GoesTo(p, p[n].label, j)
  <2>1. Resolves(p)
    BY <1>1, ResolvesIs
  <2> QED
    BY <2>1 DEF p
<1>2. PICK k \in DOMAIN c : n = 3 * k
  BY <1>1 DEF IsBranch, Branches
<1>3. p[n] = c[k]
  BY <1>1, <1>2
<1>4. PICK t \in DOMAIN c : GoesTo(c, c[k].label, t)
  BY <1>3, ResolvesIs
<1>5. 3 * t \in DOMAIN p /\ p[3 * t] = c[t]
  BY <1>1
<1>6. GoesTo(p, p[n].label, 3 * t)
  <2>1. 3 * t \in Labels(p) /\ p[3 * t].label = p[n].label
    BY <1>3, <1>4, <1>5 DEF GoesTo, Labels
  <2>2. ASSUME NEW i \in Labels(p), p[i].label = p[n].label PROVE i = 3 * t
    <3>1. PICK m \in DOMAIN c : i = 3 * m
      BY <1>1 DEF Labels
    <3>2. m \in Labels(c) /\ c[m].label = c[k].label
      BY <1>1, <1>3, <2>2, <3>1 DEF Labels
    <3>3. m = t
      BY <1>4, <3>2 DEF GoesTo
    <3> QED
      BY <3>1, <3>3
  <2> QED
    BY <2>1, <2>2 DEF GoesTo
<1> QED
  BY <1>5, <1>6

LEMMA BarrieredFacts ==
  ASSUME NEW c \in Seq(Instruction), Resolves(c), LoadsRegisters(c)
  PROVE  Resolves(Barriered(c)) /\ LoadsRegisters(Barriered(c)) /\ Spaced(Barriered(c))
<1> DEFINE p == Padded(c)
           K == {n \in DOMAIN p : n % 3 = 0 \/ ~Skipped(c[(n + 2) \div 3])}
           d == Entries(p, K)
           m == Cardinality(K)
<1>0. Barriered(c) = d
  BY DEF Barriered
<1>1. /\ p \in Seq(Instruction) /\ DOMAIN p = 1 .. 3 * Len(c)
      /\ \A k \in DOMAIN c : 3 * k \in DOMAIN p /\ p[3 * k] = c[k]
      /\ \A n \in DOMAIN p : \/ n % 3 = 0 /\ \E k \in DOMAIN c : n = 3 * k /\ (n + 2) \div 3 = k
                             \/ n % 3 # 0 /\ p[n].cmd = "INVALID"
  BY PaddedFacts
<1>p. Resolves(p)
  BY PaddedResolves
<1>2. Len(c) \in Nat /\ DOMAIN c = 1 .. Len(c) /\ 3 * Len(c) \in Nat
  OBVIOUS
<1> HIDE DEF p
<1>3. \A n \in DOMAIN p : n % 3 = 0 => n \in K
  OBVIOUS
<1>4. \A k \in DOMAIN c : ~Skipped(c[k]) => (3 * k) - 1 \in K /\ (3 * k) - 2 \in K
  <2> SUFFICES ASSUME NEW k \in DOMAIN c, ~Skipped(c[k]) PROVE (3 * k) - 1 \in K /\ (3 * k) - 2 \in K
    OBVIOUS
  <2>1. k \in Nat /\ 1 <= k /\ k <= Len(c)
    BY <1>2
  <2>2. (3 * k) - 1 \in 1 .. 3 * Len(c) /\ (3 * k) - 2 \in 1 .. 3 * Len(c)
    BY <1>2, <2>1
  <2>3. (((3 * k) - 1) + 2) \div 3 = k /\ (((3 * k) - 2) + 2) \div 3 = k
    BY <2>1
  <2> QED
    BY <1>1, <2>2, <2>3
<1>5. K \in SUBSET (DOMAIN p) /\ K \in SUBSET Nat /\ IsFiniteSet(K)
  <2>1. IsFiniteSet(1 .. 3 * Len(c))
    BY <1>2, FS_Interval
  <2>2. K \in SUBSET (DOMAIN p)
    OBVIOUS
  <2> HIDE DEF K
  <2>3. K \in SUBSET (1 .. 3 * Len(c)) /\ K \in SUBSET Nat
    BY <1>1, <1>2, <2>2
  <2>4. IsFiniteSet(K)
    BY <2>1, <2>3, FS_Subset
  <2> QED
    BY <2>2, <2>3, <2>4
<1> HIDE DEF K
<1>6. DOMAIN d = 1 .. m /\ \A n \in 1 .. m : d[n] = p[Nth(K, n)]
  BY DEF Entries
<1>7. \A n \in 1 .. m : Nth(K, n) \in K /\ Nth(K, n) \in DOMAIN p
  BY <1>5, NthExists
<1>8. Resolves(d)
  <2>1. Labels(p) \subseteq K
    BY <1>1, <1>3 DEF Labels
  <2> QED
    BY <1>1, <1>5, <1>p, <2>1, EntriesResolve
<1> HIDE DEF d
<1>9. LoadsRegisters(d)
  <2> SUFFICES ASSUME NEW n \in 1 .. m, d[n].cmd \in {"ADDI", "ADDIU"} PROVE d[n].dst # R0
    BY <1>6 DEF LoadsRegisters
  <2>1. d[n] = p[Nth(K, n)] /\ Nth(K, n) \in DOMAIN p
    BY <1>6, <1>7
  <2>2. PICK k \in DOMAIN c : Nth(K, n) = 3 * k
    BY <1>1, <2>1
  <2> QED
    BY <1>1, <2>1, <2>2 DEF LoadsRegisters
<1>10. Spaced(d)
  <2> SUFFICES ASSUME NEW n \in 1 .. m, ~Skipped(d[n])
               PROVE  n - 1 \notin Labels(d) /\ n - 2 \notin Labels(d)
    BY <1>6 DEF Spaced
  <2>1. d[n] = p[Nth(K, n)] /\ Nth(K, n) \in DOMAIN p /\ Nth(K, n) \in K
    BY <1>6, <1>7
  <2>2. PICK k \in DOMAIN c : Nth(K, n) = 3 * k
    BY <1>1, <2>1 DEF Skipped
  <2>3. ~Skipped(c[k])
    BY <1>1, <2>1, <2>2
  <2>4. k \in Nat /\ (3 * k) - 1 \in K /\ (3 * k) - 2 \in K
    BY <1>2, <1>4, <2>3
  <2>5. n - 1 \in 1 .. m /\ Nth(K, n - 1) = (3 * k) - 1
    <3> DEFINE x == 3 * k
    <3>1. x \in K /\ x = Nth(K, n) /\ x - 1 \in K
      BY <2>1, <2>2, <2>4
    <3> HIDE DEF x
    <3>2. n - 1 \in 1 .. m /\ Nth(K, n - 1) = x - 1
      BY <1>5, <3>1, NthPlace
    <3> QED
      BY <3>2 DEF x
  <2>6. (n - 1) - 1 \in 1 .. m /\ Nth(K, (n - 1) - 1) = ((3 * k) - 1) - 1
    <3> DEFINE x == (3 * k) - 1
               y == n - 1
    <3>1. x - 1 \in K /\ x \in K /\ y \in 1 .. m /\ Nth(K, y) = x
      BY <2>4, <2>5
    <3> HIDE DEF x, y
    <3>2. y - 1 \in 1 .. m /\ Nth(K, y - 1) = x - 1
      BY <1>5, <3>1, NthPlace
    <3> QED
      BY <3>2 DEF x, y
  <2>7. (n - 1) - 1 = n - 2 /\ ((3 * k) - 1) - 1 = (3 * k) - 2
    BY <2>4
  <2>8. p[(3 * k) - 1].cmd = "INVALID" /\ p[(3 * k) - 2].cmd = "INVALID"
    <3>1. ((3 * k) - 1) % 3 # 0 /\ ((3 * k) - 2) % 3 # 0
      BY <2>4
    <3> QED
      BY <1>1, <1>5, <2>4, <3>1
  <2>9. d[n - 1].cmd = "INVALID" /\ d[n - 2].cmd = "INVALID"
    BY <1>6, <2>5, <2>6, <2>7, <2>8
  <2> QED
    BY <2>9 DEF Labels
<1> QED
  BY <1>0, <1>8, <1>9, <1>10

LEMMA StrippedResolves ==
  ASSUME NEW t \in Seq(Instruction), Resolves(t)
  PROVE  Resolves(Stripped(t))
<1> DEFINE K == {k \in DOMAIN t : ~(t[k].cmd = "INVALID" /\ t[k].src = Magic)}
<1>1. K \in SUBSET (DOMAIN t) /\ Labels(t) \subseteq K
  BY DEF Labels
<1> HIDE DEF K
<1>2. Resolves(Entries(t, K))
  BY <1>1, EntriesResolve
<1> QED
  BY <1>2 DEF Stripped, K

\* The upper half completes a constant: a load of the same register.
LEMMA UpperFacts ==
  ASSUME NEW t \in Seq(Instruction), NEW k \in DOMAIN t, UpperOf(t, k) # 0
  PROVE  /\ UpperOf(t, k) \in DOMAIN t
         /\ t[UpperOf(t, k)].cmd = "ADDIU" /\ t[UpperOf(t, k)].dst = t[k].dst
<1>1. UpperOf(t, k) \in DOMAIN t
  BY UpperIsEntry
<1> QED
  BY <1>1 DEF UpperOf

\* What reads a constant far from it is no reload.
LEMMA FarUseFacts ==
  ASSUME NEW t \in Seq(Instruction), LoadsRegisters(t), NEW k \in DOMAIN t, IsConstant(t, k),
         NEW j \in FarUses(t, k)
  PROVE  j \in DOMAIN t /\ ~Skipped(t[j]) /\ ~IsReload(t[j])
<1>1. j \in DOMAIN t /\ ~Skipped(t[j]) /\ IsRead(t[j], t[k].dst) /\ ~IsWritten(t[j], t[k].dst)
  BY DEF FarUses, UsesOf
<1>2. t[k].dst # R0
  <2>1. CASE t[k].cmd = "ADDI"
    BY <2>1 DEF LoadsRegisters
  <2>2. CASE t[k].cmd = "INVALID"
    <3>1. UpperOf(t, k) # 0
      BY <2>2 DEF IsConstant
    <3> QED
      BY <3>1, UpperFacts DEF LoadsRegisters
  <2> QED
    BY <2>1, <2>2 DEF IsConstant
<1>3. ASSUME IsReload(t[j]) PROVE FALSE
  <2>1. ReadsSource(t[j]) /\ ~ReadsAux(t[j]) /\ WritesDest(t[j])
    BY <1>3 DEF IsReload, ReadsSource, ReadsAux, WritesDest, CmdType
  <2> QED
    BY <1>1, <1>2, <1>3, <2>1 DEF IsReload, IsRead, IsWritten
<1> QED
  BY <1>1, <1>3

\* What splitReg makes of an entry.
LEMMA SplitEntry ==
  ASSUME NEW t \in Seq(Instruction), NEW k \in DOMAIN t, IsConstant(t, k), NEW fresh \in Nat \ {0},
         NEW j \in DOMAIN t
  PROVE  LET i == SplitReg(t, k, fresh)[j]
             far == FarUses(t, k)
             up == UpperOf(t, k)
         IN  \/ /\ j + 2 \in far \/ j + 1 \in far
                /\ i.cmd = "INVALID" \/ (IsReload(i) /\ i.dst # R0)
             \/ j \in far /\ i.cmd = t[j].cmd /\ i.label = t[j].label /\ i.dst = t[j].dst
             \/ j \in {k, up} /\ i = Kill(t[j])
             \/ i = t[j]
<1> DEFINE far == FarUses(t, k)
           up == UpperOf(t, k)
           r == t[k].dst
           gone == far # {} /\ UsesOf(t, k) = far
           New(n) == Reload(t, k, n, fresh)
           Low(n) == [t[k] EXCEPT !.dst = New(n)]
           High(n) == [t[up] EXCEPT !.dst = New(n),
                                    !.src = IF t[k].cmd = "ADDI" THEN New(n) ELSE R0]
           Use(n) == [t[n] EXCEPT !.src = RenameIn(@, r, New(n)),
                                  !.aux = RenameIn(@, r, New(n))]
           i == SplitReg(t, k, fresh)[j]
<1>0. t[j] \in Instruction /\ t[k] \in Instruction
  OBVIOUS
<1>1. \/ j + 2 \in far /\ i = Low(j + 2)
      \/ j + 1 \in far /\ up # 0 /\ i = High(j + 1)
      \/ j \in far /\ i = Use(j)
      \/ j \in {k, up} /\ i = Kill(t[j])
      \/ i = t[j]
  <2>1. i = CASE j + 2 \in far                -> Low(j + 2)
              [] j + 1 \in far /\ up # 0     -> High(j + 1)
              [] j \in far                    -> Use(j)
              [] j \in {k, up} /\ gone       -> Kill(t[j])
              [] OTHER                        -> t[j]
    BY DEF SplitReg
  <2> HIDE DEF far, up, gone, New, Low, High, Use, i
  <2> QED
    BY <2>1
<1>2. \A n \in far : New(n) # R0
  <2> TAKE n \in far
  <2>1. IsFiniteSet(far)
    BY FarUsesFinite
  <2>2. {x \in far : x < n} \in SUBSET far
    OBVIOUS
  <2>3. Cardinality({x \in far : x < n}) \in Nat
    <3> HIDE DEF far
    <3> QED
      BY <2>1, <2>2, FS_Subset, FS_CardinalityType
  <2>4. New(n) = fresh + Cardinality({x \in far : x < n})
    BY DEF Reload
  <2> QED
    BY <2>3, <2>4 DEF R0
<1>3. t[k].cmd \in {"INVALID", "ADDI"} /\ t[k].src = R0
  BY DEF IsConstant
<1>4. up # 0 => t[up] \in Instruction /\ t[up].cmd = "ADDIU"
  BY UpperFacts
<1> HIDE DEF far, up, gone, New
<1>5. \A n \in far : Low(n).cmd = "INVALID" \/ (IsReload(Low(n)) /\ Low(n).dst # R0)
  <2> TAKE n \in far
  <2>1. Low(n).cmd = t[k].cmd /\ Low(n).src = R0 /\ Low(n).dst = New(n)
    BY <1>0, <1>3 DEF Instruction
  <2> QED
    BY <1>2, <1>3, <2>1 DEF IsReload
<1>6. up # 0 => \A n \in far : IsReload(High(n)) /\ High(n).dst # R0
  <2> SUFFICES ASSUME up # 0, NEW n \in far PROVE IsReload(High(n)) /\ High(n).dst # R0
    OBVIOUS
  <2> DEFINE x == IF t[k].cmd = "ADDI" THEN New(n) ELSE R0
  <2>1. x \in {R0, New(n)}
    OBVIOUS
  <2> HIDE DEF x
  <2>2. LET h == [t[up] EXCEPT !.dst = New(n), !.src = x]
        IN  h.cmd = "ADDIU" /\ h.src = x /\ h.dst = New(n)
    BY <1>4 DEF Instruction
  <2>3. High(n) = [t[up] EXCEPT !.dst = New(n), !.src = x]
    BY DEF x
  <2> QED
    BY <1>2, <2>1, <2>2, <2>3 DEF IsReload
<1>7. Use(j).cmd = t[j].cmd /\ Use(j).label = t[j].label /\ Use(j).dst = t[j].dst
  BY <1>0 DEF Instruction
<1> HIDE DEF Low, High, Use, i
<1> QED
  BY <1>1, <1>5, <1>6, <1>7 DEF far, up, i

\* Splitting overwrites no label that a branch goes to.
LEMMA SplitRegKeeps ==
  ASSUME NEW t \in Seq(Instruction), Resolves(t), LoadsRegisters(t), Spaced(t),
         NEW k \in DOMAIN t, IsConstant(t, k), NEW fresh \in Nat \ {0}
  PROVE  LET d == SplitReg(t, k, fresh)
         IN  Resolves(d) /\ LoadsRegisters(d) /\ Spaced(d)
<1> DEFINE far == FarUses(t, k)
           up == UpperOf(t, k)
           d == SplitReg(t, k, fresh)
<1>1. d \in Seq(Instruction) /\ DOMAIN d = DOMAIN t
  BY SplitRegProgram DEF SplitReg
<1>2. \A j \in DOMAIN t :
        \/ (j + 2 \in far \/ j + 1 \in far) /\ (d[j].cmd = "INVALID" \/ (IsReload(d[j]) /\ d[j].dst # R0))
        \/ j \in far /\ d[j].cmd = t[j].cmd /\ d[j].label = t[j].label /\ d[j].dst = t[j].dst
        \/ j \in {k, up} /\ d[j] = Kill(t[j])
        \/ d[j] = t[j]
  BY SplitEntry
<1>3. \A j \in far : j \in DOMAIN t /\ ~Skipped(t[j]) /\ ~IsReload(t[j])
  BY FarUseFacts
<1>4. \A j \in DOMAIN t : j \in {k, up} => t[j].cmd \in {"INVALID", "ADDI", "ADDIU"}
  <2>1. t[k].cmd \in {"INVALID", "ADDI"}
    BY DEF IsConstant
  <2>2. up \in DOMAIN t => t[up].cmd = "ADDIU"
    <3>1. DOMAIN t = 1 .. Len(t)
      OBVIOUS
    <3>2. up \in DOMAIN t => up # 0
      BY <3>1
    <3> QED
      BY <3>2, UpperFacts
  <2> QED
    BY <2>1, <2>2
<1>5. \A j \in DOMAIN t : Kill(t[j]).cmd = "INVALID"
  BY ChangeFields
<1>6. \A j \in DOMAIN t : j + 2 \in far \/ j + 1 \in far => t[j].cmd # "LABEL"
  <2> SUFFICES ASSUME NEW j \in DOMAIN t, j + 2 \in far \/ j + 1 \in far PROVE j \notin Labels(t)
    BY DEF Labels
  <2>1. j \in Nat
    OBVIOUS
  <2>2. CASE j + 2 \in far
    <3>1. (j + 2) - 2 \notin Labels(t)
      BY <1>3, <2>2 DEF Spaced
    <3> QED
      BY <2>1, <3>1
  <2>3. CASE j + 1 \in far
    <3>1. (j + 1) - 1 \notin Labels(t)
      BY <1>3, <2>3 DEF Spaced
    <3> QED
      BY <2>1, <3>1
  <2> QED
    BY <2>2, <2>3
<1> HIDE DEF d, far, up
<1>7. \A j \in DOMAIN t :
        \/ d[j].cmd = t[j].cmd /\ d[j].label = t[j].label
        \/ t[j].cmd # "LABEL" /\ d[j].cmd # "LABEL" /\ ~IsBranch(d[j])
  <2> TAKE j \in DOMAIN t
  <2>1. CASE (j + 2 \in far \/ j + 1 \in far) /\ (d[j].cmd = "INVALID" \/ (IsReload(d[j]) /\ d[j].dst # R0))
    BY <1>6, <2>1 DEF IsReload, IsBranch, Branches
  <2>2. CASE j \in {k, up} /\ d[j] = Kill(t[j])
    BY <1>4, <1>5, <2>2 DEF IsBranch, Branches
  <2> QED
    BY <1>2, <2>1, <2>2
<1>8. Resolves(d)
  BY <1>1, <1>7, PlainChanges
<1>9. LoadsRegisters(d)
  <2> SUFFICES ASSUME NEW j \in DOMAIN t, d[j].cmd \in {"ADDI", "ADDIU"} PROVE d[j].dst # R0
    BY <1>1 DEF LoadsRegisters
  <2>1. \/ d[j].dst # R0
        \/ d[j].cmd = t[j].cmd /\ d[j].dst = t[j].dst
    BY <1>2, <1>5
  <2> QED
    BY <2>1 DEF LoadsRegisters
<1>10. \A j : j \in Labels(d) => j \in Labels(t)
  BY <1>1, <1>7 DEF Labels
<1>11. Spaced(d)
  <2> SUFFICES ASSUME NEW j \in DOMAIN t, ~Skipped(d[j]), ~IsReload(d[j])
               PROVE  j - 1 \notin Labels(d) /\ j - 2 \notin Labels(d)
    BY <1>1 DEF Spaced
  <2>1. j \in far \/ d[j] = t[j]
    BY <1>2, <1>5 DEF Skipped
  <2>2. ~Skipped(t[j]) /\ ~IsReload(t[j])
    BY <1>3, <2>1
  <2>3. j - 1 \notin Labels(t) /\ j - 2 \notin Labels(t)
    BY <2>2 DEF Spaced
  <2> QED
    BY <1>10, <2>3
<1> QED
  BY <1>8, <1>9, <1>11 DEF d

----------------------------------------------------------------------------
(* The invariant of the labels: the loads matter until the allocation, and  *)
(* again, with the spacing, while constants are split.                      *)

LabelInv ==
  /\ Resolves(code) /\ Resolves(backup) /\ LoadsRegisters(backup) /\ regNumber # 0
  /\ phase \in {"pre", "dead", "jumps", "labels", "zeroing", "unused"} => LoadsRegisters(code)
  /\ phase = "split" => LoadsRegisters(code) /\ Spaced(code)

LEMMA InitLabels ==
  ASSUME Init
  PROVE  LabelInv
<1>1. code \in Programs /\ backup = <<>> /\ phase = "pre"
  BY DEF Init
<1>2. Resolves(code) /\ LoadsRegisters(code)
  BY <1>1, ProgramsAssumption
<1>3. Resolves(backup) /\ LoadsRegisters(backup)
  BY <1>1 DEF Resolves, LoadsRegisters
<1>4. regNumber # 0
  <2>1. PICK gap \in Gaps : regNumber = MaxRegister(code) + 1 + gap
    BY DEF Init
  <2>2. gap \in Nat /\ MaxRegister(code) \in Nat
    BY <1>1, MaxRegisterNat, OptimizeAssumption
  <2> QED
    BY <2>1, <2>2
<1> QED
  BY <1>1, <1>2, <1>3, <1>4 DEF LabelInv

LEMMA EarlyPassLabels ==
  ASSUME TypeOK, LabelInv,
         \/ PrepareResources \/ DeadCodeElimination \/ EndDeadCode
         \/ OneStepJumpElimination \/ LabelCleanup \/ MergeRegisterZeroing
  PROVE  LabelInv'
<1>0. code \in Seq(Instruction) /\ regNumber \in Nat /\ Resolves(code)
  BY DEF TypeOK, LabelInv
<1>1. LoadsRegisters(code) /\ UNCHANGED backup /\ phase' \notin {"split", "ranges", "merge"}
  BY DEF LabelInv, PrepareResources, DeadCodeElimination, EndDeadCode,
         OneStepJumpElimination, LabelCleanup, MergeRegisterZeroing, rest
<1>2. regNumber' # 0
  <2>1. CASE PrepareResources
    <3> DEFINE m == MaxRegister(code) + 1
    <3>1. m \in Nat \ {0}
      BY <1>0, MaxRegisterNat
    <3>2. regNumber' = Max({regNumber, m})
      BY <2>1 DEF PrepareResources
    <3> HIDE DEF m
    <3>3. {regNumber, m} \in SUBSET Int /\ IsFiniteSet({regNumber, m}) /\ {regNumber, m} # {}
      <4>1. {regNumber, m} = {regNumber} \cup {m}
        OBVIOUS
      <4>2. IsFiniteSet({regNumber} \cup {m})
        BY FS_Singleton, FS_Union
      <4>3. IsFiniteSet({regNumber, m})
        BY <4>1, <4>2, Zenon
      <4>4. regNumber \in Int /\ m \in Int
        BY <1>0, <3>1
      <4> QED
        BY <4>3, <4>4, Zenon
    <3>4. Max({regNumber, m}) \in {regNumber, m}
      BY <3>3, MaxIsLargest
    <3> QED
      BY <3>1, <3>2, <3>4 DEF LabelInv
  <2>2. CASE ~PrepareResources
    BY <2>2 DEF LabelInv, DeadCodeElimination, EndDeadCode,
            OneStepJumpElimination, LabelCleanup, MergeRegisterZeroing
  <2> QED
    BY <2>1, <2>2
<1>3. Resolves(code') /\ LoadsRegisters(code')
  <2>1. CASE PrepareResources \/ EndDeadCode
    BY <1>0, <1>1, <2>1 DEF PrepareResources, EndDeadCode
  <2>2. CASE DeadCodeElimination
    <3>1. code' = KillAll(code, CutOff(code, at'))
      BY <2>2 DEF DeadCodeElimination
    <3>2. \A k \in CutOff(code, at') : code[k].cmd # "LABEL"
      BY DEF CutOff
    <3> QED
      BY <1>0, <1>1, <3>1, <3>2, KillAllResolves, EarlyLoads
  <2>3. CASE OneStepJumpElimination
    <3>1. code' \in {code, OneStepJumps(code)}
      BY <2>3 DEF OneStepJumpElimination
    <3> QED
      BY <1>0, <1>1, <3>1, OneStepResolves, EarlyLoads
  <2>4. CASE LabelCleanup
    <3> DEFINE c == UnusedLabels(code)
    <3>1. code' \in {code, MergeLabels(c)}
      BY <2>4 DEF LabelCleanup
    <3>2. c \in Seq(Instruction) /\ Resolves(c) /\ AllNamed(c) /\ LoadsRegisters(c)
      BY <1>0, <1>1, UnusedLabelsProgram, UnusedLabelsResolves, EarlyLoads
    <3> HIDE DEF c
    <3>3. Resolves(MergeLabels(c)) /\ LoadsRegisters(MergeLabels(c))
      BY <3>2, MergeLabelsResolves, EarlyLoads
    <3> QED
      BY <1>0, <1>1, <3>1, <3>3
  <2>5. CASE MergeRegisterZeroing
    <3>1. code' \in {code, RegisterZeroing(code)}
      BY <2>5 DEF MergeRegisterZeroing
    <3> QED
      BY <1>0, <1>1, <3>1, ZeroingResolves, EarlyLoads
  <2> QED
    BY <2>1, <2>2, <2>3, <2>4, <2>5
<1> QED
  BY <1>1, <1>2, <1>3 DEF LabelInv, Resolves, LoadsRegisters, Labels

LEMMA LatePassLabels ==
  ASSUME TypeOK, LabelInv,
         \/ RemoveUnusedReg \/ EndUnusedRegs \/ BuildRanges \/ Merge \/ NextRegister
         \/ EndAllocation \/ OutOfRegisters \/ ReportUserMessages
  PROVE  LabelInv'
<1>0. /\ code \in Seq(Instruction) /\ Resolves(code) /\ at \in Nat
      /\ \A k \in DOMAIN code : code[k] \in Instruction
  BY DEF TypeOK, LabelInv
<1>1. CASE RemoveUnusedReg
  <2> DEFINE k == Min(NewWrites)
  <2>1. k \in NewWrites
    <3>1. NewWrites \in SUBSET Nat /\ NewWrites # {}
      BY <1>0, <1>1 DEF NewWrites, RemoveUnusedReg
    <3> HIDE DEF k
    <3> QED
      BY <3>1, MinIsLeast DEF k
  <2>2. /\ code' = WriteOnly(code, k, Target(code[k])) /\ phase = "unused"
        /\ UNCHANGED <<phase, regNumber, backup>>
    BY <1>1 DEF RemoveUnusedReg, rest
  <2> HIDE DEF k
  <2>3. k \in DOMAIN code /\ WritesDest(code[k])
    BY <2>1 DEF NewWrites
  <2>4. Target(code[k]) \in Int
    BY <1>0, <2>3, InstructionKept
  <2>5. Resolves(code') /\ LoadsRegisters(code')
    BY <1>0, <2>2, <2>3, <2>4, WriteOnlyResolves, WriteOnlyLoads DEF LabelInv
  <2> QED
    BY <2>2, <2>5 DEF LabelInv, Resolves, LoadsRegisters, Labels
<1>2. CASE EndUnusedRegs
  BY <1>2 DEF EndUnusedRegs, LabelInv, Resolves, LoadsRegisters, Labels
<1>3. CASE Merge
  <2>1. PICK p, r : code' = [k \in DOMAIN code |-> IF k \in r THEN Rename(code[k], p, vreg) ELSE code[k]]
    BY <1>3 DEF Merge
  <2>2. \A k \in DOMAIN code : code'[k].cmd = code[k].cmd /\ code'[k].label = code[k].label
    BY <1>0, <2>1, ChangeFields
  <2>3. DOMAIN code' = DOMAIN code
    BY <2>1
  <2>4. Resolves(code')
    <3> DEFINE d == code'
    <3>1. DOMAIN d = DOMAIN code /\ \A k \in DOMAIN code : d[k].cmd = code[k].cmd /\ d[k].label = code[k].label
      BY <2>2, <2>3
    <3> HIDE DEF d
    <3>2. Labels(d) = Labels(code)
      BY <3>1 DEF Labels
    <3>3. \A k \in DOMAIN d : {j \in Labels(d) : d[j].label = d[k].label}
                                = {j \in Labels(code) : code[j].label = code[k].label}
      BY <3>1, <3>2 DEF Labels
    <3>4. Resolves(d)
      BY <1>0, <3>1, <3>3 DEF Resolves, IsBranch
    <3> QED
      BY <3>4 DEF d
  <2>5. phase' = "merge" /\ UNCHANGED <<regNumber, backup>>
    BY <1>3 DEF Merge, rest
  <2> QED
    BY <2>4, <2>5 DEF LabelInv, Resolves, LoadsRegisters, Labels
<1>4. CASE BuildRanges \/ NextRegister \/ EndAllocation \/ OutOfRegisters
  <2>1. UNCHANGED <<code, regNumber, backup>> /\ phase' \in {"merge", "report", "failed"}
    BY <1>4 DEF BuildRanges, NextRegister, EndAllocation, OutOfRegisters, rest
  <2> QED
    BY <2>1 DEF LabelInv, Resolves, LoadsRegisters, Labels
<1>5. CASE ReportUserMessages
  <2> DEFINE K == {k \in DOMAIN code : code[k].cmd \in Messages /\ flags # {}}
  <2>1. code' = KillAll(code, K)
    BY <1>5 DEF ReportUserMessages, KillAll
  <2>2. \A k \in K : code[k].cmd # "LABEL"
    BY DEF Messages
  <2> HIDE DEF K
  <2>3. Resolves(code')
    BY <1>0, <2>1, <2>2, KillAllResolves
  <2>4. phase' = "done" /\ UNCHANGED <<regNumber, backup>>
    BY <1>5 DEF ReportUserMessages
  <2> QED
    BY <2>3, <2>4 DEF LabelInv, Resolves, LoadsRegisters, Labels
<1> QED
  BY <1>1, <1>2, <1>3, <1>4, <1>5

LEMMA SplitLabels ==
  ASSUME TypeOK, LabelInv, SplitConstRegisters \/ SplitNext \/ StripBarriers
  PROVE  LabelInv'
<1>0. /\ code \in Seq(Instruction) /\ backup \in Seq(Instruction) /\ regNumber \in Nat \ {0} /\ at \in Nat
      /\ Resolves(code) /\ Resolves(backup) /\ LoadsRegisters(backup)
  BY DEF TypeOK, LabelInv
<1>1. CASE SplitConstRegisters
  <2>1. code' = Barriered(backup) /\ phase' = "split" /\ UNCHANGED <<regNumber, backup>>
    BY <1>1 DEF SplitConstRegisters
  <2>2. Resolves(code') /\ LoadsRegisters(code') /\ Spaced(code')
    BY <1>0, <2>1, BarrieredFacts
  <2> QED
    BY <1>0, <2>1, <2>2 DEF LabelInv, Resolves, LoadsRegisters, Labels
<1>2. CASE SplitNext
  <2> DEFINE k == Min(Constants)
  <2>1. k \in Constants
    <3>1. Constants \in SUBSET Nat /\ Constants # {}
      BY <1>0, <1>2 DEF Constants, SplitNext
    <3> HIDE DEF k
    <3> QED
      BY <3>1, MinIsLeast DEF k
  <2>2. /\ code' = SplitReg(code, k, regNumber)
        /\ regNumber' = regNumber + Cardinality(FarUses(code, k))
        /\ phase = "split" /\ UNCHANGED <<phase, backup>>
    BY <1>2 DEF SplitNext, rest
  <2> HIDE DEF k
  <2>3. k \in DOMAIN code /\ IsConstant(code, k)
    BY <2>1 DEF Constants
  <2>4. Resolves(code') /\ LoadsRegisters(code') /\ Spaced(code')
    BY <1>0, <2>2, <2>3, SplitRegKeeps DEF LabelInv
  <2>5. regNumber' # 0
    <3>1. Cardinality(FarUses(code, k)) \in Nat
      BY <1>0, <2>3, FarUsesFinite
    <3> QED
      BY <1>0, <2>2, <3>1
  <2> QED
    BY <1>0, <2>2, <2>4, <2>5 DEF LabelInv, Resolves, LoadsRegisters, Labels
<1>3. CASE StripBarriers
  <2>1. code' = Stripped(code) /\ phase' = "ranges" /\ UNCHANGED <<regNumber, backup>>
    BY <1>3 DEF StripBarriers, rest
  <2>2. Resolves(code')
    BY <1>0, <2>1, StrippedResolves
  <2> QED
    BY <1>0, <2>1, <2>2 DEF LabelInv, Resolves, LoadsRegisters, Labels
<1> QED
  BY <1>1, <1>2, <1>3

\* Whatever the passes drop, merge, move or overwrite, every branch that is
\* left has exactly one label to go to, if it had in the program the front end
\* handed over.
THEOREM LabelsStay == Spec => []LabelsResolve
<1>1. Init => LabelInv
  BY InitLabels
<1>2. TypeOK /\ LabelInv /\ [Optimize]_opVars => LabelInv'
  <2> SUFFICES ASSUME TypeOK, LabelInv, [Optimize]_opVars PROVE LabelInv'
    OBVIOUS
  <2>1. CASE UNCHANGED opVars
    BY <2>1 DEF opVars, LabelInv, Resolves, LoadsRegisters, Labels, Spaced
  <2> QED
    BY <2>1, EarlyPassLabels, LatePassLabels, SplitLabels DEF Optimize
<1>3. LabelInv => LabelsResolve
  BY DEF LabelInv, LabelsResolve
<1> QED
  BY <1>1, <1>2, <1>3, TypeCorrect, PTL DEF Spec
=============================================================================
