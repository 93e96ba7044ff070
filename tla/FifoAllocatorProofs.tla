------------------------ MODULE FifoAllocatorProofs ------------------------
(* For any memory, sizes and number of waves that meet the assumptions on   *)
(* alignments and widths: until the search for a reloaded wave comes around *)
(* to address 0, which it does not while addresses are left, no byte is     *)
(* given twice or lost; a reloaded wave spares the recorded lines of the    *)
(* fixed ones, a wave that stays keeps its slots for itself up to the end   *)
(* of the memory, what follows goes behind the highest wave, and a refusal  *)
(* has a reason.                                                            *)
EXTENDS FifoAllocator, NatFacts, TLAPS

----------------------------------------------------------------------------
(* Addresses.                                                              *)

LEMMA MemoryType == Memory \in Nat \ {0} /\ Memory = Line * Lines
<1>1. Line \in Nat \ {0} /\ Lines \in Nat \ {0}
  BY FifoAssumption
<1> QED
  BY <1>1 DEF Memory

\* An aligned address is a multiple of the alignment and not below.
LEMMA AlignUpFacts ==
  ASSUME NEW a \in Nat, NEW q \in Nat \ {0}, (q % Grain) = 0
  PROVE  /\ AlignUp(a, q) \in Nat /\ a <= AlignUp(a, q)
         /\ (AlignUp(a, q) % Grain) = 0
<1> DEFINE n == a + q - 1
           d == n \div q
<1>1. n \in Nat /\ Grain \in Nat \ {0}
  BY FifoAssumption
<1>2. d \in Nat /\ (n % q) \in 0 .. q - 1 /\ n = (q * d) + (n % q)
  BY <1>1, DivMod
<1>3. AlignUp(a, q) = d * q
  BY DEF AlignUp
<1> HIDE DEF d
<1>4. d * q = q * d /\ q * d \in Nat
  BY <1>2
<1>5. q * d >= a
  BY <1>2, <1>4
<1>6. ((q * d) % Grain) = 0
  BY <1>1, <1>2, ProductMod
<1> QED
  BY <1>3, <1>4, <1>5, <1>6

\* An address has a slot.
LEMMA SlotType ==
  ASSUME NEW a \in Nat
  PROVE  Slot(a) \in Slots
<1> DEFINE r == a % Memory
           d == r \div Line
<1>1. Line \in Nat \ {0} /\ Lines \in Nat \ {0} /\ Memory \in Nat \ {0}
  BY FifoAssumption, MemoryType
<1>2. r \in Nat /\ r < Memory
  <2>1. r \in 0 .. Memory - 1
    BY <1>1, DivMod
  <2> QED
    BY <1>1, <2>1
<1> HIDE DEF r
<1>3. d \in Nat /\ (r % Line) \in Nat /\ r = (Line * d) + (r % Line)
  BY <1>1, <1>2, DivMod
<1> HIDE DEF d
<1>4. Line * d < Line * Lines
  BY <1>1, <1>2, <1>3, MemoryType
<1>5. d < Lines
  BY <1>1, <1>3, <1>4
<1> QED
  BY <1>1, <1>3, <1>5 DEF Slot, Slots, d, r

\* The loops count every line that begins below the end.
LEMMA WalkedFacts ==
  ASSUME NEW a \in Nat, NEW n \in Nat, NEW e \in Nat, NEW f \in Nat, e <= f
  PROVE  Walked(a, n, e) \subseteq Nat /\ LinesFrom(a, n, e) \subseteq Walked(a, n, f)
<1>1. Line \in Nat
  BY FifoAssumption
<1>2. \A i \in 0 .. n - 1 : a + (i * Line) \in Nat
  BY <1>1
<1>3. Walked(a, n, e) \subseteq Nat
  BY <1>2 DEF Walked
<1>4. ASSUME NEW l \in LinesFrom(a, n, e) PROVE l \in Walked(a, n, f)
  <2>1. l \in Nat /\ l < e
    BY <1>2 DEF LinesFrom
  <2> QED
    BY <2>1 DEF LinesFrom, Walked
<1> QED
  BY <1>3, <1>4

\* The lines of a wave are addresses, and more room does not lose one.
LEMMA LinesFromFacts ==
  ASSUME NEW a \in Nat, NEW n \in Nat, NEW e \in Nat, NEW f \in Nat, e <= f
  PROVE  LinesFrom(a, n, e) \subseteq Nat /\ LinesFrom(a, n, e) \subseteq LinesFrom(a, n, f)
<1>1. Line \in Nat
  BY FifoAssumption
<1>2. \A i \in 0 .. n - 1 : a + (i * Line) \in Nat
  BY <1>1
<1>3. LinesFrom(a, n, e) \subseteq Nat
  BY <1>2 DEF LinesFrom
<1>4. ASSUME NEW l \in LinesFrom(a, n, e) PROVE l \in LinesFrom(a, n, f)
  <2>1. l \in Nat /\ l < e
    BY <1>3 DEF LinesFrom
  <2> QED
    BY <2>1 DEF LinesFrom
<1> QED
  BY <1>3, <1>4

----------------------------------------------------------------------------
(* The invariant of the memory: free blocks and waves tile it.             *)

BlocksInv ==
  /\ \A b \in freeBlocks : /\ b \in Block /\ Base <= b.start /\ b.start < b.end /\ b.end <= Limit
                           /\ (b.start % Grain) = 0
  /\ \A b, c \in freeBlocks : b # c => Apart(b, c)

WavesInv == \A p \in placed : p.start \in Nat /\ p.end \in Nat /\ Base <= p.start /\ p.start < p.end /\ p.end < Limit

\* The highest block reaches the end of the addresses and begins behind a
\* wave; before the first allocation there is no block at all.
TailInv ==
  /\ freeBlocks = {} => placed = {}
  /\ freeBlocks # {} => \E b \in freeBlocks : b.end = Limit /\ (b.start = Base \/ \E p \in placed : p.end = b.start)

MemoryInv == BlocksInv /\ WavesInv /\ TailInv /\ NoOverlap /\ NothingLost

\* A block that a wave can be cut from: a free block, or all addresses
\* before the first allocation.
LEMMA CandidateFacts ==
  ASSUME BlocksInv, TailInv, NEW b \in Candidates
  PROVE  \/ freeBlocks # {} /\ b \in freeBlocks
         \/ freeBlocks = {} /\ placed = {} /\ b = [start |-> Base, end |-> Limit]
<1>1. CASE freeBlocks = {}
  BY <1>1 DEF Candidates, Tail, TailInv
<1>2. CASE freeBlocks # {}
  <2>1. PICK t \in freeBlocks : t.end = Limit
    BY <1>2 DEF TailInv
  <2>2. \A f \in Ends : f <= Limit
    BY DEF Ends, BlocksInv
  <2>3. Limit \in Ends
    BY <2>1 DEF Ends
  <2>4. \A e \in Ends : (\A f \in Ends : f <= e) => e = Limit
    <3> TAKE e \in Ends
    <3> HAVE \A f \in Ends : f <= e
    <3>1. e \in Nat /\ Limit \in Nat
      BY FifoAssumption DEF Ends, BlocksInv, Block
    <3>2. e <= Limit /\ Limit <= e
      BY <2>2, <2>3
    <3> QED
      BY <3>1, <3>2
  <2>5. Tail.start = Limit /\ Tail.end = Limit
    BY <1>2, <2>2, <2>3, <2>4, Zenon DEF Tail
  <2>6. ~(Tail.start < Tail.end)
    BY <2>5, FifoAssumption
  <2> QED
    BY <1>2, <2>6 DEF Candidates
<1> QED
  BY <1>1, <1>2

\* A block as it is before it is cut.
LEMMA CandidateBlock ==
  ASSUME MemoryInv, NEW b \in Candidates
  PROVE  /\ b \in Block /\ Base <= b.start /\ b.start < b.end /\ b.end <= Limit
         /\ (b.start % Grain) = 0
         /\ \A p \in placed : Apart(p, b)
         /\ \A c \in freeBlocks \ {b} : Apart(b, c)
<1>1. CASE b \in freeBlocks
  BY <1>1 DEF MemoryInv, BlocksInv, NoOverlap
<1>2. CASE freeBlocks = {} /\ placed = {} /\ b = [start |-> Base, end |-> Limit]
  <2>1. Base \in Nat /\ Limit \in Nat /\ Base < Limit /\ Grain \in Nat \ {0} /\ Line \in Nat \ {0}
    BY FifoAssumption
  <2>2. (Base % Grain) = 0
    <3>1. Base = Line * (Base \div Line) /\ Base \div Line \in Nat
      BY <2>1, DivMod, GrainAssumption
    <3>2. ((Line * (Base \div Line)) % Grain) = 0
      BY <2>1, <3>1, ProductMod, GrainAssumption
    <3> QED
      BY <3>1, <3>2
  <2> QED
    BY <1>2, <2>1, <2>2 DEF Block
<1> QED
  BY <1>1, <1>2, CandidateFacts DEF MemoryInv
\* Cutting a wave out of a block keeps the tiling.
LEMMA TakeKeepsMemory ==
  ASSUME MemoryInv, NEW o, NEW s \in Sizes, NEW kind,
         o.block \in Candidates, o.start \in Nat, (o.start % Grain) = 0,
         o.block.start <= o.start, o.start + s <= o.block.end,
         Take(o, s, kind)
  PROVE  MemoryInv'
<1> DEFINE b == o.block
           a == o.start
           e == a + s
           w == [start |-> a, end |-> e, kind |-> kind, crosses |-> o.claim # {}]
           L == Leftovers(b, a, e)
<1>1. /\ b \in Block /\ Base <= b.start /\ b.start < b.end /\ b.end <= Limit /\ (b.start % Grain) = 0
      /\ \A p \in placed : Apart(p, b)
      /\ \A c \in freeBlocks \ {b} : Apart(b, c)
  BY CandidateBlock
<1>2. /\ s \in Nat \ {0} /\ Base \in Nat /\ Limit \in Nat /\ Grain \in Nat \ {0}
      /\ (s % Grain) = 0 /\ ~((Limit % Grain) = 0)
  BY FifoAssumption, GrainAssumption
<1>3. e \in Nat /\ a < e /\ (e % Grain) = 0
  BY <1>2, SumMod
<1>4. a \in Nat /\ b.start \in Nat /\ b.end \in Nat /\ b.start <= a /\ e <= b.end /\ e < Limit
  <2>1. b.start \in Nat /\ b.end \in Nat
    BY <1>1 DEF Block
  <2>2. e # Limit
    BY <1>2, <1>3
  <2>3. a \in Nat /\ b.start <= a /\ e <= b.end
    OBVIOUS
  <2>4. e < Limit
    <3>1. b.end <= Limit
      BY <1>1
    <3> HIDE DEF a, b, e
    <3> QED
      BY <1>2, <1>3, <2>1, <2>2, <2>3, <3>1
  <2> QED
    BY <2>1, <2>3, <2>4
<1>5. freeBlocks' = (freeBlocks \ {b}) \cup L /\ placed' = placed \cup {w}
  BY DEF Take
<1>6. w.start = a /\ w.end = e
  OBVIOUS
<1>7. \A r \in L : /\ r \in Block /\ b.start <= r.start /\ r.start < r.end /\ r.end <= b.end
                   /\ (r.start % Grain) = 0 /\ (r.end <= a \/ e <= r.start)
  BY <1>1, <1>3, <1>4 DEF L, Leftovers, Block
<1>8. /\ b.start < a => [start |-> b.start, end |-> a] \in L
      /\ e < b.end => [start |-> e, end |-> b.end] \in L
      /\ \A r, q \in L : r # q => Apart(r, q)
  <2>1. b.start < a => [start |-> b.start, end |-> a] \in L
    BY DEF L, Leftovers
  <2>2. e < b.end => [start |-> e, end |-> b.end] \in L
    BY DEF L, Leftovers
  <2>3. \A r, q \in L : r # q => Apart(r, q)
    BY <1>3, <1>4 DEF L, Leftovers, Apart
  <2> QED
    BY <2>1, <2>2, <2>3
<1> HIDE DEF b, a, e, w, L
<1>9. BlocksInv'
  <2>1. \A r \in freeBlocks' : /\ r \in Block /\ Base <= r.start /\ r.start < r.end /\ r.end <= Limit
                               /\ (r.start % Grain) = 0
    <3> SUFFICES ASSUME NEW r \in L
                 PROVE  r \in Block /\ Base <= r.start /\ r.start < r.end /\ r.end <= Limit /\ (r.start % Grain) = 0
      BY <1>5 DEF MemoryInv, BlocksInv
    <3>1. r \in Block /\ b.start <= r.start /\ r.start < r.end /\ r.end <= b.end /\ (r.start % Grain) = 0
      BY <1>7
    <3>2. r.start \in Nat /\ r.end \in Nat
      BY <3>1 DEF Block
    <3> QED
      BY <1>1, <1>2, <1>4, <3>1, <3>2
  <2>2. \A c \in freeBlocks \ {b}, r \in L : Apart(c, r)
    <3> TAKE c \in freeBlocks \ {b}, r \in L
    <3>1. r.start \in Nat /\ r.end \in Nat /\ b.start <= r.start /\ r.end <= b.end
      BY <1>7 DEF Block
    <3>2. Apart(b, c) /\ c.start \in Nat /\ c.end \in Nat
      BY <1>1 DEF MemoryInv, BlocksInv, Block
    <3> QED
      BY <1>4, <3>1, <3>2 DEF Apart
  <2>3. \A c, r \in freeBlocks' : c # r => Apart(c, r)
    BY <1>5, <1>8, <2>2 DEF MemoryInv, BlocksInv, Apart
  <2> QED
    BY <2>1, <2>3 DEF BlocksInv
<1>10. WavesInv'
  <2>1. w.start \in Nat /\ w.end \in Nat /\ Base <= w.start /\ w.start < w.end /\ w.end < Limit
    BY <1>1, <1>2, <1>3, <1>4, <1>6
  <2> QED
    BY <1>5, <2>1 DEF MemoryInv, WavesInv
<1>11. TailInv'
  <2>1. \E c \in freeBlocks' : c.end = Limit /\ (c.start = Base \/ \E p \in placed' : p.end = c.start)
    <3>1. CASE b.end = Limit
      <4> DEFINE r == [start |-> e, end |-> b.end]
      <4>1. r \in L
        BY <1>4, <1>8, <3>1
      <4>2. r.end = Limit /\ r.start = w.end /\ w \in placed' /\ r \in freeBlocks'
        BY <1>5, <1>6, <3>1, <4>1
      <4> QED
        BY <4>2
    <3>2. CASE b.end # Limit
      <4>1. freeBlocks # {}
        BY <3>2, CandidateFacts DEF MemoryInv, b
      <4>2. PICK t \in freeBlocks : t.end = Limit /\ (t.start = Base \/ \E p \in placed : p.end = t.start)
        BY <4>1 DEF MemoryInv, TailInv
      <4>3. t \in freeBlocks'
        BY <1>5, <3>2, <4>2
      <4> QED
        BY <1>5, <4>2, <4>3
    <3> QED
      BY <3>1, <3>2
  <2> QED
    BY <2>1 DEF TailInv
<1>12. NoOverlap'
  <2>1. \A p \in placed : Apart(p, w) /\ Apart(w, p)
    <3> TAKE p \in placed
    <3>1. Apart(p, b) /\ p.start \in Nat /\ p.end \in Nat
      BY <1>1 DEF MemoryInv, WavesInv
    <3> QED
      BY <1>3, <1>4, <1>6, <3>1 DEF Apart
  <2>2. \A p \in placed, r \in L : Apart(p, r)
    <3> TAKE p \in placed, r \in L
    <3>1. Apart(p, b) /\ p.start \in Nat /\ p.end \in Nat
      BY <1>1 DEF MemoryInv, WavesInv
    <3>2. r.start \in Nat /\ r.end \in Nat /\ b.start <= r.start /\ r.end <= b.end
      BY <1>7 DEF Block
    <3> QED
      BY <1>4, <3>1, <3>2 DEF Apart
  <2>3. \A r \in L : Apart(w, r)
    BY <1>6, <1>7 DEF Apart
  <2>4. \A c \in freeBlocks \ {b} : Apart(w, c)
    <3> TAKE c \in freeBlocks \ {b}
    <3>1. Apart(b, c) /\ c.start \in Nat /\ c.end \in Nat
      BY <1>1 DEF MemoryInv, BlocksInv, Block
    <3> QED
      BY <1>3, <1>4, <1>6, <3>1 DEF Apart
  <2>5. \A p, q \in placed' : p # q => Apart(p, q)
    BY <1>5, <2>1 DEF MemoryInv, NoOverlap
  <2>6. \A p \in placed', c \in freeBlocks' : Apart(p, c)
    BY <1>5, <2>2, <2>3, <2>4 DEF MemoryInv, NoOverlap
  <2> QED
    BY <2>5, <2>6 DEF NoOverlap
<1>13. NothingLost'
  <2> SUFFICES ASSUME NEW x \in Base .. Limit - 1
               PROVE  \E p \in placed' \cup freeBlocks' : p.start <= x /\ x < p.end
    BY DEF NothingLost
  <2>0. x \in Nat
    BY <1>2
  <2>1. \E p \in placed \cup freeBlocks \cup {b} : p.start <= x /\ x < p.end
    <3>1. CASE freeBlocks # {}
      BY <3>1 DEF MemoryInv, NothingLost
    <3>2. CASE b = [start |-> Base, end |-> Limit]
      BY <1>2, <3>2
    <3> QED
      BY <3>1, <3>2, CandidateFacts DEF MemoryInv, b
  <2>2. CASE \E p \in placed \cup (freeBlocks \ {b}) : p.start <= x /\ x < p.end
    BY <1>5, <2>2
  <2>3. CASE b.start <= x /\ x < b.end
    <3>1. CASE x < a
      <4>1. [start |-> b.start, end |-> a] \in freeBlocks'
        BY <1>4, <1>5, <1>8, <2>0, <2>3, <3>1
      <4> QED
        BY <2>3, <3>1, <4>1
    <3>2. CASE a <= x /\ x < e
      <4>1. w \in placed'
        BY <1>5
      <4> QED
        BY <1>6, <3>2, <4>1
    <3>3. CASE e <= x
      <4>1. [start |-> e, end |-> b.end] \in freeBlocks'
        BY <1>3, <1>4, <1>5, <1>8, <2>0, <2>3, <3>3
      <4> QED
        BY <2>3, <3>3, <4>1
    <3> QED
      BY <1>3, <1>4, <2>0, <3>1, <3>2, <3>3
  <2> QED
    BY <2>1, <2>2, <2>3
<1> QED
  BY <1>9, <1>10, <1>11, <1>12, <1>13 DEF MemoryInv
----------------------------------------------------------------------------
(* The places the three searches offer.                                    *)

\* A place lies in its block, on a grain, and claims slots from its own on.
IsPlace(o, s) ==
  /\ o.block \in Candidates /\ o.start \in Nat /\ (o.start % Grain) = 0
  /\ o.block.start <= o.start /\ o.start + s <= o.block.end
  /\ \A x \in o.claim : x \in Nat /\ Slot(o.start) <= x

LEMMA FastPlaces ==
  ASSUME MemoryInv, NEW s \in Sizes, NEW o \in Fast(s)
  PROVE  IsPlace(o, s)
<1>1. PICK b \in Candidates : o = [block |-> b, start |-> AlignUp(b.start, Grain), claim |-> {}]
  BY DEF Fast
<1>2. b.start \in Nat
  BY CandidateBlock DEF Block
<1>3. Grain \in Nat \ {0} /\ (Grain % Grain) = 0
  BY FifoAssumption
<1>4. AlignUp(b.start, Grain) \in Nat /\ b.start <= AlignUp(b.start, Grain) /\ (AlignUp(b.start, Grain) % Grain) = 0
  BY <1>2, <1>3, AlignUpFacts
<1>5. o.start + s <= o.block.end
  BY DEF Fast, JoinsLine
<1> QED
  BY <1>1, <1>4, <1>5 DEF IsPlace

\* Both alignments are multiples of the grain.
LEMMA AlignmentType ==
  ASSUME NEW s \in Sizes
  PROVE  Alignment(s) \in Nat \ {0} /\ (Alignment(s) % Grain) = 0
<1>1. Line \in Nat \ {0} /\ FixedLines \in Nat \ {0} /\ Grain \in Nat \ {0} /\ (Line % Grain) = 0
  BY FifoAssumption, GrainAssumption
<1>2. Line * FixedLines \in Nat \ {0} /\ Line * FixedLines = FixedLines * Line
  BY <1>1
<1>3. ((Line * FixedLines) % Grain) = 0
  BY <1>1, ProductMod
<1> QED
  BY <1>1, <1>2, <1>3 DEF Alignment

LEMMA GeneralPlaces ==
  ASSUME MemoryInv, NEW s \in Sizes, NEW o \in General(s)
  PROVE  IsPlace(o, s)
<1>1. PICK b \in Candidates : o = [block |-> b, start |-> AlignUp(b.start, Alignment(s)),
                                  claim |-> Claim(AlignUp(b.start, Alignment(s)), s)]
  BY DEF General
<1>2. b.start \in Nat
  BY CandidateBlock DEF Block
<1>3. o.start \in Nat /\ b.start <= o.start /\ (o.start % Grain) = 0
  BY <1>1, <1>2, AlignmentType, AlignUpFacts
<1>4. o.start + s <= o.block.end
  BY DEF General
<1>5. \A x \in o.claim : x \in Nat /\ Slot(o.start) <= x
  <2>1. Slot(o.start) \in Nat
    BY <1>3, SlotType DEF Slots
  <2>2. o.claim = Claim(o.start, s)
    BY <1>1
  <2>3. PICK z : o.claim = Slot(o.start) .. z
    BY <2>2 DEF Claim
  <2> QED
    BY <2>1, <2>3
<1> QED
  BY <1>1, <1>3, <1>4, <1>5 DEF IsPlace

\* Where the loop of the third search looks: starts of lines that have room.
LEMMA StepFacts ==
  ASSUME NEW s \in Sizes, NEW b, b.end \in Nat, NEW from \in Nat, NEW a \in Steps(b, s, from)
  PROVE  a \in Nat /\ (a % Grain) = 0 /\ (a % Line) = 0 /\ from <= a /\ a + s <= b.end
<1>2. b.end \in Nat /\ Line \in Nat \ {0} /\ Grain \in Nat \ {0} /\ (Line % Grain) = 0
  BY FifoAssumption, GrainAssumption
<1>3. PICK k \in 0 .. b.end \div Line : a = Line * k
  BY DEF Steps
<1>4. b.end \div Line \in Nat
  BY <1>2, DivMod
<1>5. k \in Nat
  BY <1>4
<1>6. a \in Nat /\ (a % Grain) = 0 /\ (a % Line) = 0
  <2>1. ((Line * k) % Grain) = 0
    BY <1>2, <1>5, ProductMod
  <2>2. Line * k \in Nat
    BY <1>2, <1>5
  <2>3. ((Line * k) % Line) = 0
    BY <1>2, <1>5, MultipleMod
  <2> QED
    BY <1>3, <2>1, <2>2, <2>3
<1>7. from <= a /\ a + s <= b.end
  BY DEF Steps
<1> QED
  BY <1>6, <1>7

\* What the third search offers spares the recorded slots; it lies in its
\* block unless it was found around address 0.
LEMMA ReloadPlaces ==
  ASSUME MemoryInv, NEW s \in Sizes, NEW o \in Reload(s)
  PROVE  /\ o.block \in Candidates /\ o.start \in Nat /\ (o.start % Grain) = 0
         /\ o.start + s <= o.block.end /\ o.claim = {} /\ Spares(o.start, o.block.end)
         /\ o.block.start <= o.start => IsPlace(o, s)
<1>0. PICK b \in Candidates : o \in {[block |-> b, start |-> c, claim |-> {}] : c \in FoundIn(b, s)}
  BY DEF Reload
<1>1. PICK a \in FoundIn(b, s) : o = [block |-> b, start |-> a, claim |-> {}]
  BY <1>0
<1>2. b.end \in Nat /\ b.start \in Nat /\ 0 \in Nat
  BY CandidateBlock DEF Block
<1>3. a \in Found(b, s, b.start) \/ a \in Found(b, s, 0)
  BY DEF FoundIn
<1>4. PICK from \in Nat : a \in Steps(b, s, from) /\ Spares(a, b.end)
  BY <1>2, <1>3 DEF Found
<1>5. a \in Nat /\ (a % Grain) = 0 /\ a + s <= b.end
  BY <1>2, <1>4, StepFacts
<1> QED
  BY <1>1, <1>4, <1>5 DEF IsPlace

\* The front of the deque is one of the places.
LEMMA FirstIsPlace ==
  ASSUME NEW places, places # {}, \A o \in places : o.start \in Nat /\ o.block.start \in Nat
  PROVE  First(places) \in places
<1> DEFINE fronts == {o.block.start : o \in places}
<1>1. fronts \in SUBSET Nat /\ fronts # {}
  OBVIOUS
<1>2. PICK f \in fronts : \A c \in fronts : f <= c
  BY <1>1, LeastElement
<1> DEFINE starts == {o.start : o \in {p \in places : p.block.start = f}}
<1>3. starts \in SUBSET Nat /\ starts # {}
  BY <1>2
<1>4. PICK a \in starts : \A c \in starts : a <= c
  BY <1>3, LeastElement
<1>5. PICK o \in places : o.block.start = f /\ o.start = a
  BY <1>4
<1>6. ASSUME NEW p \in places
      PROVE  o.block.start < p.block.start \/ (o.block.start = p.block.start /\ o.start <= p.start)
  <2>1. f \in Nat /\ p.block.start \in Nat /\ f <= p.block.start
    BY <1>2
  <2>2. CASE p.block.start = f
    BY <1>4, <1>5, <2>2
  <2> QED
    BY <1>5, <2>1, <2>2
<1> QED
  BY <1>6 DEF First

LEMMA DirectPlace ==
  ASSUME MemoryInv, NEW s \in Sizes, Direct(s) # {}
  PROVE  IsPlace(First(Direct(s)), s)
<1>1. \A o \in Direct(s) : IsPlace(o, s)
  BY FastPlaces, GeneralPlaces DEF Direct
<1>2. \A o \in Direct(s) : o.start \in Nat /\ o.block.start \in Nat
  BY <1>1, CandidateBlock DEF IsPlace, Block
<1>3. First(Direct(s)) \in Direct(s)
  BY <1>2, FirstIsPlace
<1> QED
  BY <1>1, <1>3

LEMMA ReloadPlace ==
  ASSUME MemoryInv, NEW s \in Sizes, Reload(s) # {}
  PROVE  First(Reload(s)) \in Reload(s)
<1>1. \A o \in Reload(s) : o.start \in Nat /\ o.block.start \in Nat
  BY ReloadPlaces, CandidateBlock DEF Block
<1> QED
  BY <1>1, FirstIsPlace
----------------------------------------------------------------------------
(* The inductive invariant.                                                *)

\* Every recorded line is in the set, and no checked line of a reloaded wave;
\* while the set still grows nothing has been reloaded.
RecordedInv ==
  /\ \A q \in placed : q.kind = "fixed" => \A m \in LinesFrom(q.start, FixedLines, q.end) : Slot(m) \in recorded
  /\ \A p \in placed : p.kind = "reloaded" => \A l \in LinesFrom(p.start, CheckLines, p.end) : Slot(l) \notin recorded
  /\ pass = "fixed" => \A p \in placed : p.kind # "reloaded"

BaseInv == pass # "done" => addressBase = Base

Inv == TypeOK /\ MemoryInv /\ RecordedInv /\ BaseInv /\ BehindAllWaves

\* What is left of it when a wave has been placed around address 0.
WholeInv == TypeOK /\ RecordedInv /\ BehindAllWaves /\ (pass # "wrapped" => Inv)

\* One allocation keeps the types of what it changes and adds one wave.
LEMMA TakeFacts ==
  ASSUME Inv, NEW s \in Sizes, NEW o, IsPlace(o, s),
         NEW kind \in {"fixed", "direct", "reloaded"}, Take(o, s, kind)
  PROVE  /\ MemoryInv'
         /\ freeBlocks' \subseteq Block
         /\ owner' \in [Slots -> Nat \cup {Unused}]
         /\ placed' \subseteq [start : Nat, end : Nat, kind : {"fixed", "direct", "reloaded"}, crosses : BOOLEAN]
         /\ \E w : /\ placed' = placed \cup {w}
                   /\ w.start = o.start /\ w.end = o.start + s /\ w.kind = kind
<1>1. s \in Nat /\ o.start \in Nat /\ Line \in Nat
  BY FifoAssumption DEF IsPlace
<1>2. MemoryInv'
  BY TakeKeepsMemory DEF Inv, IsPlace
<1>3. freeBlocks' \subseteq Block
  BY <1>2 DEF MemoryInv, BlocksInv
<1>4. owner' \in [Slots -> Nat \cup {Unused}]
  <2>1. \A x \in o.claim : o.start + ((x - Slot(o.start)) * Line) \in Nat
    <3> TAKE x \in o.claim
    <3>1. x \in Nat /\ Slot(o.start) <= x /\ Slot(o.start) \in Nat
      BY <1>1, SlotType DEF IsPlace, Slots
    <3>2. x - Slot(o.start) \in Nat
      BY <3>1
    <3> QED
      BY <1>1, <3>2
  <2>2. \A x \in Slots : owner[x] \in Nat \cup {Unused}
    BY DEF Inv, TypeOK
  <2> QED
    BY <2>1, <2>2 DEF Take
<1> DEFINE w == [start |-> o.start, end |-> o.start + s, kind |-> kind, crosses |-> o.claim # {}]
<1>5. placed' = placed \cup {w}
  BY DEF Take
<1>6. w \in [start : Nat, end : Nat, kind : {"fixed", "direct", "reloaded"}, crosses : BOOLEAN]
  BY <1>1
<1>7. w.start = o.start /\ w.end = o.start + s /\ w.kind = kind
  OBVIOUS
<1> HIDE DEF w
<1> QED
  BY <1>2, <1>3, <1>4, <1>5, <1>6, <1>7 DEF Inv, TypeOK

\* The two counts of lines are usable in LinesFromFacts.
LEMMA CountTypes == CheckLines \in Nat /\ FixedLines \in Nat
BY FifoAssumption

LEMMA InitInv == Init => Inv
<1> SUFFICES ASSUME Init PROVE Inv
  OBVIOUS
<1>1. Base \in Nat
  BY FifoAssumption
<1> QED
  BY <1>1 DEF Init, Inv, TypeOK, MemoryInv, BlocksInv, WavesInv, TailInv, NoOverlap, NothingLost,
     RecordedInv, BaseInv, BehindAllWaves, HighEnd

LEMMA PlaceFixedInv ==
  ASSUME Inv, NEW s \in Sizes, PlaceFixed(s)
  PROVE  Inv'
<1> DEFINE o == First(Direct(s))
<1>1. IsPlace(o, s)
  BY DirectPlace DEF PlaceFixed, Inv
<1>2. /\ Take(o, s, "fixed") /\ recorded' = recorded \cup Recorded(o.start, o.start + s)
      /\ pass = "fixed" /\ UNCHANGED <<pass, addressBase>>
  BY DEF PlaceFixed
<1> HIDE DEF o
<1>3. /\ MemoryInv' /\ freeBlocks' \subseteq Block /\ owner' \in [Slots -> Nat \cup {Unused}]
      /\ placed' \subseteq [start : Nat, end : Nat, kind : {"fixed", "direct", "reloaded"}, crosses : BOOLEAN]
  BY <1>1, <1>2, TakeFacts
<1>4. PICK w : placed' = placed \cup {w} /\ w.start = o.start /\ w.end = o.start + s /\ w.kind = "fixed"
  BY <1>1, <1>2, TakeFacts
<1>5. recorded' \subseteq Slots
  <2>1. o.start \in Nat /\ o.start + s \in Nat
    BY <1>1, FifoAssumption DEF IsPlace
  <2>2. Walked(o.start, FixedLines, o.start + s) \subseteq Nat
    BY <2>1, CountTypes, WalkedFacts
  <2>3. Recorded(o.start, o.start + s) \subseteq Slots
    BY <2>2, SlotType DEF Recorded
  <2> QED
    BY <1>2, <2>3 DEF Inv, TypeOK
<1>6. TypeOK'
  BY <1>2, <1>3, <1>5 DEF Inv, TypeOK
<1>7. RecordedInv'
  <2>1. \A m \in LinesFrom(w.start, FixedLines, w.end) : Slot(m) \in recorded'
    <3>1. o.start \in Nat /\ o.start + s \in Nat
      BY <1>1, FifoAssumption DEF IsPlace
    <3>2. LinesFrom(o.start, FixedLines, o.start + s) \subseteq Walked(o.start, FixedLines, o.start + s)
      BY <3>1, CountTypes, WalkedFacts
    <3> QED
      BY <1>2, <1>4, <3>2 DEF Recorded
  <2>2. \A q \in placed' : q.kind = "fixed" =>
          \A m \in LinesFrom(q.start, FixedLines, q.end) : Slot(m) \in recorded'
    BY <1>2, <1>4, <2>1 DEF Inv, RecordedInv
  <2>3. \A p \in placed' : p.kind # "reloaded"
    BY <1>2, <1>4 DEF Inv, RecordedInv
  <2> QED
    BY <2>2, <2>3 DEF RecordedInv
<1> QED
  BY <1>2, <1>3, <1>6, <1>7 DEF Inv, BaseInv, BehindAllWaves

LEMMA PlaceDirectInv ==
  ASSUME Inv, NEW s \in Sizes, PlaceDirect(s)
  PROVE  Inv'
<1> DEFINE o == First(Direct(s))
<1>1. IsPlace(o, s)
  BY DirectPlace DEF PlaceDirect, Inv
<1>2. Take(o, s, "direct") /\ pass = "rest" /\ UNCHANGED <<pass, recorded, addressBase>>
  BY DEF PlaceDirect
<1> HIDE DEF o
<1>3. /\ MemoryInv' /\ freeBlocks' \subseteq Block /\ owner' \in [Slots -> Nat \cup {Unused}]
      /\ placed' \subseteq [start : Nat, end : Nat, kind : {"fixed", "direct", "reloaded"}, crosses : BOOLEAN]
  BY <1>1, <1>2, TakeFacts
<1>4. PICK w : placed' = placed \cup {w} /\ w.start = o.start /\ w.end = o.start + s /\ w.kind = "direct"
  BY <1>1, <1>2, TakeFacts
<1>5. TypeOK'
  BY <1>2, <1>3 DEF Inv, TypeOK
<1>6. RecordedInv'
  BY <1>2, <1>4 DEF Inv, RecordedInv
<1> QED
  BY <1>2, <1>3, <1>5, <1>6 DEF Inv, BaseInv, BehindAllWaves

\* The lines of a reloaded wave that loading it fills are not recorded.
LEMMA ReloadSpares ==
  ASSUME Inv, NEW s \in Sizes, NEW o \in Reload(s), NEW w, w.start = o.start, w.end = o.start + s,
         NEW l \in LinesFrom(w.start, CheckLines, w.end)
  PROVE  Slot(l) \notin recorded
<1>1. /\ o.block \in Candidates /\ o.start \in Nat /\ o.start + s <= o.block.end
      /\ Spares(o.start, o.block.end)
  BY ReloadPlaces DEF Inv
<1>2. o.block.end \in Nat
  BY <1>1, CandidateBlock DEF Inv, Block
<1>3. o.start + s \in Nat
  BY <1>1, FifoAssumption
<1>4. LinesFrom(o.start, CheckLines, o.start + s) \subseteq Walked(o.start, CheckLines, o.block.end)
  BY <1>1, <1>2, <1>3, CountTypes, WalkedFacts
<1> QED
  BY <1>1, <1>4 DEF Spares

LEMMA PlaceReloadedInv ==
  ASSUME Inv, NEW s \in Sizes, PlaceReloaded(s)
  PROVE  Inv'
<1> DEFINE o == First(Reload(s))
<1>1. Take(o, s, "reloaded") /\ pass = "rest" /\ UNCHANGED <<pass, recorded, addressBase>>
  BY DEF PlaceReloaded, ReloadAt
<1>2. o \in Reload(s) /\ o.block.start <= o.start
  BY ReloadPlace DEF PlaceReloaded, ReloadAt, Inv
<1> HIDE DEF o
<1>3. IsPlace(o, s)
  BY <1>2, ReloadPlaces DEF Inv
<1>4. /\ MemoryInv' /\ freeBlocks' \subseteq Block /\ owner' \in [Slots -> Nat \cup {Unused}]
      /\ placed' \subseteq [start : Nat, end : Nat, kind : {"fixed", "direct", "reloaded"}, crosses : BOOLEAN]
  BY <1>1, <1>3, TakeFacts
<1>5. PICK w : placed' = placed \cup {w} /\ w.start = o.start /\ w.end = o.start + s /\ w.kind = "reloaded"
  BY <1>1, <1>3, TakeFacts
<1>6. TypeOK'
  BY <1>1, <1>4 DEF Inv, TypeOK
<1>7. \A l \in LinesFrom(w.start, CheckLines, w.end) : Slot(l) \notin recorded
  BY <1>2, <1>5, ReloadSpares
<1>8. RecordedInv'
  BY <1>1, <1>5, <1>7 DEF Inv, RecordedInv
<1> QED
  BY <1>1, <1>4, <1>6, <1>8 DEF Inv, BaseInv, BehindAllWaves

\* Around address 0 the memory is not tiled any more; the rest still holds.
LEMMA PlaceAroundInv ==
  ASSUME Inv, NEW s \in Sizes, PlaceAround(s)
  PROVE  WholeInv'
<1> DEFINE o == First(Reload(s))
           w == [start |-> o.start, end |-> o.start + s, kind |-> "reloaded", crosses |-> o.claim # {}]
<1>1. /\ Take(o, s, "reloaded") /\ pass = "rest" /\ pass' = "wrapped"
      /\ UNCHANGED <<recorded, addressBase>>
  BY DEF PlaceAround, ReloadAt
<1>2. o \in Reload(s)
  BY ReloadPlace DEF PlaceAround, ReloadAt, Inv
<1>3. placed' = placed \cup {w} /\ w.start = o.start /\ w.end = o.start + s /\ w.kind = "reloaded"
  BY <1>1 DEF Take
<1>4. o.block \in Candidates /\ o.start \in Nat /\ o.claim = {} /\ s \in Nat
  BY <1>2, ReloadPlaces, FifoAssumption DEF Inv
<1>5. w \in [start : Nat, end : Nat, kind : {"fixed", "direct", "reloaded"}, crosses : BOOLEAN]
  BY <1>4
<1> HIDE DEF o, w
<1>6. freeBlocks' \subseteq Block
  <2>1. o.block \in Block
    BY <1>4, CandidateBlock DEF Inv
  <2>2. Leftovers(o.block, o.start, o.start + s) \subseteq Block
    BY <1>4, <2>1 DEF Leftovers, Block
  <2> QED
    BY <1>1, <2>2 DEF Take, Inv, TypeOK
<1>7. owner' \in [Slots -> Nat \cup {Unused}]
  BY <1>1, <1>4 DEF Take, Inv, TypeOK
<1>8. TypeOK'
  BY <1>1, <1>3, <1>5, <1>6, <1>7 DEF Inv, TypeOK
<1>9. \A l \in LinesFrom(w.start, CheckLines, w.end) : Slot(l) \notin recorded
  BY <1>2, <1>3, ReloadSpares
<1>10. RecordedInv'
  BY <1>1, <1>3, <1>9 DEF Inv, RecordedInv
<1> QED
  BY <1>1, <1>8, <1>10 DEF WholeInv, BehindAllWaves

\* The parts of the invariant that are about the memory and the waves.
LEMMA UnchangedMemory ==
  ASSUME MemoryInv, UNCHANGED <<freeBlocks, placed>>
  PROVE  MemoryInv'
BY DEF MemoryInv, BlocksInv, WavesInv, TailInv, NoOverlap, NothingLost

LEMMA PassInv ==
  ASSUME Inv, NEW s, StartRest \/ FixedOverflow(s) \/ Spin(s) \/ RestOverflow(s)
  PROVE  Inv'
<1>1. UNCHANGED <<freeBlocks, owner, recorded, placed, addressBase>> /\ pass \in {"fixed", "rest"}
  BY DEF StartRest, FixedOverflow, Spin, RestOverflow
<1>2. pass' \in {"rest", "fixedOverflow", "restOverflow", "spinning"}
  BY DEF StartRest, FixedOverflow, Spin, RestOverflow
<1>3. MemoryInv'
  BY <1>1, UnchangedMemory DEF Inv
<1>4. TypeOK'
  BY <1>1, <1>2 DEF Inv, TypeOK
<1>5. RecordedInv'
  BY <1>1, <1>2 DEF Inv, RecordedInv
<1> QED
  BY <1>1, <1>2, <1>3, <1>4, <1>5 DEF Inv, BaseInv, BehindAllWaves

\* The highest free block begins where the highest wave ends.
LEMMA MaxFreeBlock ==
  ASSUME Inv, addressBase = Base
  PROVE  /\ MaxFreeBlockStart \in Nat /\ HighEnd(MaxFreeBlockStart)
         /\ MaxFreeBlockStart = Base \/ \E p \in placed : p.end = MaxFreeBlockStart
<1>1. CASE freeBlocks = {}
  BY <1>1, FifoAssumption DEF MaxFreeBlockStart, Inv, MemoryInv, TailInv, HighEnd
<1>2. CASE freeBlocks # {}
  <2> DEFINE starts == {b.start : b \in freeBlocks}
  <2>1. PICK t \in freeBlocks : t.end = Limit /\ (t.start = Base \/ \E p \in placed : p.end = t.start)
    BY <1>2 DEF Inv, MemoryInv, TailInv
  <2>2. Limit \in Nat /\ t.start \in Nat
    BY FifoAssumption DEF Inv, TypeOK, Block
  <2>3. \A b \in freeBlocks : b.start \in Nat /\ b.start <= t.start
    <3> TAKE b \in freeBlocks
    <3>1. b.start \in Nat /\ b.end \in Nat /\ b.start < b.end /\ b.end <= Limit
      BY DEF Inv, MemoryInv, BlocksInv, Block
    <3>2. b = t \/ Apart(b, t)
      BY DEF Inv, MemoryInv, BlocksInv
    <3> QED
      BY <2>1, <2>2, <3>1, <3>2 DEF Apart
  <2>4. t.start \in starts /\ \A c \in starts : c <= t.start
    BY <2>3
  <2>5. \A a \in starts : (\A c \in starts : c <= a) => a = t.start
    <3> TAKE a \in starts
    <3> HAVE \A c \in starts : c <= a
    <3>1. a \in Nat /\ a <= t.start /\ t.start <= a
      BY <2>3, <2>4
    <3> QED
      BY <2>2, <3>1
  <2>6. MaxFreeBlockStart = CHOOSE a \in starts : \A c \in starts : c <= a
    BY <1>2 DEF MaxFreeBlockStart
  <2>7. MaxFreeBlockStart = t.start
    <3> HIDE DEF starts
    <3> QED
      BY <2>4, <2>5, <2>6
  <2>8. HighEnd(t.start)
    <3> SUFFICES ASSUME NEW p \in placed PROVE p.end <= t.start
      BY DEF HighEnd
    <3>1. p.start \in Nat /\ p.end \in Nat /\ p.start < p.end /\ p.end < Limit /\ Apart(p, t)
      BY DEF Inv, MemoryInv, WavesInv, NoOverlap
    <3> QED
      BY <2>1, <2>2, <3>1 DEF Apart
  <2> QED
    BY <2>1, <2>2, <2>7, <2>8
<1> QED
  BY <1>1, <1>2

LEMMA FinishInv ==
  ASSUME Inv, Finish
  PROVE  Inv'
<1>1. /\ pass = "rest" /\ pass' = "done" /\ addressBase' = MaxFreeBlockStart
      /\ UNCHANGED <<freeBlocks, owner, recorded, placed>>
  BY DEF Finish
<1>2. /\ MaxFreeBlockStart \in Nat /\ HighEnd(MaxFreeBlockStart)
      /\ MaxFreeBlockStart = Base \/ \E p \in placed : p.end = MaxFreeBlockStart
  BY <1>1, MaxFreeBlock DEF Inv, BaseInv
<1>3. MemoryInv'
  BY <1>1, UnchangedMemory DEF Inv
<1>4. TypeOK'
  BY <1>1, <1>2 DEF Inv, TypeOK
<1>5. RecordedInv'
  BY <1>1 DEF Inv, RecordedInv
<1>6. BehindAllWaves'
  BY <1>1, <1>2 DEF BehindAllWaves, HighEnd
<1> QED
  BY <1>1, <1>3, <1>4, <1>5, <1>6 DEF Inv, BaseInv

\* Nothing happens any more once a wave has been placed around address 0.
LEMMA WrappedStops ==
  ASSUME pass = "wrapped", [Next]_vars
  PROVE  UNCHANGED vars
BY DEF Next, StartRest, Finish, PlaceFixed, FixedOverflow, PlaceDirect, PlaceReloaded, PlaceAround,
   ReloadAt, Spin, RestOverflow

LEMMA NextInv ==
  ASSUME WholeInv, [Next]_vars
  PROVE  WholeInv'
<1>1. CASE UNCHANGED vars
  <2>1. MemoryInv => MemoryInv'
    BY <1>1, UnchangedMemory DEF vars
  <2> QED
    BY <1>1, <2>1 DEF vars, WholeInv, Inv, TypeOK, RecordedInv, BaseInv, BehindAllWaves, HighEnd
<1> SUFFICES ASSUME Inv, Next PROVE WholeInv'
  BY <1>1, WrappedStops DEF WholeInv
<1>2. Inv' => WholeInv'
  BY DEF Inv, WholeInv
<1>3. ASSUME NEW s \in Sizes, PlaceFixed(s) PROVE Inv'
  BY <1>3, PlaceFixedInv
<1>4. ASSUME NEW s \in Sizes, PlaceDirect(s) PROVE Inv'
  BY <1>4, PlaceDirectInv
<1>5. ASSUME NEW s \in Sizes, PlaceReloaded(s) PROVE Inv'
  BY <1>5, PlaceReloadedInv
<1>6. ASSUME NEW s \in Sizes, PlaceAround(s) PROVE WholeInv'
  BY <1>6, PlaceAroundInv
<1>7. ASSUME NEW s \in Sizes, FixedOverflow(s) \/ Spin(s) \/ RestOverflow(s) PROVE Inv'
  BY <1>7, PassInv
<1>8. CASE StartRest
  BY <1>2, <1>8, PassInv
<1>9. CASE Finish
  BY <1>2, <1>9, FinishInv
<1> QED
  BY <1>2, <1>3, <1>4, <1>5, <1>6, <1>7, <1>8, <1>9 DEF Next

THEOREM Invariant == Spec => []WholeInv
<1>1. Init => WholeInv
  BY InitInv DEF Inv, WholeInv
<1>2. WholeInv /\ [Next]_vars => WholeInv'
  BY NextInv
<1> QED
  BY <1>1, <1>2, PTL DEF Spec

----------------------------------------------------------------------------
(* The slots of the waves that are placed without reloading.               *)

\* A wave that needs no reloading owns the slot of every line that was
\* checked for it, and what is owned is never given away.
OwnersInv ==
  \A p \in placed : p.kind # "reloaded" => \A l \in CheckedLines(p) : owner[Slot(l)] = l

\* The i-th line from that of an address on, in the same turn of the memory,
\* is cached i slots further.
LEMMA SlotInTurn ==
  ASSUME NEW a \in Nat, NEW i \in Nat, NEW l, l = LineOf(a) + (i * Line),
         l \div Memory = a \div Memory
  PROVE  l \in Nat /\ LineOf(a) \in Nat /\ LineOf(a) <= a /\ Slot(l) = Slot(a) + i
<1> DEFINE t == a \div Memory
           r == a % Memory
           d == r \div Line
           e == r % Line
<1>1. Line \in Nat \ {0} /\ Lines \in Nat \ {0} /\ Memory \in Nat \ {0} /\ Memory = Line * Lines
  BY FifoAssumption, MemoryType
<1>2. t \in Nat /\ r \in 0 .. Memory - 1 /\ a = (Memory * t) + r
  BY <1>1, DivMod
<1>4. Slot(a) = d
  BY DEF Slot
<1>5. l \div Memory = t
  OBVIOUS
<1> HIDE DEF t, r
<1>r. r \in Nat /\ r < Memory
  BY <1>1, <1>2
<1>3. d \in Nat /\ e \in 0 .. Line - 1 /\ r = (Line * d) + e
  BY <1>1, <1>r, DivMod
<1> HIDE DEF d, e
<1>6. a = (Line * ((Lines * t) + d)) + e /\ (Lines * t) + d \in Nat
  BY <1>1, <1>2, <1>3
<1>7. LineOf(a) = Line * ((Lines * t) + d)
  <2>1. a \div Line = (Lines * t) + d
    BY <1>1, <1>3, <1>6, QuotientUnique
  <2> QED
    BY <1>1, <1>6, <2>1 DEF LineOf
<1>8. l = (Memory * t) + (Line * (d + i)) /\ l \in Nat
  BY <1>1, <1>2, <1>3, <1>7
<1>9. l % Memory = Line * (d + i)
  <2> DEFINE m == l % Memory
             n == Memory * t
             x == Line * (d + i)
  <2>1. l = (Memory * (l \div Memory)) + m /\ m \in 0 .. Memory - 1
    BY <1>1, <1>8, DivMod
  <2>2. l = n + m
    BY <1>5, <2>1
  <2>3. n \in Nat /\ x \in Nat
    BY <1>1, <1>2, <1>3
  <2>4. l = n + x
    BY <1>8
  <2> HIDE DEF m, n, x
  <2>5. m \in Nat
    BY <1>1, <2>1
  <2>6. m = x
    BY <2>2, <2>3, <2>4, <2>5
  <2> QED
    BY <2>6 DEF m, x
<1>10. Slot(l) = d + i
  <2>1. Line * (d + i) = (Line * (d + i)) + 0 /\ d + i \in Nat /\ Line * (d + i) \in Nat
    BY <1>1, <1>3
  <2>2. (Line * (d + i)) \div Line = d + i
    BY <1>1, <2>1, QuotientUnique
  <2> QED
    BY <1>9, <2>2 DEF Slot
<1> QED
  BY <1>1, <1>3, <1>4, <1>6, <1>7, <1>8, <1>10

\* What the checked lines of a wave are.
LEMMA CheckedLine ==
  ASSUME NEW p, p.start \in Nat, NEW l \in CheckedLines(p)
  PROVE  \E i \in Nat : /\ i < CheckLines /\ l = LineOf(p.start) + (i * Line) /\ l < p.end
                        /\ l \in Nat /\ LineOf(p.start) <= p.start /\ LineOf(p.start) \in Nat
                        /\ Slot(l) = Slot(p.start) + i
<1>1. PICK i \in 0 .. CheckLines - 1 : l = LineOf(p.start) + (i * Line)
  BY DEF CheckedLines, LinesFrom
<1>2. l < p.end /\ l \div Memory = p.start \div Memory
  BY DEF CheckedLines, LinesFrom
<1>3. i \in Nat /\ i < CheckLines
  BY CountTypes
<1> QED
  BY <1>1, <1>2, <1>3, SlotInTurn

\* What a place on slots of its own claims: all of its checked lines, each for
\* itself.
LEMMA ClaimCovers ==
  ASSUME NEW s \in Sizes, NEW a \in Nat, (a % Line) = 0,
         NEW p, p.start = a, p.end = a + s, NEW l \in CheckedLines(p)
  PROVE  Slot(l) \in Claim(a, s) /\ l = a + ((Slot(l) - Slot(a)) * Line)
<1>1. Line \in Nat \ {0} /\ Lines \in Nat \ {0} /\ CheckLines \in Nat \ {0} /\ s \in Nat \ {0}
  BY FifoAssumption
<1>2. PICK i \in Nat : /\ i < CheckLines /\ l = LineOf(a) + (i * Line) /\ l < a + s
                       /\ l \in Nat /\ Slot(l) = Slot(a) + i
  BY CheckedLine
<1>3. LineOf(a) = a
  <2>1. a \div Line \in Nat /\ a = (Line * (a \div Line)) + (a % Line)
    BY <1>1, DivMod
  <2>2. Line * (a \div Line) \in Nat
    BY <1>1, <2>1
  <2>3. a = Line * (a \div Line)
    BY <2>1, <2>2
  <2> QED
    BY <1>1, <2>1, <2>3 DEF LineOf
<1>4. Slot(a) \in Nat /\ Slot(l) \in Slots
  BY <1>2, SlotType DEF Slots
<1> DEFINE bytes == IF CheckLines * Line > s THEN s ELSE CheckLines * Line
           c == (bytes + Line - 1) \div Line
<1>5. bytes \in Nat /\ i * Line < bytes
  BY <1>1, <1>2, <1>3
<1> HIDE DEF bytes
<1>b. bytes + Line - 1 \in Nat
  BY <1>1, <1>5
<1>6. c \in Nat /\ bytes + Line - 1 = (Line * c) + ((bytes + Line - 1) % Line)
      /\ ((bytes + Line - 1) % Line) \in 0 .. Line - 1
  BY <1>1, <1>b, DivMod
<1> HIDE DEF c
<1>7. i < c
  BY <1>1, <1>2, <1>5, <1>6
<1>8. Slot(l) \in Slot(a) .. (IF Slot(a) + c > Lines THEN Lines ELSE Slot(a) + c) - 1
  BY <1>1, <1>2, <1>4, <1>6, <1>7 DEF Slots
<1>9. Slot(l) \in Claim(a, s)
  BY <1>8 DEF Claim, c, bytes
<1>10. l = a + ((Slot(l) - Slot(a)) * Line)
  BY <1>1, <1>2, <1>3, <1>4
<1> QED
  BY <1>9, <1>10

\* An aligned start is the start of a line.
LEMMA AlignUpLine ==
  ASSUME NEW a \in Nat, NEW s \in Sizes
  PROVE  (AlignUp(a, Alignment(s)) % Line) = 0
<1> DEFINE q == Alignment(s)
           d == (a + q - 1) \div q
<1>1. Line \in Nat \ {0} /\ FixedLines \in Nat \ {0}
  BY FifoAssumption
<1>2. PICK k \in Nat : q = Line * k
  BY <1>1 DEF Alignment
<1>3. q \in Nat \ {0}
  BY AlignmentType
<1> HIDE DEF q
<1>n. a + q - 1 \in Nat
  BY <1>3
<1>4. d \in Nat
  BY <1>3, <1>n, DivMod
<1> HIDE DEF d
<1>5. d * q = Line * (k * d) /\ k * d \in Nat
  BY <1>1, <1>2, <1>4
<1>6. AlignUp(a, q) = d * q
  BY DEF AlignUp, d
<1>7. (AlignUp(a, q) % Line) = 0
  BY <1>1, <1>5, <1>6, MultipleMod
<1> QED
  BY <1>7 DEF q

\* After an allocation without reloading the checked lines of a place own
\* their slots, and it has taken no slot from anybody.
HoldsItsLines(o, s) ==
  /\ \A x \in o.claim : owner[x] = Unused
  /\ \A p : p.start = o.start /\ p.end = o.start + s =>
       \A l \in CheckedLines(p) :
         IF Slot(l) \in o.claim THEN l = o.start + ((Slot(l) - Slot(o.start)) * Line)
         ELSE owner[Slot(l)] = l

LEMMA FastHolds ==
  ASSUME MemoryInv, NEW s \in Sizes, NEW o \in Fast(s)
  PROVE  HoldsItsLines(o, s)
<1>1. o.claim = {} /\ JoinsLine(o.start, s, o.block.end) /\ o.start \in Nat /\ o.start + s <= o.block.end
  BY FastPlaces DEF Fast, IsPlace
<1>2. Line \in Nat \ {0} /\ s \in Nat \ {0}
  BY FifoAssumption
<1>3. o.block.end \in Nat
  BY FastPlaces, CandidateBlock DEF IsPlace, Block
<1>4. ASSUME NEW p, p.start = o.start, p.end = o.start + s, NEW l \in CheckedLines(p)
      PROVE  owner[Slot(l)] = l
  <2>1. PICK i \in Nat : /\ i < CheckLines /\ l = LineOf(o.start) + (i * Line) /\ l < o.start + s
                         /\ l \in Nat /\ LineOf(o.start) \in Nat /\ LineOf(o.start) <= o.start
                         /\ Slot(l) = Slot(o.start) + i
    BY <1>1, <1>4, CheckedLine
  <2>2. LineOf(o.start) + Line >= o.start + s
    BY <1>1, <1>2, <1>3, <2>1 DEF JoinsLine
  <2>3. i = 0
    BY <1>1, <1>2, <2>1, <2>2
  <2>4. Slot(o.start) \in Nat
    BY <1>1, SlotType DEF Slots
  <2>5. l = LineOf(o.start) /\ Slot(l) = Slot(o.start)
    BY <1>2, <2>1, <2>3, <2>4
  <2> QED
    BY <1>1, <2>5 DEF JoinsLine
<1> QED
  BY <1>1, <1>4 DEF HoldsItsLines

LEMMA GeneralHolds ==
  ASSUME MemoryInv, NEW s \in Sizes, NEW o \in General(s)
  PROVE  HoldsItsLines(o, s)
<1>1. PICK b \in Candidates : o = [block |-> b, start |-> AlignUp(b.start, Alignment(s)),
                                  claim |-> Claim(AlignUp(b.start, Alignment(s)), s)]
  BY DEF General
<1>2. b.start \in Nat
  BY CandidateBlock DEF Block
<1>3. o.start \in Nat /\ (o.start % Line) = 0 /\ o.claim = Claim(o.start, s)
  BY <1>1, <1>2, AlignUpLine, GeneralPlaces DEF IsPlace
<1>4. \A x \in o.claim : owner[x] = Unused
  BY DEF General
<1>5. ASSUME NEW p, p.start = o.start, p.end = o.start + s, NEW l \in CheckedLines(p)
      PROVE  Slot(l) \in o.claim /\ l = o.start + ((Slot(l) - Slot(o.start)) * Line)
  BY <1>3, <1>5, ClaimCovers
<1> QED
  BY <1>4, <1>5 DEF HoldsItsLines

LEMMA DirectHolds ==
  ASSUME MemoryInv, NEW s \in Sizes, Direct(s) # {}
  PROVE  HoldsItsLines(First(Direct(s)), s)
<1>1. \A o \in Direct(s) : IsPlace(o, s) /\ HoldsItsLines(o, s)
  BY FastPlaces, GeneralPlaces, FastHolds, GeneralHolds DEF Direct
<1>2. \A o \in Direct(s) : o.start \in Nat /\ o.block.start \in Nat
  BY <1>1, CandidateBlock DEF IsPlace, Block
<1>3. First(Direct(s)) \in Direct(s)
  BY <1>2, FirstIsPlace
<1> QED
  BY <1>1, <1>3

\* The checked lines of a wave are addresses with slots.
LEMMA CheckedSlots ==
  ASSUME NEW p, p.start \in Nat, NEW l \in CheckedLines(p)
  PROVE  l \in Nat /\ Slot(l) \in Slots
BY CheckedLine, SlotType

LEMMA OwnersKept ==
  ASSUME Inv, OwnersInv, NEW s \in Sizes, NEW o, IsPlace(o, s), HoldsItsLines(o, s), NEW kind,
         Take(o, s, kind)
  PROVE  OwnersInv'
<1> DEFINE w == [start |-> o.start, end |-> o.start + s, kind |-> kind, crosses |-> o.claim # {}]
<1>1. placed' = placed \cup {w}
  BY DEF Take
<1>2. \A x \in Slots : owner'[x] = IF x \in o.claim THEN o.start + ((x - Slot(o.start)) * Line) ELSE owner[x]
  BY DEF Take
<1>3. ASSUME NEW p \in placed, p.kind # "reloaded", NEW l \in CheckedLines(p)
      PROVE  owner'[Slot(l)] = l
  <2>1. p.start \in Nat
    BY DEF Inv, TypeOK
  <2>2. l \in Nat /\ Slot(l) \in Slots
    BY <2>1, CheckedSlots
  <2>3. owner[Slot(l)] = l
    BY <1>3 DEF OwnersInv
  <2>4. Slot(l) \notin o.claim
    BY <2>2, <2>3, FifoAssumption DEF HoldsItsLines
  <2> QED
    BY <1>2, <2>2, <2>3, <2>4
<1>4. ASSUME NEW l \in CheckedLines(w)
      PROVE  owner'[Slot(l)] = l
  <2>1. w.start = o.start /\ w.end = o.start + s /\ o.start \in Nat
    BY DEF IsPlace
  <2>2. Slot(l) \in Slots
    BY <2>1, CheckedSlots
  <2>3. IF Slot(l) \in o.claim THEN l = o.start + ((Slot(l) - Slot(o.start)) * Line)
        ELSE owner[Slot(l)] = l
    BY <2>1 DEF HoldsItsLines
  <2> QED
    BY <1>2, <2>2, <2>3
<1> HIDE DEF w
<1> QED
  BY <1>1, <1>3, <1>4 DEF OwnersInv, CheckedLines

\* A reloaded wave claims nothing.
LEMMA ReloadTakes ==
  ASSUME Inv, NEW s \in Sizes, PlaceReloaded(s) \/ PlaceAround(s)
  PROVE  owner' = owner /\ \E w : w.kind = "reloaded" /\ placed' = placed \cup {w}
<1> DEFINE o == First(Reload(s))
           w == [start |-> o.start, end |-> o.start + s, kind |-> "reloaded", crosses |-> o.claim # {}]
<1>1. Take(o, s, "reloaded") /\ Reload(s) # {}
  BY DEF PlaceReloaded, PlaceAround, ReloadAt
<1>2. o.claim = {}
  BY <1>1, ReloadPlace, ReloadPlaces DEF Inv
<1>3. owner' = owner
  BY <1>1, <1>2 DEF Take, Inv, TypeOK
<1>4. placed' = placed \cup {w} /\ w.kind = "reloaded"
  BY <1>1 DEF Take
<1> HIDE DEF w
<1> QED
  BY <1>3, <1>4

LEMMA OwnersNext ==
  ASSUME WholeInv, OwnersInv, [Next]_vars
  PROVE  OwnersInv'
<1>1. ASSUME UNCHANGED <<owner, placed>> PROVE OwnersInv'
  BY <1>1 DEF OwnersInv, CheckedLines
<1> SUFFICES ASSUME Inv, Next PROVE OwnersInv'
  BY <1>1, WrappedStops DEF WholeInv, vars
<1>2. ASSUME NEW s \in Sizes, PlaceFixed(s) \/ PlaceDirect(s) PROVE OwnersInv'
  <2>1. Direct(s) # {} /\ \E kind : Take(First(Direct(s)), s, kind)
    BY <1>2 DEF PlaceFixed, PlaceDirect
  <2> QED
    BY <2>1, DirectPlace, DirectHolds, OwnersKept DEF Inv
<1>3. ASSUME NEW s \in Sizes, PlaceReloaded(s) \/ PlaceAround(s) PROVE OwnersInv'
  BY <1>3, ReloadTakes DEF OwnersInv, CheckedLines
<1> QED
  BY <1>1, <1>2, <1>3 DEF Next, StartRest, Finish, FixedOverflow, Spin, RestOverflow

THEOREM Owners == Spec => []OwnersInv
<1>1. Init => OwnersInv
  BY DEF Init, OwnersInv
<1>2. WholeInv /\ OwnersInv /\ [Next]_vars => OwnersInv'
  BY OwnersNext
<1> QED
  BY <1>1, <1>2, Invariant, PTL DEF Spec

----------------------------------------------------------------------------
(* What follows.                                                           *)

\* The allocator is well typed in every reachable state; in particular a
\* claimed slot is owned by an address.
THEOREM TypeCorrect == Spec => []TypeOK
<1>1. WholeInv => TypeOK
  BY DEF WholeInv
<1> QED
  BY <1>1, Invariant, PTL

\* As long as the search for a reloaded wave has not come around to address 0,
\* allocateWaveformsForFifo gives no byte to two waves, keeps none in the free
\* list that it gave away, and loses none.
THEOREM MemoryIsTiled == Spec => []MemoryTiled
<1>1. WholeInv => MemoryTiled
  BY DEF WholeInv, Inv, MemoryInv, MemoryTiled
<1> QED
  BY <1>1, Invariant, PTL

\* Reloading a wave spares every recorded line of every fixed wave.
THEOREM FixedSpared == Spec => []ReloadSparesFixed
<1>1. WholeInv => ReloadSparesFixed
  BY DEF WholeInv, RecordedInv, ReloadSparesFixed
<1> QED
  BY <1>1, Invariant, PTL

\* What follows the waves in memory begins where the highest of them ends.
THEOREM ContinuesBehind == Spec => []BehindAllWaves
<1>1. WholeInv => BehindAllWaves
  BY DEF WholeInv
<1> QED
  BY <1>1, Invariant, PTL

\* Up to the end of the memory's turn in which each begins, two different lines
\* of waves that need no reloading never share a slot of the cache.  (Behind it
\* they do: SlotsAreFree.)
THEOREM AllResident == Spec => []ResidentTogether
<1>1. OwnersInv => ResidentTogether
  BY DEF OwnersInv, ResidentTogether
<1> QED
  BY <1>1, Owners, PTL
----------------------------------------------------------------------------
(* Why a wave is refused.                                                  *)

\* What is owned is a line of a wave that is placed, in its own slot.
UsedInv ==
  \A x \in Slots : owner[x] # Unused =>
    /\ owner[x] \in Nat /\ Base <= owner[x] /\ Slot(owner[x]) = x
    /\ \E p \in placed : owner[x] < p.end

\* A line of the memory's k-th turn is cached in its own slot.
LEMMA SlotOfLine ==
  ASSUME NEW k \in Nat, NEW i \in Nat, NEW r \in Nat, i < Lines, r < Line
  PROVE  Slot((Memory * k) + (Line * i) + r) = i
<1> DEFINE b == (Line * i) + r
           m == Memory * k
<1>1. Line \in Nat \ {0} /\ Lines \in Nat \ {0} /\ Memory \in Nat \ {0} /\ Memory = Line * Lines
  BY FifoAssumption, MemoryType
<1>2. b \in Nat /\ b < Memory /\ m \in Nat
  <2>1. i + 1 <= Lines
    BY <1>1
  <2>2. Line * (i + 1) <= Line * Lines
    BY <1>1, <2>1
  <2> QED
    BY <1>1, <2>2
<1>3. b \div Line = i
  <2>1. r \in 0 .. Line - 1 /\ b = (Line * i) + r
    BY <1>1
  <2> HIDE DEF b
  <2> QED
    BY <1>1, <1>2, <2>1, QuotientUnique
<1>4. m + b = (Memory * k) + (Line * i) + r
  BY <1>1
<1>5. m + b = (Memory * k) + b
  OBVIOUS
<1> HIDE DEF b, m
<1>6. (m + b) % Memory = b
  <2> DEFINE n == m + b
  <2>1. n \in Nat /\ b \in 0 .. Memory - 1 /\ n = (Memory * k) + b
    BY <1>1, <1>2, <1>5
  <2> HIDE DEF n
  <2>2. n \div Memory = k
    BY <1>1, <2>1, QuotientUnique
  <2>3. n = (Memory * (n \div Memory)) + (n % Memory) /\ (n % Memory) \in 0 .. Memory - 1
    BY <1>1, <2>1, DivMod
  <2>4. n = (Memory * k) + (n % Memory) /\ (n % Memory) \in Nat
    BY <1>1, <2>2, <2>3
  <2>5. Memory * k \in Nat
    BY <1>1
  <2>6. n % Memory = b
    BY <1>2, <2>1, <2>4, <2>5
  <2> QED
    BY <2>6 DEF n
<1> QED
  BY <1>3, <1>4, <1>6 DEF Slot

\* The turn, the slot and the rest of an address.
LEMMA AddressParts ==
  ASSUME NEW a \in Nat
  PROVE  \E k \in Nat, r \in Nat : /\ a = (Memory * k) + (Line * Slot(a)) + r /\ r < Line
                                   /\ k = a \div Memory /\ ((a % Line) = 0 => r = 0)
<1> DEFINE k == a \div Memory
           b == a % Memory
           d == b \div Line
           r == b % Line
<1>1. Line \in Nat \ {0} /\ Lines \in Nat \ {0} /\ Memory \in Nat \ {0} /\ Memory = Line * Lines
  BY FifoAssumption, MemoryType
<1>2. k \in Nat /\ b \in 0 .. Memory - 1 /\ a = (Memory * k) + b
  BY <1>1, DivMod
<1>3. Slot(a) = d
  BY DEF Slot
<1>k. k = a \div Memory
  OBVIOUS
<1> HIDE DEF k, b
<1>4. b \in Nat
  BY <1>1, <1>2
<1>5. d \in Nat /\ r \in 0 .. Line - 1 /\ b = (Line * d) + r
  BY <1>1, <1>4, DivMod
<1> HIDE DEF d, r
<1>6. r \in Nat /\ r < Line
  BY <1>1, <1>5
<1>7. ASSUME (a % Line) = 0 PROVE r = 0
  <2>1. a = (Line * ((Lines * k) + d)) + r /\ (Lines * k) + d \in Nat
    BY <1>1, <1>2, <1>5
  <2>2. a \div Line = (Lines * k) + d
    BY <1>1, <1>5, <2>1, QuotientUnique
  <2>3. a = (Line * (a \div Line)) + (a % Line)
    BY <1>1, DivMod
  <2>4. Line * ((Lines * k) + d) \in Nat
    BY <1>1, <2>1
  <2> QED
    BY <1>6, <1>7, <2>1, <2>2, <2>3, <2>4
<1>8. a = (Memory * k) + (Line * d) + r
  <2>1. Memory * k \in Nat /\ Line * d \in Nat
    BY <1>1, <1>2, <1>5
  <2> QED
    BY <1>2, <1>5, <1>6, <2>1
<1> QED
  BY <1>2, <1>3, <1>6, <1>7, <1>8, <1>k

\* What a place claims: slots of lines of its wave.
ClaimsItsLines(o, s) ==
  \A x \in o.claim : LET l == o.start + ((x - Slot(o.start)) * Line)
                     IN  l \in Nat /\ o.start <= l /\ l < o.start + s /\ Slot(l) = x

LEMMA GeneralClaims ==
  ASSUME MemoryInv, NEW s \in Sizes, NEW o \in General(s)
  PROVE  ClaimsItsLines(o, s)
<1>1. PICK b \in Candidates : o = [block |-> b, start |-> AlignUp(b.start, Alignment(s)),
                                  claim |-> Claim(AlignUp(b.start, Alignment(s)), s)]
  BY DEF General
<1>2. b.start \in Nat
  BY CandidateBlock DEF Block
<1> DEFINE a == o.start
<1>3. a \in Nat /\ (a % Line) = 0 /\ o.claim = Claim(a, s)
  BY <1>1, <1>2, AlignUpLine, GeneralPlaces DEF IsPlace
<1>4. Line \in Nat \ {0} /\ Lines \in Nat \ {0} /\ CheckLines \in Nat \ {0} /\ s \in Nat \ {0} /\ Memory \in Nat \ {0}
  BY FifoAssumption, MemoryType
<1> HIDE DEF a
<1> SUFFICES ASSUME NEW x \in o.claim
             PROVE  LET l == a + ((x - Slot(a)) * Line) IN l \in Nat /\ a <= l /\ l < a + s /\ Slot(l) = x
  BY DEF ClaimsItsLines, a
<1> DEFINE bytes == IF CheckLines * Line > s THEN s ELSE CheckLines * Line
           c == (bytes + Line - 1) \div Line
           i == x - Slot(a)
<1>5. bytes \in Nat /\ bytes <= s /\ bytes > 0
  BY <1>4
<1> HIDE DEF bytes
<1>b. bytes + Line - 1 \in Nat
  BY <1>4, <1>5
<1>6. c \in Nat /\ bytes + Line - 1 = (Line * c) + ((bytes + Line - 1) % Line)
      /\ ((bytes + Line - 1) % Line) \in 0 .. Line - 1
  BY <1>4, <1>b, DivMod
<1>7. Slot(a) \in Nat
  BY <1>3, SlotType DEF Slots
<1>8. x \in Slot(a) .. (IF Slot(a) + c > Lines THEN Lines ELSE Slot(a) + c) - 1
  BY <1>3 DEF Claim, bytes
<1> HIDE DEF c
<1>9. x \in Nat /\ x < Lines /\ i \in Nat /\ i < c
  BY <1>4, <1>6, <1>7, <1>8
<1>10. x = Slot(a) + i
  BY <1>7, <1>9
<1> HIDE DEF i
<1>11. i * Line < bytes
  <2>1. i + 1 <= c
    BY <1>6, <1>9
  <2>2. Line * (i + 1) <= Line * c
    BY <1>4, <1>6, <1>9, <2>1
  <2>3. Line * (i + 1) = (i * Line) + Line /\ i * Line \in Nat /\ Line * c \in Nat
    BY <1>4, <1>6, <1>9
  <2>4. Line * c <= bytes + Line - 1
    BY <1>b, <1>4, <1>6, <2>3
  <2> QED
    BY <1>4, <1>5, <2>2, <2>3, <2>4
<1> DEFINE l == a + (i * Line)
<1>12. l \in Nat /\ a <= l /\ l < a + s
  <2>1. i * Line \in Nat
    BY <1>4, <1>9
  <2> QED
    BY <1>3, <1>4, <1>5, <1>11, <2>1
<1>13. PICK k \in Nat, r \in Nat : a = (Memory * k) + (Line * Slot(a)) + r /\ ((a % Line) = 0 => r = 0)
  BY <1>3, AddressParts
<1>14. l = (Memory * k) + (Line * x) + 0
  <2>1. Line * x = (Line * Slot(a)) + (i * Line)
    BY <1>4, <1>7, <1>9, <1>10
  <2>2. Memory * k \in Nat /\ Line * Slot(a) \in Nat /\ i * Line \in Nat /\ Line * x \in Nat
    BY <1>4, <1>7, <1>9
  <2> QED
    BY <1>3, <1>13, <2>1, <2>2
<1>15. Slot(l) = x
  <2>1. Slot((Memory * k) + (Line * x) + 0) = x
    <3>1. 0 \in Nat /\ 0 < Line
      BY <1>4
    <3> QED
      BY <1>9, <3>1, SlotOfLine
  <2> QED
    BY <1>14, <2>1
<1> QED
  BY <1>12, <1>15 DEF i

LEMMA DirectClaims ==
  ASSUME MemoryInv, NEW s \in Sizes, Direct(s) # {}
  PROVE  ClaimsItsLines(First(Direct(s)), s)
<1>1. \A o \in Direct(s) : IsPlace(o, s) /\ ClaimsItsLines(o, s)
  BY FastPlaces, GeneralPlaces, GeneralClaims DEF Direct, Fast, ClaimsItsLines
<1>2. \A o \in Direct(s) : o.start \in Nat /\ o.block.start \in Nat
  BY <1>1, CandidateBlock DEF IsPlace, Block
<1>3. First(Direct(s)) \in Direct(s)
  BY <1>2, FirstIsPlace
<1> QED
  BY <1>1, <1>3

LEMMA UsedKept ==
  ASSUME Inv, UsedInv, NEW s \in Sizes, NEW o, IsPlace(o, s), ClaimsItsLines(o, s), NEW kind,
         Take(o, s, kind)
  PROVE  UsedInv'
<1> DEFINE w == [start |-> o.start, end |-> o.start + s, kind |-> kind, crosses |-> o.claim # {}]
<1>1. placed' = placed \cup {w} /\ w.end = o.start + s
  BY DEF Take
<1> HIDE DEF w
<1>2. \A x \in Slots : owner'[x] = IF x \in o.claim THEN o.start + ((x - Slot(o.start)) * Line) ELSE owner[x]
  BY DEF Take
<1>3. Base <= o.start /\ Base \in Nat /\ o.start \in Nat
  <2>1. o.block.start \in Nat /\ Base <= o.block.start /\ o.block.start <= o.start
    BY CandidateBlock DEF Inv, IsPlace, Block
  <2> QED
    BY <2>1, FifoAssumption DEF IsPlace
<1> SUFFICES ASSUME NEW x \in Slots, owner'[x] # Unused
             PROVE  /\ owner'[x] \in Nat /\ Base <= owner'[x] /\ Slot(owner'[x]) = x
                    /\ \E p \in placed' : owner'[x] < p.end
  BY DEF UsedInv, Slot
<1>4. CASE x \in o.claim
  <2> DEFINE l == o.start + ((x - Slot(o.start)) * Line)
  <2>1. l \in Nat /\ o.start <= l /\ l < o.start + s /\ Slot(l) = x
    BY <1>4 DEF ClaimsItsLines
  <2>2. owner'[x] = l
    BY <1>2, <1>4
  <2> HIDE DEF l
  <2>3. Base <= l
    BY <1>3, <2>1
  <2> QED
    BY <1>1, <2>1, <2>2, <2>3
<1>5. CASE x \notin o.claim
  <2>1. owner'[x] = owner[x]
    BY <1>2, <1>5
  <2> QED
    BY <1>1, <2>1 DEF UsedInv
<1> QED
  BY <1>4, <1>5

\* What lies behind the highest wave can always be cut, up to the end of the
\* addresses.
LEMMA TailBlock ==
  ASSUME MemoryInv
  PROVE  \E t \in Candidates : /\ t.end = Limit /\ t.start \in Nat /\ HighEnd(t.start)
                               /\ t.start = Base \/ \E p \in placed : p.end = t.start
<1>0. Base \in Nat /\ Limit \in Nat /\ Base < Limit
  BY FifoAssumption
<1>1. CASE freeBlocks = {}
  <2>1. Tail = [start |-> Base, end |-> Limit]
    BY <1>1 DEF Tail
  <2>2. Tail \in Candidates /\ placed = {}
    BY <1>0, <1>1, <2>1 DEF Candidates, MemoryInv, TailInv
  <2> QED
    BY <1>0, <2>1, <2>2 DEF HighEnd
<1>2. CASE freeBlocks # {}
  <2>1. PICK t \in freeBlocks : t.end = Limit /\ (t.start = Base \/ \E p \in placed : p.end = t.start)
    BY <1>2 DEF MemoryInv, TailInv
  <2>2. t.start \in Nat /\ t \in Candidates
    BY DEF MemoryInv, BlocksInv, Block, Candidates
  <2>3. HighEnd(t.start)
    <3> SUFFICES ASSUME NEW p \in placed PROVE p.end <= t.start
      BY DEF HighEnd
    <3>1. p.start \in Nat /\ p.end \in Nat /\ p.start < p.end /\ p.end < Limit /\ Apart(p, t)
      BY DEF MemoryInv, WavesInv, NoOverlap
    <3> QED
      BY <1>0, <2>1, <2>2, <3>1 DEF Apart
  <2> QED
    BY <2>1, <2>2, <2>3
<1> QED
  BY <1>1, <1>2

\* While addresses are left, the block behind the highest wave has a whole
\* turn of the memory, and an alignment, more than the wave needs.
LEMMA TailHasRoom ==
  ASSUME MemoryInv, AddressesLeft, NEW s \in Sizes
  PROVE  \E t \in Candidates : /\ t.end = Limit /\ t.start \in Nat /\ Base <= t.start /\ HighEnd(t.start)
                               /\ t.start + Memory + (FixedLines * Line) + s <= Limit
                               /\ t.start = Base \/ \E p \in placed : p.end = t.start
<1>1. PICK t \in Candidates : /\ t.end = Limit /\ t.start \in Nat /\ HighEnd(t.start)
                              /\ t.start = Base \/ \E p \in placed : p.end = t.start
  BY TailBlock
<1> DEFINE f == FixedLines * Line
<1>2. f \in Nat /\ Memory \in Nat /\ s \in Nat /\ Limit \in Nat /\ Base \in Nat
  BY MemoryType, FifoAssumption
<1> HIDE DEF f
<1>3. Base <= Limit - Memory - f - s /\ \A p \in placed : p.end <= Limit - Memory - f - s
  BY DEF AddressesLeft, HighEnd, f
<1>4. t.start <= Limit - Memory - f - s
  BY <1>1, <1>3
<1>5. t.start + Memory + f + s <= Limit
  BY <1>1, <1>2, <1>4
<1>6. Base <= t.start
  BY CandidateBlock
<1> QED
  BY <1>1, <1>5, <1>6 DEF f

LEMMA AlignUpBelow ==
  ASSUME NEW a \in Nat, NEW s \in Sizes
  PROVE  /\ AlignUp(a, Alignment(s)) \in Nat /\ a <= AlignUp(a, Alignment(s))
         /\ AlignUp(a, Alignment(s)) < a + (FixedLines * Line)
<1> DEFINE q == Alignment(s)
           n == a + q - 1
           d == n \div q
           f == FixedLines * Line
<1>1. q \in Nat \ {0}
  BY AlignmentType
<1>2. q <= f /\ f \in Nat
  <2>1. Line \in Nat \ {0} /\ FixedLines \in Nat \ {0}
    BY FifoAssumption
  <2>2. FixedLines * Line >= Line
    BY <2>1
  <2> QED
    BY <2>1, <2>2 DEF Alignment
<1>3. AlignUp(a, q) \in Nat /\ a <= AlignUp(a, q)
  BY AlignmentType, AlignUpFacts
<1>4. AlignUp(a, q) = d * q
  BY DEF AlignUp
<1> HIDE DEF q, f
<1>5. n \in Nat
  BY <1>1
<1>6. d \in Nat /\ (n % q) \in 0 .. q - 1 /\ n = (q * d) + (n % q)
  BY <1>1, <1>5, DivMod
<1> HIDE DEF d
<1>7. d * q = q * d /\ q * d \in Nat
  BY <1>1, <1>6
<1>8. d * q <= n
  BY <1>1, <1>5, <1>6, <1>7
<1>9. AlignUp(a, q) < a + f
  BY <1>1, <1>2, <1>4, <1>7, <1>8
<1> QED
  BY <1>3, <1>9 DEF q, f

\* In the first turn of the memory the slots from an aligned address on are
\* nobody's if all waves end below it.
LEMMA FirstTurnIsFree ==
  ASSUME UsedInv, NEW a \in Nat, (a % Line) = 0, Base <= a, a < Base + Memory, HighEnd(a), MemoryInv,
         NEW x \in Slots, Slot(a) <= x
  PROVE  owner[x] = Unused
<1> SUFFICES ASSUME owner[x] # Unused PROVE FALSE
  OBVIOUS
<1> DEFINE y == owner[x]
<1>1. y \in Nat /\ Base <= y /\ Slot(y) = x /\ \E p \in placed : y < p.end
  BY DEF UsedInv
<1> HIDE DEF y
<1>2. y < a
  <2>1. PICK p \in placed : y < p.end
    BY <1>1
  <2>2. p.end <= a /\ p.end \in Nat
    BY DEF HighEnd, MemoryInv, WavesInv
  <2> QED
    BY <1>1, <2>1, <2>2
<1>3. Line \in Nat \ {0} /\ Memory \in Nat \ {0} /\ Base \in Nat /\ Lines \in Nat \ {0} /\ Memory = Line * Lines
  BY FifoAssumption, MemoryType
<1>4. PICK t \in Nat : Base = Memory * t
  <2>1. Base \div Memory \in Nat /\ Base = (Memory * (Base \div Memory)) + (Base % Memory)
    BY <1>3, DivMod
  <2>2. Memory * (Base \div Memory) \in Nat
    BY <1>3, <2>1
  <2>3. Base = Memory * (Base \div Memory)
    BY <2>1, <2>2, BaseAssumption
  <2> QED
    BY <2>1, <2>3
<1>5. \A c \in Nat : Base <= c /\ c < Base + Memory => c \div Memory = t
  <2> SUFFICES ASSUME NEW c \in Nat, Base <= c, c < Base + Memory PROVE c \div Memory = t
    OBVIOUS
  <2> DEFINE r == c - Base
  <2>1. r \in 0 .. Memory - 1 /\ c = Base + r
    BY <1>3
  <2> HIDE DEF r
  <2>2. c = (Memory * t) + r
    BY <1>4, <2>1
  <2> QED
    BY <1>3, <2>1, <2>2, QuotientUnique
<1>6. a \div Memory = t /\ y \div Memory = t
  <2>1. y < Base + Memory
    BY <1>1, <1>2, <1>3
  <2> QED
    BY <1>1, <1>5, <2>1
<1>7. PICK r \in Nat : a = (Memory * t) + (Line * Slot(a)) + r /\ r = 0
  BY <1>6, AddressParts
<1>8. PICK q \in Nat : y = (Memory * t) + (Line * x) + q
  BY <1>1, <1>6, AddressParts
<1>9. Slot(a) \in Nat /\ x \in Nat
  BY SlotType DEF Slots
<1> DEFINE m == Memory * t
           i == Line * Slot(a)
           j == Line * x
<1>10. m \in Nat /\ i \in Nat /\ j \in Nat
  BY <1>3, <1>9
<1>11. i <= j
  BY <1>3, <1>9
<1>12. a = m + i + r /\ y = m + j + q
  BY <1>7, <1>8
<1> HIDE DEF m, i, j
<1> QED
  BY <1>2, <1>7, <1>10, <1>11, <1>12

\* A place on slots of its own is missing only when the waves have gone once
\* through the memory.
LEMMA DirectRefused ==
  ASSUME MemoryInv, UsedInv, AddressesLeft, NEW s \in Sizes, Direct(s) = {}
  PROVE  ~HighEnd(Base + Memory - (FixedLines * Line))
<1> SUFFICES ASSUME HighEnd(Base + Memory - (FixedLines * Line)) PROVE FALSE
  OBVIOUS
<1> DEFINE f == FixedLines * Line
<1>1. PICK t \in Candidates : /\ t.end = Limit /\ t.start \in Nat /\ Base <= t.start /\ HighEnd(t.start)
                              /\ t.start + Memory + f + s <= Limit
                              /\ t.start = Base \/ \E p \in placed : p.end = t.start
  BY TailHasRoom
<1> DEFINE a == AlignUp(t.start, Alignment(s))
           o == [block |-> t, start |-> a, claim |-> Claim(a, s)]
<1>2. a \in Nat /\ t.start <= a /\ a < t.start + f /\ (a % Line) = 0
  BY <1>1, AlignUpBelow, AlignUpLine
<1>3. f \in Nat /\ Memory \in Nat \ {0} /\ s \in Nat \ {0} /\ Limit \in Nat /\ Base \in Nat /\ Lines \in Nat
  BY MemoryType, FifoAssumption
<1>4. HighEnd(Base + Memory - f)
  OBVIOUS
<1>o. /\ o.block = t /\ o.start = a /\ o.claim = Claim(a, s)
      /\ o \in {LET c == AlignUp(b.start, Alignment(s))
                IN  [block |-> b, start |-> c, claim |-> Claim(c, s)] : b \in Candidates}
  OBVIOUS
<1> HIDE DEF f, a, o
<1>5. a >= t.start /\ a < Limit /\ a + s <= Limit
  BY <1>1, <1>2, <1>3
<1>6. \A x \in Claim(a, s) : owner[x] = Unused
  <2> TAKE x \in Claim(a, s)
  <2>1. x \in Slots /\ Slot(a) <= x
    <3>1. Slot(a) \in Nat
      BY <1>2, SlotType DEF Slots
    <3>2. PICK z \in Int : Claim(a, s) = Slot(a) .. z /\ z <= Lines - 1
      <4> DEFINE bytes == IF CheckLines * Line > s THEN s ELSE CheckLines * Line
                 c == (bytes + Line - 1) \div Line
      <4>1. c \in Int
        BY <1>3, FifoAssumption
      <4>2. Claim(a, s) = Slot(a) .. (IF Slot(a) + c > Lines THEN Lines ELSE Slot(a) + c) - 1
        BY DEF Claim
      <4> HIDE DEF c
      <4> QED
        BY <1>3, <3>1, <4>1, <4>2
    <3> QED
      BY <1>3, <3>1, <3>2 DEF Slots
  <2>2. CASE placed = {}
    BY <2>1, <2>2 DEF UsedInv
  <2>3. CASE placed # {}
    <3>1. PICK p \in placed : p.end = t.start
      <4>1. PICK q \in placed : TRUE
        BY <2>3
      <4>2. q.start \in Nat /\ q.end \in Nat /\ Base <= q.start /\ q.start < q.end /\ q.end <= t.start
        BY <1>1 DEF MemoryInv, WavesInv, HighEnd
      <4>3. t.start # Base
        BY <1>1, <1>3, <4>2
      <4> QED
        BY <1>1, <4>3
    <3>2. t.start <= Base + Memory - f
      BY <1>4, <3>1 DEF HighEnd
    <3>3. Base <= a /\ a < Base + Memory
      BY <1>1, <1>2, <1>3, <3>2
    <3>4. HighEnd(a)
      <4> SUFFICES ASSUME NEW q \in placed PROVE q.end <= a
        BY DEF HighEnd
      <4>1. q.end <= t.start /\ q.end \in Nat
        BY <1>1 DEF HighEnd, MemoryInv, WavesInv
      <4> QED
        BY <1>1, <1>2, <4>1
    <3> QED
      BY <1>2, <2>1, <3>3, <3>4, FirstTurnIsFree
  <2> QED
    BY <2>2, <2>3
<1>7. o \in General(s)
  BY <1>1, <1>5, <1>6, <1>o DEF General
<1> QED
  BY <1>7 DEF Direct

\* Above every address, and less than a turn away, each slot comes by.
LEMMA SlotComesBy ==
  ASSUME NEW b \in Nat, NEW x \in Slots
  PROVE  \E k \in Nat : LET a == (Memory * k) + (Line * x) IN b <= a /\ a < b + Memory
<1>1. Line \in Nat \ {0} /\ Lines \in Nat \ {0} /\ Memory \in Nat \ {0} /\ Memory = Line * Lines
  BY FifoAssumption, MemoryType
<1> DEFINE t == b \div Memory
           r == b % Memory
           m == Memory * t
           i == Line * x
<1>2. t \in Nat /\ r \in 0 .. Memory - 1 /\ b = m + r
  BY <1>1, DivMod
<1>3. m \in Nat /\ i \in Nat /\ i < Memory
  <2>1. x \in Nat /\ x + 1 <= Lines
    BY <1>1 DEF Slots
  <2>2. Line * (x + 1) <= Line * Lines
    BY <1>1, <2>1
  <2> QED
    BY <1>1, <1>2, <2>1, <2>2
<1>m. Memory * t = m /\ Line * x = i
  OBVIOUS
<1> HIDE DEF t, r, m, i
<1>4. Memory * (t + 1) = m + Memory
  BY <1>1, <1>2, <1>m
<1>5. CASE b <= m + i
  <2>1. b <= m + i /\ m + i < b + Memory
    <3>1. r \in Nat
      BY <1>1, <1>2
    <3> QED
      BY <1>1, <1>2, <1>3, <1>5, <3>1
  <2> QED
    BY <1>2, <1>m, <2>1
<1>6. CASE ~(b <= m + i)
  <2>1. b <= m + Memory + i /\ m + Memory + i < b + Memory
    BY <1>1, <1>2, <1>3, <1>6
  <2>2. t + 1 \in Nat
    BY <1>2
  <2> QED
    BY <1>4, <1>m, <2>1, <2>2
<1> QED
  BY <1>5, <1>6

\* The slots of the lines from the start of a line on, around the memory.
LEMMA SlotAround ==
  ASSUME NEW k \in Nat, NEW x \in Slots, NEW i \in Nat
  PROVE  Slot((Memory * k) + (Line * x) + (i * Line)) = (x + i) % Lines
<1>1. Line \in Nat \ {0} /\ Lines \in Nat \ {0} /\ Memory \in Nat \ {0} /\ Memory = Line * Lines /\ x \in Nat
  BY FifoAssumption, MemoryType DEF Slots
<1> DEFINE u == (x + i) \div Lines
           v == (x + i) % Lines
<1>2. u \in Nat /\ v \in 0 .. Lines - 1 /\ x + i = (Lines * u) + v
  <2>1. x + i \in Nat
    BY <1>1
  <2> QED
    BY <1>1, <2>1, DivMod
<1> HIDE DEF u, v
<1>3. (Memory * k) + (Line * x) + (i * Line) = (Memory * (k + u)) + (Line * v) + 0
  <2>1. (Line * x) + (i * Line) = Line * (x + i)
    BY <1>1
  <2>2. Line * ((Lines * u) + v) = (Memory * u) + (Line * v)
    BY <1>1, <1>2
  <2>3. Memory * (k + u) = (Memory * k) + (Memory * u)
    BY <1>1, <1>2
  <2>4. /\ Memory * k \in Nat /\ Line * x \in Nat /\ i * Line \in Nat
        /\ Memory * u \in Nat /\ Line * v \in Nat
    BY <1>1, <1>2
  <2>5. (Line * x) + (i * Line) = (Memory * u) + (Line * v)
    BY <1>2, <2>1, <2>2
  <2> QED
    BY <2>3, <2>4, <2>5
<1>4. Slot((Memory * (k + u)) + (Line * v) + 0) = v
  <2>1. k + u \in Nat /\ v \in Nat /\ v < Lines /\ 0 \in Nat /\ 0 < Line
    BY <1>1, <1>2
  <2> QED
    BY <2>1, SlotOfLine
<1> QED
  BY <1>3, <1>4 DEF v

\* An address that begins a line, and leaves room for the wave, is looked at.
LEMMA StepsReach ==
  ASSUME NEW b, b.end \in Nat, NEW s \in Nat, NEW from, NEW k \in Nat,
         from <= Line * k, (Line * k) + s <= b.end
  PROVE  Line * k \in Steps(b, s, from)
<1> DEFINE d == b.end \div Line
           r == b.end % Line
<1>1. Line \in Nat \ {0}
  BY FifoAssumption
<1>2. d \in Nat /\ r \in 0 .. Line - 1 /\ b.end = (Line * d) + r
  BY <1>1, DivMod
<1> HIDE DEF d, r
<1>3. ~(k >= d + 1)
  <2> SUFFICES ASSUME k >= d + 1 PROVE FALSE
    OBVIOUS
  <2>1. Line * k >= Line * (d + 1)
    BY <1>1, <1>2
  <2>2. Line * (d + 1) = (Line * d) + Line /\ Line * d \in Nat /\ Line * k \in Nat
    BY <1>1, <1>2
  <2> QED
    BY <1>1, <1>2, <2>1, <2>2
<1>4. k \in 0 .. b.end \div Line
  <2>1. k <= d
    BY <1>2, <1>3
  <2> QED
    BY <1>2, <2>1 DEF d
<1> QED
  BY <1>4 DEF Steps

\* A line whose slot begins a window free of recorded slots is spared.
LEMMA WindowSpares ==
  ASSUME NEW x \in Slots, \A i \in 0 .. CheckLines - 1 : ((x + i) % Lines) \notin recorded,
         NEW k \in Nat, NEW end
  PROVE  Spares((Memory * k) + (Line * x), end)
<1> SUFFICES ASSUME NEW l \in Walked((Memory * k) + (Line * x), CheckLines, end) PROVE Slot(l) \notin recorded
  BY DEF Spares
<1>1. PICK i \in 0 .. CheckLines - 1 : l = (Memory * k) + (Line * x) + (i * Line)
  BY DEF Walked
<1>2. i \in Nat
  BY CountTypes
<1>3. Slot(l) = (x + i) % Lines
  BY <1>1, <1>2, SlotAround
<1> QED
  BY <1>3

\* While addresses are left, the search finds a place in the block behind the
\* highest wave if a window of slots is free of recorded ones.
LEMMA TailFound ==
  ASSUME MemoryInv, AddressesLeft, ClearWindow, NEW s \in Sizes
  PROVE  \E t \in Candidates : /\ t.end = Limit /\ t.start + Memory + s <= Limit
                               /\ Found(t, s, t.start) # {}
<1>1. PICK x \in Slots : \A i \in 0 .. CheckLines - 1 : ((x + i) % Lines) \notin recorded
  BY DEF ClearWindow
<1> DEFINE f == FixedLines * Line
<1>2. PICK t \in Candidates : t.end = Limit /\ t.start \in Nat /\ t.start + Memory + f + s <= Limit
  BY TailHasRoom
<1>3. /\ Line \in Nat \ {0} /\ Lines \in Nat \ {0} /\ Memory \in Nat \ {0} /\ Memory = Line * Lines
      /\ s \in Nat \ {0} /\ Limit \in Nat /\ f \in Nat /\ x \in Nat
  BY FifoAssumption, MemoryType DEF Slots
<1> HIDE DEF f
<1>4. PICK k \in Nat : LET a == (Memory * k) + (Line * x) IN t.start <= a /\ a < t.start + Memory
  BY <1>2, SlotComesBy
<1> DEFINE j == (Lines * k) + x
           a == Line * j
<1>5. j \in Nat /\ a \in Nat /\ a = (Memory * k) + (Line * x)
  BY <1>3
<1>6. t.start <= a /\ a + s <= t.end
  <2>1. t.start <= a /\ a < t.start + Memory
    BY <1>4, <1>5
  <2> HIDE DEF a
  <2> QED
    BY <1>2, <1>3, <1>5, <2>1
<1> HIDE DEF j
<1>7. a \in Steps(t, s, t.start)
  BY <1>2, <1>3, <1>5, <1>6, StepsReach
<1>8. Spares(a, t.end)
  BY <1>1, <1>5, WindowSpares
<1>9. t.start + Memory + s <= Limit
  BY <1>2, <1>3
<1> QED
  BY <1>2, <1>7, <1>8, <1>9 DEF Found

\* A place for reloading is missing only when no window of slots is free of
\* recorded ones.
LEMMA ReloadRefused ==
  ASSUME MemoryInv, AddressesLeft, NEW s \in Sizes, Reload(s) = {}
  PROVE  ~ClearWindow
<1> SUFFICES ASSUME ClearWindow PROVE FALSE
  OBVIOUS
<1>1. PICK t \in Candidates : Found(t, s, t.start) # {}
  BY TailFound
<1>2. PICK a \in FoundIn(t, s) : TRUE
  BY <1>1 DEF FoundIn
<1>3. [block |-> t, start |-> a, claim |-> {}] \in Reload(s)
  BY <1>2 DEF Reload
<1> QED
  BY <1>3

\* Only the block that reaches the end of the addresses has room for a wave in
\* the last line, or begins in it.
LEMMA OnlyTheTail ==
  ASSUME MemoryInv, NEW s \in Sizes, NEW t \in Candidates, t.end = Limit, t.start + Memory + s <= Limit,
         NEW b \in Candidates, Around(b, s)
  PROVE  b = t
<1> SUFFICES ASSUME b # t PROVE FALSE
  OBVIOUS
<1>1. Line \in Nat \ {0} /\ Lines \in Nat \ {0} /\ Memory = Line * Lines /\ s \in Nat \ {0} /\ Limit \in Nat
  BY FifoAssumption, MemoryType
<1>2. Memory \in Nat /\ Line <= Memory
  BY <1>1
<1>3. /\ b.start \in Nat /\ b.end \in Nat /\ b.start < b.end /\ b.end <= Limit
      /\ t.start \in Nat /\ t.end \in Nat
  BY CandidateBlock DEF Block
<1>4. Apart(t, b)
  BY CandidateFacts DEF MemoryInv, BlocksInv
<1>5. b.end <= t.start
  BY <1>1, <1>3, <1>4 DEF Apart
<1>6. CASE LastLineFits(b, s)
  <2>1. Limit + 1 - Line + s <= b.end
    BY <1>1, <1>6 DEF LastLineFits, Addresses
  <2> QED
    BY <1>1, <1>2, <1>3, <1>5, <2>1
<1>7. CASE AlignUp(b.start, Line) = Addresses
  <2> DEFINE n == b.start + Line - 1
             d == n \div Line
  <2>1. n \in Nat
    BY <1>1, <1>3
  <2>2. d \in Nat /\ (n % Line) \in 0 .. Line - 1 /\ n = (Line * d) + (n % Line)
    BY <1>1, <2>1, DivMod
  <2>3. d * Line = Limit + 1
    BY <1>7 DEF AlignUp, Addresses
  <2> HIDE DEF d
  <2>4. Line * d = Limit + 1
    BY <1>1, <2>2, <2>3
  <2>5. n >= Limit + 1
    BY <1>1, <2>1, <2>2, <2>4
  <2> QED
    BY <1>1, <1>2, <1>3, <1>5, <2>5
<1> QED
  BY <1>6, <1>7 DEF Around

\* A search without end meets no window free of recorded slots.
LEMMA SpinRefused ==
  ASSUME MemoryInv, AddressesLeft, NEW s \in Sizes, Stuck(s) # {}
  PROVE  ~ClearWindow
<1> SUFFICES ASSUME ClearWindow PROVE FALSE
  OBVIOUS
<1>1. PICK t \in Candidates : /\ t.end = Limit /\ t.start + Memory + s <= Limit
                              /\ Found(t, s, t.start) # {}
  BY TailFound
<1>2. PICK b \in Candidates : FoundIn(b, s) = {} /\ LastLineFits(b, s)
  BY DEF Stuck
<1>3. b = t
  BY <1>1, <1>2, OnlyTheTail DEF Around
<1> QED
  BY <1>1, <1>2, <1>3 DEF FoundIn

\* While addresses are left, the search never comes around to address 0: what
\* it would find there it finds before the end.
LEMMA NeverAround ==
  ASSUME MemoryInv, AddressesLeft, NEW s \in Sizes, NEW o \in Reload(s)
  PROVE  o.block.start <= o.start
<1> SUFFICES ASSUME ~(o.block.start <= o.start) PROVE FALSE
  OBVIOUS
<1>1. PICK b \in Candidates : o \in {[block |-> b, start |-> c, claim |-> {}] : c \in FoundIn(b, s)}
  BY DEF Reload
<1>2. PICK a \in FoundIn(b, s) : o = [block |-> b, start |-> a, claim |-> {}]
  BY <1>1
<1>3. a \notin Found(b, s, b.start)
  BY <1>2 DEF Found, Steps
<1>4. Found(b, s, b.start) = {} /\ Around(b, s) /\ a \in Found(b, s, 0)
  BY <1>3 DEF FoundIn
<1>5. /\ Line \in Nat \ {0} /\ Lines \in Nat \ {0} /\ Grain \in Nat \ {0} /\ Limit \in Nat
      /\ CheckLines \in Nat /\ Memory \in Nat
  BY FifoAssumption, MemoryType
<1>6. PICK t \in Candidates : t.end = Limit /\ t.start + Memory + s <= Limit
  <2>1. PICK t \in Candidates : /\ t.end = Limit /\ t.start \in Nat
                                /\ t.start + Memory + (FixedLines * Line) + s <= Limit
    BY TailHasRoom
  <2>2. FixedLines * Line \in Nat /\ s \in Nat
    BY FifoAssumption
  <2>3. t.start + Memory + s <= Limit
    BY <1>5, <2>1, <2>2
  <2> QED
    BY <2>1, <2>3
<1>7. b = t
  BY <1>4, <1>6, OnlyTheTail
<1>8. a \in Nat /\ (a % Line) = 0
  <2>1. b.end \in Nat /\ 0 \in Nat /\ a \in Steps(b, s, 0)
    BY <1>4, CandidateBlock DEF Found, Block
  <2> QED
    BY <2>1, StepFacts
<1>9. Limit > Addresses - Line
  <2>1. Line # 1
    <3> SUFFICES ASSUME Line = 1 PROVE FALSE
      OBVIOUS
    <3>1. (1 % Grain) = 0 /\ ~((Limit % Grain) = 0)
      BY GrainAssumption
    <3>2. Grain = 1
      <4>1. 1 = (Grain * (1 \div Grain)) + (1 % Grain) /\ 1 \div Grain \in Nat
        BY <1>5, DivMod
      <4>2. Grain * (1 \div Grain) = 1
        BY <1>5, <3>1, <4>1
      <4>3. 1 \div Grain >= 1
        BY <1>5, <4>1, <4>2
      <4>4. Grain * (1 \div Grain) >= Grain
        BY <1>5, <4>1, <4>3
      <4> QED
        BY <1>5, <4>2, <4>4
    <3> QED
      BY <1>5, <3>1, <3>2
  <2> QED
    BY <1>5, <2>1 DEF Addresses
<1>10. \A i \in 0 .. CheckLines - 1 : Slot(a + (i * Line)) \notin recorded
  <2> TAKE i \in 0 .. CheckLines - 1
  <2>1. a + (i * Line) \in Walked(a, CheckLines, b.end)
    BY <1>6, <1>7, <1>9 DEF Walked
  <2> QED
    BY <1>4, <2>1 DEF Found, Spares
<1>11. ClearWindow
  <2>1. Slot(a) \in Slots
    BY <1>8, SlotType
  <2>2. PICK k \in Nat, r \in Nat : a = (Memory * k) + (Line * Slot(a)) + r /\ r = 0
    BY <1>8, AddressParts
  <2> DEFINE x == Slot(a)
  <2>3. x \in Slots /\ x \in Nat
    BY <2>1, <1>5 DEF Slots
  <2>4. a = (Memory * k) + (Line * x)
    BY <1>5, <2>2, <2>3
  <2> HIDE DEF x
  <2>5. \A i \in 0 .. CheckLines - 1 : Slot(a + (i * Line)) = (x + i) % Lines
    <3> TAKE i \in 0 .. CheckLines - 1
    <3>1. i \in Nat
      BY <1>5
    <3> QED
      BY <2>3, <2>4, <3>1, SlotAround
  <2> QED
    BY <1>10, <2>3, <2>5 DEF ClearWindow
<1>12. PICK u \in Candidates : /\ u.end = Limit /\ u.start + Memory + s <= Limit
                               /\ Found(u, s, u.start) # {}
  BY <1>11, TailFound
<1>13. b = u
  BY <1>4, <1>12, OnlyTheTail
<1> QED
  BY <1>4, <1>12, <1>13

LEMMA UsedNext ==
  ASSUME WholeInv, UsedInv, [Next]_vars
  PROVE  UsedInv'
<1>1. ASSUME UNCHANGED <<owner, placed>> PROVE UsedInv'
  BY <1>1 DEF UsedInv, Slot
<1> SUFFICES ASSUME Inv, Next PROVE UsedInv'
  BY <1>1, WrappedStops DEF WholeInv, vars
<1>2. ASSUME NEW s \in Sizes, PlaceFixed(s) \/ PlaceDirect(s) PROVE UsedInv'
  <2>1. PICK kind : Take(First(Direct(s)), s, kind)
    BY <1>2 DEF PlaceFixed, PlaceDirect
  <2>2. Direct(s) # {}
    BY <1>2 DEF PlaceFixed, PlaceDirect
  <2>3. IsPlace(First(Direct(s)), s) /\ ClaimsItsLines(First(Direct(s)), s)
    BY <2>2, DirectPlace, DirectClaims DEF Inv
  <2> QED
    BY <2>1, <2>3, UsedKept
<1>3. ASSUME NEW s \in Sizes, PlaceReloaded(s) \/ PlaceAround(s) PROVE UsedInv'
  <2>1. owner' = owner /\ placed \subseteq placed'
    BY <1>3, ReloadTakes
  <2> QED
    BY <2>1 DEF UsedInv, Slot
<1> QED
  BY <1>1, <1>2, <1>3 DEF Next, StartRest, Finish, FixedOverflow, Spin, RestOverflow

LEMMA ReasonNext ==
  ASSUME WholeInv, UsedInv, RefusedForAReason, [Next]_vars
  PROVE  RefusedForAReason'
<1>1. ASSUME UNCHANGED vars PROVE RefusedForAReason'
  BY <1>1 DEF vars, RefusedForAReason, AddressesLeft, HighEnd, ClearWindow
<1> SUFFICES ASSUME Inv, Next PROVE RefusedForAReason'
  BY <1>1, WrappedStops DEF WholeInv
<1>2. ASSUME NEW s \in Sizes, FixedOverflow(s) PROVE RefusedForAReason'
  <2>1. /\ pass' = "fixedOverflow" /\ Direct(s) = {} /\ UNCHANGED <<recorded, placed>>
    BY <1>2 DEF FixedOverflow
  <2>2. AddressesLeft => ~HighEnd(Base + Memory - (FixedLines * Line))
    BY <2>1, DirectRefused DEF Inv
  <2> QED
    BY <2>1, <2>2 DEF RefusedForAReason, AddressesLeft, HighEnd
<1>3. ASSUME NEW s \in Sizes, RestOverflow(s) \/ Spin(s) PROVE RefusedForAReason'
  <2>1. /\ pass' \in {"restOverflow", "spinning"} /\ UNCHANGED <<recorded, placed>>
        /\ Reload(s) = {} \/ Stuck(s) # {}
    BY <1>3 DEF RestOverflow, Spin
  <2>2. AddressesLeft => ~ClearWindow
    BY <2>1, ReloadRefused, SpinRefused DEF Inv
  <2> QED
    BY <2>1, <2>2 DEF RefusedForAReason, AddressesLeft, HighEnd, ClearWindow
<1>4. ASSUME NEW s \in Sizes, PlaceAround(s) PROVE RefusedForAReason'
  <2> DEFINE o == First(Reload(s))
  <2>1. pass' = "wrapped" /\ Reload(s) # {} /\ o.start < o.block.start
    BY <1>4 DEF PlaceAround, ReloadAt
  <2>2. placed \subseteq placed'
    BY <1>4, ReloadTakes
  <2>3. o \in Reload(s)
    BY <2>1, ReloadPlace DEF Inv
  <2>4. o.start \in Nat /\ o.block.start \in Nat
    BY <2>3, ReloadPlaces, CandidateBlock DEF Inv, Block
  <2>5. ~AddressesLeft
    BY <2>1, <2>3, <2>4, NeverAround DEF Inv
  <2>6. AddressesLeft' => AddressesLeft
    BY <2>2 DEF AddressesLeft, HighEnd
  <2> QED
    BY <2>5, <2>6 DEF RefusedForAReason
<1>5. ASSUME pass' \notin {"fixedOverflow", "restOverflow", "spinning", "wrapped"} PROVE RefusedForAReason'
  BY <1>5 DEF RefusedForAReason
<1>6. ASSUME NEW s \in Sizes, PlaceFixed(s) \/ PlaceDirect(s) \/ PlaceReloaded(s) PROVE RefusedForAReason'
  <2>1. pass' = pass /\ pass \in {"fixed", "rest"}
    BY <1>6 DEF PlaceFixed, PlaceDirect, PlaceReloaded, ReloadAt
  <2> QED
    BY <1>5, <2>1
<1> QED
  BY <1>2, <1>3, <1>4, <1>5, <1>6 DEF Next, StartRest, Finish

\* As long as addresses are left: a fixed wave is refused only when the fixed
\* waves have gone once through the memory, another only when no window of
\* slots is free of recorded ones, and none is placed around address 0; for
\* every memory, and waves of any sizes.
THEOREM OnlyForAReason == Spec => []RefusedForAReason
<1>1. Init => WholeInv /\ UsedInv /\ RefusedForAReason
  BY InitInv DEF Init, Inv, WholeInv, UsedInv, RefusedForAReason
<1>2. WholeInv /\ UsedInv /\ RefusedForAReason /\ [Next]_vars => (WholeInv /\ UsedInv /\ RefusedForAReason)'
  BY NextInv, UsedNext, ReasonNext
<1> QED
  BY <1>1, <1>2, PTL DEF Spec
=============================================================================
