---------------------------- MODULE FifoAllocator ----------------------------
(* Where the waves of a device with a waveform cache go:                   *)
(* WavetableIR::allocateWaveformsForFifo (waveform/wavetable_ir.cpp) and   *)
(* the allocator it drives (codegen/memory_allocator.cpp).  Only the HDAWG *)
(* comes here: cacheType is 1 for it and 0 for every other device          *)
(* (compile_seqc.cpp:338, compiler.cpp:756).                               *)
(*                                                                         *)
(* An address is cached in the slot (address % Memory) \div Line.  Waves   *)
(* that stay in the cache (fixed_) are placed first, then the others; each *)
(* next to a small wave of the same line, else on slots nobody owns, else, *)
(* if it is not fixed, where loading it spares the recorded slots of the   *)
(* fixed waves.                                                            *)
(*                                                                         *)
(* A wave is its size; sizes come in any order, so the order of the used   *)
(* waves and which of them are fixed are any.  The deque of free blocks is *)
(* in address order, since what is left of a block takes its place, and is *)
(* a set here.  A wave of size 0 changes nothing.  Addresses have 32 bits: *)
(* the search for a reloaded wave steps from the last line to address 0.   *)
(* A wave it finds there ends the model (pass "wrapped").                  *)
(***************************************************************************)
EXTENDS Integers, FiniteSets

CONSTANTS
  Grain,      \* waveformElfAlignment, 64 bytes
  Line,       \* waveformAlignment, a cache line
  Lines,      \* cache lines of the waveform memory
  CheckLines, \* cachePageCount: the lines of a wave that are checked
  FixedLines, \* maxBlocks: the lines of a fixed wave that are recorded
  Base,       \* addressBase_ before the allocation
  Limit,      \* 0xFFFFFFFF, lastAllocEnd_ and the highest address
  Sizes,      \* bound: the sizes of the waves, never 0
  MaxWaves,   \* bound: the number of waves
  Unused      \* unusedCacheLine

ASSUME FifoAssumption ==
  /\ {Grain, Line, Lines, CheckLines, FixedLines} \subseteq Nat \ {0}
  /\ {Base, Limit, MaxWaves} \subseteq Nat /\ Base < Limit
  /\ Sizes \subseteq Nat \ {0} /\ Unused \notin Nat

\* Bases, lines and sizes are multiples of the grain (HDAWG: lines of 4096, a
\* grain of 64, sizes rounded to 64 in wavetable_ir.cpp:910); 0xFFFFFFFF is
\* not, so that no wave ever ends there.
ASSUME GrainAssumption ==
  /\ Line % Grain = 0 /\ Base % Line = 0 /\ Limit % Grain # 0
  /\ \A s \in Sizes : s % Grain = 0

VARIABLES
  pass,        \* what allocateWaveformsForFifo is doing
  freeBlocks,  \* MemoryAllocator::freeBlocks_
  owner,       \* MemoryAllocator::cacheLineUsage_: slot to line address
  recorded,    \* allocatedSet: slots of the fixed waves
  placed,      \* addressValue, end, crossesCacheLine_ of the waves so far
  addressBase  \* WavetableIR::addressBase_

vars == <<pass, freeBlocks, owner, recorded, placed, addressBase>>

Memory == Line * Lines
Slots == 0 .. Lines - 1

\* The number of addresses, 2^32.
Addresses == Limit + 1

\* HDAWG: 64, 4096 and 8192, powers of two, for which & ~(q - 1) rounds; and
\* 2^32 is a multiple of its memory of 2^20, so that slots go on behind the
\* last address where they began.
ASSUME WidthAssumption ==
  /\ {Grain, Line, FixedLines * Line} \subseteq {2 ^ n : n \in 0 .. 30}
  /\ Addresses % Memory = 0

\* Every device begins its waves at a multiple of its memory (0, 0x80000000 or
\* 0xd0000000).
ASSUME BaseAssumption == Base % Memory = 0

Init ==
  /\ pass = "fixed" /\ freeBlocks = {} /\ owner = [s \in Slots |-> Unused]
  /\ recorded = {} /\ placed = {} /\ addressBase = Base

----------------------------------------------------------------------------
(* Addresses.                                                              *)

\* (a + q - 1) & ~(q - 1), for the powers of two it is used with.  A sum past
\* the addresses wraps to 0: allocateCLAligned refuses it (aligned <
\* blockStart), allocateReloadingCL goes on from there, see Around.
AlignUp(a, q) == ((a + q - 1) \div q) * q

Slot(a) == (a % Memory) \div Line

LineOf(a) == (a \div Line) * Line

\* The addresses of the first n lines from a on that begin below end.
LinesFrom(a, n, end) == {l \in {a + (i * Line) : i \in 0 .. n - 1} : l < end}

\* The same as the loops count them: behind the last line comes address 0,
\* which is below every end.  (Slot(l) is the slot of l % Addresses.)
Walked(a, n, end) ==
  {l \in {a + (i * Line) : i \in 0 .. n - 1} : l < end \/ end > Addresses - Line}

----------------------------------------------------------------------------
(* The places a wave of size s can be given: the block it is cut from, its *)
(* start, and the slots it claims.                                         *)

Ends == {b.end : b \in freeBlocks}

\* Behind the last free block, as long as there is none everything.
Tail == [start |-> IF freeBlocks = {} THEN Base ELSE CHOOSE e \in Ends : \A f \in Ends : f <= e,
         end |-> Limit]

Candidates == freeBlocks \cup {b \in {Tail} : b.start < b.end}

\* Mutant: a slot somebody owns will do.
JoinsLineAny(a, s, end) == s < Line /\ a + s <= end

\* Less than a line, on a line that is in its slot already, and not across
\* its end.
JoinsLine(a, s, end) ==
  /\ s < Line /\ a + s <= end
  /\ owner[Slot(a)] = LineOf(a)
  /\ LineOf(a) + Line >= end \/ a + s <= LineOf(a) + Line

Fast(s) ==
  {o \in {[block |-> b, start |-> AlignUp(b.start, Grain), claim |-> {}] : b \in Candidates} :
     JoinsLine(o.start, s, o.block.end)}

\* Mutant: the last slot is forgotten.
ClaimShort(a, s) ==
  LET bytes == IF CheckLines * Line > s THEN s ELSE CheckLines * Line
      last == Slot(a) + ((bytes + Line - 1) \div Line)
  IN  Slot(a) .. (IF last > Lines THEN Lines ELSE last) - 2

\* The slots of the lines from a on, up to the end of the memory.
Claim(a, s) ==
  LET bytes == IF CheckLines * Line > s THEN s ELSE CheckLines * Line
      last == Slot(a) + ((bytes + Line - 1) \div Line)
  IN  Slot(a) .. (IF last > Lines THEN Lines ELSE last) - 1

Alignment(s) == IF s > Line THEN FixedLines * Line ELSE Line

General(s) ==
  {o \in {LET a == AlignUp(b.start, Alignment(s))
          IN  [block |-> b, start |-> a, claim |-> Claim(a, s)] : b \in Candidates} :
     /\ o.start >= o.block.start /\ o.start < o.block.end /\ o.start + s <= o.block.end
     /\ \A x \in o.claim : owner[x] = Unused}

\* allocateCLAligned
Direct(s) == IF Fast(s) # {} THEN Fast(s) ELSE General(s)

\* Mutant: only the first line is looked at.
SparesFirst(a, end) == Slot(a) \notin recorded

\* None of the first lines is on a recorded slot.
Spares(a, end) == \A l \in Walked(a, CheckLines, end) : Slot(l) \notin recorded

\* Mutant: the block is given up at the first conflict.
StepsFirst(b, s, from) == {a \in {AlignUp(from, Line)} : a + s <= b.end}

\* The starts the loop of allocateReloadingCL steps through.
Steps(b, s, from) == {a \in {Line * k : k \in 0 .. b.end \div Line} : from <= a /\ a + s <= b.end}

Found(b, s, from) == {a \in Steps(b, s, from) : Spares(a, b.end)}

\* There is room for the wave even in the last line of the addresses, so that
\* the loop does not end there but steps on to address 0.
LastLineFits(b, s) == (Addresses - Line) + s <= b.end

\* The search goes on from address 0, or begins there.
Around(b, s) == LastLineFits(b, s) \/ AlignUp(b.start, Line) = Addresses

FoundIn(b, s) ==
  IF Found(b, s, b.start) # {} THEN Found(b, s, b.start)
  ELSE IF Around(b, s) THEN Found(b, s, 0) ELSE {}

\* allocateReloadingCL: the caller's wave claims nothing.
Reload(s) ==
  UNION {{[block |-> b, start |-> a, claim |-> {}] : a \in FoundIn(b, s)} : b \in Candidates}

\* The blocks in which its loop never ends.
Stuck(s) == {b \in Candidates : FoundIn(b, s) = {} /\ LastLineFits(b, s)}

----------------------------------------------------------------------------
(* Placing a wave.                                                         *)

\* The deque is walked from its front.
First(places) ==
  CHOOSE o \in places : \A p \in places :
    o.block.start < p.block.start \/ (o.block.start = p.block.start /\ o.start <= p.start)

\* Mutant: the block is not cut behind the wave.
LeftoversUncut(b, start, end) == {r \in {[start |-> b.start, end |-> start], [start |-> start, end |-> b.end]} : r.start < r.end}

\* Mutant: what lies before the wave is lost.
LeftoversAfter(b, start, end) == {r \in {[start |-> end, end |-> b.end]} : r.start < r.end}

\* What is left of a block.
Leftovers(b, start, end) ==
  {r \in {[start |-> b.start, end |-> start], [start |-> end, end |-> b.end]} : r.start < r.end}

\* One successful allocation; a wave on slots of its own crosses a line.
Take(o, s, kind) ==
  /\ freeBlocks' = (freeBlocks \ {o.block}) \cup Leftovers(o.block, o.start, o.start + s)
  /\ owner' = [x \in Slots |-> IF x \in o.claim THEN o.start + ((x - Slot(o.start)) * Line) ELSE owner[x]]
  /\ placed' = placed \cup
       {[start |-> o.start, end |-> o.start + s, kind |-> kind, crosses |-> o.claim # {}]}

\* The slots of a fixed wave that later waves must spare.
Recorded(start, end) == {Slot(l) : l \in Walked(start, FixedLines, end)}

Room == Cardinality(placed) < MaxWaves

\* The first pass: a fixed wave, whose first slots are recorded.
PlaceFixed(s) ==
  /\ pass = "fixed" /\ Room /\ Direct(s) # {}
  /\ LET o == First(Direct(s))
     IN  /\ Take(o, s, "fixed")
         /\ recorded' = recorded \cup Recorded(o.start, o.start + s)
  /\ UNCHANGED <<pass, addressBase>>

\* WavetableException.
FixedOverflow(s) ==
  /\ pass = "fixed" /\ Room /\ Direct(s) = {}
  /\ pass' = "fixedOverflow"
  /\ UNCHANGED <<freeBlocks, owner, recorded, placed, addressBase>>

StartRest ==
  /\ pass = "fixed" /\ pass' = "rest"
  /\ UNCHANGED <<freeBlocks, owner, recorded, placed, addressBase>>

\* The second pass.
PlaceDirect(s) ==
  /\ pass = "rest" /\ Room /\ Direct(s) # {}
  /\ Take(First(Direct(s)), s, "direct")
  /\ UNCHANGED <<pass, recorded, addressBase>>

\* The search ends at o: no block in front of it keeps the loop.
ReloadAt(o, s) ==
  /\ pass = "rest" /\ Room /\ Direct(s) = {}
  /\ Reload(s) # {} /\ o = First(Reload(s)) /\ \A b \in Stuck(s) : o.block.start < b.start
  /\ Take(o, s, "reloaded")
  /\ UNCHANGED <<recorded, addressBase>>

PlaceReloaded(s) ==
  /\ ReloadAt(First(Reload(s)), s)
  /\ First(Reload(s)).block.start <= First(Reload(s)).start
  /\ UNCHANGED pass

\* The start was found behind address 0, where memory of others may be.
PlaceAround(s) ==
  /\ ReloadAt(First(Reload(s)), s)
  /\ First(Reload(s)).start < First(Reload(s)).block.start
  /\ pass' = "wrapped"

\* The loop goes round the addresses for ever.
Spin(s) ==
  /\ pass = "rest" /\ Room /\ Direct(s) = {}
  /\ \E b \in Stuck(s) : \A o \in Reload(s) : b.start < o.block.start
  /\ pass' = "spinning"
  /\ UNCHANGED <<freeBlocks, owner, recorded, placed, addressBase>>

\* A bare runtime_error.
RestOverflow(s) ==
  /\ pass = "rest" /\ Room /\ Direct(s) = {} /\ Reload(s) = {} /\ Stuck(s) = {}
  /\ pass' = "restOverflow"
  /\ UNCHANGED <<freeBlocks, owner, recorded, placed, addressBase>>

\* maxFreeBlockStart, if there is a free block.
MaxFreeBlockStart ==
  IF freeBlocks = {} THEN addressBase
  ELSE LET starts == {b.start : b \in freeBlocks} IN CHOOSE a \in starts : \A c \in starts : c <= a

Finish ==
  /\ pass = "rest" /\ pass' = "done"
  /\ addressBase' = MaxFreeBlockStart
  /\ UNCHANGED <<freeBlocks, owner, recorded, placed>>

Next ==
  \/ StartRest \/ Finish
  \/ \E s \in Sizes : \/ PlaceFixed(s) \/ FixedOverflow(s)
                      \/ PlaceDirect(s) \/ PlaceReloaded(s) \/ PlaceAround(s)
                      \/ Spin(s) \/ RestOverflow(s)

Spec == Init /\ [][Next]_vars

----------------------------------------------------------------------------

Block == [start : Nat, end : Nat]

\* Every variable has its type.
TypeOK ==
  /\ pass \in {"fixed", "rest", "done", "fixedOverflow", "restOverflow", "wrapped", "spinning"}
  /\ freeBlocks \subseteq Block
  /\ owner \in [Slots -> Nat \cup {Unused}]
  /\ recorded \subseteq Slots
  /\ placed \subseteq [start : Nat, end : Nat, kind : {"fixed", "direct", "reloaded"}, crosses : BOOLEAN]
  /\ addressBase \in Nat

\* Two pieces of memory have no byte in common.
Apart(p, q) == p.end <= q.start \/ q.end <= p.start

\* No two waves share a byte, and no wave lies in a block that will be cut
\* again.
NoOverlap ==
  /\ \A p, q \in placed : p # q => Apart(p, q)
  /\ \A p \in placed, b \in freeBlocks : Apart(p, b)

\* No byte is lost: each is a wave's or free, so that a wave is refused for
\* its alignment or its slots and not because the allocator forgot a gap.
NothingLost ==
  freeBlocks # {} =>
    \A a \in Base .. Limit - 1 : \E p \in placed \cup freeBlocks : p.start <= a /\ a < p.end

\* Every byte of the address range is one wave's or free, unless the search
\* for a reloaded wave has come around to address 0 (which RefusedForAReason
\* excludes as long as a turn of the memory is left).
MemoryTiled == pass # "wrapped" => NoOverlap /\ NothingLost

\* The lines of a wave that its allocation looks at, and that lie in the same
\* turn of the memory as its start: the loops end at the end of the memory.
CheckedLines(p) ==
  {l \in LinesFrom(LineOf(p.start), CheckLines, p.end) : l \div Memory = p.start \div Memory}

\* Waves that are placed without reloading keep their slots for themselves up
\* to the end of the memory's turn: two different lines of theirs there never
\* need one slot.  (SlotsAreFree says it of all lines, and fails.)
ResidentTogether ==
  \A p, q \in {r \in placed : r.kind # "reloaded"} :
    \A l \in CheckedLines(p), m \in CheckedLines(q) : Slot(l) = Slot(m) => l = m

\* memory_allocator.hpp:131: "require every cache-line slot the allocation
\* would cover to be free".  The loops over the slots end at the end of the
\* memory, so that a wave that goes on behind it covers slots it never asked
\* for, and its lines and another resident wave's need one slot.
SlotsAreFree ==
  \A p, q \in {r \in placed : r.crosses} :
    \A l \in LinesFrom(p.start, CheckLines, p.end), m \in LinesFrom(q.start, CheckLines, q.end) :
      Slot(l) = Slot(m) => l = m

\* Loading a reloaded wave does not push out a recorded line of a fixed wave.
ReloadSparesFixed ==
  \A p, q \in placed : p.kind = "reloaded" /\ q.kind = "fixed" =>
    \A l \in LinesFrom(p.start, CheckLines, p.end), m \in LinesFrom(q.start, FixedLines, q.end) :
      Slot(l) # Slot(m)

\* The end of the highest wave.
HighEnd(a) == \A p \in placed : p.end <= a

\* The program goes on behind the highest wave: addressBase_ is read back
\* from the free blocks.
BehindAllWaves ==
  pass = "done" => HighEnd(addressBase) /\ (addressBase = Base \/ \E p \in placed : p.end = addressBase)

\* A whole turn of the memory has room for a wave of any size.
AddressesLeft ==
  \A s \in Sizes : LET a == Limit - Memory - (FixedLines * Line) - s IN Base <= a /\ HighEnd(a)

\* CheckLines slots in a row of which none is recorded.
ClearWindow == \E a \in Slots : \A i \in 0 .. CheckLines - 1 : ((a + i) % Lines) \notin recorded

\* A wave is refused for a reason, and what is refused is not given a place
\* all the same: a fixed one because the fixed waves have gone once through
\* the memory, another (or a search that never ends, for a wave of less than a
\* line) because no CheckLines slots in a row are free of recorded ones.  Only
\* when the addresses run out is there another reason, or no refusal but a
\* place around address 0.
RefusedForAReason ==
  AddressesLeft =>
    /\ pass = "fixedOverflow" => ~HighEnd(Base + Memory - (FixedLines * Line))
    /\ pass \in {"restOverflow", "spinning"} => ~ClearWindow
    /\ pass # "wrapped"
=============================================================================
