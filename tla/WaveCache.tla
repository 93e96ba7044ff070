----------------------------- MODULE WaveCache -----------------------------
(***************************************************************************)
(* The wave-cache occupancy tracker (runtime/cache.cpp) as the prefetch    *)
(* planner drives it (codegen/prefetch.cpp, Prefetch::allocate).           *)
(*                                                                         *)
(* A Cache keeps a vector of shared_ptr<Pointer>.  getScope() copies the   *)
(* vector, not the Pointers: a scope and its parent alias the same         *)
(* objects.  Here `heap' is the sequence of Pointer objects ever created   *)
(* (an object's index is its identity) and `caches' the stack of live      *)
(* caches, each the set of the objects its vector holds: caches[1] is      *)
(* Prefetch::cache_, the last one the cache of the node list being walked. *)
(* The vector is kept sorted by position_ and its slots do not overlap     *)
(* (NoOverlap below), so position_ gives every order the code scans in.    *)
(*                                                                         *)
(* Byte counts stand for themselves, scaled down.  hash_ (a mask computed  *)
(* from position_ and size_), print() and str() are left out.              *)
(***************************************************************************)
EXTENDS Integers, Sequences, FiniteSets, FiniteSetsExt

CONSTANTS
  Waves,        \* waveform names
  WaveBytes,    \* WaveBytes[w]: the bytes the planner asks for
  Size,         \* devConst.waveformMemorySize
  Page,         \* devConst.sampleLength
  UsedSets,     \* the sets of waves a program may use
  LockedWaves,  \* the waves some lock() or unlock() statement names
  BranchCounts, \* the values maxBranches_ takes
  Unset,        \* "no entry" in nameMap_, "no slot" as a handle
  MaxSlots,     \* bound: Pointer objects created in a behaviour
  MaxDepth      \* bound: caches alive at once

\* getRequiredMemory() (codegen/prefetch_helpers.cpp) over the used waves.
RequiredMemory(used) == MapThenSumSet(LAMBDA w : WaveBytes[w], used)

ASSUME GeometryAssumption ==
  /\ Size \in Nat \ {0} /\ Page \in Nat \ {0} /\ Size % (2 * Page) = 0
  /\ BranchCounts \subseteq Nat \ {0}
  /\ UsedSets \subseteq SUBSET Waves /\ LockedWaves \subseteq Waves
  /\ WaveBytes \in [Waves -> Nat \ {0}]
  /\ Unset \notin BOOLEAN
  /\ MaxSlots \in Nat /\ MaxDepth \in Nat \ {0}

VARIABLES
  conf,    \* what the constructor and placeLoads() fixed for this compile
  heap,    \* the Pointer objects, in order of creation
  caches,  \* stack of live caches: the objects each vector holds
  nameMap, \* Prefetch::nameMap_
  fault,   \* the exception (or trap) that ended the walk, if any
  mem      \* history variable: what each byte of wave memory was loaded with

vars == <<conf, heap, caches, nameMap, fault, mem>>

PointerState == {"Ready", "LastPlayed", "Playing", "Free"}

Pointer == [position : Nat, size : Nat, numRepeats : Nat,
            waveform : Waves, state : PointerState]

NoFault == [kind |-> "none", bytes |-> 0]

----------------------------------------------------------------------------
(* Slots and the vectors that hold them.                                   *)

Pos(i)  == heap[i].position
End(i)  == heap[i].position + heap[i].size
Byte(i) == Pos(i) .. (End(i) - 1)

\* The walk allocates on Prefetch::cache_ and plays on the innermost cache.
Root == caches[1]
Top  == caches[Len(caches)]

Active(i) == heap[i].state \in {"LastPlayed", "Playing"}

Used(c) == MapThenSumSet(LAMBDA i : heap[i].size,
                         {i \in c : heap[i].state # "Free"})

\* Cache::getFreeMemory(): clamped to 0 when the subtraction underflows.
FreeMemory(c) == IF Used(c) \in 0 .. Size THEN Size - Used(c) ELSE 0

\* Mutant: any entry of the map, not only a true one, makes a slot evictable.
BlockersIgnoringFlag(c, names) ==
  {i \in c : heap[i].state # "Free" /\ names[heap[i].waveform] = Unset}

\* The slots the gap scan goes around: neither Free nor marked in the map.
Blockers(c, names) ==
  {i \in c : heap[i].state # "Free" /\ names[heap[i].waveform] # TRUE}

\* The gaps <<start, end>> in front of a blocker, in the order the scan meets them.
Gaps(B) ==
  {g \in ({0} \cup {End(j) : j \in B}) \X {Pos(j) : j \in B} :
     g[1] <= g[2] /\ \A j \in B : End(j) <= g[1] \/ g[2] <= Pos(j)}

GapsFitting(B, n) == {g \in Gaps(B) : g[2] - g[1] >= n}

\* The first of the smallest gaps in which n bytes fit (an exact fit is one).
BestGaps(B, n) ==
  {g \in GapsFitting(B, n) : \A f \in GapsFitting(B, n) :
     \/ g[2] - g[1] < f[2] - f[1]
     \/ g[2] - g[1] = f[2] - f[1] /\ g[1] <= f[1]}

\* The room after the last blocker.
Trailing(B, n) ==
  {t \in {0} \cup {End(j) : j \in B} : (\A j \in B : End(j) <= t) /\ t + n <= Size}

\* Mutant: the trailing room is never tried.
GapScanNoTrailing(B, n) == {g[1] : g \in BestGaps(B, n)}

\* The gap-scan half of getBestPosition: at most one position.
GapScan(B, n) ==
  IF BestGaps(B, n) # {} THEN {g[1] : g \in BestGaps(B, n)} ELSE Trailing(B, n)

\* Room after the last slot, Free or not; an end past Size would wrap around.
AppendPositions(c, n) ==
  {e \in {End(i) : i \in {k \in c : \A j \in c : Pos(j) <= Pos(k)}} :
     e + n <= Size \/ e > Size}

\* Cache::getBestPosition: the position it picks, {} when it throws.
BestPosition(c, names, n) ==
  IF conf.isHirzel \/ c = {} THEN {0}
  ELSE IF AppendPositions(c, n) # {} THEN AppendPositions(c, n)
  ELSE GapScan(Blockers(c, names), n)

\* Mutant: the right overlap is missed, the left one found.
OverlappedLeftOnly(c, p, n) == {i \in c : Pos(i) <= p /\ End(i) > p}

\* Cache::memoryWrite: what the new slot [p, p+n) pushes out of the vector.
Overlapped(c, p, n) ==
  {i \in c : IF Pos(i) < p THEN End(i) > p ELSE Pos(i) < p + n}

----------------------------------------------------------------------------
(* Cache::allocate: whole waves, or a chunk that is streamed repeatedly.    *)

AlignUp(n, p) == IF n % p = 0 THEN n ELSE (n + p) - (n % p)

FreePages == FreeMemory(Root) \div conf.maxBranches

Whole(n) == conf.split \/ n < FreePages

NumAllocs(n) ==
  LET byBudget == n \div FreePages + 1
      byHalves == n \div (Size \div 2)
  IN IF byBudget <= byHalves THEN byHalves ELSE byBudget

ChunkSize(n) == n \div NumAllocs(n)

SlotSize(n) == IF Whole(n) THEN AlignUp(n, Page)
                           ELSE AlignUp(ChunkSize(n), 2 * Page)

NumRepeats(n) == IF Whole(n) THEN 1 ELSE n \div (SlotSize(n) \div 2) + 1

\* The integer divisions of the streaming branch that have a zero divisor.
DividesByZero(n) == ~Whole(n) /\ (FreePages = 0 \/ SlotSize(n) = 0)

Emplace(w, b) == IF nameMap[w] = Unset THEN [nameMap EXCEPT ![w] = b] ELSE nameMap

----------------------------------------------------------------------------
(* The walk over the node list, one action per node it meets.              *)

Init ==
  /\ \E hirzel \in BOOLEAN, n \in BranchCounts, used \in UsedSets :
       conf = [isHirzel |-> hirzel, maxBranches |-> n, used |-> used,
               split |-> RequiredMemory(used) <= Size \/ hirzel]
  /\ heap = <<>>
  /\ caches = <<{}>>
  /\ nameMap = [w \in Waves |-> Unset]
  /\ fault = NoFault
  /\ mem = [b \in 0 .. (Size - 1) |-> Unset]

Running == fault = NoFault

Fail(kind, n) ==
  /\ fault' = [kind |-> kind, bytes |-> n]
  /\ UNCHANGED <<conf, heap, caches, mem>>

\* A new Pointer at p, written over whatever is there.
Place(w, p, n) ==
  LET new == [position |-> p, size |-> SlotSize(n), numRepeats |-> NumRepeats(n),
              waveform |-> w, state |-> "Ready"]
  IN /\ heap' = Append(heap, new)
     /\ caches' = [caches EXCEPT ![1] =
                     (@ \ Overlapped(@, p, SlotSize(n))) \cup {Len(heap) + 1}]
     /\ mem' = [b \in DOMAIN mem |-> IF b \in p .. (p + SlotSize(n) - 1)
                                     THEN <<w, p>> ELSE mem[b]]
     /\ UNCHANGED <<conf, fault>>

\* A Load node whose wave has no reusable slot: nameMap_ first, then allocate().
Load(w) ==
  LET n     == WaveBytes[w]
      spots == BestPosition(Root, nameMap', SlotSize(n))
  IN /\ Running /\ w \in conf.used /\ Len(heap) < MaxSlots
     /\ nameMap' = Emplace(w, TRUE)
     /\ IF DividesByZero(n) THEN Fail("divByZero", n)
        ELSE IF spots = {} THEN Fail("CacheMemoryFull", SlotSize(n))
        ELSE \E p \in spots : Place(w, p, n)

\* The slots of c that match handle h by geometry, and by name as well.
SameSlot(c, h) == {i \in c : Pos(i) = Pos(h) /\ heap[i].size = heap[h].size}
SameWave(c, h) == {i \in SameSlot(c, h) : heap[i].waveform = heap[h].waveform}

StillInMemory(c, h) == SameWave(c, h) # {}

\* A Load node that finds the slot of its loadRef still resident: reuse().
ReuseLoad(h) ==
  /\ Running /\ StillInMemory(Root, h)
  /\ nameMap' = Emplace(heap[h].waveform, TRUE)
  /\ heap' = [i \in DOMAIN heap |->
                IF i \in SameWave(Root, h) THEN [heap[i] EXCEPT !.state = "Ready"]
                                           ELSE heap[i]]
  /\ UNCHANGED <<conf, caches, fault, mem>>

\* Lock and Unlock nodes only mark the wave's name; the first mark stays.
Lock(w) ==
  /\ Running
  /\ nameMap' = Emplace(w, TRUE)
  /\ UNCHANGED <<conf, heap, caches, fault, mem>>

Unlock(w) ==
  /\ Running
  /\ nameMap' = Emplace(w, FALSE)
  /\ UNCHANGED <<conf, heap, caches, fault, mem>>

\* Mutant: a slot in LastPlayed is not looked for.
FirstPlaying(c) ==
  {i \in c : heap[i].state = "Playing" /\
             \A j \in c : heap[j].state = "Playing" => Pos(i) <= Pos(j)}

\* The first active slot of c in position order: what play() and resetPlay() demote.
FirstActive(c) ==
  {i \in c : Active(i) /\ \A j \in c : Active(j) => Pos(i) <= Pos(j)}

Demoted(state) == IF state = "LastPlayed" THEN "Free" ELSE "Ready"

\* A Play or Table node: demote the first active slot, then mark the match of h.
Play(h, final) ==
  /\ Running
  /\ heap' = [i \in DOMAIN heap |->
       IF i \in SameSlot(Top, h)
       THEN [heap[i] EXCEPT !.state = IF final THEN "LastPlayed" ELSE "Playing"]
       ELSE IF i \in FirstActive(Top) THEN [heap[i] EXCEPT !.state = Demoted(@)]
       ELSE heap[i]]
  /\ UNCHANGED <<conf, caches, nameMap, fault, mem>>

\* A Play node whose Load never got a slot: play(nullptr) throws.
PlayNull ==
  /\ Running /\ Fail("PlayNullPtr", 0)
  /\ UNCHANGED nameMap

\* A Branch or Loop node: its list is walked on a copy of the vector ...
EnterScope ==
  /\ Running /\ Len(caches) < MaxDepth
  /\ caches' = Append(caches, Top)
  /\ UNCHANGED <<conf, heap, nameMap, fault, mem>>

\* Mutant: a list end drops a cache even when no scope was entered.
LeaveScopeUnguarded ==
  /\ Running
  /\ caches' = SubSeq(caches, 1, Len(caches) - 1)
  /\ UNCHANGED <<conf, heap, nameMap, fault, mem>>

\* ... which is dropped at the end of that list.
LeaveScope ==
  /\ Running /\ Len(caches) > 1
  /\ caches' = SubSeq(caches, 1, Len(caches) - 1)
  /\ UNCHANGED <<conf, heap, nameMap, fault, mem>>

\* resetPlay() and free(): offered by the class, called on the planner's cache.
ResetPlay ==
  /\ Running
  /\ heap' = [i \in DOMAIN heap |->
       IF i \in FirstActive(Root) THEN [heap[i] EXCEPT !.state = Demoted(@)] ELSE heap[i]]
  /\ UNCHANGED <<conf, caches, nameMap, fault, mem>>

FreeSlot(h) ==
  /\ Running
  /\ IF SameSlot(Root, h) # {}
     THEN /\ caches' = [caches EXCEPT ![1] = @ \ SameSlot(@, h)]
          /\ UNCHANGED <<conf, heap, fault, mem>>
     ELSE Fail("FreeModifiedPtr", 0)
  /\ UNCHANGED nameMap

Next ==
  \/ \E w \in Waves : Load(w)
  \/ \E w \in LockedWaves : Lock(w) \/ Unlock(w)
  \/ \E h \in DOMAIN heap : ReuseLoad(h) \/ FreeSlot(h) \/ \E final \in BOOLEAN : Play(h, final)
  \/ PlayNull \/ EnterScope \/ LeaveScope \/ ResetPlay

Spec == Init /\ [][Next]_vars
----------------------------------------------------------------------------
(* Properties.                                                             *)

TypeOK ==
  /\ conf \in [isHirzel : BOOLEAN, maxBranches : BranchCounts,
               used : SUBSET Waves, split : BOOLEAN]
  /\ heap \in Seq(Pointer)
  /\ caches \in Seq(SUBSET DOMAIN heap) /\ caches # <<>>
  /\ nameMap \in [Waves -> BOOLEAN \cup {Unset}]
  /\ fault \in [kind : {"none", "divByZero", "CacheMemoryFull", "PlayNullPtr",
                        "FreeModifiedPtr"}, bytes : Nat]
  /\ mem \in [0 .. (Size - 1) -> {Unset} \cup (Waves \X Nat)]

Disjoint(i, j) == End(i) <= Pos(j) \/ End(j) <= Pos(i)

\* No byte of the cache belongs to two slots, in the planner's cache or in any
\* scope, whatever memoryWrite pushed out and whatever was freed on the way.
NoOverlap ==
  \A d \in DOMAIN caches : \A i, j \in caches[d] : i # j => Disjoint(i, j)

\* play() demotes the first active slot only, so it relies on there being one:
\* over all live caches together never two slots are Playing or LastPlayed,
\* although scopes share the slots and the planner's cache changes under them.
AtMostOneActive ==
  \A i, j \in UNION {caches[d] : d \in DOMAIN caches} : Active(i) /\ Active(j) => i = j

\* The inductive invariant behind NoOverlap and AtMostOneActive: no slot is empty,
\* all open scopes list the same slots, and the innermost cache lists whatever is
\* active anywhere, so that demoting its one active slot is enough.
NoEmptySlot == \A i \in DOMAIN heap : heap[i].size > 0

ScopesAgree == \A d, e \in DOMAIN caches : d > 1 /\ e > 1 => caches[d] = caches[e]

ActiveInTop == \A d \in DOMAIN caches : \A i \in caches[d] : Active(i) => i \in Top

OneActiveInTop == \A i, j \in Top : Active(i) /\ Active(j) => i = j

SlotInv == NoEmptySlot /\ NoOverlap /\ ScopesAgree /\ ActiveInTop /\ OneActiveInTop

\* A slot the cache still lists holds, byte for byte, the wave it was loaded
\* with: what reuse() after stillInMemory() relies on to skip a load.
ResidentIntact ==
  \A i \in Root : \A b \in Byte(i) \cap DOMAIN mem : mem[b] = <<heap[i].waveform, Pos(i)>>

\* CacheMemoryFull is thrown only if the aligned request fits nowhere among the
\* slots the gap scan must respect: best fit plus the trailing check miss no hole.
FullMeansFull ==
  fault.kind = "CacheMemoryFull" =>
     \A p \in 0 .. (Size - fault.bytes) :
        \E i \in Blockers(Root, nameMap) : Overlapped({i}, p, fault.bytes) # {}

\* Off Hirzel an allocation pushes out only slots that are Free or whose name
\* the map marks: a wave unlocked before its load is never overwritten.
EvictsOnlyEvictable ==
  [][~conf.isHirzel /\ heap' # heap /\ DOMAIN heap' # DOMAIN heap =>
       \A i \in Root \ Root' : heap[i].state = "Free" \/ nameMap'[heap[i].waveform] = TRUE]_vars
=============================================================================
