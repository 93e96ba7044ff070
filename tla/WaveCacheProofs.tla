-------------------------- MODULE WaveCacheProofs --------------------------
(***************************************************************************)
(* Proofs about WaveCache, for every set of waves, every geometry that     *)
(* GeometryAssumption allows and any number of slots and scopes.           *)
(***************************************************************************)
EXTENDS WaveCache, NatFacts

----------------------------------------------------------------------------
(* Sizes and positions that allocate() computes are numbers.               *)

LEMMA AlignUpNat ==
  ASSUME NEW n \in Nat, NEW p \in Nat \ {0}
  PROVE  /\ AlignUp(n, p) \in Nat /\ AlignUp(n, p) >= n
         /\ AlignUp(n, p) = 0 \/ AlignUp(n, p) >= p
  <1>1. n % p \in 0 .. (p - 1) /\ n % p <= n
    <2>1. n % p \in 0 .. (p - 1)
      OBVIOUS
    <2>2. CASE n < p
      <3>1. n % p = n
        BY <2>2
      <3> QED BY <2>1, <3>1
    <2>3. CASE n >= p
      BY <2>1, <2>3
    <2> QED BY <2>2, <2>3
  <1>2. CASE n % p = 0
    <2>1. CASE n < p
      <3>1. n = n % p
        BY <2>1
      <3> QED BY <1>2, <3>1 DEF AlignUp
    <2> QED BY <1>2, <2>1 DEF AlignUp
  <1>3. CASE n % p # 0
    BY <1>1, <1>3 DEF AlignUp
  <1> QED BY <1>2, <1>3

LEMMA FreeMemoryNat ==
  ASSUME NEW c PROVE FreeMemory(c) \in Nat
  BY GeometryAssumption DEF FreeMemory

\* A request that does not trap yields a slot of positive size.
LEMMA SlotSizeType ==
  ASSUME TypeOK, NEW n \in Nat \ {0}, ~DividesByZero(n)
  PROVE  SlotSize(n) \in Nat \ {0} /\ NumRepeats(n) \in Nat
  <1>1. Page \in Nat \ {0} /\ 2 * Page \in Nat \ {0} /\ Size \in Nat \ {0}
    BY GeometryAssumption
  <1>2. conf.maxBranches \in Nat \ {0}
    BY GeometryAssumption DEF TypeOK
  <1>3. FreePages \in Nat
    BY <1>2, FreeMemoryNat DEF FreePages
  <1>4. CASE Whole(n)
    BY <1>1, <1>4, AlignUpNat DEF SlotSize, NumRepeats
  <1>5. CASE ~Whole(n)
    <2>1. FreePages # 0 /\ SlotSize(n) # 0
      BY <1>5 DEF DividesByZero
    <2>2. Size >= 2
      BY GeometryAssumption
    <2>3. n \div FreePages \in Nat
      BY <1>3, <2>1
    <2>4. Size \div 2 \in Nat \ {0}
      BY <1>1, <2>2
    <2>5. n \div (Size \div 2) \in Nat
      BY <2>4
    <2>6. NumAllocs(n) \in Nat \ {0}
      BY <2>3, <2>5 DEF NumAllocs
    <2>7. ChunkSize(n) \in Nat
      BY <2>6 DEF ChunkSize
    <2>8. SlotSize(n) = AlignUp(ChunkSize(n), 2 * Page)
      BY <1>5 DEF SlotSize
    <2>9. SlotSize(n) \in Nat /\ SlotSize(n) >= 2
      BY <1>1, <2>1, <2>7, <2>8, AlignUpNat
    <2>10. SlotSize(n) \div 2 \in Nat \ {0}
      BY <2>9
    <2>11. NumRepeats(n) = n \div (SlotSize(n) \div 2) + 1
      BY <1>5 DEF NumRepeats
    <2>12. n \div (SlotSize(n) \div 2) \in Nat
      BY <2>10
    <2> QED BY <2>9, <2>11, <2>12
  <1> QED BY <1>4, <1>5

LEMMA SlotType ==
  ASSUME heap \in Seq(Pointer), NEW i \in DOMAIN heap
  PROVE  /\ heap[i] \in Pointer /\ heap[i].position \in Nat /\ heap[i].size \in Nat
         /\ heap[i].waveform \in Waves /\ heap[i].state \in PointerState
         /\ Pos(i) \in Nat /\ End(i) \in Nat
  <1>1. heap[i] \in Pointer
    OBVIOUS
  <1> QED BY <1>1 DEF Pointer, Pos, End

\* Every position getBestPosition can pick is an address.
LEMMA SpotsType ==
  ASSUME TypeOK, NEW c \in SUBSET DOMAIN heap, NEW names, NEW n \in Nat
  PROVE  BestPosition(c, names, n) \subseteq Nat
  <1>1. \A i \in c : End(i) \in Nat
    BY SlotType DEF TypeOK
  <1>2. AppendPositions(c, n) \subseteq Nat
    BY <1>1 DEF AppendPositions
  <1>3. Blockers(c, names) \subseteq c
    BY DEF Blockers
  <1>4. GapScan(Blockers(c, names), n) \subseteq Nat
    <2>1. \A t \in {0} \cup {End(j) : j \in Blockers(c, names)} : t \in Nat
      BY <1>1, <1>3
    <2>2. Trailing(Blockers(c, names), n) \subseteq Nat
      BY <2>1 DEF Trailing
    <2>3. \A g \in BestGaps(Blockers(c, names), n) : g[1] \in Nat
      BY <2>1 DEF BestGaps, GapsFitting, Gaps
    <2> QED BY <2>2, <2>3 DEF GapScan
  <1> QED BY <1>2, <1>4 DEF BestPosition

LEMMA EmplaceType ==
  ASSUME TypeOK, NEW w \in Waves, NEW b \in BOOLEAN
  PROVE  Emplace(w, b) \in [Waves -> BOOLEAN \cup {Unset}]
  BY DEF TypeOK, Emplace

\* A heap whose slots only changed state is still a heap, with the same objects.
LEMMA RestateType ==
  ASSUME TypeOK, NEW f,
         f = [i \in DOMAIN heap |-> f[i]],
         \A i \in DOMAIN heap : \E s \in PointerState : f[i] = [heap[i] EXCEPT !.state = s]
  PROVE  f \in Seq(Pointer) /\ DOMAIN f = DOMAIN heap
  <1>1. Len(heap) \in Nat /\ DOMAIN heap = 1 .. Len(heap)
    BY DEF TypeOK
  <1>2. ASSUME NEW i \in DOMAIN heap PROVE f[i] \in Pointer
    <2>1. PICK s \in PointerState : f[i] = [heap[i] EXCEPT !.state = s]
      OBVIOUS
    <2>2. heap[i] \in Pointer
      BY SlotType DEF TypeOK
    <2> QED BY <2>1, <2>2 DEF Pointer
  <1>3. f \in [1 .. Len(heap) -> Pointer]
    BY <1>1, <1>2
  <1> QED BY <1>1, <1>3
----------------------------------------------------------------------------
(* Type correctness.                                                       *)

LEMMA InitType == Init => TypeOK
  <1> SUFFICES ASSUME Init PROVE TypeOK
    OBVIOUS
  <1>1. PICK hirzel \in BOOLEAN, n \in BranchCounts, used \in UsedSets :
          conf = [isHirzel |-> hirzel, maxBranches |-> n, used |-> used,
                  split |-> RequiredMemory(used) <= Size \/ hirzel]
    BY DEF Init
  <1>2. (RequiredMemory(used) <= Size \/ hirzel) \in BOOLEAN
    OBVIOUS
  <1>3. conf \in [isHirzel : BOOLEAN, maxBranches : BranchCounts,
                 used : SUBSET Waves, split : BOOLEAN]
    BY <1>1, <1>2, GeometryAssumption
  <1>4. heap \in Seq(Pointer) /\ caches \in Seq(SUBSET DOMAIN heap) /\ caches # <<>>
    <2>1. {} \in SUBSET DOMAIN heap
      OBVIOUS
    <2> QED BY <2>1 DEF Init
  <1> QED BY <1>3, <1>4 DEF Init, TypeOK, NoFault

\* The part of TypeOK a step that only fails or relabels has to restore.
LEMMA FailType ==
  ASSUME TypeOK, NEW n \in Nat, nameMap' \in [Waves -> BOOLEAN \cup {Unset}],
         NEW kind \in {"divByZero", "CacheMemoryFull", "PlayNullPtr", "FreeModifiedPtr"},
         Fail(kind, n)
  PROVE  TypeOK'
  BY DEF TypeOK, Fail

LEMMA RestateStep ==
  ASSUME TypeOK, nameMap' \in [Waves -> BOOLEAN \cup {Unset}],
         heap' \in Seq(Pointer), DOMAIN heap' = DOMAIN heap,
         UNCHANGED <<conf, caches, fault, mem>>
  PROVE  TypeOK'
  BY DEF TypeOK

LEMMA PlaceType ==
  ASSUME TypeOK, NEW w \in Waves, NEW n \in Nat \ {0}, NEW p \in Nat,
         ~DividesByZero(n), Place(w, p, n),
         nameMap' \in [Waves -> BOOLEAN \cup {Unset}]
  PROVE  /\ TypeOK'
         /\ DOMAIN heap' = DOMAIN heap \cup {Len(heap) + 1}
         /\ \A i \in DOMAIN heap : heap'[i] = heap[i]
         /\ Len(heap) + 1 \notin DOMAIN heap
         /\ heap'[Len(heap) + 1] =
              [position |-> p, size |-> SlotSize(n), numRepeats |-> NumRepeats(n),
               waveform |-> w, state |-> "Ready"]
  <1> DEFINE new == [position |-> p, size |-> SlotSize(n), numRepeats |-> NumRepeats(n),
                     waveform |-> w, state |-> "Ready"]
  <1>1. SlotSize(n) \in Nat \ {0} /\ NumRepeats(n) \in Nat
    BY SlotSizeType
  <1>2. new \in Pointer
    BY <1>1 DEF Pointer, PointerState
  <1>3. heap' = Append(heap, new)
    BY DEF Place
  <1> HIDE DEF new
  <1>4. heap \in Seq(Pointer)
    BY DEF TypeOK
  <1>5. /\ heap' \in Seq(Pointer)
        /\ DOMAIN heap' = DOMAIN heap \cup {Len(heap) + 1}
        /\ Len(heap) + 1 \notin DOMAIN heap
        /\ \A i \in DOMAIN heap : heap'[i] = heap[i]
        /\ heap'[Len(heap) + 1] = new
    BY <1>2, <1>3, <1>4
  <1>6. caches' \in Seq(SUBSET DOMAIN heap') /\ caches' # <<>>
    <2>1. caches \in Seq(SUBSET DOMAIN heap) /\ caches # <<>>
      BY DEF TypeOK
    <2>2. /\ Len(caches) \in Nat \ {0} /\ DOMAIN caches = 1 .. Len(caches)
          /\ \A d \in DOMAIN caches : caches[d] \in SUBSET DOMAIN heap
      BY <2>1
    <2>3. caches' = [caches EXCEPT ![1] =
                       (@ \ Overlapped(@, p, SlotSize(n))) \cup {Len(heap) + 1}]
      BY DEF Place
    <2>4. \A d \in 1 .. Len(caches) : caches'[d] \in SUBSET DOMAIN heap'
      BY <1>5, <2>2, <2>3
    <2>5. DOMAIN caches' = 1 .. Len(caches)
      BY <2>2, <2>3
    <2>6. caches' \in [1 .. Len(caches) -> SUBSET DOMAIN heap']
      BY <2>1, <2>2, <2>3, <2>4, <2>5
    <2> QED BY <2>2, <2>6
  <1>7. mem' \in [0 .. (Size - 1) -> {Unset} \cup (Waves \X Nat)]
    BY DEF Place, TypeOK
  <1>8. UNCHANGED <<conf, fault>>
    BY DEF Place
  <1>9. TypeOK'
    BY <1>5, <1>6, <1>7, <1>8 DEF TypeOK
  <1> QED BY <1>5, <1>9 DEF new
\* Relabelling states (reuse, play, resetPlay) keeps the heap's shape.
LEMMA ReuseRelabels ==
  ASSUME TypeOK, NEW h \in DOMAIN heap, ReuseLoad(h)
  PROVE  /\ heap' = [i \in DOMAIN heap |-> heap'[i]]
         /\ \A i \in DOMAIN heap : \E s \in PointerState : heap'[i] = [heap[i] EXCEPT !.state = s]
  <1>1. ASSUME NEW i \in DOMAIN heap
        PROVE  \E s \in PointerState : heap'[i] = [heap[i] EXCEPT !.state = s]
    <2>1. heap[i] \in Pointer /\ heap[i].state \in PointerState
      BY SlotType DEF TypeOK
    <2>2. heap'[i] = [heap[i] EXCEPT !.state = "Ready"] \/ heap'[i] = heap[i]
      BY DEF ReuseLoad
    <2>3. heap[i] = [heap[i] EXCEPT !.state = heap[i].state]
      BY <2>1 DEF Pointer
    <2> QED BY <2>1, <2>2, <2>3 DEF PointerState
  <1> QED BY <1>1 DEF ReuseLoad

LEMMA PlayRelabels ==
  ASSUME TypeOK, NEW h \in DOMAIN heap, NEW final \in BOOLEAN, Play(h, final)
  PROVE  /\ heap' = [i \in DOMAIN heap |-> heap'[i]]
         /\ \A i \in DOMAIN heap : \E s \in PointerState : heap'[i] = [heap[i] EXCEPT !.state = s]
  <1>1. ASSUME NEW i \in DOMAIN heap
        PROVE  \E s \in PointerState : heap'[i] = [heap[i] EXCEPT !.state = s]
    <2>1. heap[i] \in Pointer /\ heap[i].state \in PointerState
      BY SlotType DEF TypeOK
    <2>2. \/ heap'[i] = [heap[i] EXCEPT !.state = IF final THEN "LastPlayed" ELSE "Playing"]
          \/ heap'[i] = [heap[i] EXCEPT !.state = Demoted(heap[i].state)]
          \/ heap'[i] = heap[i]
      BY DEF Play
    <2>3. heap[i] = [heap[i] EXCEPT !.state = heap[i].state]
      BY <2>1 DEF Pointer
    <2>4. Demoted(heap[i].state) \in PointerState
      BY DEF Demoted, PointerState
    <2>5. (IF final THEN "LastPlayed" ELSE "Playing") \in PointerState
      BY DEF PointerState
    <2> QED BY <2>1, <2>2, <2>3, <2>4, <2>5
  <1> QED BY <1>1 DEF Play

LEMMA ResetRelabels ==
  ASSUME TypeOK, ResetPlay
  PROVE  /\ heap' = [i \in DOMAIN heap |-> heap'[i]]
         /\ \A i \in DOMAIN heap : \E s \in PointerState : heap'[i] = [heap[i] EXCEPT !.state = s]
  <1>1. ASSUME NEW i \in DOMAIN heap
        PROVE  \E s \in PointerState : heap'[i] = [heap[i] EXCEPT !.state = s]
    <2>1. heap[i] \in Pointer /\ heap[i].state \in PointerState
      BY SlotType DEF TypeOK
    <2>2. heap'[i] = [heap[i] EXCEPT !.state = Demoted(heap[i].state)] \/ heap'[i] = heap[i]
      BY DEF ResetPlay
    <2>3. heap[i] = [heap[i] EXCEPT !.state = heap[i].state]
      BY <2>1 DEF Pointer
    <2>4. Demoted(heap[i].state) \in PointerState
      BY DEF Demoted, PointerState
    <2> QED BY <2>1, <2>2, <2>3, <2>4
  <1> QED BY <1>1 DEF ResetPlay

\* What a Load step does, as a choice of the three ways it can end.
LEMMA LoadCases ==
  ASSUME TypeOK, NEW w \in Waves, Load(w)
  PROVE  /\ WaveBytes[w] \in Nat \ {0}
         /\ nameMap' = Emplace(w, TRUE)
         /\ nameMap' \in [Waves -> BOOLEAN \cup {Unset}]
         /\ \/ Fail("divByZero", WaveBytes[w])
            \/ /\ ~DividesByZero(WaveBytes[w])
               /\ Fail("CacheMemoryFull", SlotSize(WaveBytes[w]))
            \/ /\ ~DividesByZero(WaveBytes[w])
               /\ \E p \in BestPosition(Root, nameMap', SlotSize(WaveBytes[w])) :
                     p \in Nat /\ Place(w, p, WaveBytes[w])
  <1>1. WaveBytes[w] \in Nat \ {0}
    BY GeometryAssumption
  <1>2. nameMap' = Emplace(w, TRUE)
    BY DEF Load
  <1>3. nameMap' \in [Waves -> BOOLEAN \cup {Unset}]
    BY <1>2, EmplaceType
  <1>4. Root \in SUBSET DOMAIN heap
    BY DEF TypeOK, Root
  <1>5. CASE DividesByZero(WaveBytes[w])
    BY <1>1, <1>2, <1>3, <1>5 DEF Load
  <1>6. CASE ~DividesByZero(WaveBytes[w])
    <2>1. SlotSize(WaveBytes[w]) \in Nat
      BY <1>1, <1>6, SlotSizeType
    <2>2. BestPosition(Root, nameMap', SlotSize(WaveBytes[w])) \subseteq Nat
      BY <1>4, <2>1, SpotsType
    <2> QED BY <1>1, <1>2, <1>3, <1>6, <2>2 DEF Load
  <1> QED BY <1>5, <1>6

LEMMA NextType == TypeOK /\ [Next]_vars => TypeOK'
  <1> SUFFICES ASSUME TypeOK, [Next]_vars PROVE TypeOK'
    OBVIOUS
  <1>1. ASSUME NEW w \in Waves, Load(w) PROVE TypeOK'
    <2>1. CASE Fail("divByZero", WaveBytes[w])
      BY <1>1, <2>1, LoadCases, FailType
    <2>2. CASE ~DividesByZero(WaveBytes[w]) /\ Fail("CacheMemoryFull", SlotSize(WaveBytes[w]))
      <3>1. SlotSize(WaveBytes[w]) \in Nat
        BY <1>1, <2>2, LoadCases, SlotSizeType
      <3> QED BY <1>1, <2>2, <3>1, LoadCases, FailType
    <2>3. ASSUME NEW p \in Nat, ~DividesByZero(WaveBytes[w]), Place(w, p, WaveBytes[w])
          PROVE  TypeOK'
      BY <1>1, <2>3, LoadCases, PlaceType
    <2> QED BY <1>1, <2>1, <2>2, <2>3, LoadCases
  <1>2. ASSUME NEW w \in LockedWaves, Lock(w) \/ Unlock(w) PROVE TypeOK'
    <2>1. w \in Waves
      BY GeometryAssumption
    <2>2. nameMap' \in [Waves -> BOOLEAN \cup {Unset}]
      BY <1>2, <2>1, EmplaceType DEF Lock, Unlock
    <2>3. UNCHANGED <<conf, heap, caches, fault, mem>>
      BY <1>2 DEF Lock, Unlock
    <2> QED BY <2>2, <2>3 DEF TypeOK
  <1>3. ASSUME NEW h \in DOMAIN heap, ReuseLoad(h) PROVE TypeOK'
    <2>1. heap[h].waveform \in Waves
      BY SlotType DEF TypeOK
    <2>2. nameMap' \in [Waves -> BOOLEAN \cup {Unset}]
      BY <1>3, <2>1, EmplaceType DEF ReuseLoad
    <2>3. heap' \in Seq(Pointer) /\ DOMAIN heap' = DOMAIN heap
      BY <1>3, ReuseRelabels, RestateType
    <2>4. UNCHANGED <<conf, caches, fault, mem>>
      BY <1>3 DEF ReuseLoad
    <2> QED BY <2>2, <2>3, <2>4, RestateStep
  <1>4. ASSUME NEW h \in DOMAIN heap, FreeSlot(h) PROVE TypeOK'
    <2>1. CASE SameSlot(Root, h) # {}
      <3>1. /\ Len(caches) \in Nat \ {0} /\ DOMAIN caches = 1 .. Len(caches)
            /\ \A d \in DOMAIN caches : caches[d] \in SUBSET DOMAIN heap
        BY DEF TypeOK
      <3>2. caches' = [caches EXCEPT ![1] = @ \ SameSlot(@, h)]
        BY <1>4, <2>1 DEF FreeSlot
      <3>3. caches' \in [1 .. Len(caches) -> SUBSET DOMAIN heap]
        BY <3>1, <3>2
      <3>4. caches' \in Seq(SUBSET DOMAIN heap) /\ caches' # <<>>
        BY <3>1, <3>3
      <3>5. UNCHANGED <<conf, heap, fault, mem, nameMap>>
        BY <1>4, <2>1 DEF FreeSlot
      <3> QED BY <3>4, <3>5 DEF TypeOK
    <2>2. CASE SameSlot(Root, h) = {}
      <3>1. nameMap' \in [Waves -> BOOLEAN \cup {Unset}]
        BY <1>4 DEF FreeSlot, TypeOK
      <3>2. Fail("FreeModifiedPtr", 0)
        BY <1>4, <2>2 DEF FreeSlot
      <3> QED BY <3>1, <3>2, FailType
    <2> QED BY <2>1, <2>2
  <1>5. ASSUME NEW h \in DOMAIN heap, NEW final \in BOOLEAN, Play(h, final) PROVE TypeOK'
    <2>1. heap' \in Seq(Pointer) /\ DOMAIN heap' = DOMAIN heap
      BY <1>5, PlayRelabels, RestateType
    <2>2. UNCHANGED <<conf, caches, nameMap, fault, mem>>
      BY <1>5 DEF Play
    <2>3. nameMap' \in [Waves -> BOOLEAN \cup {Unset}]
      BY <2>2 DEF TypeOK
    <2> QED BY <2>1, <2>2, <2>3, RestateStep
  <1>6. CASE PlayNull
    <2>1. nameMap' \in [Waves -> BOOLEAN \cup {Unset}]
      BY <1>6 DEF PlayNull, TypeOK
    <2>2. Fail("PlayNullPtr", 0)
      BY <1>6 DEF PlayNull
    <2> QED BY <2>1, <2>2, FailType
  <1>7. CASE EnterScope
    <2>1. caches' = Append(caches, Top) /\ UNCHANGED <<conf, heap, nameMap, fault, mem>>
      BY <1>7 DEF EnterScope
    <2>2. caches \in Seq(SUBSET DOMAIN heap) /\ caches # <<>>
      BY DEF TypeOK
    <2>3. Top \in SUBSET DOMAIN heap
      BY <2>2 DEF Top
    <2>4. caches' \in Seq(SUBSET DOMAIN heap) /\ caches' # <<>>
      BY <2>1, <2>2, <2>3
    <2> QED BY <2>1, <2>4 DEF TypeOK
  <1>8. CASE LeaveScope
    <2>1. /\ Len(caches) > 1 /\ caches' = SubSeq(caches, 1, Len(caches) - 1)
          /\ UNCHANGED <<conf, heap, nameMap, fault, mem>>
      BY <1>8 DEF LeaveScope
    <2>2. caches \in Seq(SUBSET DOMAIN heap)
      BY DEF TypeOK
    <2>3. caches' \in Seq(SUBSET DOMAIN heap) /\ caches' # <<>>
      <3> DEFINE S == SUBSET DOMAIN heap
      <3>1. caches \in Seq(S) /\ Len(caches) \in Nat
        BY <2>2
      <3> HIDE DEF S
      <3>2. SubSeq(caches, 1, Len(caches) - 1) \in Seq(S)
        BY <2>1, <3>1
      <3>3. Len(SubSeq(caches, 1, Len(caches) - 1)) = Len(caches) - 1
        BY <2>1, <3>1
      <3>4. caches' # <<>>
        <4>1. Len(caches') # 0
          BY <2>1, <3>1, <3>3
        <4>2. Len(<< >>) = 0
          OBVIOUS
        <4> QED BY <4>1, <4>2
      <3> QED BY <2>1, <3>2, <3>4 DEF S
    <2> QED BY <2>1, <2>3 DEF TypeOK
  <1>9. CASE ResetPlay
    <2>1. heap' \in Seq(Pointer) /\ DOMAIN heap' = DOMAIN heap
      BY <1>9, ResetRelabels, RestateType
    <2>2. UNCHANGED <<conf, caches, nameMap, fault, mem>>
      BY <1>9 DEF ResetPlay
    <2>3. nameMap' \in [Waves -> BOOLEAN \cup {Unset}]
      BY <2>2 DEF TypeOK
    <2> QED BY <2>1, <2>2, <2>3, RestateStep
  <1>10. CASE UNCHANGED vars
    BY <1>10 DEF vars, TypeOK
  <1> QED
    BY <1>1, <1>2, <1>3, <1>4, <1>5, <1>6, <1>7, <1>8, <1>9, <1>10 DEF Next

\* Every reachable state is well typed: positions and sizes are numbers, every
\* live cache lists existing slots only, and the planner's cache is never dropped.
THEOREM TypeCorrect == Spec => []TypeOK
  BY InitType, NextType, PTL DEF Spec
----------------------------------------------------------------------------
(* The slots of a live cache never overlap and never two of them are active. *)

LEMMA CachesType ==
  ASSUME TypeOK
  PROVE  /\ Len(caches) \in Nat \ {0} /\ DOMAIN caches = 1 .. Len(caches)
         /\ \A d \in DOMAIN caches : caches[d] \in SUBSET DOMAIN heap
         /\ Top = caches[Len(caches)] /\ Top \in SUBSET DOMAIN heap
  BY DEF TypeOK, Top

LEMMA SameSlotUnique ==
  ASSUME TypeOK, SlotInv, NEW h \in DOMAIN heap,
         NEW i \in SameSlot(Top, h), NEW j \in SameSlot(Top, h)
  PROVE  i = j
  <1>1. Len(caches) \in DOMAIN caches /\ Top = caches[Len(caches)] /\ Top \subseteq DOMAIN heap
    BY CachesType
  <1>2. i \in Top /\ j \in Top /\ Pos(i) = Pos(j) /\ heap[i].size = heap[j].size
    BY DEF SameSlot
  <1>3. /\ Pos(i) \in Nat /\ Pos(j) \in Nat /\ heap[i].size \in Nat /\ heap[i].size > 0
        /\ heap[j].size \in Nat
    BY <1>1, <1>2, SlotType DEF TypeOK, SlotInv, NoEmptySlot
  <1>4. ~Disjoint(i, j)
    BY <1>2, <1>3 DEF Disjoint, End, Pos
  <1> QED BY <1>1, <1>2, <1>4 DEF SlotInv, NoOverlap

\* A step that changes only states, and makes nothing active, keeps SlotInv.
LEMMA RelabelKeepsSlotInv ==
  ASSUME TypeOK, SlotInv, DOMAIN heap' = DOMAIN heap, caches' = caches,
         \A i \in DOMAIN heap : /\ heap'[i].position = heap[i].position
                                /\ heap'[i].size = heap[i].size
                                /\ Active(i)' => Active(i)
  PROVE  SlotInv'
  <1>1. Top' = Top
    BY DEF Top
  <1>2. NoEmptySlot'
    BY DEF SlotInv, NoEmptySlot
  <1>3. NoOverlap'
    BY CachesType DEF SlotInv, NoOverlap, Disjoint, Pos, End
  <1>4. ScopesAgree'
    BY DEF SlotInv, ScopesAgree
  <1>5. ActiveInTop'
    BY <1>1, CachesType DEF SlotInv, ActiveInTop
  <1>6. OneActiveInTop'
    BY <1>1, CachesType DEF SlotInv, OneActiveInTop
  <1> QED BY <1>2, <1>3, <1>4, <1>5, <1>6 DEF SlotInv

LEMMA RelabelGeometry ==
  ASSUME TypeOK, NEW f,
         \A i \in DOMAIN heap : \E s \in PointerState : f[i] = [heap[i] EXCEPT !.state = s]
  PROVE  \A i \in DOMAIN heap : /\ f[i].position = heap[i].position
                                /\ f[i].size = heap[i].size
  <1>1. ASSUME NEW i \in DOMAIN heap
        PROVE  f[i].position = heap[i].position /\ f[i].size = heap[i].size
    <2>1. heap[i] \in Pointer
      BY SlotType DEF TypeOK
    <2> QED BY <2>1 DEF Pointer
  <1> QED BY <1>1

LEMMA ReuseKeepsSlotInv ==
  ASSUME TypeOK, SlotInv, NEW h \in DOMAIN heap, ReuseLoad(h)
  PROVE  SlotInv'
  <1>1. DOMAIN heap' = DOMAIN heap /\ caches' = caches
    BY DEF ReuseLoad
  <1>2. ASSUME NEW i \in DOMAIN heap, Active(i)' PROVE Active(i)
    <2>1. heap[i] \in Pointer
      BY SlotType DEF TypeOK
    <2>2. heap'[i] = [heap[i] EXCEPT !.state = "Ready"] \/ heap'[i] = heap[i]
      BY DEF ReuseLoad
    <2> QED BY <1>2, <2>1, <2>2 DEF Active, Pointer
  <1> QED BY <1>1, <1>2, ReuseRelabels, RelabelGeometry, RelabelKeepsSlotInv

LEMMA ResetKeepsSlotInv ==
  ASSUME TypeOK, SlotInv, ResetPlay
  PROVE  SlotInv'
  <1>1. DOMAIN heap' = DOMAIN heap /\ caches' = caches
    BY DEF ResetPlay
  <1>2. ASSUME NEW i \in DOMAIN heap, Active(i)' PROVE Active(i)
    <2>1. heap[i] \in Pointer
      BY SlotType DEF TypeOK
    <2>2. CASE i \in FirstActive(Root)
      BY <2>2 DEF FirstActive
    <2>3. CASE i \notin FirstActive(Root)
      BY <1>2, <2>3 DEF ResetPlay, Active
    <2> QED BY <2>2, <2>3
  <1> QED BY <1>1, <1>2, ResetRelabels, RelabelGeometry, RelabelKeepsSlotInv

LEMMA PlayKeepsSlotInv ==
  ASSUME TypeOK, SlotInv, NEW h \in DOMAIN heap, NEW final \in BOOLEAN, Play(h, final)
  PROVE  SlotInv'
  <1>1. DOMAIN heap' = DOMAIN heap /\ caches' = caches /\ Top' = Top
    BY DEF Play, Top
  <1>2. \A i \in DOMAIN heap : heap'[i].position = heap[i].position /\ heap'[i].size = heap[i].size
    BY PlayRelabels, RelabelGeometry
  \* What is active afterwards is the slot played, or was active and not first.
  <1>3. ASSUME NEW i \in DOMAIN heap, Active(i)', i \notin SameSlot(Top, h)
        PROVE  Active(i) /\ i \notin FirstActive(Top)
    <2>1. heap[i] \in Pointer
      BY SlotType DEF TypeOK
    <2>2. CASE i \in FirstActive(Top)
      <3>1. heap'[i] = [heap[i] EXCEPT !.state = Demoted(heap[i].state)]
        BY <1>3, <2>2 DEF Play
      <3>2. heap'[i].state \in {"Free", "Ready"}
        BY <2>1, <3>1 DEF Demoted, Pointer
      <3> QED BY <1>3, <3>2 DEF Active
    <2>3. CASE i \notin FirstActive(Top)
      BY <1>3, <2>3 DEF Play, Active
    <2> QED BY <2>2, <2>3
  \* The innermost cache has one active slot at most, so the first is the only one.
  <1>4. ASSUME NEW i \in Top, Active(i)' PROVE i \in SameSlot(Top, h)
    <2>1. SUFFICES ASSUME i \notin SameSlot(Top, h) PROVE FALSE
      OBVIOUS
    <2>2. i \in DOMAIN heap
      BY CachesType
    <2>3. Active(i) /\ i \notin FirstActive(Top)
      BY <1>3, <1>4, <2>1, <2>2
    <2>4. \A j \in Top : Active(j) => Pos(i) <= Pos(j)
      <3>1. Pos(i) \in Nat
        BY <2>2, SlotType DEF TypeOK
      <3> QED BY <2>3, <3>1 DEF SlotInv, OneActiveInTop
    <2> QED BY <2>3, <2>4 DEF FirstActive
  <1>5. NoEmptySlot'
    BY <1>1, <1>2 DEF SlotInv, NoEmptySlot
  <1>6. NoOverlap'
    BY <1>1, <1>2, CachesType DEF SlotInv, NoOverlap, Disjoint, Pos, End
  <1>7. ScopesAgree'
    BY <1>1 DEF SlotInv, ScopesAgree
  <1>8. ActiveInTop'
    <2>1. ASSUME NEW d \in DOMAIN caches, NEW i \in caches[d], Active(i)' PROVE i \in Top
      <3>1. i \in DOMAIN heap
        BY CachesType
      <3>2. CASE i \in SameSlot(Top, h)
        BY <3>2 DEF SameSlot
      <3>3. CASE i \notin SameSlot(Top, h)
        BY <1>3, <2>1, <3>1, <3>3 DEF SlotInv, ActiveInTop
      <3> QED BY <3>2, <3>3
    <2> QED BY <1>1, <2>1 DEF ActiveInTop
  <1>9. OneActiveInTop'
    BY <1>1, <1>4, SameSlotUnique DEF OneActiveInTop
  <1> QED BY <1>5, <1>6, <1>7, <1>8, <1>9 DEF SlotInv
LEMMA PlaceKeepsSlotInv ==
  ASSUME TypeOK, SlotInv, NEW w \in Waves, NEW n \in Nat \ {0}, NEW p \in Nat,
         ~DividesByZero(n), Place(w, p, n),
         nameMap' \in [Waves -> BOOLEAN \cup {Unset}]
  PROVE  SlotInv'
  <1>0. PICK new : new = Len(heap) + 1
    OBVIOUS
  <1> DEFINE kept == Root \ Overlapped(Root, p, SlotSize(n))
  <1>1. SlotSize(n) \in Nat \ {0}
    BY SlotSizeType
  <1>2. /\ DOMAIN heap' = DOMAIN heap \cup {new} /\ new \notin DOMAIN heap
        /\ \A i \in DOMAIN heap : heap'[i] = heap[i]
        /\ heap'[new].position = p /\ heap'[new].size = SlotSize(n)
        /\ heap'[new].state = "Ready"
    <2>1. /\ DOMAIN heap' = DOMAIN heap \cup {Len(heap) + 1}
          /\ \A i \in DOMAIN heap : heap'[i] = heap[i]
          /\ Len(heap) + 1 \notin DOMAIN heap
          /\ heap'[Len(heap) + 1] =
               [position |-> p, size |-> SlotSize(n), numRepeats |-> NumRepeats(n),
                waveform |-> w, state |-> "Ready"]
      BY PlaceType
    <2> QED BY <1>0, <2>1
  <1>3. caches' = [caches EXCEPT ![1] = kept \cup {new}]
    BY <1>0 DEF Place, Root
  <1>4. /\ DOMAIN caches' = DOMAIN caches /\ Len(caches') = Len(caches)
        /\ caches'[1] = kept \cup {new}
        /\ \A d \in DOMAIN caches : d # 1 => caches'[d] = caches[d]
    BY <1>3, CachesType DEF TypeOK
  <1>5. Root \subseteq DOMAIN heap /\ kept \subseteq DOMAIN heap /\ kept \subseteq caches[1]
    BY CachesType DEF Root
  <1>6. \A i \in DOMAIN heap : Pos(i)' = Pos(i) /\ End(i)' = End(i) /\ (Active(i)' <=> Active(i))
    BY <1>2 DEF Pos, End, Active
  <1>7. Pos(new)' = p /\ End(new)' = p + SlotSize(n) /\ ~Active(new)'
    BY <1>2 DEF Pos, End, Active
  <1>8. NoEmptySlot'
    BY <1>1, <1>2 DEF SlotInv, NoEmptySlot
  <1>9. NoOverlap'
    <2>1. ASSUME NEW i \in kept PROVE Disjoint(i, new)' /\ Disjoint(new, i)'
      <3>1. i \in DOMAIN heap /\ Pos(i) \in Nat /\ End(i) \in Nat
        BY <1>5, SlotType DEF TypeOK
      <3>2. End(i) <= p \/ p + SlotSize(n) <= Pos(i)
        BY <1>1, <3>1 DEF Overlapped
      <3> QED BY <1>6, <1>7, <3>1, <3>2 DEF Disjoint
    <2>2. ASSUME NEW i \in DOMAIN heap, NEW j \in DOMAIN heap, Disjoint(i, j)
          PROVE  Disjoint(i, j)'
      BY <1>6, <2>2 DEF Disjoint
    <2>3. ASSUME NEW d \in DOMAIN caches, NEW i \in caches'[d], NEW j \in caches'[d], i # j
          PROVE  Disjoint(i, j)'
      <3>1. CASE d = 1
        <4>1. i \in kept \cup {new} /\ j \in kept \cup {new}
          BY <1>4, <3>1
        <4>2. CASE i \in kept /\ j \in kept
          <5>1. Disjoint(i, j)
            BY <1>5, <2>3, <3>1, <4>2 DEF SlotInv, NoOverlap
          <5> QED BY <1>5, <2>2, <4>2, <5>1
        <4> QED BY <2>1, <2>3, <4>1, <4>2
      <3>2. CASE d # 1
        <4>1. i \in caches[d] /\ j \in caches[d] /\ i \in DOMAIN heap /\ j \in DOMAIN heap
          BY <1>4, <3>2, CachesType
        <4>2. Disjoint(i, j)
          BY <2>3, <4>1 DEF SlotInv, NoOverlap
        <4> QED BY <2>2, <4>1, <4>2
      <3> QED BY <3>1, <3>2
    <2> QED BY <1>4, <2>3 DEF NoOverlap
  <1>10. ScopesAgree'
    BY <1>4 DEF SlotInv, ScopesAgree
  <1>11. CASE Len(caches) = 1
    <2>1. Top' = kept \cup {new} /\ Top = caches[1] /\ DOMAIN caches = {1}
      BY <1>4, <1>11, CachesType DEF Top
    <2>2. ActiveInTop'
      BY <1>4, <2>1 DEF ActiveInTop
    <2>3. OneActiveInTop'
      BY <1>5, <1>6, <1>7, <2>1 DEF SlotInv, OneActiveInTop
    <2> QED BY <1>8, <1>9, <1>10, <2>2, <2>3 DEF SlotInv
  <1>12. CASE Len(caches) # 1
    <2>1. Top' = Top /\ Top \subseteq DOMAIN heap
      BY <1>4, <1>12, CachesType DEF Top
    <2>2. ASSUME NEW d \in DOMAIN caches, NEW i \in caches'[d], Active(i)' PROVE i \in Top
      <3>1. i \in caches[d] \/ i = new
        BY <1>4, <1>5
      <3>2. i \in caches[d] /\ i \in DOMAIN heap
        BY <1>7, <2>2, <3>1, CachesType
      <3> QED BY <1>6, <2>2, <3>2 DEF SlotInv, ActiveInTop
    <2>3. ActiveInTop'
      BY <1>4, <2>1, <2>2 DEF ActiveInTop
    <2>4. OneActiveInTop'
      BY <1>6, <2>1 DEF SlotInv, OneActiveInTop
    <2> QED BY <1>8, <1>9, <1>10, <2>3, <2>4 DEF SlotInv
  <1> QED BY <1>11, <1>12

LEMMA FreeKeepsSlotInv ==
  ASSUME TypeOK, SlotInv, NEW h \in DOMAIN heap, FreeSlot(h)
  PROVE  SlotInv'
  <1>1. heap' = heap
    BY DEF FreeSlot, Fail
  <1>2. CASE caches' = caches
    BY <1>1, <1>2, RelabelKeepsSlotInv DEF Active
  <1>3. CASE caches' = [caches EXCEPT ![1] = @ \ SameSlot(@, h)]
    <2>1. /\ DOMAIN caches' = DOMAIN caches /\ Len(caches') = Len(caches)
          /\ caches'[1] \subseteq caches[1]
          /\ \A d \in DOMAIN caches : d # 1 => caches'[d] = caches[d]
      BY <1>3, CachesType DEF TypeOK
    <2>2. \A d \in DOMAIN caches : caches'[d] \subseteq caches[d]
      BY <2>1
    <2>3. NoEmptySlot'
      BY <1>1 DEF SlotInv, NoEmptySlot
    <2>4. NoOverlap'
      BY <1>1, <2>1, <2>2 DEF SlotInv, NoOverlap, Disjoint, Pos, End
    <2>5. ScopesAgree'
      BY <2>1 DEF SlotInv, ScopesAgree
    <2>6. CASE Len(caches) = 1
      <3>1. Top' = caches'[1] /\ Top = caches[1] /\ DOMAIN caches = {1}
        BY <2>1, <2>6, CachesType DEF Top
      <3>2. ActiveInTop' /\ OneActiveInTop'
        BY <1>1, <2>1, <3>1 DEF SlotInv, ActiveInTop, OneActiveInTop, Active
      <3> QED BY <2>3, <2>4, <2>5, <3>2 DEF SlotInv
    <2>7. CASE Len(caches) # 1
      <3>1. Top' = Top
        BY <2>1, <2>7, CachesType DEF Top
      <3>2. ActiveInTop' /\ OneActiveInTop'
        BY <1>1, <2>1, <2>2, <3>1 DEF SlotInv, ActiveInTop, OneActiveInTop, Active
      <3> QED BY <2>3, <2>4, <2>5, <3>2 DEF SlotInv
    <2> QED BY <2>6, <2>7
  <1> QED BY <1>2, <1>3 DEF FreeSlot, Fail

LEMMA EnterKeepsSlotInv ==
  ASSUME TypeOK, SlotInv, EnterScope
  PROVE  SlotInv'
  <1>1. heap' = heap /\ caches' = Append(caches, Top)
    BY DEF EnterScope
  <1>2. /\ DOMAIN caches' = 1 .. (Len(caches) + 1) /\ Len(caches') = Len(caches) + 1
        /\ \A d \in DOMAIN caches : caches'[d] = caches[d]
        /\ caches'[Len(caches) + 1] = Top
    BY <1>1 DEF TypeOK
  <1>3. Top' = Top /\ Len(caches) \in DOMAIN caches /\ Top = caches[Len(caches)]
    BY <1>2, CachesType DEF Top
  <1>4. \A d \in DOMAIN caches' : \E e \in DOMAIN caches :
          caches'[d] = caches[e] /\ (d > 1 /\ Len(caches) > 1 => e > 1)
    BY <1>2, <1>3, CachesType
  <1>5. NoEmptySlot'
    BY <1>1 DEF SlotInv, NoEmptySlot
  <1>6. NoOverlap'
    BY <1>1, <1>4 DEF SlotInv, NoOverlap, Disjoint, Pos, End
  <1>7. ScopesAgree'
    <2>1. CASE Len(caches) = 1
      BY <1>2, <2>1 DEF ScopesAgree
    <2>2. CASE Len(caches) > 1
      BY <1>4, <2>2 DEF SlotInv, ScopesAgree
    <2> QED BY <2>1, <2>2, CachesType
  <1>8. ActiveInTop' /\ OneActiveInTop'
    BY <1>1, <1>3, <1>4 DEF SlotInv, ActiveInTop, OneActiveInTop, Active
  <1> QED BY <1>5, <1>6, <1>7, <1>8 DEF SlotInv

LEMMA LeaveKeepsSlotInv ==
  ASSUME TypeOK, SlotInv, LeaveScope
  PROVE  SlotInv'
  <1>0. PICK n : n = Len(caches) - 1
    OBVIOUS
  <1>1. heap' = heap /\ caches' = SubSeq(caches, 1, n) /\ Len(caches) > 1
    BY <1>0 DEF LeaveScope
  <1>2. /\ n \in Nat \ {0} /\ DOMAIN caches' = 1 .. n /\ Len(caches') = n
        /\ \A d \in 1 .. n : caches'[d] = caches[d] /\ d \in DOMAIN caches
    BY <1>0, <1>1, CachesType DEF TypeOK
  <1>3. Top' = caches[n] /\ n \in DOMAIN caches
    BY <1>2 DEF Top
  <1>4. NoEmptySlot'
    BY <1>1 DEF SlotInv, NoEmptySlot
  <1>5. NoOverlap'
    BY <1>1, <1>2 DEF SlotInv, NoOverlap, Disjoint, Pos, End
  <1>6. ScopesAgree'
    BY <1>2 DEF SlotInv, ScopesAgree
  <1>7. CASE n = 1
    <2>1. ActiveInTop'
      BY <1>2, <1>3, <1>7 DEF ActiveInTop
    <2>2. OneActiveInTop'
      BY <1>1, <1>3 DEF SlotInv, ActiveInTop, OneActiveInTop, Active
    <2> QED BY <1>4, <1>5, <1>6, <2>1, <2>2 DEF SlotInv
  <1>8. CASE n > 1
    <2>1. Top' = Top
      <3>1. Len(caches) \in DOMAIN caches /\ Len(caches) > 1
        BY <1>1, CachesType
      <3>2. caches[n] = caches[Len(caches)]
        BY <1>3, <1>8, <3>1 DEF SlotInv, ScopesAgree
      <3> QED BY <1>3, <3>2 DEF Top
    <2>2. ActiveInTop' /\ OneActiveInTop'
      BY <1>1, <1>2, <2>1 DEF SlotInv, ActiveInTop, OneActiveInTop, Active
    <2> QED BY <1>4, <1>5, <1>6, <2>2 DEF SlotInv
  <1> QED BY <1>2, <1>7, <1>8

LEMMA InitSlotInv == Init => SlotInv
  <1> SUFFICES ASSUME Init PROVE SlotInv
    OBVIOUS
  <1>1. heap = <<>> /\ caches = <<{}>>
    BY DEF Init
  <1>2. DOMAIN heap = {} /\ DOMAIN caches = {1} /\ caches[1] = {} /\ Top = {}
    BY <1>1 DEF Top
  <1> QED BY <1>2 DEF SlotInv, NoEmptySlot, NoOverlap, ScopesAgree, ActiveInTop, OneActiveInTop

LEMMA NextSlotInv == TypeOK /\ SlotInv /\ [Next]_vars => SlotInv'
  <1> SUFFICES ASSUME TypeOK, SlotInv, [Next]_vars PROVE SlotInv'
    OBVIOUS
  <1>1. ASSUME heap' = heap, caches' = caches PROVE SlotInv'
    BY <1>1, RelabelKeepsSlotInv DEF Active
  <1>2. ASSUME NEW w \in Waves, Load(w) PROVE SlotInv'
    <2>1. ASSUME NEW kind, NEW n, Fail(kind, n) PROVE SlotInv'
      BY <1>1, <2>1 DEF Fail
    <2>2. ASSUME NEW p \in Nat, ~DividesByZero(WaveBytes[w]), Place(w, p, WaveBytes[w])
          PROVE  SlotInv'
      BY <1>2, <2>2, LoadCases, PlaceKeepsSlotInv
    <2> QED BY <1>2, <2>1, <2>2, LoadCases
  <1>3. ASSUME NEW w \in LockedWaves, Lock(w) \/ Unlock(w) PROVE SlotInv'
    BY <1>1, <1>3 DEF Lock, Unlock
  <1>4. ASSUME NEW h \in DOMAIN heap, NEW final \in BOOLEAN,
               ReuseLoad(h) \/ FreeSlot(h) \/ Play(h, final)
        PROVE  SlotInv'
    BY <1>4, ReuseKeepsSlotInv, FreeKeepsSlotInv, PlayKeepsSlotInv
  <1>5. CASE PlayNull
    BY <1>1, <1>5 DEF PlayNull, Fail
  <1>6. CASE EnterScope \/ LeaveScope \/ ResetPlay
    BY <1>6, EnterKeepsSlotInv, LeaveKeepsSlotInv, ResetKeepsSlotInv
  <1>7. CASE UNCHANGED vars
    BY <1>1, <1>7 DEF vars
  <1> QED BY <1>2, <1>3, <1>4, <1>5, <1>6, <1>7 DEF Next

\* The slots of every live cache are pairwise disjoint, in every reachable state.
THEOREM SlotsNeverOverlap == Spec => []NoOverlap
  <1>1. Init => TypeOK /\ SlotInv
    BY InitType, InitSlotInv
  <1>2. TypeOK /\ SlotInv /\ [Next]_vars => (TypeOK /\ SlotInv)'
    BY NextType, NextSlotInv
  <1>3. SlotInv => NoOverlap
    BY DEF SlotInv
  <1> QED BY <1>1, <1>2, <1>3, PTL DEF Spec

\* Never two slots of the live caches are being played, so the single demotion
\* of play() is enough although scopes share their slots with the parent.
THEOREM OneActiveSlot == Spec => []AtMostOneActive
  <1>1. Init => TypeOK /\ SlotInv
    BY InitType, InitSlotInv
  <1>2. TypeOK /\ SlotInv /\ [Next]_vars => (TypeOK /\ SlotInv)'
    BY NextType, NextSlotInv
  <1>3. SlotInv => AtMostOneActive
    BY DEF SlotInv, ActiveInTop, OneActiveInTop, AtMostOneActive
  <1> QED BY <1>1, <1>2, <1>3, PTL DEF Spec
----------------------------------------------------------------------------
(* A resident slot keeps the bytes it was loaded with.                     *)

LEMMA PlaceKeepsResident ==
  ASSUME TypeOK, SlotInv, ResidentIntact, NEW w \in Waves, NEW n \in Nat \ {0},
         NEW p \in Nat, ~DividesByZero(n), Place(w, p, n),
         nameMap' \in [Waves -> BOOLEAN \cup {Unset}]
  PROVE  ResidentIntact'
  <1>0. PICK new : new = Len(heap) + 1
    OBVIOUS
  <1>1. /\ new \notin DOMAIN heap
        /\ \A i \in DOMAIN heap : heap'[i] = heap[i]
        /\ heap'[new] = [position |-> p, size |-> SlotSize(n), numRepeats |-> NumRepeats(n),
                        waveform |-> w, state |-> "Ready"]
    BY <1>0, PlaceType
  <1>2. Root' = (Root \ Overlapped(Root, p, SlotSize(n))) \cup {new}
    BY <1>0, CachesType DEF Place, Root
  <1>3. /\ DOMAIN mem' = DOMAIN mem /\ DOMAIN mem = 0 .. (Size - 1)
        /\ \A b \in DOMAIN mem : mem'[b] = IF b \in p .. (p + SlotSize(n) - 1)
                                          THEN <<w, p>> ELSE mem[b]
    BY DEF Place, TypeOK
  <1>4. SlotSize(n) \in Nat \ {0}
    BY SlotSizeType
  <1>5. ASSUME NEW b \in DOMAIN mem, b \in p .. (p + SlotSize(n) - 1) PROVE mem'[b] = <<w, p>>
    BY <1>3, <1>5
  <1>6. ASSUME NEW i \in Root \ Overlapped(Root, p, SlotSize(n)), NEW b \in DOMAIN mem, b \in Byte(i)
        PROVE  mem'[b] = <<heap[i].waveform, Pos(i)>>
    <2>1. i \in DOMAIN heap /\ Pos(i) \in Nat /\ End(i) \in Nat /\ b \in Nat
      BY <1>3, CachesType, SlotType, GeometryAssumption DEF TypeOK, Root
    <2>2. Pos(i) <= b /\ b <= End(i) - 1
      BY <1>6, <2>1 DEF Byte
    <2>3. End(i) <= p \/ p + SlotSize(n) <= Pos(i)
      BY <1>4, <2>1 DEF Overlapped
    <2>4. b \notin p .. (p + SlotSize(n) - 1)
      BY <1>4, <2>1, <2>2, <2>3
    <2>5. mem[b] = <<heap[i].waveform, Pos(i)>>
      BY <1>6 DEF ResidentIntact
    <2> QED BY <1>3, <2>4, <2>5
  <1>7. ASSUME NEW i \in Root', NEW b \in Byte(i)' \cap DOMAIN mem'
        PROVE  mem'[b] = <<heap'[i].waveform, Pos(i)'>>
    <2>1. CASE i = new
      <3>1. heap'[i].position = p /\ heap'[i].size = SlotSize(n) /\ heap'[i].waveform = w
        BY <1>1, <2>1
      <3>2. Pos(i)' = p /\ b \in p .. (p + SlotSize(n) - 1) /\ b \in DOMAIN mem
        BY <1>3, <1>4, <1>7, <3>1 DEF Byte, Pos, End
      <3> QED BY <1>5, <3>1, <3>2
    <2>2. CASE i # new
      <3>1. i \in Root \ Overlapped(Root, p, SlotSize(n)) /\ i \in DOMAIN heap
        BY <1>2, <2>2, CachesType DEF Root
      <3>2. heap'[i] = heap[i] /\ Pos(i)' = Pos(i) /\ Byte(i)' = Byte(i)
        BY <1>1, <3>1 DEF Byte, Pos, End
      <3> QED BY <1>3, <1>6, <1>7, <3>1, <3>2
    <2> QED BY <2>1, <2>2
  <1> QED BY <1>7 DEF ResidentIntact

\* A step that loads nothing leaves the bytes and can only drop slots.
LEMMA OthersKeepResident ==
  ASSUME TypeOK, ResidentIntact, mem' = mem, Root' \subseteq Root,
         \A i \in DOMAIN heap : /\ heap'[i].position = heap[i].position
                                /\ heap'[i].size = heap[i].size
                                /\ heap'[i].waveform = heap[i].waveform
  PROVE  ResidentIntact'
  <1>1. Root \subseteq DOMAIN heap
    BY CachesType DEF Root
  <1> QED BY <1>1 DEF ResidentIntact, Byte, Pos, End

LEMMA NextResident == TypeOK /\ SlotInv /\ ResidentIntact /\ [Next]_vars => ResidentIntact'
  <1> SUFFICES ASSUME TypeOK, SlotInv, ResidentIntact, [Next]_vars PROVE ResidentIntact'
    OBVIOUS
  <1>1. ASSUME heap' = heap, mem' = mem, Root' \subseteq Root PROVE ResidentIntact'
    BY <1>1, OthersKeepResident
  <1>2. ASSUME NEW w \in Waves, Load(w) PROVE ResidentIntact'
    <2>1. ASSUME NEW kind, NEW n, Fail(kind, n) PROVE ResidentIntact'
      BY <1>1, <2>1 DEF Fail, Root
    <2>2. ASSUME NEW p \in Nat, ~DividesByZero(WaveBytes[w]), Place(w, p, WaveBytes[w])
          PROVE  ResidentIntact'
      BY <1>2, <2>2, LoadCases, PlaceKeepsResident
    <2> QED BY <1>2, <2>1, <2>2, LoadCases
  <1>3. ASSUME NEW w \in LockedWaves, Lock(w) \/ Unlock(w) PROVE ResidentIntact'
    BY <1>1, <1>3 DEF Lock, Unlock, Root
  <1>4. ASSUME mem' = mem, caches' = caches,
               \A i \in DOMAIN heap : \E s \in PointerState : heap'[i] = [heap[i] EXCEPT !.state = s]
        PROVE  ResidentIntact'
    <2>1. ASSUME NEW i \in DOMAIN heap
          PROVE  /\ heap'[i].position = heap[i].position
                 /\ heap'[i].size = heap[i].size
                 /\ heap'[i].waveform = heap[i].waveform
      <3>1. heap[i] \in Pointer
        BY SlotType DEF TypeOK
      <3> QED BY <1>4, <3>1 DEF Pointer
    <2> QED BY <1>4, <2>1, OthersKeepResident DEF Root
  <1>5. ASSUME NEW h \in DOMAIN heap, ReuseLoad(h) PROVE ResidentIntact'
    BY <1>4, <1>5, ReuseRelabels DEF ReuseLoad
  <1>6. ASSUME NEW h \in DOMAIN heap, FreeSlot(h) PROVE ResidentIntact'
    <2>1. heap' = heap /\ mem' = mem
      BY <1>6 DEF FreeSlot, Fail
    <2>2. Root' \subseteq Root
      BY <1>6, CachesType DEF FreeSlot, Fail, Root
    <2> QED BY <1>1, <2>1, <2>2
  <1>7. ASSUME NEW h \in DOMAIN heap, NEW final \in BOOLEAN, Play(h, final) PROVE ResidentIntact'
    BY <1>4, <1>7, PlayRelabels DEF Play
  <1>8. CASE PlayNull
    BY <1>1, <1>8 DEF PlayNull, Fail, Root
  <1>9. CASE EnterScope
    BY <1>1, <1>9, CachesType DEF EnterScope, Root, TypeOK
  <1>10. CASE LeaveScope
    <2>1. SubSeq(caches, 1, Len(caches) - 1)[1] = caches[1]
      BY <1>10, CachesType DEF LeaveScope, TypeOK
    <2> QED BY <1>1, <1>10, <2>1 DEF LeaveScope, Root
  <1>11. CASE ResetPlay
    BY <1>4, <1>11, ResetRelabels DEF ResetPlay
  <1>12. CASE UNCHANGED vars
    BY <1>1, <1>12 DEF vars, Root
  <1> QED
    BY <1>2, <1>3, <1>5, <1>6, <1>7, <1>8, <1>9, <1>10, <1>11, <1>12 DEF Next

\* A slot that stillInMemory() can report still holds the wave it was loaded with.
THEOREM ResidentSlotsIntact == Spec => []ResidentIntact
  <1>1. Init => TypeOK /\ SlotInv /\ ResidentIntact
    <2>1. Init => ResidentIntact
      BY DEF Init, ResidentIntact, Root
    <2> QED BY <2>1, InitType, InitSlotInv
  <1>2. TypeOK /\ SlotInv /\ ResidentIntact /\ [Next]_vars => (TypeOK /\ SlotInv /\ ResidentIntact)'
    BY NextType, NextSlotInv, NextResident
  <1> QED BY <1>1, <1>2, PTL DEF Spec
----------------------------------------------------------------------------
(* Off Hirzel an allocation pushes out evictable slots only.               *)

\* No placement path overlaps a slot the scan must respect.
LEMMA PlacementRespectsBlockers ==
  ASSUME TypeOK, SlotInv, ~conf.isHirzel, NEW names, NEW n \in Nat \ {0},
         NEW p \in BestPosition(Root, names, n), p \in Nat,
         NEW i \in Blockers(Root, names)
  PROVE  i \notin Overlapped(Root, p, n)
  <1>1. i \in Root /\ Root \subseteq DOMAIN heap /\ 1 \in DOMAIN caches
    BY CachesType DEF Blockers, Root
  <1>2. \A j \in Root : Pos(j) \in Nat /\ End(j) \in Nat /\ Pos(j) < End(j)
    <2>1. ASSUME NEW j \in Root PROVE Pos(j) \in Nat /\ End(j) \in Nat /\ Pos(j) < End(j)
      <3>1. heap[j].size > 0 /\ heap[j].size \in Nat /\ heap[j].position \in Nat
        BY <1>1, SlotType DEF TypeOK, SlotInv, NoEmptySlot
      <3> QED BY <3>1 DEF Pos, End
    <2> QED BY <2>1
  <1>3. End(i) <= p \/ p + n <= Pos(i) => i \notin Overlapped(Root, p, n)
    BY <1>1, <1>2 DEF Overlapped
  <1>4. CASE p \in AppendPositions(Root, n)
    <2>1. PICK k \in Root : p = End(k) /\ \A j \in Root : Pos(j) <= Pos(k)
      BY <1>4 DEF AppendPositions
    <2>2. i = k \/ Disjoint(i, k)
      BY <1>1, <2>1 DEF SlotInv, NoOverlap, Root
    <2>3. Pos(i) <= Pos(k)
      BY <1>1, <2>1
    <2>4. End(i) <= p
      BY <1>1, <1>2, <2>1, <2>2, <2>3 DEF Disjoint
    <2> QED BY <1>3, <2>4
  <1>5. CASE p \in GapScan(Blockers(Root, names), n)
    <2> DEFINE B == Blockers(Root, names)
    <2>1. \A j \in B : End(j) \in Nat /\ Pos(j) \in Nat
      BY <1>2 DEF Blockers
    <2>2. CASE p \in Trailing(B, n)
      BY <1>3, <2>2 DEF Trailing
    <2>3. CASE \E g \in BestGaps(B, n) : p = g[1]
      <3>1. PICK g \in Gaps(B) : p = g[1] /\ g[2] - g[1] >= n
        BY <2>3 DEF BestGaps, GapsFitting
      <3>2. g[1] \in Nat /\ g[2] \in Nat /\ (End(i) <= g[1] \/ g[2] <= Pos(i))
        BY <2>1, <3>1 DEF Gaps
      <3>3. End(i) <= p \/ p + n <= Pos(i)
        BY <1>1, <1>2, <3>1, <3>2
      <3> QED BY <1>3, <3>3
    <2> QED BY <1>5, <2>2, <2>3 DEF GapScan
  <1>6. Root # {}
    BY <1>1
  <1> QED BY <1>4, <1>5, <1>6 DEF BestPosition

\* Off Hirzel a load overwrites only Free slots and slots whose name is marked:
\* an unlocked wave that a later load could reach would stay where it is.
THEOREM OnlyEvictableSlotsGo == Spec => EvictsOnlyEvictable
  <1> DEFINE Step == ~conf.isHirzel /\ heap' # heap /\ DOMAIN heap' # DOMAIN heap =>
                \A i \in Root \ Root' : heap[i].state = "Free" \/ nameMap'[heap[i].waveform] = TRUE
  <1>1. Init => TypeOK /\ SlotInv
    BY InitType, InitSlotInv
  <1>2. TypeOK /\ SlotInv /\ [Next]_vars => (TypeOK /\ SlotInv)'
    BY NextType, NextSlotInv
  <1>3. TypeOK /\ SlotInv /\ [Next]_vars => [Step]_vars
    <2> SUFFICES ASSUME TypeOK, SlotInv, [Next]_vars, ~conf.isHirzel, DOMAIN heap' # DOMAIN heap,
                        NEW i \in Root \ Root'
                 PROVE  heap[i].state = "Free" \/ nameMap'[heap[i].waveform] = TRUE
      OBVIOUS
    <2>1. ASSUME NEW w \in Waves, Load(w)
          PROVE  heap[i].state = "Free" \/ nameMap'[heap[i].waveform] = TRUE
      <3>1. \A kind, n : Fail(kind, n) => heap' = heap
        BY DEF Fail
      <3>2. PICK p \in BestPosition(Root, nameMap', SlotSize(WaveBytes[w])) :
              p \in Nat /\ ~DividesByZero(WaveBytes[w]) /\ Place(w, p, WaveBytes[w])
        BY <2>1, <3>1, LoadCases
      <3>3. WaveBytes[w] \in Nat \ {0} /\ SlotSize(WaveBytes[w]) \in Nat \ {0}
        BY <2>1, <3>2, LoadCases, SlotSizeType
      <3>4. i \in Overlapped(Root, p, SlotSize(WaveBytes[w]))
        BY <3>2, CachesType DEF Place, Root
      <3>5. i \notin Blockers(Root, nameMap')
        BY <3>2, <3>3, <3>4, PlacementRespectsBlockers
      <3> QED BY <3>5 DEF Blockers
    <2>2. ASSUME NEW h \in DOMAIN heap, NEW final \in BOOLEAN,
                 ReuseLoad(h) \/ FreeSlot(h) \/ Play(h, final)
          PROVE  FALSE
      BY <2>2 DEF ReuseLoad, FreeSlot, Play, Fail
    <2>3. ASSUME PlayNull \/ EnterScope \/ LeaveScope \/ ResetPlay \/ UNCHANGED vars PROVE FALSE
      BY <2>3 DEF PlayNull, EnterScope, LeaveScope, ResetPlay, Fail, vars
    <2>4. ASSUME NEW w \in LockedWaves, Lock(w) \/ Unlock(w) PROVE FALSE
      BY <2>4 DEF Lock, Unlock
    <2> QED BY <2>1, <2>2, <2>3, <2>4 DEF Next
  <1> QED BY <1>1, <1>2, <1>3, PTL DEF Spec, EvictsOnlyEvictable

----------------------------------------------------------------------------
(* CacheMemoryFull.                                                        *)

\* The slots of a cache are finitely many numbers, so the scan finds a best gap
\* whenever it finds one that fits.
LEMMA BestGapExists ==
  ASSUME NEW B, \A j \in B : Pos(j) \in Nat /\ End(j) \in Nat, NEW n \in Nat,
         GapsFitting(B, n) # {}
  PROVE  BestGaps(B, n) # {}
<1> DEFINE G == GapsFitting(B, n)
<1>1. \A g \in G : g[1] \in Nat /\ g[2] \in Nat /\ g[1] <= g[2]
  BY DEF GapsFitting, Gaps
<1> HIDE DEF G
<1> DEFINE Lengths == {k \in Nat : \E g \in G : g[2] - g[1] = k}
<1>2. Lengths # {} /\ Lengths \in SUBSET Nat
  BY <1>1 DEF G
<1>3. PICK k \in Lengths : \A m \in Lengths : k <= m
  BY <1>2, LeastElement
<1> DEFINE Starts == {m \in Nat : \E g \in G : g[2] - g[1] = k /\ g[1] = m}
<1>4. Starts # {} /\ Starts \in SUBSET Nat
  BY <1>1, <1>3
<1>5. PICK m \in Starts : \A x \in Starts : m <= x
  BY <1>4, LeastElement
<1>6. PICK g \in G : g[2] - g[1] = k /\ g[1] = m
  BY <1>5
<1>7. ASSUME NEW f \in G
      PROVE  \/ g[2] - g[1] < f[2] - f[1]
             \/ g[2] - g[1] = f[2] - f[1] /\ g[1] <= f[1]
  <2>1. f[2] - f[1] \in Lengths
    BY <1>1
  <2>2. k <= f[2] - f[1]
    BY <1>3, <2>1
  <2>3. f[2] - f[1] = k => f[1] \in Starts
    BY <1>1
  <2>4. f[2] - f[1] = k => m <= f[1]
    BY <1>5, <2>3
  <2>5. f[2] - f[1] \in Nat /\ k \in Nat
    BY <1>1
  <2> QED BY <1>6, <2>2, <2>4, <2>5
<1>8. g \in BestGaps(B, n)
  BY <1>6, <1>7 DEF BestGaps, G
<1> QED BY <1>8

\* A position that no blocker reaches into lies in a gap or in the trailing room.
LEMMA ClearPositionIsFound ==
  ASSUME NEW B, \A j \in B : Pos(j) \in Nat /\ End(j) \in Nat /\ heap[j].size \in Nat,
         \A j \in B : End(j) = Pos(j) + heap[j].size,
         NEW n \in Nat, NEW p \in Nat, p + n <= Size,
         \A j \in B : IF Pos(j) < p THEN End(j) <= p ELSE p + n <= Pos(j)
  PROVE  GapScan(B, n) # {}
<1> DEFINE Left == {0} \cup {End(j) : j \in {i \in B : Pos(i) < p}}
<1>1. Left \in SUBSET Nat /\ Left # {} /\ \A x \in Left : x <= p
  OBVIOUS
<1>2. PICK l \in Left : \A x \in Left : x <= l
  BY <1>1, GreatestElement
<1>3. l \in {0} \cup {End(j) : j \in B} /\ l \in Nat /\ l <= p
  BY <1>1
<1>4. \A j \in B : Pos(j) < p => End(j) <= l
  BY <1>2
<1> HIDE DEF Left
<1> DEFINE Right == {Pos(j) : j \in {i \in B : ~(Pos(i) < p)}}
<1>5. CASE Right = {}
  <2>1. \A j \in B : End(j) <= l
    BY <1>4, <1>5
  <2>2. l + n <= Size
    BY <1>3, GeometryAssumption
  <2>3. l \in Trailing(B, n)
    BY <1>3, <2>1, <2>2 DEF Trailing
  <2> QED BY <2>3 DEF GapScan
<1>6. CASE Right # {}
  <2>1. Right \in SUBSET Nat
    OBVIOUS
  <2>2. PICK r \in Right : \A x \in Right : r <= x
    BY <1>6, <2>1, LeastElement
  <2>3. r \in {Pos(j) : j \in B} /\ r \in Nat /\ p + n <= r
    BY <2>1
  <2>4. \A j \in B : ~(Pos(j) < p) => r <= Pos(j)
    BY <2>2
  <2> HIDE DEF Right
  <2>5. \A j \in B : End(j) <= l \/ r <= Pos(j)
    BY <1>4, <2>4
  <2>6. l <= r /\ r - l >= n
    BY <1>3, <2>3
  <2>7. <<l, r>> \in GapsFitting(B, n)
    BY <1>3, <2>3, <2>5, <2>6 DEF GapsFitting, Gaps
  <2>8. BestGaps(B, n) # {}
    BY <2>7, BestGapExists
  <2> QED BY <2>8 DEF GapScan
<1> QED BY <1>5, <1>6

\* Of a cache in which no position is found, none is clear of the blockers.
LEMMA NoPositionNoRoom ==
  ASSUME TypeOK, NEW c \in SUBSET DOMAIN heap, NEW names, NEW n \in Nat,
         BestPosition(c, names, n) = {}, NEW p \in 0 .. (Size - n)
  PROVE  \E i \in Blockers(c, names) : Overlapped({i}, p, n) # {}
<1> DEFINE B == Blockers(c, names)
<1>1. GapScan(B, n) = {}
  BY DEF BestPosition
<1>2. \A j \in B : /\ Pos(j) \in Nat /\ heap[j].size \in Nat
                   /\ End(j) = Pos(j) + heap[j].size /\ End(j) \in Nat
  <2>1. \A j \in B : heap[j] \in Pointer
    BY DEF TypeOK, Blockers
  <2> QED BY <2>1 DEF Pos, End, Pointer
<1>3. p \in Nat /\ p + n <= Size
  BY GeometryAssumption
<1> HIDE DEF B
<1>4. PICK j \in B : ~(IF Pos(j) < p THEN End(j) <= p ELSE p + n <= Pos(j))
  BY <1>1, <1>2, <1>3, ClearPositionIsFound
<1>5. j \in Overlapped({j}, p, n)
  BY <1>2, <1>3, <1>4 DEF Overlapped
<1> QED BY <1>5 DEF B

\* Only Load reports a full memory, and nothing runs after it.
LEMMA FullStep ==
  ASSUME TypeOK, FullMeansFull, [Next]_vars
  PROVE  FullMeansFull'
<1>1. CASE UNCHANGED vars
  BY <1>1 DEF vars, FullMeansFull, Root, Blockers, Overlapped, Pos, End
<1>2. ASSUME Running, fault'.kind # "CacheMemoryFull" PROVE FullMeansFull'
  BY <1>2 DEF FullMeansFull
<1>3. ASSUME NEW w \in Waves, Load(w) PROVE FullMeansFull'
  <2> DEFINE n == SlotSize(WaveBytes[w])
  <2>1. Running
    BY <1>3 DEF Load
  <2>2. CASE Fail("divByZero", WaveBytes[w])
    BY <1>2, <2>1, <2>2 DEF Fail
  <2>3. CASE \E p : Place(w, p, WaveBytes[w])
    BY <1>2, <2>1, <2>3 DEF Place, Running, NoFault
  <2>4. CASE ~DividesByZero(WaveBytes[w]) /\ BestPosition(Root, nameMap', n) = {}
    <3>1. Fail("CacheMemoryFull", n)
      BY <1>3, <2>4 DEF Load
    <3>2. n \in Nat /\ Root \in SUBSET DOMAIN heap
      BY <2>4, SlotSizeType, GeometryAssumption DEF TypeOK, Root
    <3>3. \A p \in 0 .. (Size - n) : \E i \in Blockers(Root, nameMap') : Overlapped({i}, p, n) # {}
      BY <2>4, <3>2, NoPositionNoRoom
    <3>4. fault'.bytes = n /\ UNCHANGED <<heap, caches>>
      BY <3>1 DEF Fail
    <3> HIDE DEF n
    <3> QED BY <3>3, <3>4 DEF FullMeansFull, Root, Blockers, Overlapped, Pos, End
  <2> QED BY <1>3, <2>2, <2>3, <2>4 DEF Load
<1>4. ASSUME Running, UNCHANGED fault PROVE FullMeansFull'
  BY <1>2, <1>4 DEF Running, NoFault
<1>5. ASSUME NEW kind \in {"PlayNullPtr", "FreeModifiedPtr"}, Running, Fail(kind, 0) PROVE FullMeansFull'
  BY <1>2, <1>5 DEF Fail
<1>6. CASE Next /\ ~\E w \in Waves : Load(w)
  <2>1. Running /\ (UNCHANGED fault \/ Fail("PlayNullPtr", 0) \/ Fail("FreeModifiedPtr", 0))
    BY <1>6 DEF Next, Lock, Unlock, ReuseLoad, FreeSlot, Play, PlayNull, EnterScope, LeaveScope, ResetPlay
  <2> QED BY <1>4, <1>5, <2>1
<1> QED BY <1>1, <1>3, <1>6

\* CacheMemoryFull is thrown only when every position at which the aligned
\* request fits in the memory is taken by a slot that must stay.
THEOREM FullIsFull == Spec => []FullMeansFull
<1>1. Init => FullMeansFull
  BY DEF Init, FullMeansFull, NoFault
<1>2. TypeOK /\ FullMeansFull /\ [Next]_vars => FullMeansFull'
  BY FullStep
<1> QED BY <1>1, <1>2, TypeCorrect, PTL DEF Spec
=============================================================================
