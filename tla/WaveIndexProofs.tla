--------------------------- MODULE WaveIndexProofs ---------------------------
(* Whatever the requests, the table of a finished program has no holes but  *)
(* at indices of waves that are not in it, a program is refused only when   *)
(* every index is held or reserved, and the back end never gives one index  *)
(* twice.                                                                   *)
EXTENDS WaveIndex, NatFacts, FiniteSetTheorems, TLAPS

----------------------------------------------------------------------------
(* The least free index.                                                   *)

\* The search of the two loops over the tracker ends at a free index, and
\* every index it stepped over is taken: a finite set cannot hold all of an
\* interval with one element more than it has.
LEMMA NextFreeIsFree ==
  ASSUME NEW taken, IsFiniteSet(taken), taken \subseteq Int, NEW i \in Nat
  PROVE  /\ NextFree(taken, i) \in Nat /\ NextFree(taken, i) >= i
         /\ NextFree(taken, i) \notin taken
         /\ i .. NextFree(taken, i) - 1 \subseteq taken
<1> DEFINE c == Cardinality(taken)
           free == (i .. i + c) \ taken
<1>1. c \in Nat
  BY FS_CardinalityType
<1>2. free # {}
  <2> SUFFICES ASSUME free = {} PROVE FALSE
    OBVIOUS
  <2>1. i .. i + c \subseteq taken
    OBVIOUS
  <2>2. Cardinality(i .. i + c) <= c
    BY <2>1, FS_Subset
  <2>3. Cardinality(i .. i + c) = (i + c) - i + 1
    BY <1>1, FS_Interval
  <2> QED
    BY <1>1, <2>2, <2>3
<1>3. free \in SUBSET Nat
  BY <1>1
<1>4. PICK n \in free : \A m \in free : n <= m
  BY <1>2, <1>3, LeastElement
<1>5. i .. n - 1 \subseteq taken
  <2> SUFFICES ASSUME NEW m \in i .. n - 1, m \notin taken PROVE FALSE
    OBVIOUS
  <2>1. n \in Nat /\ n <= i + c
    BY <1>1, <1>3
  <2>2. m \in free
    BY <1>1, <2>1
  <2> QED
    BY <1>4, <2>1, <2>2
<1>6. \E k \in i .. i + c : k \notin taken /\ i .. k - 1 \subseteq taken
  BY <1>5
<1>7. /\ NextFree(taken, i) \in i .. i + c
      /\ NextFree(taken, i) \notin taken
      /\ i .. NextFree(taken, i) - 1 \subseteq taken
  BY <1>6 DEF NextFree
<1> QED
  BY <1>1, <1>7
----------------------------------------------------------------------------
(* The inductive invariant.                                                *)

\* The passes after the tracker is built.
Late == {"implicit", "fill", "done", "full"}

\* The tracker holds exactly the indices of all waves and the fillers, nothing
\* below the counter is free, and the counter itself is free while holes are filled.
TrackerInv ==
  /\ IsFiniteSet(indices)
  /\ pass \in {"source", "refused", "implicit"} => fillers = {}
  /\ pass \in Late => indices = Explicit \cup fillers
  /\ pass \in Late => 0 .. autoIndex - 1 \subseteq indices
  /\ pass \in {"fill", "done"} => autoIndex \notin indices
  /\ pass = "done" => ~HasGap
  /\ pass = "full" => 0 .. MaxIndex - 1 \subseteq indices

Inv == TypeOK /\ TrackerInv /\ FillersPlugHoles

\* A wave that has an index is in the table, or its index is stranded.
LEMMA HeldOrStranded ==
  ASSUME TypeOK
  PROVE  Held \cup Stranded = Explicit \cup fillers
BY DEF TypeOK, Held, Stranded, Explicit

\* The index a wave is given is added to the indices of the waves.
LEMMA ExplicitGrows ==
  ASSUME NEW w \in Waves, NEW i, waveIndex[w] = kNoWaveIndex, i # kNoWaveIndex,
         waveIndex \in [Waves -> Int],
         waveIndex' = [waveIndex EXCEPT ![w] = i]
  PROVE  Explicit' = Explicit \cup {i}
<1>1. \A v \in Waves : waveIndex'[v] = IF v = w THEN i ELSE waveIndex[v]
  OBVIOUS
<1>2. Explicit' \subseteq Explicit \cup {i}
  BY <1>1 DEF Explicit
<1>3. i \in Explicit'
  BY <1>1 DEF Explicit
<1>4. Explicit \subseteq Explicit'
  <2> SUFFICES ASSUME NEW v \in Waves, waveIndex[v] # kNoWaveIndex PROVE waveIndex[v] \in Explicit'
    BY DEF Explicit
  <2>1. waveIndex'[v] = waveIndex[v]
    BY <1>1
  <2> QED
    BY <2>1 DEF Explicit
<1> QED
  BY <1>2, <1>3, <1>4

LEMMA InitInv == Init => Inv
<1> SUFFICES ASSUME Init PROVE Inv
  OBVIOUS
<1>1. IsFiniteSet(indices)
  BY FS_EmptySet DEF Init
<1> QED
  BY <1>1 DEF Init, Inv, TypeOK, TrackerInv, FillersPlugHoles, Late, kNoWaveIndex

LEMMA PlayWaveInv ==
  ASSUME Inv, NEW w \in Waves, PlayWave(w)
  PROVE  Inv'
<1>1. Explicit' = Explicit
  BY DEF PlayWave, Explicit
<1>2. TypeOK'
  BY DEF Inv, PlayWave, TypeOK
<1>3. TrackerInv'
  BY <1>1 DEF Inv, PlayWave, TrackerInv, Late, TypeOK
<1> QED
  BY <1>1, <1>2, <1>3 DEF Inv, PlayWave, FillersPlugHoles

LEMMA AssignWaveIndexInv ==
  ASSUME Inv, NEW w \in Waves, NEW i \in Requests, AssignWaveIndex(w, i)
  PROVE  Inv'
<1>1. i \in Int
  BY IndexAssumption
<1>2. fillers' = {} /\ pass' = "source"
  BY DEF Inv, TrackerInv, AssignWaveIndex
<1>3. TypeOK'
  BY <1>1 DEF Inv, AssignWaveIndex, TypeOK
<1>5. TrackerInv'
  BY <1>2 DEF Inv, AssignWaveIndex, TrackerInv, Late
<1> QED
  BY <1>2, <1>3, <1>5 DEF Inv, FillersPlugHoles

LEMMA AssignAgainInv ==
  ASSUME Inv, NEW w \in Waves, NEW i \in Requests, AssignAgain(w, i)
  PROVE  Inv'
BY DEF Inv, TypeOK, TrackerInv, FillersPlugHoles, Late, AssignAgain, Explicit

\* A finite program has finitely many indices.
LEMMA ExplicitFinite ==
  ASSUME waveIndex \in [Waves -> Int]
  PROVE  IsFiniteSet(Explicit) /\ Explicit \subseteq Int
<1> DEFINE all == {waveIndex[w] : w \in Waves}
<1>1. IsFiniteSet(all)
  <2>1. waveIndex \in Surjection(Waves, all)
    BY DEF Surjection
  <2> QED
    BY <2>1, IndexAssumption, FS_Surjection
<1>2. IsFiniteSet(Explicit)
  BY <1>1, FS_Difference DEF Explicit
<1> QED
  BY <1>2 DEF Explicit

LEMMA BuildTableInv ==
  ASSUME Inv, BuildTable
  PROVE  Inv'
<1>1. Explicit' = Explicit /\ fillers = {} /\ indices' = Explicit /\ autoIndex' = 0
  BY DEF Inv, TrackerInv, BuildTable, Explicit, Reserved, FirstIndex
<1>2. IsFiniteSet(Explicit) /\ Explicit \subseteq Int
  BY ExplicitFinite DEF Inv, TypeOK
<1>3. TypeOK'
  BY <1>1, <1>2 DEF Inv, BuildTable, TypeOK
<1>4. TrackerInv'
  BY <1>1, <1>2 DEF Inv, BuildTable, TrackerInv, Late
<1> QED
  BY <1>1, <1>3, <1>4 DEF Inv, BuildTable, FillersPlugHoles

\* What the search gives, for the tracker and its counter: everything below
\* the new counter is taken.
LEMMA SearchKeepsPrefix ==
  ASSUME NEW taken, IsFiniteSet(taken), taken \subseteq Int, NEW i \in Nat,
         0 .. i - 1 \subseteq taken
  PROVE  /\ NextFree(taken, i) \in Nat /\ NextFree(taken, i) \notin taken
         /\ 0 .. NextFree(taken, i) - 1 \subseteq taken
<1> DEFINE n == NextFree(taken, i)
<1>1. n \in Nat /\ n >= i /\ n \notin taken /\ i .. n - 1 \subseteq taken
  BY NextFreeIsFree
<1> HIDE DEF n
<1>2. 0 .. n - 1 \subseteq taken
  <2> SUFFICES ASSUME NEW m \in 0 .. n - 1 PROVE m \in taken
    OBVIOUS
  <2>1. m \in 0 .. i - 1 \/ m \in i .. n - 1
    BY <1>1
  <2> QED
    BY <1>1, <2>1
<1> QED
  BY <1>1, <1>2 DEF n

LEMMA ImplicitInv ==
  ASSUME Inv, NEW w \in Waves, Implicit(w)
  PROVE  Inv'
<1> DEFINE n == NextFree(indices, autoIndex)
<1>1. n \in Nat /\ n \notin indices /\ 0 .. n - 1 \subseteq indices
  BY SearchKeepsPrefix DEF Inv, TypeOK, TrackerInv, Late, Implicit
<1>2. autoIndex' = n /\ fillers' = {} /\ fillers = {} /\ indices = Explicit /\ used' = used
  BY DEF Implicit, Inv, TrackerInv, Late
<1>3. waveIndex[w] = kNoWaveIndex /\ w \in used /\ n # kNoWaveIndex
  BY <1>1 DEF Implicit, Unassigned, kNoWaveIndex
<1> HIDE DEF n
<1>4. CASE Assignable(autoIndex')
  <2>1. /\ pass' = "implicit" /\ indices' = indices \cup {n}
        /\ waveIndex' = [waveIndex EXCEPT ![w] = n]
    BY <1>2, <1>4 DEF Implicit
  <2>2. Explicit' = Explicit \cup {n}
    BY <1>1, <1>3, <2>1, ExplicitGrows DEF Inv, TypeOK
  <2>3. TypeOK'
    BY <1>1, <1>2, <2>1 DEF Inv, TypeOK
  <2>4. IsFiniteSet(indices')
    BY <2>1, FS_AddElement DEF Inv, TrackerInv
  <2>6. TrackerInv'
    BY <1>1, <1>2, <2>1, <2>2, <2>4 DEF TrackerInv, Late
  <2> QED
    BY <1>2, <2>3, <2>6 DEF Inv, FillersPlugHoles
<1>5. CASE ~Assignable(autoIndex')
  <2>1. pass' = "full" /\ UNCHANGED <<waveIndex, indices>>
    BY <1>5 DEF Implicit
  <2>2. n >= MaxIndex
    BY <1>1, <1>2, <1>5, IndexAssumption DEF Assignable
  <2>3. 0 .. MaxIndex - 1 \subseteq indices'
    BY <1>1, <2>1, <2>2, IndexAssumption
  <2>4. Explicit' = Explicit
    BY <2>1 DEF Explicit
  <2>5. TypeOK'
    BY <1>1, <1>2, <2>1 DEF Inv, TypeOK
  <2>6. TrackerInv'
    BY <1>1, <1>2, <2>1, <2>3, <2>4 DEF Inv, TrackerInv, Late
  <2> QED
    BY <1>2, <2>5, <2>6 DEF Inv, FillersPlugHoles
<1> QED
  BY <1>4, <1>5

LEMMA StartFillingInv ==
  ASSUME Inv, StartFilling
  PROVE  Inv'
<1> DEFINE n == NextFree(indices, autoIndex)
<1>1. n \in Nat /\ n \notin indices /\ 0 .. n - 1 \subseteq indices
  BY SearchKeepsPrefix DEF Inv, TypeOK, TrackerInv, Late, StartFilling
<1>2. autoIndex' = n /\ pass' = "fill" /\ UNCHANGED <<waveIndex, used, indices, fillers>>
  BY DEF StartFilling
<1>3. Explicit' = Explicit /\ fillers = {} /\ pass = "implicit"
  BY <1>2 DEF Explicit, Inv, TrackerInv, StartFilling
<1> HIDE DEF n
<1>4. TypeOK'
  BY <1>1, <1>2 DEF Inv, TypeOK
<1>5. TrackerInv'
  BY <1>1, <1>2, <1>3 DEF Inv, TrackerInv, Late
<1> QED
  BY <1>2, <1>3, <1>4, <1>5 DEF Inv, FillersPlugHoles

LEMMA FillInv ==
  ASSUME Inv, Fill
  PROVE  Inv'
<1>1. Explicit' = Explicit /\ indices = Explicit \cup fillers /\ waveIndex' = waveIndex /\ used' = used /\ pass = "fill"
  BY DEF Explicit, Inv, TrackerInv, Late, Fill
<1>2. autoIndex \in Nat /\ autoIndex \notin indices /\ 0 .. autoIndex - 1 \subseteq indices
  BY <1>1 DEF Inv, TypeOK, TrackerInv, Late
<1>3. CASE Assignable(autoIndex)
  <2> DEFINE taken == indices \cup {autoIndex}
             n == NextFree(taken, autoIndex + 1)
  <2>1. /\ fillers' = fillers \cup {autoIndex} /\ indices' = taken
        /\ autoIndex' = n /\ pass' = "fill"
    BY <1>1, <1>3 DEF Fill
  <2>2. IsFiniteSet(taken) /\ taken \subseteq Int
    BY <1>2, FS_AddElement DEF Inv, TrackerInv, TypeOK
  <2>3. 0 .. (autoIndex + 1) - 1 \subseteq taken
    BY <1>2
  <2>4. n \in Nat /\ n \notin taken /\ 0 .. n - 1 \subseteq taken
    <3> DEFINE k == autoIndex + 1
    <3>1. k \in Nat /\ 0 .. k - 1 \subseteq taken
      BY <1>2, <2>3
    <3> HIDE DEF taken, k
    <3>2. /\ NextFree(taken, k) \in Nat /\ NextFree(taken, k) \notin taken
          /\ 0 .. NextFree(taken, k) - 1 \subseteq taken
      BY <2>2, <3>1, SearchKeepsPrefix
    <3> QED
      BY <3>2 DEF k
  <2>5. \E i \in Explicit : autoIndex < i
    <3>1. PICK i \in indices : i > autoIndex
      BY DEF Fill, HasGap
    <3>2. i \in Int
      BY DEF Inv, TypeOK
    <3>3. CASE i \in Explicit
      BY <1>2, <3>1, <3>2, <3>3
    <3>4. CASE i \in fillers
      <4>1. PICK j \in Explicit : i < j
        BY <3>4 DEF Inv, FillersPlugHoles
      <4>2. j \in Int
        BY ExplicitFinite DEF Inv, TypeOK
      <4> QED
        BY <1>2, <3>1, <3>2, <4>1, <4>2
    <3> QED
      BY <1>1, <3>1, <3>3, <3>4
  <2> HIDE DEF n
  <2>6. TypeOK'
    BY <1>1, <1>2, <2>1, <2>2, <2>4 DEF Inv, TypeOK
  <2>7. TrackerInv'
    BY <1>1, <2>1, <2>2, <2>4 DEF Inv, TrackerInv, Late
  <2>8. FillersPlugHoles'
    BY <1>1, <1>2, <2>1, <2>5 DEF Inv, FillersPlugHoles
  <2> QED
    BY <2>6, <2>7, <2>8 DEF Inv
<1>4. CASE ~Assignable(autoIndex)
  <2>1. pass' = "full" /\ UNCHANGED <<indices, autoIndex, fillers>>
    BY <1>4 DEF Fill
  <2>2. autoIndex >= MaxIndex
    BY <1>2, <1>4, IndexAssumption DEF Assignable
  <2>3. 0 .. MaxIndex - 1 \subseteq indices'
    BY <1>2, <2>1, <2>2, IndexAssumption
  <2>4. TypeOK'
    BY <1>1, <2>1 DEF Inv, TypeOK
  <2>5. TrackerInv'
    BY <1>1, <1>2, <2>1, <2>3 DEF Inv, TrackerInv, Late
  <2> QED
    BY <1>1, <2>1, <2>4, <2>5 DEF Inv, FillersPlugHoles
<1> QED
  BY <1>3, <1>4

LEMMA FinishInv ==
  ASSUME Inv, Finish
  PROVE  Inv'
<1>1. pass = "fill" /\ pass' = "done" /\ UNCHANGED <<waveIndex, used, indices, autoIndex, fillers>>
  BY DEF Finish
<1>2. ~HasGap'
  BY <1>1 DEF Finish, HasGap
<1> QED
  BY <1>1, <1>2 DEF Inv, TypeOK, TrackerInv, FillersPlugHoles, Late, Explicit

LEMMA NextInv ==
  ASSUME Inv, [Next]_vars
  PROVE  Inv'
<1>1. CASE FrontEnd
  BY <1>1, PlayWaveInv, AssignWaveIndexInv, AssignAgainInv DEF FrontEnd
<1>2. CASE BuildTable
  BY <1>2, BuildTableInv
<1>3. CASE BackEnd
  BY <1>3, ImplicitInv, StartFillingInv, FillInv, FinishInv DEF BackEnd
<1>4. CASE UNCHANGED vars
  BY <1>4 DEF vars, Inv, TypeOK, TrackerInv, FillersPlugHoles, Late, Explicit, HasGap
<1> QED
  BY <1>1, <1>2, <1>3, <1>4 DEF Next

THEOREM Invariant == Spec => []Inv
<1>1. Init => Inv
  BY InitInv
<1>2. Inv /\ [Next]_vars => Inv'
  BY NextInv
<1> QED
  BY <1>1, <1>2, PTL DEF Spec

----------------------------------------------------------------------------
(* What follows.                                                           *)

\* The table is well typed in every reachable state.
THEOREM TypeCorrect == Spec => []TypeOK
<1>1. Inv => TypeOK
  BY DEF Inv
<1> QED
  BY <1>1, Invariant, PTL

\* assignWaveIndexImplicit leaves no hole, whatever the source asked for, but at
\* the index of a wave that is not in the table, and a filler stands only where
\* a hole was.
THEOREM TableIsDense == Spec => []Dense
<1>1. Inv => Dense
  <2> SUFFICES ASSUME Inv, pass = "done", NEW i \in Held, NEW j \in 0 .. i
               PROVE  j \in Held \cup Stranded
    BY DEF Dense, Inv
  <2>1. Held \cup Stranded = indices /\ indices \subseteq Int
    BY HeldOrStranded DEF Inv, TrackerInv, Late, TypeOK
  <2>4. i \in indices
    BY <2>1
  <2>2. autoIndex \in Nat /\ autoIndex \notin indices /\ ~(i > autoIndex)
    BY <2>4 DEF Inv, TypeOK, TrackerInv, HasGap
  <2>3. i \in Int /\ i < autoIndex
    BY <2>1, <2>2, <2>4
  <2>5. 0 .. autoIndex - 1 \subseteq indices
    BY DEF Inv, TrackerInv, Late
  <2>6. j \in indices
    BY <2>2, <2>3, <2>5
  <2> QED
    BY <2>1, <2>6
<1> QED
  BY <1>1, Invariant, PTL

\* A program is refused an index only when every index of the table is held, or
\* reserved for a wave that is not in it.
THEOREM NoEarlyRefusal == Spec => []RefusedOnlyWhenFull
<1>1. Inv => RefusedOnlyWhenFull
  BY HeldOrStranded DEF Inv, TrackerInv, Late, RefusedOnlyWhenFull
<1> QED
  BY <1>1, Invariant, PTL

\* The back end keeps the requests and never gives one index twice.
THEOREM BackEndIndexIsOwn == Spec => AutomaticIsOwn
<1> DEFINE Own == pass # "source" => \A w \in Waves : waveIndex'[w] # waveIndex[w] =>
                    waveIndex[w] = kNoWaveIndex /\ waveIndex'[w] \notin Held \cup Stranded
<1>1. Inv /\ [Next]_vars => [Own]_vars
  <2> SUFFICES ASSUME Inv, Next, pass # "source", NEW w \in Waves, waveIndex'[w] # waveIndex[w]
               PROVE  waveIndex[w] = kNoWaveIndex /\ waveIndex'[w] \notin Held \cup Stranded
    OBVIOUS
  <2>1. PICK v \in Waves : Implicit(v)
    BY DEF Next, FrontEnd, BackEnd, PlayWave, AssignWaveIndex, AssignAgain, BuildTable, StartFilling, Fill, Finish
  <2>2. /\ waveIndex' = [waveIndex EXCEPT ![v] = autoIndex'] /\ autoIndex' \notin indices
        /\ waveIndex[v] = kNoWaveIndex
    BY <2>1 DEF Implicit, Assignable, Unassigned
  <2>3. v = w /\ waveIndex'[w] = autoIndex'
    BY <2>2 DEF Inv, TypeOK
  <2>4. Held \cup Stranded = indices
    BY <2>1, HeldOrStranded DEF Inv, TrackerInv, Late, Implicit
  <2> QED
    BY <2>2, <2>3, <2>4
<1> QED
  BY <1>1, Invariant, PTL DEF Spec, AutomaticIsOwn
=============================================================================
