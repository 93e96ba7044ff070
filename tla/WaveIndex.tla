------------------------------ MODULE WaveIndex ------------------------------
(***************************************************************************)
(* The wave indices of one program: assignWaveIndex in the source          *)
(* (waveform/wavetable_front.cpp), the tracker the back end builds from it *)
(* (waveform/wave_index_tracker.cpp), and assignWaveIndexImplicit          *)
(* (waveform/wavetable_ir.cpp), which gives every other used wave an index *)
(* and plugs the holes with filler waves.                                  *)
(*                                                                         *)
(* The table is made of the waves that the loads and plays in the tree     *)
(* name, the tracker of the indices of all waves.  assignWaveIndex leaves  *)
(* a load for its wave, but a node can be lost on its way (in code that is *)
(* not reached, in a function never called): that wave keeps its index and *)
(* is not in the table.  Waves are visited in the order they were          *)
(* registered, which is any order here.                                    *)
(***************************************************************************)
EXTENDS Integers, FiniteSets

CONSTANTS
  Waves,      \* the waves the program defines
  Requests,   \* bound: the indices its assignWaveIndex calls name
  MaxIndex    \* DeviceConstants::maxWaveIndex

ASSUME IndexAssumption ==
  /\ IsFiniteSet(Waves) /\ IsFiniteSet(Requests)
  /\ Requests \subseteq Int /\ MaxIndex \in Nat

VARIABLES
  pass,       \* what the compiler is doing
  waveIndex,  \* Waveform::waveIndex
  used,       \* the waves that a node of the tree names: usedWaveforms_
  indices,    \* WaveIndexTracker::indices_
  autoIndex,  \* WaveIndexTracker::autoIndex_
  fillers     \* the indices of the filler waves

vars == <<pass, waveIndex, used, indices, autoIndex, fillers>>

kNoWaveIndex == -1

\* What the source asked for.
Explicit == {waveIndex[w] : w \in Waves} \ {kNoWaveIndex}

Init ==
  /\ pass = "source" /\ waveIndex = [w \in Waves |-> kNoWaveIndex]
  /\ used = {} /\ indices = {} /\ autoIndex = 0 /\ fillers = {}

----------------------------------------------------------------------------
(* The front end.                                                          *)

PlayWave(w) ==
  /\ pass = "source" /\ used' = used \cup {w}
  /\ UNCHANGED <<pass, waveIndex, indices, autoIndex, fillers>>

\* Mutant: a second assignWaveIndex moves the wave.
MayAssignAny(w, i) == TRUE

\* No index yet, or the same one.
MayAssign(w, i) == waveIndex[w] \in {kNoWaveIndex, i}

AssignWaveIndex(w, i) ==
  /\ pass = "source" /\ MayAssign(w, i)
  /\ waveIndex' = [waveIndex EXCEPT ![w] = i]
  /\ used' \in {used, used \cup {w}}
  /\ UNCHANGED <<pass, indices, autoIndex, fillers>>

\* WaveAlreadyAssigned is thrown.
AssignAgain(w, i) ==
  /\ pass = "source" /\ ~MayAssign(w, i)
  /\ pass' = "refused"
  /\ UNCHANGED <<waveIndex, used, indices, autoIndex, fillers>>

----------------------------------------------------------------------------
(* The back end.                                                           *)

\* Mutant: the tracker starts empty, as the front end's does.
ReservedNone == {}

\* The tracker is built from the waves; a set does not notice a duplicate.
Reserved == Explicit

FirstIndex == 0

BuildTable ==
  /\ pass = "source"
  /\ pass' = "implicit" /\ indices' = Reserved /\ autoIndex' = FirstIndex
  /\ UNCHANGED <<waveIndex, used, fillers>>

\* Mutant: one taken index is skipped, not a run of them.
NextFreeOnce(taken, i) == IF i \in taken THEN i + 1 ELSE i

\* The loop over lower_bound: the first index from i on that nobody holds.
NextFree(taken, i) ==
  CHOOSE n \in i .. i + Cardinality(taken) : n \notin taken /\ i .. n - 1 \subseteq taken

\* assignAuto throws on a taken index and past the end of the table.
Assignable(i) == i \notin indices /\ i < MaxIndex

Unassigned == {w \in used : waveIndex[w] = kNoWaveIndex}

\* One call of the first lambda.
Implicit(w) ==
  /\ pass = "implicit" /\ w \in Unassigned
  /\ autoIndex' = NextFree(indices, autoIndex)
  /\ IF Assignable(autoIndex')
     THEN /\ waveIndex' = [waveIndex EXCEPT ![w] = autoIndex']
          /\ indices' = indices \cup {autoIndex'}
          /\ UNCHANGED pass
     ELSE pass' = "full" /\ UNCHANGED <<waveIndex, indices>>
  /\ UNCHANGED <<used, fillers>>

StartFilling ==
  /\ pass = "implicit" /\ Unassigned = {}
  /\ pass' = "fill" /\ autoIndex' = NextFree(indices, autoIndex)
  /\ UNCHANGED <<waveIndex, used, indices, fillers>>

\* Mutant: a hole of one index is overlooked.
HasGapWide == \E i \in indices : i > autoIndex + 1

\* Mutant: the holes are counted, with the requests below zero.
HasGapCounted == autoIndex < Cardinality(indices)

\* lower_bound(autoIndex) is not the end of the set.
HasGap == \E i \in indices : i > autoIndex

\* One turn of the filler loop.
Fill ==
  /\ pass = "fill" /\ HasGap
  /\ IF Assignable(autoIndex)
     THEN /\ fillers' = fillers \cup {autoIndex}
          /\ indices' = indices \cup {autoIndex}
          /\ autoIndex' = NextFree(indices \cup {autoIndex}, autoIndex + 1)
          /\ UNCHANGED pass
     ELSE pass' = "full" /\ UNCHANGED <<indices, autoIndex, fillers>>
  /\ UNCHANGED <<waveIndex, used>>

\* Mutant: the loop is left only when the tracker is empty.
FinishEmpty ==
  /\ pass = "fill" /\ indices = {}
  /\ pass' = "done"
  /\ UNCHANGED <<waveIndex, used, indices, autoIndex, fillers>>

Finish ==
  /\ pass = "fill" /\ ~HasGap
  /\ pass' = "done"
  /\ UNCHANGED <<waveIndex, used, indices, autoIndex, fillers>>

FrontEnd == \E w \in Waves : PlayWave(w) \/ \E i \in Requests : AssignWaveIndex(w, i) \/ AssignAgain(w, i)

BackEnd == (\E w \in Waves : Implicit(w)) \/ StartFilling \/ Fill \/ Finish

Next == FrontEnd \/ BuildTable \/ BackEnd

Spec == Init /\ [][Next]_vars

\* The back end is one call that runs to its end.
FairSpec == Spec /\ WF_vars(BackEnd)

----------------------------------------------------------------------------

\* The indices of the table: those of the used waves, and the fillers.
Held == ({waveIndex[w] : w \in used} \ {kNoWaveIndex}) \cup fillers

\* The indices of waves that are not in the table.
Stranded == {waveIndex[w] : w \in Waves \ used} \ {kNoWaveIndex}

\* Every variable has its type.
TypeOK ==
  /\ pass \in {"source", "refused", "implicit", "fill", "done", "full"}
  /\ waveIndex \in [Waves -> Int] /\ used \subseteq Waves
  /\ indices \subseteq Int /\ autoIndex \in Nat /\ fillers \subseteq Nat

\* A filler stands in a hole: no wave has its index, and it is below the
\* index of some wave.
FillersPlugHoles == fillers \cap Explicit = {} /\ \A f \in fillers : \E i \in Explicit : f < i

\* What assignWaveIndexImplicit leaves has no hole but where the source gave the
\* index to a wave that is not in the table: below an index of the table every
\* other index is that of a used wave or a filler, and fillers only plug holes.
\* (The header promises a filler for every gap; a stranded index gets none.)
Dense == FillersPlugHoles /\ (pass = "done" => \A i \in Held : 0 .. i \subseteq Held \cup Stranded)

\* The back end is refused an index only when each one below the end of the table
\* is held, or reserved for a wave that is not in it: the requests of the source
\* never make it skip an index that nobody has.
RefusedOnlyWhenFull == pass = "full" => 0 .. MaxIndex - 1 \subseteq Held \cup Stranded

\* The back end leaves the requests of the source alone, and an index that it
\* chooses itself belongs to no other wave, in the table or not, and to no
\* filler, whatever duplicates the requests hold.
AutomaticIsOwn ==
  [][pass # "source" => \A w \in Waves : waveIndex'[w] # waveIndex[w] =>
       waveIndex[w] = kNoWaveIndex /\ waveIndex'[w] \notin Held \cup Stranded]_vars

\* The pass over the used waves and the filler loop come to an end.
Terminates == pass = "implicit" ~> pass \in {"done", "full"}

\* What the tracker is documented to enforce, "a specific index (raising
\* WavetableException on a duplicate or out-of-range value)": no two waves of
\* a finished table share an index.
IndicesDistinct ==
  pass = "done" => \A v, w \in used : v # w => waveIndex[v] # waveIndex[w]
=============================================================================
