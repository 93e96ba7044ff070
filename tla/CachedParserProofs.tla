------------------------- MODULE CachedParserProofs -------------------------
(***************************************************************************)
(* Theorems about the disk cache, for every set of instances and hashes,   *)
(* every budget and every bound: types, recency, the charges against the   *)
(* budget, why a file is turned away, and, of one instance at a time, what *)
(* the index file and the artifacts keep.                                  *)
(***************************************************************************)
EXTENDS CachedParser, NatFacts

\* Erasing entries keeps a well-typed cache whose pins are entries.
LEMMA KeepType ==
  ASSUME NEW c \in Cache, NEW S \in SUBSET Hashes
  PROVE  /\ Keep(c, S) \in Cache
         /\ Keep(c, S).pinned \subseteq Keep(c, S).index
<1>1. Only(c.stamp, S) \in [Hashes -> Second]
  BY CacheAssumption DEF Cache, Only, Second
<1>2. c.pinned \cap S \in SUBSET Hashes
  BY DEF Cache
<1> QED BY <1>1, <1>2 DEF Cache, Keep

LEMMA ConstantTypes ==
  /\ Down \in Cache /\ Down.pinned = {} /\ Down.index = {}
  /\ Fresh \in Cache /\ Fresh.pinned = {} /\ Fresh.index = {}
  /\ [Down EXCEPT !.up = TRUE] \in Cache
<1>1. NoStamps \in [Hashes -> Second]
  BY CacheAssumption DEF NoStamps, Second
<1> QED BY <1>1 DEF Cache, Down, Fresh

\* The types of the index file and of the artifacts, apart from the rest.
DiskType ==
  /\ file \in [Hashes -> {"none", "torn", "good", "old"}]
  /\ disk \in [status : {"absent", "corrupt", "valid"}, index : SUBSET Hashes,
               stamp : [Hashes -> Second]]

MemoryType ==
  /\ cache \in [Instances -> Cache]
  /\ \A i \in Instances : cache[i].pinned \subseteq cache[i].index

CallType ==
  /\ call \in [Instances -> [op : {"idle", "read", "saveLoaded", "saveRefused",
                                   "saveEvicted", "write", "insert"},
                             hash : Hashes \cup {NoHash}]]
  /\ \A i \in Instances : call[i].hash = NoHash => call[i].op \in {"idle", "saveLoaded"}

\* A step that changes one cache to a well-typed one keeps them all well typed.
LEMMA OneCache ==
  ASSUME MemoryType, NEW i \in Instances, NEW c \in Cache, c.pinned \subseteq c.index,
         cache' = [cache EXCEPT ![i] = c]
  PROVE  MemoryType'
BY DEF MemoryType

LEMMA RemoveType ==
  ASSUME DiskType, NEW S, Remove(S)
  PROVE  file' \in [Hashes -> {"none", "torn", "good", "old"}]
BY DEF DiskType, Remove

LEMMA FaultsType ==
  ASSUME faults \in 0 .. MaxFaults, NoFault \/ \E kind : Fails(kind)
  PROVE  faults' \in 0 .. MaxFaults
BY CacheAssumption DEF NoFault, Fails

LEMMA CleanType ==
  ASSUME DiskType, MemoryType, faults \in 0 .. MaxFaults,
         NEW i \in Instances, NEW c \in Cache, Clean(i, c)
  PROVE  DiskType' /\ MemoryType' /\ faults' \in 0 .. MaxFaults
<1>1. CleanDisk /\ cache' = [cache EXCEPT ![i] = Keep(c, {})]
  BY DEF Clean
<1>2. file' \in [Hashes -> {"none", "torn", "good", "old"}]
  BY <1>1, RemoveType DEF CleanDisk
<1>3. disk' \in {disk, NoIndex}
  BY <1>1 DEF CleanDisk
<1>4. NoIndex \in [status : {"absent", "corrupt", "valid"}, index : SUBSET Hashes,
                   stamp : [Hashes -> Second]]
  BY CacheAssumption DEF NoIndex, NoStamps, Second
<1>5. DiskType'
  BY <1>2, <1>3, <1>4 DEF DiskType
<1>6. MemoryType'
  BY <1>1, KeepType, OneCache
<1>7. NoFault \/ \E kind : Fails(kind)
  BY <1>1 DEF CleanDisk
<1> QED BY <1>5, <1>6, <1>7, FaultsType

LEMMA EvictType ==
  ASSUME DiskType, MemoryType, NEW i \in Instances, NEW c \in Cache, NEW n,
         NEW E \in SUBSET Hashes, Evict(i, c, n, E)
  PROVE  MemoryType' /\ file' \in [Hashes -> {"none", "torn", "good", "old"}]
<1>1. c.index \ E \in SUBSET Hashes
  BY DEF Cache
<1>2. cache' = [cache EXCEPT ![i] = Keep(c, c.index \ E)] /\ Remove(E)
  BY DEF Evict
<1> QED BY <1>1, <1>2, KeepType, OneCache, RemoveType

LEMMA SaveType ==
  ASSUME DiskType, MemoryType, faults \in 0 .. MaxFaults,
         NEW i \in Instances, NEW c \in Cache, c.pinned \subseteq c.index,
         Save(i, c), UNCHANGED file
  PROVE  DiskType' /\ MemoryType' /\ faults' \in 0 .. MaxFaults
<1>1. disk' \in {disk, Saved(c), CorruptIndex}
  BY DEF Save
<1>2. Saved(c) \in [status : {"absent", "corrupt", "valid"}, index : SUBSET Hashes,
                    stamp : [Hashes -> Second]]
  BY DEF Saved, Cache
<1>3. CorruptIndex \in [status : {"absent", "corrupt", "valid"}, index : SUBSET Hashes,
                        stamp : [Hashes -> Second]]
  BY CacheAssumption DEF CorruptIndex, NoStamps, Second
<1>4. DiskType'
  BY <1>1, <1>2, <1>3 DEF DiskType
<1>5. MemoryType'
  <2>1. [c EXCEPT !.enabled = FALSE] \in Cache
        /\ [c EXCEPT !.enabled = FALSE].pinned \subseteq [c EXCEPT !.enabled = FALSE].index
    BY DEF Cache
  <2>2. \/ cache' = [cache EXCEPT ![i] = c]
        \/ cache' = [cache EXCEPT ![i] = [c EXCEPT !.enabled = FALSE]]
    BY DEF Save
  <2> QED BY <2>1, <2>2, OneCache
<1>6. NoFault \/ \E kind : Fails(kind)
  BY DEF Save
<1> QED BY <1>4, <1>5, <1>6, FaultsType

\* The types are kept by every step.
LEMMA TypeStep ==
  ASSUME TypeOK, [Next]_vars
  PROVE  TypeOK'
<1> USE CacheAssumption
<1>0. DiskType /\ MemoryType /\ CallType /\ clock \in Second /\ faults \in 0 .. MaxFaults
  BY DEF TypeOK, DiskType, MemoryType, CallType
<1> DEFINE Typed == DiskType /\ MemoryType /\ CallType /\ clock \in Second /\ faults \in 0 .. MaxFaults
<1> SUFFICES Typed'
  BY DEF TypeOK, DiskType, MemoryType, CallType
<1>L. Loaded \in Cache /\ Loaded.pinned \subseteq Loaded.index /\ Loaded.index \in SUBSET Hashes
  BY <1>0 DEF Loaded, Fresh, Down, Cache, DiskType
<1>C. \A i \in Instances : /\ cache[i] \in Cache /\ cache[i].index \in SUBSET Hashes
                           /\ cache[i].pinned \subseteq cache[i].index
  BY <1>0 DEF MemoryType, Cache
<1>1. ASSUME NEW i \in Instances, StartDisabled(i) PROVE Typed'
  <2>1. MemoryType'
    BY <1>0, <1>1, ConstantTypes, OneCache, [Down EXCEPT !.up = TRUE].pinned = {} DEF StartDisabled, Down
  <2> QED BY <1>0, <1>1, <2>1, FaultsType DEF StartDisabled, DiskType, CallType
<1>2. ASSUME NEW i \in Instances, StartEmpty(i) PROVE Typed'
  <2>1. MemoryType'
    BY <1>0, <1>2, ConstantTypes, OneCache DEF StartEmpty
  <2> QED BY <1>0, <1>2, <2>1 DEF StartEmpty, DiskType, CallType
<1>3. ASSUME NEW i \in Instances, StartCorrupt(i) PROVE Typed'
  <2>1. DiskType' /\ MemoryType' /\ faults' \in 0 .. MaxFaults
    BY <1>0, <1>3, ConstantTypes, CleanType DEF StartCorrupt
  <2> QED BY <1>0, <1>3, <2>1 DEF StartCorrupt, CallType
<1>4. ASSUME NEW i \in Instances, StartLoaded(i) PROVE Typed'
  <2>1. MemoryType'
    BY <1>0, <1>4, <1>L, OneCache DEF StartLoaded
  <2> QED BY <1>0, <1>4, <2>1 DEF StartLoaded, DiskType, CallType
<1>5. ASSUME NEW i \in Instances, StartOverBudget(i) PROVE Typed'
  <2>0. clock' = clock
    BY <1>5 DEF StartOverBudget
  <2>1. CASE \E E \in Victims(Loaded, LoadedSize) : Evict(i, Loaded, LoadedSize, E) /\ call' = [call EXCEPT ![i] = [op |-> "saveLoaded", hash |-> NoHash]] /\ UNCHANGED <<disk, faults>>
    <3>1. PICK E \in Victims(Loaded, LoadedSize) : Evict(i, Loaded, LoadedSize, E)
      BY <2>1
    <3>2. E \in SUBSET Hashes
      BY <3>1, <1>L DEF Victims
    <3>3. MemoryType' /\ file' \in [Hashes -> {"none", "torn", "good", "old"}]
      BY <1>0, <1>L, <3>1, <3>2, EvictType
    <3>4. DiskType'
      BY <1>0, <3>3, <2>1 DEF DiskType
    <3>5. CallType'
      BY <1>0, <2>1 DEF CallType
    <3> QED BY <1>0, <2>0, <2>1, <3>3, <3>4, <3>5
  <2>2. CASE Clean(i, Fresh) /\ UNCHANGED call
    BY <1>0, <2>0, <2>2, ConstantTypes, CleanType DEF CallType
  <2> QED BY <1>5, <2>1, <2>2 DEF StartOverBudget
<1>6. ASSUME NEW i \in Instances, Stop(i) PROVE Typed'
  <2>1. MemoryType'
    BY <1>0, <1>6, ConstantTypes, OneCache DEF Stop
  <2> QED BY <1>0, <1>6, <2>1 DEF Stop, DiskType, CallType
<1>7. ASSUME NEW i \in Instances, NEW h \in Hashes, LookupOutdated(i, h) PROVE Typed'
  <2>1. MemoryType'
    BY <1>0, <1>7, <1>C, KeepType, OneCache, cache[i].index \ {h} \in SUBSET Hashes DEF LookupOutdated
  <2>2. DiskType'
    BY <1>0, <1>7, RemoveType DEF LookupOutdated, DiskType
  <2> QED BY <1>0, <1>7, <2>1, <2>2 DEF LookupOutdated, CallType
<1>8. ASSUME NEW i \in Instances, NEW h \in Hashes, LookupFresh(i, h) PROVE Typed'
  <2>1. Touched(cache[i], h) \in Cache /\ Touched(cache[i], h).pinned \subseteq Touched(cache[i], h).index
    BY <1>0, <1>8, <1>C DEF LookupFresh, Touched, Cache
  <2>2. MemoryType'
    BY <1>0, <1>8, <2>1, OneCache DEF LookupFresh
  <2>3. CallType'
    BY <1>0, <1>8 DEF LookupFresh, CallType
  <2> QED BY <1>0, <1>8, <2>2, <2>3 DEF LookupFresh, DiskType
<1>9. ASSUME NEW i \in Instances, ReadHit(i) PROVE Typed'
  BY <1>0, <1>9 DEF ReadHit, DiskType, MemoryType, CallType, Idle
<1>10. ASSUME NEW i \in Instances, ReadFailed(i) PROVE Typed'
  <2>1. DiskType' /\ MemoryType' /\ faults' \in 0 .. MaxFaults
    BY <1>0, <1>10, <1>C, CleanType DEF ReadFailed
  <2> QED BY <1>0, <1>10, <2>1 DEF ReadFailed, CallType, Idle
<1>11. ASSUME NEW i \in Instances, NEW h \in Hashes, Charge(i, h) PROVE Typed'
  <2>0. UNCHANGED <<clock, disk, faults>>
    BY <1>11 DEF Charge
  <2>1. CASE call' = [call EXCEPT ![i] = [op |-> "write", hash |-> h]] /\ UNCHANGED <<cache, file>>
    BY <1>0, <2>0, <2>1 DEF DiskType, MemoryType, CallType
  <2>2. CASE \E n : \E E \in Victims(cache[i], n) :
               /\ Evict(i, cache[i], n, E)
               /\ call' = [call EXCEPT ![i] = [op |-> AfterEviction(cache[i], n, E), hash |-> h]]
    <3>1. PICK n : \E E \in Victims(cache[i], n) :
               /\ Evict(i, cache[i], n, E)
               /\ call' = [call EXCEPT ![i] = [op |-> AfterEviction(cache[i], n, E), hash |-> h]]
      BY <2>2
    <3>2. PICK E \in Victims(cache[i], n) :
               /\ Evict(i, cache[i], n, E)
               /\ call' = [call EXCEPT ![i] = [op |-> AfterEviction(cache[i], n, E), hash |-> h]]
      BY <3>1
    <3>3. E \in SUBSET Hashes
      BY <3>2, <1>C DEF Victims
    <3>4. MemoryType' /\ file' \in [Hashes -> {"none", "torn", "good", "old"}]
      BY <1>0, <1>C, <3>2, <3>3, EvictType
    <3>5. AfterEviction(cache[i], n, E) \in {"saveRefused", "saveEvicted"}
      BY DEF AfterEviction
    <3>6. CallType'
      BY <1>0, <3>2, <3>5 DEF CallType
    <3> QED BY <1>0, <2>0, <3>4, <3>6 DEF DiskType
  <2> QED BY <1>11, <2>1, <2>2 DEF Charge
<1>12. ASSUME NEW i \in Instances, NEW h \in Hashes, ChargeThrows(i, h) PROVE Typed'
  <2>1. PICK E \in SUBSET cache[i].index : Evict(i, cache[i], size[i] + Bytes[h], E)
    BY <1>12 DEF ChargeThrows
  <2>2. MemoryType' /\ file' \in [Hashes -> {"none", "torn", "good", "old"}]
    BY <1>0, <1>C, <2>1, EvictType
  <2> QED BY <1>0, <1>12, <2>2, FaultsType DEF ChargeThrows, DiskType, CallType
<1>13. ASSUME NEW i \in Instances, SaveEvicted(i) PROVE Typed'
  <2>1. DiskType' /\ MemoryType' /\ faults' \in 0 .. MaxFaults
    BY <1>0, <1>13, <1>C, SaveType DEF SaveEvicted
  <2>2. CallType'
    BY <1>0, <1>13 DEF SaveEvicted, CallType, Idle
  <2> QED BY <1>0, <1>13, <2>1, <2>2 DEF SaveEvicted
<1>14. ASSUME NEW i \in Instances, WriteFile(i) PROVE Typed'
  <2>1. file' \in [Hashes -> {"none", "torn", "good", "old"}]
    <3>1. PICK left : file' = [file EXCEPT ![call[i].hash] = left] /\ left \in {"good", "torn", file[call[i].hash]}
      BY <1>14 DEF WriteFile
    <3>2. CASE call[i].hash \in Hashes
      BY <1>0, <3>1, <3>2 DEF DiskType
    <3>3. CASE call[i].hash \notin Hashes
      BY <1>0, <3>1, <3>3 DEF DiskType
    <3> QED BY <3>2, <3>3
  <2>2. CallType'
    BY <1>0, <1>14 DEF WriteFile, CallType
  <2>3. faults' \in 0 .. MaxFaults
    BY <1>0, <1>14, FaultsType DEF WriteFile
  <2> QED BY <1>0, <1>14, <2>1, <2>2, <2>3 DEF WriteFile, DiskType, MemoryType
<1>15. ASSUME NEW i \in Instances, Insert(i) PROVE Typed'
  <2>0. call[i].hash \in Hashes
    BY <1>0, <1>15 DEF Insert, CallType
  <2>1. Entered(cache[i], call[i].hash) \in Cache
        /\ Entered(cache[i], call[i].hash).pinned \subseteq Entered(cache[i], call[i].hash).index
    BY <1>0, <2>0, <1>C DEF Entered, Cache, Second
  <2>2. DiskType' /\ MemoryType' /\ faults' \in 0 .. MaxFaults
    BY <1>0, <1>15, <2>1, SaveType DEF Insert
  <2> QED BY <1>0, <1>15, <2>2 DEF Insert, CallType, Idle
<1>16. ASSUME NEW h \in Hashes, SourceChanges(h) PROVE Typed'
  BY <1>0, <1>16 DEF SourceChanges, DiskType, MemoryType, CallType
<1>17. ASSUME Tick PROVE Typed'
  BY <1>0, <1>17 DEF Tick, DiskType, MemoryType, CallType, Second
<1>18. ASSUME NEW i \in Instances, Crash(i) PROVE Typed'
  <2>1. MemoryType'
    BY <1>0, <1>18, ConstantTypes, OneCache DEF Crash
  <2>2. CorruptIndex \in [status : {"absent", "corrupt", "valid"}, index : SUBSET Hashes,
                          stamp : [Hashes -> Second]]
    BY DEF CorruptIndex, NoStamps, Second
  <2>3. disk' \in {disk, CorruptIndex}
    BY <1>18 DEF Crash
  <2>4. file' \in [Hashes -> {"none", "torn", "good", "old"}]
    BY <1>0, <1>18 DEF Crash, DiskType
  <2>5. CallType'
    BY <1>0, <1>18 DEF Crash, CallType, Idle
  <2>6. faults' \in 0 .. MaxFaults
    BY <1>0, <1>18, FaultsType DEF Crash
  <2> QED BY <1>0, <1>18, <2>1, <2>2, <2>3, <2>4, <2>5, <2>6 DEF Crash, DiskType
<1>19. CASE UNCHANGED vars
  BY <1>0, <1>19 DEF vars, DiskType, MemoryType, CallType
<1> QED BY <1>1, <1>2, <1>3, <1>4, <1>5, <1>6, <1>7, <1>8, <1>9, <1>10, <1>11, <1>12,
           <1>13, <1>14, <1>15, <1>16, <1>17, <1>18, <1>19 DEF Next, Reads, Stores

\* Every reachable state is well typed.
THEOREM TypeCorrect == Spec => []TypeOK
<1>1. Init => TypeOK
  BY CacheAssumption DEF Init, TypeOK, Cache, Down, NoIndex, NoStamps, Idle, Second
<1>2. TypeOK /\ [Next]_vars => TypeOK'
  BY TypeStep
<1> QED BY <1>1, <1>2, PTL DEF Spec

----------------------------------------------------------------------------
(* Recency.                                                                *)

\* No entry of c is from the future, and its pinned entries are its newest.
Recent(c) ==
  /\ \A h \in Hashes : c.stamp[h] <= clock
  /\ \A p \in c.pinned, u \in c.index \ c.pinned : c.stamp[u] <= c.stamp[p]

RecentDisk == \A h \in Hashes : disk.stamp[h] <= clock

LEMMA RecentKeep ==
  ASSUME NEW c \in Cache, Recent(c), clock \in Second, NEW S \in SUBSET c.index
  PROVE  Recent(Keep(c, S))
<1> DEFINE k == Keep(c, S)
<1>1. /\ k.stamp = Only(c.stamp, S) /\ k.pinned = c.pinned \cap S /\ k.index = S
  BY DEF Keep, Cache
<1>2. ASSUME NEW h \in Hashes PROVE k.stamp[h] <= clock
  BY <1>1, CacheAssumption DEF Only, Recent, Second
<1>3. ASSUME NEW p \in k.pinned, NEW u \in k.index \ k.pinned PROVE k.stamp[u] <= k.stamp[p]
  <2>1. p \in S /\ u \in S /\ p \in Hashes /\ u \in Hashes
    BY <1>1 DEF Cache
  <2>2. k.stamp[u] = c.stamp[u] /\ k.stamp[p] = c.stamp[p]
    BY <1>1, <2>1 DEF Only
  <2>3. p \in c.pinned /\ u \in c.index \ c.pinned
    BY <1>1, <2>1
  <2> QED BY <2>2, <2>3 DEF Recent
<1> QED BY <1>2, <1>3 DEF Recent

LEMMA RecentNow ==
  ASSUME NEW c \in Cache, Recent(c), clock \in Second, NEW h \in Hashes, NEW d \in Cache,
         d.stamp = [c.stamp EXCEPT ![h] = clock], d.pinned = c.pinned \cup {h},
         d.index = c.index \cup {h}
  PROVE  Recent(d)
<1>1. ASSUME NEW g \in Hashes PROVE d.stamp[g] <= clock
  BY DEF Recent, Cache, Second
<1>2. ASSUME NEW p \in d.pinned, NEW u \in d.index \ d.pinned PROVE d.stamp[u] <= d.stamp[p]
  <2>1. u # h /\ u \in c.index \ c.pinned /\ u \in Hashes /\ p \in Hashes
    BY DEF Cache
  <2>2. d.stamp[u] = c.stamp[u]
    BY <2>1 DEF Cache
  <2>3. CASE p = h
    BY <2>1, <2>2, <2>3 DEF Recent, Cache
  <2>4. CASE p # h
    BY <2>1, <2>2, <2>4 DEF Recent, Cache
  <2> QED BY <2>3, <2>4
<1> QED BY <1>1, <1>2 DEF Recent

\* What a step makes of one cache, when it changes that one and not the clock.
LEMMA RecentStep ==
  ASSUME TypeOK, TypeOK', UNCHANGED clock, RecentDisk, \A i \in Instances : Recent(cache[i]),
         NEW i \in Instances, NEW c \in Cache, Recent(c),
         cache' = [cache EXCEPT ![i] = c],
         disk' \in {disk, NoIndex, CorruptIndex, Saved(c)}
  PROVE  RecentDisk' /\ \A j \in Instances : Recent(cache[j])'
<1>0. cache \in [Instances -> Cache] /\ clock \in Second
  BY DEF TypeOK
<1>1. RecentDisk'
  BY <1>0, CacheAssumption DEF RecentDisk, NoIndex, CorruptIndex, Saved, NoStamps, Recent, Second
<1>2. ASSUME NEW j \in Instances PROVE Recent(cache[j])'
  BY <1>0 DEF Recent
<1> QED BY <1>1, <1>2

LEMMA RecentDown ==
  ASSUME clock \in Second
  PROVE  Recent(Down) /\ Recent(Fresh) /\ Recent([Down EXCEPT !.up = TRUE])
BY CacheAssumption DEF Recent, Down, Fresh, NoStamps, Second

RecencyInv == TypeOK /\ RecentDisk /\ \A i \in Instances : Recent(cache[i])

\* Each step changes at most one cache, and that one to a recent one.
LEMMA RecencyStep ==
  ASSUME RecencyInv, [Next]_vars
  PROVE  RecentDisk' /\ \A i \in Instances : Recent(cache[i])'
<1> DEFINE Goal == RecentDisk' /\ \A i \in Instances : Recent(cache[i])'
<1>0. TypeOK /\ RecentDisk /\ clock \in Second /\ cache \in [Instances -> Cache]
      /\ \A i \in Instances : Recent(cache[i])
  BY DEF RecencyInv, TypeOK
<1>T. TypeOK'
  BY <1>0, TypeStep
<1>C. \A i \in Instances : /\ cache[i] \in Cache /\ cache[i].index \in SUBSET Hashes
                           /\ Recent(cache[i])
  BY <1>0 DEF Cache
<1>D. Recent(Down) /\ Recent(Fresh) /\ Recent([Down EXCEPT !.up = TRUE])
      /\ Down \in Cache /\ Fresh \in Cache /\ [Down EXCEPT !.up = TRUE] \in Cache
      /\ Fresh.index = {}
  BY <1>0, RecentDown, ConstantTypes
<1>L. Loaded \in Cache /\ Loaded.index \in SUBSET Hashes /\ Recent(Loaded)
  BY <1>0 DEF Loaded, Fresh, Down, Cache, TypeOK, RecentDisk, Recent
<1>K. ASSUME NEW c \in Cache, Recent(c), NEW S \in SUBSET c.index PROVE Recent(Keep(c, S)) /\ Keep(c, S) \in Cache
  BY <1>0, <1>K, RecentKeep, KeepType DEF Cache
<1>Q. ASSUME UNCHANGED <<clock, disk, cache>> PROVE Goal
  BY <1>0, <1>Q DEF RecentDisk, Recent
<1>S. ASSUME NEW i \in Instances, NEW c \in Cache, Recent(c), cache' = [cache EXCEPT ![i] = c],
             UNCHANGED clock, disk' \in {disk, NoIndex, CorruptIndex, Saved(c)}
      PROVE  Goal
  BY <1>0, <1>T, <1>S, RecentStep
<1>V. ASSUME NEW i \in Instances, NEW c \in Cache, Recent(c), Save(i, c), UNCHANGED clock
      PROVE  Goal
  <2>1. CASE cache' = [cache EXCEPT ![i] = c] /\ disk' \in {disk, Saved(c)}
    BY <1>S, <1>V, <2>1
  <2>2. CASE cache' = [cache EXCEPT ![i] = [c EXCEPT !.enabled = FALSE]] /\ disk' = CorruptIndex
    <3>1. [c EXCEPT !.enabled = FALSE] \in Cache /\ Recent([c EXCEPT !.enabled = FALSE])
      BY <1>V DEF Cache, Recent
    <3> QED BY <1>S, <1>V, <2>2, <3>1
  <2> QED BY <1>V, <2>1, <2>2 DEF Save
<1>E. ASSUME NEW i \in Instances, NEW c \in Cache, Recent(c), NEW n, NEW E \in SUBSET Hashes,
             Evict(i, c, n, E), UNCHANGED <<clock, disk>>
      PROVE  Goal
  <2>1. c.index \ E \in SUBSET c.index
    OBVIOUS
  <2> QED BY <1>E, <1>K, <1>S, <2>1 DEF Evict
<1>X. ASSUME NEW i \in Instances, NEW c \in Cache, Recent(c), Clean(i, c), UNCHANGED clock
      PROVE  Goal
  <2>1. {} \in SUBSET c.index /\ disk' \in {disk, NoIndex}
    BY <1>X DEF Clean, CleanDisk
  <2> QED BY <1>X, <1>K, <1>S, <2>1 DEF Clean
<1>1. ASSUME NEW i \in Instances, StartDisabled(i) PROVE Goal
  BY <1>1, <1>D, <1>S DEF StartDisabled
<1>2. ASSUME NEW i \in Instances, StartEmpty(i) PROVE Goal
  BY <1>2, <1>D, <1>S DEF StartEmpty
<1>3. ASSUME NEW i \in Instances, StartCorrupt(i) PROVE Goal
  BY <1>3, <1>D, <1>X DEF StartCorrupt
<1>4. ASSUME NEW i \in Instances, StartLoaded(i) PROVE Goal
  BY <1>4, <1>L, <1>S DEF StartLoaded
<1>5. ASSUME NEW i \in Instances, StartOverBudget(i) PROVE Goal
  <2>1. CASE \E E \in Victims(Loaded, LoadedSize) : Evict(i, Loaded, LoadedSize, E) /\ UNCHANGED disk
    <3>1. PICK E \in SUBSET Hashes : Evict(i, Loaded, LoadedSize, E) /\ UNCHANGED disk
      BY <1>L, <2>1 DEF Victims
    <3> QED BY <1>5, <1>L, <1>E, <3>1 DEF StartOverBudget
  <2>2. CASE Clean(i, Fresh)
    BY <1>5, <1>D, <1>X, <2>2 DEF StartOverBudget
  <2> QED BY <1>5, <2>1, <2>2 DEF StartOverBudget
<1>6. ASSUME NEW i \in Instances, Stop(i) PROVE Goal
  BY <1>6, <1>D, <1>S DEF Stop
<1>7. ASSUME NEW i \in Instances, NEW h \in Hashes, LookupOutdated(i, h) PROVE Goal
  <2>1. cache[i].index \ {h} \in SUBSET cache[i].index
    OBVIOUS
  <2> QED BY <1>0, <1>7, <1>C, <1>K, <1>S, <2>1 DEF LookupOutdated
<1>8. ASSUME NEW i \in Instances, NEW h \in Hashes, LookupFresh(i, h) PROVE Goal
  <2> DEFINE d == Touched(cache[i], h)
  <2>1. /\ d \in Cache /\ d.stamp = [cache[i].stamp EXCEPT ![h] = clock]
        /\ d.pinned = cache[i].pinned \cup {h} /\ d.index = cache[i].index \cup {h}
    BY <1>0, <1>8, <1>C DEF LookupFresh, Touched, Cache
  <2>2. Recent(d)
    BY <1>0, <1>C, <2>1, RecentNow
  <2> QED BY <1>0, <1>8, <1>S, <2>1, <2>2 DEF LookupFresh
<1>9. ASSUME NEW i \in Instances, ReadHit(i) PROVE Goal
  BY <1>9, <1>Q DEF ReadHit
<1>10. ASSUME NEW i \in Instances, ReadFailed(i) PROVE Goal
  BY <1>10, <1>C, <1>X DEF ReadFailed
<1>11. ASSUME NEW i \in Instances, NEW h \in Hashes, Charge(i, h) PROVE Goal
  <2>0. UNCHANGED <<clock, disk>>
    BY <1>11 DEF Charge
  <2>1. CASE UNCHANGED cache
    BY <1>Q, <2>0, <2>1
  <2>2. CASE \E n : \E E \in Victims(cache[i], n) : Evict(i, cache[i], n, E)
    <3>1. PICK n : \E E \in SUBSET Hashes : Evict(i, cache[i], n, E)
      BY <1>C, <2>2 DEF Victims
    <3>2. PICK E \in SUBSET Hashes : Evict(i, cache[i], n, E)
      BY <3>1
    <3> QED BY <1>C, <1>E, <2>0, <3>2
  <2> QED BY <1>11, <2>1, <2>2 DEF Charge
<1>12. ASSUME NEW i \in Instances, NEW h \in Hashes, ChargeThrows(i, h) PROVE Goal
  <2>1. PICK E \in SUBSET Hashes : Evict(i, cache[i], size[i] + Bytes[h], E)
    BY <1>12, <1>C DEF ChargeThrows
  <2> QED BY <1>12, <1>C, <1>E, <2>1 DEF ChargeThrows
<1>13. ASSUME NEW i \in Instances, SaveEvicted(i) PROVE Goal
  BY <1>13, <1>C, <1>V DEF SaveEvicted
<1>14. ASSUME NEW i \in Instances, WriteFile(i) PROVE Goal
  BY <1>14, <1>Q DEF WriteFile
<1>15. ASSUME NEW i \in Instances, Insert(i) PROVE Goal
  <2> DEFINE h == call[i].hash
  <2> DEFINE d == Entered(cache[i], h)
  <2>0. h \in Hashes
    BY <1>0, <1>15 DEF Insert, TypeOK
  <2>1. /\ d \in Cache /\ d.stamp = [cache[i].stamp EXCEPT ![h] = clock]
        /\ d.pinned = cache[i].pinned \cup {h} /\ d.index = cache[i].index \cup {h}
    BY <1>0, <2>0, <1>C DEF Entered, Cache
  <2>2. Recent(d)
    BY <1>0, <1>C, <2>0, <2>1, RecentNow
  <2> QED BY <1>15, <1>V, <2>1, <2>2 DEF Insert
<1>16. ASSUME NEW h \in Hashes, SourceChanges(h) PROVE Goal
  BY <1>16, <1>Q DEF SourceChanges
<1>17. ASSUME Tick PROVE Goal
  <2>1. clock' = clock + 1 /\ UNCHANGED <<disk, cache>>
    BY <1>17 DEF Tick
  <2>2. ASSUME NEW h \in Hashes PROVE disk'.stamp[h] <= clock'
    BY <1>0, <2>1 DEF RecentDisk, TypeOK, Second
  <2>3. ASSUME NEW i \in Instances PROVE Recent(cache[i])'
    <3>1. ASSUME NEW h \in Hashes PROVE cache[i].stamp[h] <= clock + 1
      BY <1>0, <1>C DEF Recent, Cache, Second
    <3> QED BY <1>C, <2>1, <3>1 DEF Recent
  <2> QED BY <2>2, <2>3 DEF RecentDisk
<1>18. ASSUME NEW i \in Instances, Crash(i) PROVE Goal
  <2>1. disk' \in {disk, CorruptIndex}
    BY <1>18 DEF Crash
  <2> QED BY <1>18, <1>D, <1>S, <2>1 DEF Crash
<1>19. CASE UNCHANGED vars
  BY <1>19, <1>Q DEF vars
<1> QED BY <1>1, <1>2, <1>3, <1>4, <1>5, <1>6, <1>7, <1>8, <1>9, <1>10, <1>11, <1>12,
           <1>13, <1>14, <1>15, <1>16, <1>17, <1>18, <1>19 DEF Next, Reads, Stores

\* A pinned entry is never older than one that is not, so stopping an eviction
\* pass at the first pin passes over no older entry.
THEOREM PinnedAreNewest == Spec => []PinnedNewest
<1>1. Init => RecencyInv
  BY CacheAssumption DEF Init, RecencyInv, RecentDisk, Recent, TypeOK, Cache, Down, NoIndex,
                         NoStamps, Idle, Second
<1>2. RecencyInv /\ [Next]_vars => RecencyInv'
  BY RecencyStep, TypeStep DEF RecencyInv
<1>3. RecencyInv => PinnedNewest
  BY DEF RecencyInv, RecentDisk, Recent, PinnedNewest
<1> QED BY <1>1, <1>2, <1>3, PTL DEF Spec

----------------------------------------------------------------------------
(* The budget.                                                             *)

LEMMA TotalFacts ==
  ASSUME NEW S \in SUBSET Hashes, IsFiniteSet(S)
  PROVE  /\ Total(S) \in Nat
         /\ Total({}) = 0
         /\ \A T \in SUBSET S : /\ Total(T) \in Nat /\ Total(S \ T) \in Nat
                                /\ Total(S) = Total(T) + Total(S \ T)
         /\ \A h \in Hashes : Total(S \cup {h}) <= Total(S) + Bytes[h]
<1>0. \A T : Total(T) = SumOver(Bytes, T)
  BY DEF Total, SumOver
<1>1. Bytes \in [Hashes -> Nat]
  BY CacheAssumption
<1>2. Total(S) \in Nat /\ Total({}) = 0
  BY <1>0, <1>1, SumNat, SumEmpty
<1>3. ASSUME NEW T \in SUBSET S PROVE Total(T) \in Nat /\ Total(S \ T) \in Nat /\ Total(S) = Total(T) + Total(S \ T)
  <2>1. T \in SUBSET Hashes /\ IsFiniteSet(T) /\ S \ T \in SUBSET Hashes /\ IsFiniteSet(S \ T)
    BY FS_Subset
  <2> QED BY <1>0, <1>1, <2>1, SumNat, SumSplit
<1>4. ASSUME NEW h \in Hashes PROVE Total(S \cup {h}) <= Total(S) + Bytes[h]
  <2>1. CASE h \in S
    <3>1. S \cup {h} = S
      BY <2>1
    <3> QED BY <1>1, <1>2, <3>1
  <2>2. CASE h \notin S
    BY <1>0, <1>1, <1>2, <2>2, SumAdd
  <2> QED BY <2>1, <2>2
<1> QED BY <1>2, <1>3, <1>4

\* What a call has charged for a file not in the index yet.
Due(k) ==
  IF k.op \in {"saveRefused", "saveEvicted", "write", "insert"} THEN Bytes[k.hash] ELSE 0

Fits(S) == Total(S) <= CacheSize \/ Cardinality(S) = 1

\* The members c, the currentSize_ n and the call k of one instance.
Sound(c, n, k) ==
  /\ IsFiniteSet(c.index)
  /\ c.enabled => c.up
  /\ ~c.up => k = Idle
  /\ n \in Nat /\ n >= Total(c.index) + Due(k)
  /\ Fits(c.index)
  /\ k.op \in {"saveEvicted", "write", "insert"} =>
       c.index = {} \/ Total(c.index) + Bytes[k.hash] <= CacheSize

BudgetInv ==
  /\ TypeOK
  /\ IsFiniteSet(disk.index)
  /\ size \in [Instances -> Nat]
  /\ \A i \in Instances : Sound(cache[i], size[i], call[i])

LEMMA SmallerFits ==
  ASSUME NEW S \in SUBSET Hashes, IsFiniteSet(S), Fits(S), NEW T \in SUBSET S
  PROVE  IsFiniteSet(T) /\ Total(T) <= Total(S) /\ Fits(T)
<1>1. IsFiniteSet(T) /\ Cardinality(T) <= Cardinality(S) /\ Cardinality(T) \in Nat
  BY FS_Subset, FS_CardinalityType
<1>2. Total(T) \in Nat /\ Total(S \ T) \in Nat /\ Total(S) = Total(T) + Total(S \ T) /\ Total({}) = 0
  BY TotalFacts
<1>3. Total(T) <= Total(S)
  BY <1>2
<1>4. CASE Total(S) <= CacheSize
  BY <1>1, <1>2, <1>4, CacheAssumption DEF Fits
<1>5. CASE Cardinality(S) = 1
  <2>1. Cardinality(T) = 1 \/ Cardinality(T) = 0
    BY <1>1, <1>5
  <2>2. Cardinality(T) = 0 => T = {}
    BY <1>1, FS_EmptySet
  <2>3. T = {} => Total(T) <= CacheSize
    BY <1>2, CacheAssumption
  <2> QED BY <1>1, <1>3, <2>1, <2>2, <2>3 DEF Fits
<1> QED BY <1>1, <1>3, <1>4, <1>5 DEF Fits

\* A step makes a sound instance of one instance and leaves the others alone.
LEMMA SoundStep ==
  ASSUME BudgetInv, TypeOK', NEW i \in Instances, NEW c \in Cache, NEW n \in Nat, NEW k,
         cache' = [cache EXCEPT ![i] = c], size' = [size EXCEPT ![i] = n],
         call' = [call EXCEPT ![i] = k],
         Sound(c, n, k), IsFiniteSet(disk'.index)
  PROVE  BudgetInv'
<1>1. cache \in [Instances -> Cache] /\ size \in [Instances -> Nat] /\ DOMAIN call = Instances
  BY DEF BudgetInv, TypeOK
<1>2. size' \in [Instances -> Nat]
  BY <1>1
<1>3. ASSUME NEW j \in Instances PROVE Sound(cache[j], size[j], call[j])'
  <2>1. CASE j = i
    <3>1. cache'[j] = c /\ size'[j] = n /\ call'[j] = k
      BY <1>1, <2>1
    <3> QED BY <3>1 DEF Sound, Due, Fits
  <2>2. CASE j # i
    <3>1. cache'[j] = cache[j] /\ size'[j] = size[j] /\ call'[j] = call[j]
      BY <1>1, <2>2
    <3>2. Sound(cache[j], size[j], call[j])
      BY DEF BudgetInv
    <3> QED BY <3>1, <3>2 DEF Sound, Due, Fits
  <2> QED BY <2>1, <2>2
<1> QED BY <1>2, <1>3 DEF BudgetInv

LEMMA KeepFields ==
  ASSUME NEW c \in Cache, NEW S \in SUBSET Hashes
  PROVE  /\ Keep(c, S) \in Cache /\ Keep(c, S).index = S
         /\ Keep(c, S).up = c.up /\ Keep(c, S).enabled = c.enabled
<1>1. Keep(c, S) \in Cache
  BY KeepType
<1> QED BY <1>1 DEF Keep, Cache

\* An entry used, or made.
LEMMA NowFields ==
  ASSUME NEW c \in Cache, NEW h \in Hashes, clock \in Second
  PROVE  /\ Touched(c, h) \in Cache /\ Touched(c, h).index = c.index
         /\ Touched(c, h).up = c.up /\ Touched(c, h).enabled = c.enabled
         /\ Entered(c, h) \in Cache /\ Entered(c, h).index = c.index \cup {h}
         /\ Entered(c, h).up = c.up /\ Entered(c, h).enabled = c.enabled
<1>1. Touched(c, h) \in Cache /\ Entered(c, h) \in Cache
  BY DEF Touched, Entered, Cache
<1> QED BY <1>1 DEF Touched, Entered, Cache

LEMMA IdleDue == Idle.op = "idle" /\ Due(Idle) = 0
BY DEF Idle, Due

\* Erasing entries takes at most what they were charged.
LEMMA ErasedTotal ==
  ASSUME NEW c \in Cache, IsFiniteSet(c.index), NEW n \in Nat, NEW d \in Nat,
         n >= Total(c.index) + d, NEW E \in SUBSET c.index
  PROVE  /\ Keep(c, c.index \ E) \in Cache
         /\ Keep(c, c.index \ E).index = c.index \ E
         /\ Keep(c, c.index \ E).up = c.up /\ Keep(c, c.index \ E).enabled = c.enabled
         /\ n - Total(E) \in Nat /\ n - Total(E) >= Total(c.index \ E) + d
<1>1. c.index \in SUBSET Hashes
  BY DEF Cache
<1>2. /\ Total(E) \in Nat /\ Total(c.index \ E) \in Nat
      /\ Total(c.index) = Total(E) + Total(c.index \ E)
  BY <1>1, TotalFacts
<1>3. n - Total(E) \in Nat /\ n - Total(E) >= Total(c.index \ E) + d
  BY <1>2
<1> QED BY <1>1, <1>3, KeepFields, c.index \ E \in SUBSET Hashes

\* A cache with no entries, in no call.
LEMMA EmptySound ==
  ASSUME NEW c \in Cache, c.enabled => c.up, c.index = {}
  PROVE  \A n \in Nat : Sound(c, n, Idle)
<1>1. IsFiniteSet({}) /\ Total({}) = 0
  BY FS_EmptySet, TotalFacts
<1> QED BY <1>1, CacheAssumption, IdleDue DEF Sound, Fits

LEMMA WipedSound ==
  ASSUME NEW c \in Cache, c.enabled => c.up
  PROVE  /\ Keep(c, {}) \in Cache
         /\ Sound(Keep(c, {}), 0, Idle)
<1>1. Keep(c, {}) \in Cache /\ Keep(c, {}).index = {} /\ Keep(c, {}).enabled = c.enabled /\ Keep(c, {}).up = c.up
  BY KeepFields
<1> QED BY <1>1, EmptySound, IdleDue

LEMMA BudgetStep ==
  ASSUME BudgetInv, [Next]_vars
  PROVE  BudgetInv'
<1>0. /\ TypeOK /\ cache \in [Instances -> Cache] /\ size \in [Instances -> Nat]
      /\ IsFiniteSet(disk.index) /\ disk.index \in SUBSET Hashes
      /\ call = [j \in Instances |-> call[j]] /\ clock \in Second
  BY DEF BudgetInv, TypeOK
<1>T. TypeOK'
  BY <1>0, TypeStep
<1>C. ASSUME NEW i \in Instances
      PROVE  /\ cache[i] \in Cache /\ cache[i].index \in SUBSET Hashes /\ size[i] \in Nat
             /\ Sound(cache[i], size[i], call[i]) /\ IsFiniteSet(cache[i].index)
             /\ cache[i].enabled => cache[i].up
             /\ ~cache[i].up => call[i] = Idle
  BY <1>0 DEF BudgetInv, Sound, Cache
<1>U. ASSUME NEW i \in Instances
      PROVE  /\ UNCHANGED cache => cache' = [cache EXCEPT ![i] = cache[i]]
             /\ UNCHANGED size => size' = [size EXCEPT ![i] = size[i]]
             /\ UNCHANGED call => call' = [call EXCEPT ![i] = call[i]]
  BY <1>0
<1>D. /\ Down \in Cache /\ Fresh \in Cache /\ [Down EXCEPT !.up = TRUE] \in Cache
      /\ Down.index = {} /\ Fresh.index = {} /\ [Down EXCEPT !.up = TRUE].index = {}
      /\ ~Down.enabled /\ Fresh.enabled /\ Fresh.up /\ ~[Down EXCEPT !.up = TRUE].enabled
  BY ConstantTypes DEF Down, Fresh
<1>L. /\ Loaded \in Cache /\ Loaded.index = disk.index /\ Loaded.enabled /\ Loaded.up
      /\ Loaded.pinned = {}
  BY <1>0, <1>D DEF Loaded, Fresh, Down, Cache, TypeOK
<1>F. IsFiniteSet({}) /\ Total({}) = 0
  BY FS_EmptySet, TotalFacts
<1>S. ASSUME NEW i \in Instances, NEW c \in Cache, NEW n \in Nat, NEW k, Sound(c, n, k),
             cache' = [cache EXCEPT ![i] = c], size' = [size EXCEPT ![i] = n],
             call' = [call EXCEPT ![i] = k], disk' \in {disk, NoIndex, CorruptIndex, Saved(c)}
      PROVE  BudgetInv'
  <2>1. IsFiniteSet(c.index)
    BY <1>S DEF Sound
  <2>2. NoIndex.index = {} /\ CorruptIndex.index = {} /\ Saved(c).index = c.index
    BY DEF NoIndex, CorruptIndex, Saved
  <2>3. disk'.index \in {disk.index, {}, c.index}
    BY <1>S, <2>2
  <2>4. IsFiniteSet(disk'.index)
    BY <1>0, <1>F, <2>1, <2>3
  <2> QED BY <1>S, <1>T, <2>4, SoundStep
<1>X. ASSUME NEW i \in Instances, NEW c \in Cache, c.enabled => c.up, Clean(i, c),
             call' = [call EXCEPT ![i] = Idle]
      PROVE  BudgetInv'
  <2>1. Keep(c, {}) \in Cache /\ Sound(Keep(c, {}), 0, Idle)
    BY <1>X, WipedSound
  <2>2. /\ cache' = [cache EXCEPT ![i] = Keep(c, {})] /\ size' = [size EXCEPT ![i] = 0]
        /\ disk' \in {disk, NoIndex}
    BY <1>X DEF Clean, CleanDisk
  <2> QED BY <1>X, <1>S, <2>1, <2>2
<1>1. ASSUME NEW i \in Instances, StartDisabled(i) PROVE BudgetInv'
  <2>1. call[i] = Idle /\ size[i] \in Nat
    BY <1>1, <1>C DEF StartDisabled
  <2>2. Sound([Down EXCEPT !.up = TRUE], size[i], Idle)
    BY <1>D, <2>1, EmptySound
  <2> QED BY <1>1, <1>D, <1>S, <1>U, <2>1, <2>2 DEF StartDisabled
<1>2. ASSUME NEW i \in Instances, StartEmpty(i) PROVE BudgetInv'
  <2>1. call[i] = Idle /\ size[i] \in Nat
    BY <1>2, <1>C DEF StartEmpty
  <2>2. Sound(Fresh, size[i], Idle)
    BY <1>D, <2>1, EmptySound
  <2> QED BY <1>2, <1>D, <1>S, <1>U, <2>1, <2>2 DEF StartEmpty
<1>3. ASSUME NEW i \in Instances, StartCorrupt(i) PROVE BudgetInv'
  BY <1>3, <1>C, <1>D, <1>U, <1>X DEF StartCorrupt
<1>4. ASSUME NEW i \in Instances, StartLoaded(i) PROVE BudgetInv'
  <2>1. LoadedSize \in Nat /\ LoadedSize = Total(Loaded.index) /\ LoadedSize <= CacheSize
    BY <1>0, <1>4, <1>L, TotalFacts DEF LoadedSize, StartLoaded
  <2>2. Sound(Loaded, LoadedSize, Idle)
    BY <1>0, <1>L, <2>1 DEF Sound, Idle, Due, Fits
  <2>3. call[i] = Idle /\ UNCHANGED <<disk, call>>
    BY <1>4, <1>C DEF StartLoaded
  <2>4. cache' = [cache EXCEPT ![i] = Loaded] /\ size' = [size EXCEPT ![i] = LoadedSize]
    BY <1>4 DEF StartLoaded
  <2> QED BY <1>L, <1>S, <1>U, <2>1, <2>2, <2>3, <2>4
<1>5. ASSUME NEW i \in Instances, StartOverBudget(i) PROVE BudgetInv'
  <2>1. CASE Clean(i, Fresh) /\ UNCHANGED call
    BY <1>5, <1>C, <1>D, <1>U, <1>X, <2>1 DEF StartOverBudget
  <2>2. ASSUME NEW E \in Victims(Loaded, LoadedSize), Evict(i, Loaded, LoadedSize, E),
               call' = [call EXCEPT ![i] = [op |-> "saveLoaded", hash |-> NoHash]], UNCHANGED disk
        PROVE  BudgetInv'
    <3> DEFINE c == Keep(Loaded, Loaded.index \ E)
    <3> DEFINE n == LoadedSize - Total(E)
    <3>1. E \in SUBSET Loaded.index
      BY <2>2 DEF Victims
    <3>2. LoadedSize \in Nat /\ LoadedSize >= Total(Loaded.index) + 0
      BY <1>0, <1>L, TotalFacts DEF LoadedSize
    <3>3. /\ c \in Cache /\ c.index = Loaded.index \ E /\ c.up /\ c.enabled
          /\ n \in Nat /\ n >= Total(c.index) + 0
      <4>1. IsFiniteSet(Loaded.index) /\ 0 \in Nat /\ Loaded \in Cache
        BY <1>0, <1>L
      <4>2. c \in Cache /\ c.index = Loaded.index \ E /\ c.up = Loaded.up /\ c.enabled = Loaded.enabled
            /\ n \in Nat /\ n >= Total(Loaded.index \ E) + 0
        BY <3>1, <3>2, <4>1, ErasedTotal
      <4> HIDE DEF c, n
      <4> QED BY <1>L, <4>2
    <3>4. n <= CacheSize \/ c.index = {}
      BY <1>L, <2>2, <3>3 DEF Victims, StopsAtPin
    <3>5. IsFiniteSet(c.index) /\ Total(c.index) \in Nat
      BY <1>0, <1>L, <3>3, FS_Subset, TotalFacts
    <3> HIDE DEF c, n
    <3>6. Total(c.index) <= CacheSize
      BY <1>F, <3>3, <3>4, <3>5, CacheAssumption
    <3>7. Sound(c, n, [op |-> "saveLoaded", hash |-> NoHash])
      BY <3>3, <3>5, <3>6 DEF Sound, Due, Fits
    <3> QED BY <1>S, <2>2, <3>3, <3>7 DEF Evict, c, n
  <2> QED BY <1>5, <2>1, <2>2 DEF StartOverBudget
<1>6. ASSUME NEW i \in Instances, Stop(i) PROVE BudgetInv'
  <2>1. Sound(Down, 0, Idle)
    BY <1>D, EmptySound
  <2> QED BY <1>6, <1>D, <1>S, <1>U, <2>1 DEF Stop
<1>7. ASSUME NEW i \in Instances, NEW h \in Hashes, LookupOutdated(i, h) PROVE BudgetInv'
  <2> DEFINE S == cache[i].index \ {h}
  <2> DEFINE c == Keep(cache[i], S)
  <2>1. c \in Cache /\ c.index = S /\ c.up = cache[i].up /\ c.enabled = cache[i].enabled
    BY <1>C, KeepFields, S \in SUBSET Hashes
  <2>2. IsFiniteSet(S) /\ Total(S) <= Total(cache[i].index) /\ Fits(S) /\ Total(S) \in Nat
        /\ Total(cache[i].index) \in Nat
    BY <1>C, SmallerFits, TotalFacts DEF Sound
  <2>3. call[i] = Idle /\ Due(Idle) = 0 /\ Idle.op = "idle"
    BY <1>7 DEF LookupOutdated, Due, Idle
  <2>4. size[i] >= Total(cache[i].index) + 0
    BY <1>C, <2>3 DEF Sound
  <2> HIDE DEF S, c
  <2>5. Sound(c, size[i], call[i])
    BY <1>C, <2>1, <2>2, <2>3, <2>4 DEF Sound
  <2>6. UNCHANGED <<disk, size, call>> /\ cache' = [cache EXCEPT ![i] = c] /\ size[i] \in Nat
    BY <1>0, <1>7 DEF LookupOutdated, c, S
  <2>7. size' = [size EXCEPT ![i] = size[i]] /\ call' = [call EXCEPT ![i] = call[i]]
    BY <1>U, <2>6
  <2> QED BY <1>S, <2>1, <2>5, <2>6, <2>7
<1>8. ASSUME NEW i \in Instances, NEW h \in Hashes, LookupFresh(i, h) PROVE BudgetInv'
  <2> DEFINE c == Touched(cache[i], h)
  <2>1. c \in Cache /\ c.index = cache[i].index /\ c.up = cache[i].up /\ c.enabled = cache[i].enabled
    BY <1>0, <1>C, NowFields
  <2>2. call[i] = Idle /\ cache[i].enabled
    BY <1>8 DEF LookupFresh
  <2>3. Sound(c, size[i], [op |-> "read", hash |-> h])
    BY <1>C, <2>1, <2>2 DEF Sound, Due, Idle
  <2> QED BY <1>8, <1>C, <1>S, <1>U, <2>1, <2>3 DEF LookupFresh
<1>9. ASSUME NEW i \in Instances, ReadHit(i) PROVE BudgetInv'
  <2>1. Sound(cache[i], size[i], Idle)
    BY <1>9, <1>C DEF ReadHit, Sound, Due, Idle
  <2> QED BY <1>9, <1>C, <1>S, <1>U, <2>1 DEF ReadHit
<1>10. ASSUME NEW i \in Instances, ReadFailed(i) PROVE BudgetInv'
  BY <1>10, <1>C, <1>X DEF ReadFailed
<1>11. ASSUME NEW i \in Instances, NEW h \in Hashes, Charge(i, h) PROVE BudgetInv'
  <2> DEFINE charged == size[i] + Bytes[h]
  <2>0. Bytes[h] \in Nat /\ charged \in Nat /\ Total(cache[i].index) \in Nat
    BY <1>C, CacheAssumption, TotalFacts
  <2>1. /\ call[i] = Idle /\ cache[i].enabled /\ cache[i].up
        /\ size[i] >= Total(cache[i].index)
        /\ charged >= Total(cache[i].index) + Bytes[h]
    BY <1>11, <1>C, <2>0 DEF Charge, Sound, Due, Idle
  <2>2. CASE charged <= CacheSize
    <3>1. Sound(cache[i], charged, [op |-> "write", hash |-> h])
      <4>1. Total(cache[i].index) + Bytes[h] <= CacheSize
        BY <2>0, <2>1, <2>2, CacheAssumption
      <4> HIDE DEF charged
      <4> QED BY <1>C, <2>0, <2>1, <4>1 DEF Sound, Due
    <3> QED BY <1>11, <1>C, <1>S, <1>U, <2>0, <2>2, <3>1 DEF Charge
  <2>3. ASSUME NEW E \in Victims(cache[i], charged), Evict(i, cache[i], charged, E),
               call' = [call EXCEPT ![i] = [op |-> AfterEviction(cache[i], charged, E), hash |-> h]],
               UNCHANGED disk
        PROVE  BudgetInv'
    <3> DEFINE c == Keep(cache[i], cache[i].index \ E)
    <3> DEFINE n == charged - Total(E)
    <3>1. E \in SUBSET cache[i].index
      BY <2>3 DEF Victims
    <3> HIDE DEF charged
    <3>2. /\ c \in Cache /\ c.index = cache[i].index \ E /\ c.up /\ c.enabled
          /\ n \in Nat /\ n >= Total(c.index) + Bytes[h]
      <4>1. cache[i] \in Cache /\ IsFiniteSet(cache[i].index)
        BY <1>C
      <4> QED BY <2>0, <2>1, <3>1, <4>1, ErasedTotal
    <3>3. n <= CacheSize \/ c.index = {} \/ StopsAtPin(cache[i], charged, E)
      BY <2>3, <3>2 DEF Victims, charged
    <3>4. IsFiniteSet(c.index) /\ Total(c.index) \in Nat /\ Fits(c.index)
      BY <1>C, <3>2, SmallerFits, TotalFacts DEF Sound
    <3> DEFINE k == [op |-> AfterEviction(cache[i], charged, E), hash |-> h]
    <3>0. call' = [call EXCEPT ![i] = k]
      BY <2>3 DEF charged
    <3>8. cache' = [cache EXCEPT ![i] = c] /\ size' = [size EXCEPT ![i] = n]
      BY <2>3 DEF Evict, charged
    <3>5. /\ k.hash = h /\ k.op \in {"saveRefused", "saveEvicted"}
          /\ k.op = "saveEvicted" => ~StopsAtPin(cache[i], charged, E)
      BY DEF AfterEviction
    <3> HIDE DEF c, n, k
    <3>6. k.op = "saveEvicted" => c.index = {} \/ Total(c.index) + Bytes[h] <= CacheSize
      BY <2>0, <3>2, <3>3, <3>4, <3>5, CacheAssumption
    <3>7. Sound(c, n, k)
      BY <3>2, <3>4, <3>5, <3>6 DEF Sound, Due
    <3> QED BY <1>S, <2>3, <3>0, <3>2, <3>7, <3>8
  <2> QED BY <1>11, <2>2, <2>3 DEF Charge
<1>12. ASSUME NEW i \in Instances, NEW h \in Hashes, ChargeThrows(i, h) PROVE BudgetInv'
  <2> DEFINE charged == size[i] + Bytes[h]
  <2>0. Bytes[h] \in Nat /\ charged \in Nat /\ Total(cache[i].index) \in Nat
    BY <1>C, CacheAssumption, TotalFacts
  <2>1. /\ call[i] = Idle /\ cache[i].enabled /\ cache[i].up
        /\ charged >= Total(cache[i].index) + 0
    BY <1>12, <1>C, <2>0 DEF ChargeThrows, Sound, Due, Idle
  <2>2. PICK E \in SUBSET cache[i].index : Evict(i, cache[i], charged, E)
    BY <1>12 DEF ChargeThrows
  <2> DEFINE c == Keep(cache[i], cache[i].index \ E)
  <2> DEFINE n == charged - Total(E)
  <2>6. cache' = [cache EXCEPT ![i] = c] /\ size' = [size EXCEPT ![i] = n]
    BY <2>2 DEF Evict
  <2> HIDE DEF charged
  <2>3. /\ c \in Cache /\ c.index = cache[i].index \ E /\ c.up /\ c.enabled
        /\ n \in Nat /\ n >= Total(c.index) + 0
    <3>1. cache[i] \in Cache /\ IsFiniteSet(cache[i].index) /\ 0 \in Nat
      BY <1>C
    <3> QED BY <2>0, <2>1, <3>1, ErasedTotal
  <2>4. IsFiniteSet(c.index) /\ Fits(c.index)
    BY <1>C, <2>3, SmallerFits DEF Sound
  <2>5. UNCHANGED <<disk, call>>
    BY <1>12 DEF ChargeThrows
  <2> HIDE DEF c, n
  <2>7. Sound(c, n, call[i])
    BY <2>1, <2>3, <2>4 DEF Sound, Due, Idle
  <2> QED BY <1>S, <1>U, <2>3, <2>5, <2>6, <2>7
<1>V. ASSUME NEW i \in Instances, NEW c \in Cache, NEW n \in Nat, NEW k, Sound(c, n, k), c.up,
             Save(i, c), size' = [size EXCEPT ![i] = n], call' = [call EXCEPT ![i] = k]
      PROVE  BudgetInv'
  <2>1. CASE cache' = [cache EXCEPT ![i] = c] /\ disk' \in {disk, Saved(c)}
    BY <1>S, <1>V, <2>1
  <2>2. CASE cache' = [cache EXCEPT ![i] = [c EXCEPT !.enabled = FALSE]] /\ disk' = CorruptIndex
    <3> DEFINE d == [c EXCEPT !.enabled = FALSE]
    <3>1. d \in Cache /\ d.index = c.index /\ d.up = c.up /\ ~d.enabled
      BY DEF Cache
    <3>2. Sound(d, n, k)
      BY <1>V, <3>1 DEF Sound
    <3> HIDE DEF d
    <3>3. cache' = [cache EXCEPT ![i] = d]
      BY <2>2 DEF d
    <3> QED BY <1>S, <1>V, <2>2, <3>1, <3>2, <3>3
  <2> QED BY <1>V, <2>1, <2>2 DEF Save
<1>13. ASSUME NEW i \in Instances, SaveEvicted(i) PROVE BudgetInv'
  <2> DEFINE h == call[i].hash
  <2>1. /\ call[i].op \in {"saveLoaded", "saveRefused", "saveEvicted"}
        /\ Save(i, cache[i]) /\ cache[i].up
        /\ call[i].op # "saveLoaded" => h \in Hashes
    BY <1>0, <1>13, <1>C DEF SaveEvicted, Idle, TypeOK
  <2>2. Total(cache[i].index) \in Nat /\ (h \in Hashes => Bytes[h] \in Nat)
    BY <1>C, CacheAssumption, TotalFacts
  <2>3. CASE call[i].op = "saveRefused"
    <3>1. size[i] - Bytes[h] \in Nat /\ size[i] - Bytes[h] >= Total(cache[i].index)
      BY <1>C, <2>1, <2>2, <2>3 DEF Sound, Due
    <3>2. Sound(cache[i], size[i] - Bytes[h], Idle)
      <4> DEFINE n == size[i] - Bytes[h]
      <4>1. n \in Nat /\ n >= Total(cache[i].index) + 0
        BY <2>2, <3>1
      <4> HIDE DEF n
      <4>2. Sound(cache[i], n, Idle)
        BY <1>C, <2>1, <4>1, IdleDue DEF Sound
      <4> QED BY <4>2 DEF n
    <3>3. size' = [size EXCEPT ![i] = size[i] - Bytes[h]] /\ call' = [call EXCEPT ![i] = Idle]
      BY <1>0, <1>13, <2>3 DEF SaveEvicted
    <3> QED BY <1>C, <1>V, <2>1, <3>1, <3>2, <3>3
  <2>4. CASE call[i].op = "saveEvicted"
    <3>1. Sound(cache[i], size[i], [op |-> "write", hash |-> h])
      BY <1>C, <2>1, <2>4 DEF Sound, Due
    <3>2. UNCHANGED size /\ call' = [call EXCEPT ![i] = [op |-> "write", hash |-> h]]
      BY <1>13, <2>4 DEF SaveEvicted
    <3> QED BY <1>C, <1>U, <1>V, <2>1, <3>1, <3>2
  <2>5. CASE call[i].op = "saveLoaded"
    <3>1. Sound(cache[i], size[i], Idle)
      BY <1>C, <2>1, <2>5 DEF Sound, Due, Idle
    <3>2. UNCHANGED size /\ call' = [call EXCEPT ![i] = Idle]
      BY <1>13, <2>5 DEF SaveEvicted
    <3> QED BY <1>C, <1>U, <1>V, <2>1, <3>1, <3>2
  <2> QED BY <2>1, <2>3, <2>4, <2>5
<1>14. ASSUME NEW i \in Instances, WriteFile(i) PROVE BudgetInv'
  <2> DEFINE k == [call[i] EXCEPT !.op = "insert"]
  <2>1. call[i].op = "write" /\ k.op = "insert" /\ k.hash = call[i].hash
    BY <1>0, <1>14 DEF WriteFile, TypeOK
  <2>2. Sound(cache[i], size[i], k)
    BY <1>C, <2>1 DEF Sound, Due, Idle
  <2>3. call' = [call EXCEPT ![i] = k] /\ UNCHANGED <<disk, cache, size>>
    BY <1>0, <1>14 DEF WriteFile
  <2> HIDE DEF k
  <2> QED BY <1>C, <1>S, <1>U, <2>2, <2>3
<1>15. ASSUME NEW i \in Instances, Insert(i) PROVE BudgetInv'
  <2> DEFINE h == call[i].hash
  <2> DEFINE c == Entered(cache[i], h)
  <2>1. call[i].op = "insert" /\ h \in Hashes /\ cache[i].up /\ Bytes[h] \in Nat
    BY <1>0, <1>15, <1>C, CacheAssumption DEF Insert, Idle, TypeOK
  <2>2. /\ c \in Cache /\ c.index = cache[i].index \cup {h} /\ c.up /\ c.enabled = cache[i].enabled
    BY <1>0, <1>C, <2>1, NowFields
  <2>3. /\ IsFiniteSet(c.index) /\ Total(cache[i].index) \in Nat /\ Total(c.index) \in Nat
        /\ Total(c.index) <= Total(cache[i].index) + Bytes[h]
    <3>1. IsFiniteSet(c.index) /\ c.index \in SUBSET Hashes
      BY <1>C, <2>1, <2>2, FS_AddElement
    <3>2. Total(c.index) \in Nat /\ Total(cache[i].index) \in Nat
      BY <1>C, <3>1, TotalFacts
    <3> QED BY <1>C, <2>1, <2>2, <3>1, <3>2, TotalFacts
  <2>4. size[i] >= Total(c.index)
    BY <1>C, <2>1, <2>3 DEF Sound, Due
  <2>5. Fits(c.index)
    <3>1. CASE cache[i].index = {}
      <4>1. c.index = {h}
        BY <2>2, <3>1
      <4>2. Cardinality({h}) = 1
        BY FS_Singleton
      <4> QED BY <4>1, <4>2 DEF Fits
    <3>2. CASE Total(cache[i].index) + Bytes[h] <= CacheSize
      BY <2>1, <2>3, <3>2, CacheAssumption DEF Fits
    <3> QED BY <1>C, <2>1, <3>1, <3>2 DEF Sound
  <2>6. Save(i, c) /\ UNCHANGED size /\ call' = [call EXCEPT ![i] = Idle]
    BY <1>15 DEF Insert
  <2> HIDE DEF c
  <2>7. Sound(c, size[i], Idle)
    BY <1>C, <2>2, <2>3, <2>4, <2>5 DEF Sound, Due, Idle
  <2> QED BY <1>C, <1>U, <1>V, <2>2, <2>6, <2>7
<1>16. ASSUME UNCHANGED <<disk, cache, size, call>> PROVE BudgetInv'
  BY <1>T, <1>16 DEF BudgetInv, Sound, Due, Fits
<1>17. ASSUME NEW i \in Instances, Crash(i) PROVE BudgetInv'
  <2>1. Sound(Down, 0, Idle) /\ disk' \in {disk, CorruptIndex}
    BY <1>17, <1>D, EmptySound DEF Crash
  <2> QED BY <1>17, <1>D, <1>S, <2>1 DEF Crash
<1>18. ASSUME Tick \/ UNCHANGED vars \/ \E h \in Hashes : SourceChanges(h) PROVE BudgetInv'
  BY <1>16, <1>18 DEF Tick, vars, SourceChanges
<1> QED BY <1>1, <1>2, <1>3, <1>4, <1>5, <1>6, <1>7, <1>8, <1>9, <1>10, <1>11, <1>12,
           <1>13, <1>14, <1>15, <1>17, <1>18 DEF Next, Reads, Stores

LEMMA BudgetAlways == Spec => []BudgetInv
<1>1. Init => BudgetInv
  <2> SUFFICES ASSUME Init PROVE BudgetInv
    OBVIOUS
  <2>1. TypeOK
    BY CacheAssumption DEF Init, TypeOK, Cache, Down, NoIndex, NoStamps, Idle, Second
  <2>2. IsFiniteSet(disk.index) /\ size \in [Instances -> Nat]
    BY FS_EmptySet DEF Init, NoIndex
  <2>3. ASSUME NEW i \in Instances PROVE Sound(cache[i], size[i], call[i])
    <3>1. Sound(Down, 0, Idle)
      BY ConstantTypes, EmptySound, ~Down.enabled DEF Down
    <3> QED BY <3>1 DEF Init
  <2> QED BY <2>1, <2>2, <2>3 DEF BudgetInv
<1>2. BudgetInv /\ [Next]_vars => BudgetInv'
  BY BudgetStep
<1> QED BY <1>1, <1>2, PTL DEF Spec

\* currentSize_ covers the entries and what a call is storing, whatever fails,
\* crashes or is wiped between: the subtractions from it never wrap.
THEOREM SizeNeverFallsShort == Spec => []ChargeCoversIndex
<1>1. BudgetInv => ChargeCoversIndex
  BY DEF BudgetInv, Sound, ChargeCoversIndex, Due, Pending
<1> QED BY <1>1, BudgetAlways, PTL

\* The entries of an index fit the budget, or are one file bigger than it, which
\* cacheFile admits into an index it has emptied.
WithinBudgetOrAlone ==
  \A i \in Instances :
    Total(cache[i].index) <= CacheSize \/ Cardinality(cache[i].index) = 1

\* No index, in memory or when it is loaded, exceeds the budget by more than
\* the one oversized file it consists of.
THEOREM BudgetIsKept == Spec => []WithinBudgetOrAlone
<1>1. BudgetInv => WithinBudgetOrAlone
  BY DEF BudgetInv, Sound, WithinBudgetOrAlone, Fits
<1> QED BY <1>1, BudgetAlways, PTL

----------------------------------------------------------------------------
(* One instance at a time.                                                 *)

\* One instance, and no index file that fails to open unnoticed.
Alone ==
  /\ \A i, j \in Instances : i = j
  /\ "open" \notin FaultKinds

\* The index file lists every entry of a working cache, in the middle of a call
\* too.
Registered ==
  \A i \in Instances : cache[i].enabled => cache[i].index \subseteq disk.index

\* Whatever fails or crashes, that stays so.
LEMMA DurableStep ==
  ASSUME Alone, TypeOK, Registered, [Next]_vars
  PROVE  Registered'
<1>0. cache \in [Instances -> Cache]
  BY DEF TypeOK
<1> SUFFICES ASSUME NEW i \in Instances, cache'[i].enabled PROVE cache'[i].index \subseteq disk'.index
  BY DEF Registered
<1>1. cache[i].enabled => cache[i].index \subseteq disk.index
  BY DEF Registered
<1>Q. ASSUME UNCHANGED <<cache, disk>> PROVE cache'[i].index \subseteq disk'.index
  BY <1>1, <1>Q
<1>E. ASSUME cache'[i].index = {} PROVE cache'[i].index \subseteq disk'.index
  BY <1>E
<1>D. Down \in Cache /\ Fresh \in Cache /\ Down.index = {} /\ Fresh.index = {}
  BY ConstantTypes
<1>K. ASSUME NEW c \in Cache, NEW S PROVE Keep(c, S).index = S /\ Keep(c, S).enabled = c.enabled
  BY DEF Keep, Cache
<1>2. ASSUME Reads(i) PROVE cache'[i].index \subseteq disk'.index
  <2>1. ASSUME Clean(i, Fresh) \/ Clean(i, cache[i]) PROVE cache'[i].index \subseteq disk'.index
    BY <1>0, <1>D, <1>E, <1>K, <2>1 DEF Clean
  <2>2. ASSUME NEW E, Evict(i, Loaded, LoadedSize, E), UNCHANGED disk PROVE cache'[i].index \subseteq disk'.index
    <3>1. Loaded \in Cache /\ Loaded.index = disk.index
      BY <1>D DEF Loaded, Cache, TypeOK
    <3> QED BY <1>0, <1>K, <2>2, <3>1 DEF Evict
  <2>3. CASE StartOverBudget(i) \/ StartCorrupt(i) \/ ReadFailed(i)
    BY <2>1, <2>2, <2>3 DEF StartOverBudget, StartCorrupt, ReadFailed
  <2>4. CASE StartDisabled(i) \/ StartEmpty(i) \/ StartLoaded(i) \/ Stop(i)
    <3>1. CASE StartLoaded(i)
      BY <1>0, <1>D, <3>1 DEF StartLoaded, Loaded, Cache
    <3>2. [Down EXCEPT !.up = TRUE].index = {}
      BY DEF Down
    <3> QED BY <1>0, <1>D, <1>E, <2>4, <3>1, <3>2 DEF StartDisabled, StartEmpty, Stop
  <2>5. ASSUME NEW h \in Hashes, LookupOutdated(i, h) \/ LookupFresh(i, h) PROVE cache'[i].index \subseteq disk'.index
    <3>1. cache[i].index \subseteq disk.index /\ disk' = disk
      BY <1>1, <2>5 DEF LookupOutdated, LookupFresh
    <3>2. CASE LookupOutdated(i, h)
      BY <1>0, <1>K, <3>1, <3>2 DEF LookupOutdated
    <3>3. CASE LookupFresh(i, h)
      <4>1. Touched(cache[i], h).index = cache[i].index
        BY <1>0 DEF Touched, Cache
      <4> QED BY <1>0, <3>1, <3>3, <4>1 DEF LookupFresh
    <3> QED BY <2>5, <3>2, <3>3
  <2>6. CASE ReadHit(i)
    BY <1>Q, <2>6 DEF ReadHit
  <2> QED BY <1>2, <2>3, <2>4, <2>5, <2>6 DEF Reads
<1>3. ASSUME Stores(i) PROVE cache'[i].index \subseteq disk'.index
  <2>1. ASSUME NEW h \in Hashes, Charge(i, h) \/ ChargeThrows(i, h) PROVE cache'[i].index \subseteq disk'.index
    <3>1. UNCHANGED cache \/ \E n, E : Evict(i, cache[i], n, E)
      BY <2>1 DEF Charge, ChargeThrows
    <3>2. UNCHANGED disk /\ cache[i].enabled
      BY <2>1 DEF Charge, ChargeThrows
    <3>3. ASSUME NEW E, cache' = [cache EXCEPT ![i] = Keep(cache[i], cache[i].index \ E)]
          PROVE cache'[i].index \subseteq disk'.index
      BY <1>0, <1>1, <1>K, <3>2, <3>3
    <3> QED BY <1>1, <3>1, <3>2, <3>3 DEF Evict
  <2>2. CASE WriteFile(i)
    BY <1>Q, <2>2 DEF WriteFile
  <2>3. CASE Insert(i)
    <3>1. call[i].hash \in Hashes
      BY <2>3 DEF Insert, TypeOK
    <3> DEFINE c == Entered(cache[i], call[i].hash)
    <3>2. c \in Cache /\ c.index # {}
      <4>1. cache[i] \in Cache /\ clock \in Second
        BY <1>0 DEF TypeOK
      <4> QED BY <4>1, <3>1 DEF Entered, Cache
    <3>3. CASE disk' = Saved(c) /\ cache' = [cache EXCEPT ![i] = c]
      BY <1>0, <3>3 DEF Saved
    <3>4. CASE cache' = [cache EXCEPT ![i] = [c EXCEPT !.enabled = FALSE]]
      BY <1>0, <3>2, <3>4 DEF Cache
    <3>5. CASE ~c.enabled /\ cache' = [cache EXCEPT ![i] = c]
      BY <1>0, <3>5
    <3> QED BY <2>3, <3>2, <3>3, <3>4, <3>5 DEF Insert, Save, Fails, Alone
  <2> QED BY <1>3, <2>1, <2>2, <2>3 DEF Stores
<1>4. ASSUME SaveEvicted(i) PROVE cache'[i].index \subseteq disk'.index
  BY <1>0, <1>1, <1>4 DEF SaveEvicted, Save, Saved, Fails, Alone, Cache
<1>5. ASSUME Crash(i) PROVE cache'[i].index \subseteq disk'.index
  BY <1>0, <1>5 DEF Crash, Down
<1>6. ASSUME UNCHANGED vars \/ Tick \/ \E h \in Hashes : SourceChanges(h)
      PROVE cache'[i].index \subseteq disk'.index
  BY <1>6, <1>Q DEF vars, Tick, SourceChanges
<1> QED BY <1>2, <1>3, <1>4, <1>5, <1>6 DEF Next, Alone

\* A step in which an instance goes down is its Stop or its Crash.
LEMMA GoesDown ==
  ASSUME BudgetInv, [Next]_vars, NEW i \in Instances, cache[i].up, ~cache'[i].up
  PROVE  Stop(i) \/ Crash(i)
<1>0. /\ cache \in [Instances -> Cache] /\ cache[i] \in Cache /\ clock \in Second
      /\ cache[i].index \in SUBSET Hashes
  BY DEF BudgetInv, TypeOK, Cache
<1> SUFFICES ASSUME ~Stop(i), ~Crash(i) PROVE FALSE
  OBVIOUS
<1>Q. ASSUME UNCHANGED cache PROVE FALSE
  BY <1>Q
<1>C. ASSUME NEW c, cache' = [cache EXCEPT ![i] = c], c.up PROVE FALSE
  BY <1>0, <1>C
<1>K. ASSUME NEW S \in SUBSET Hashes PROVE Keep(cache[i], S).up
  BY <1>0, KeepFields
<1>V. ASSUME NEW c \in Cache, Save(i, c), c.up PROVE FALSE
  <2>1. [c EXCEPT !.enabled = FALSE].up
    BY <1>V DEF Cache
  <2> QED BY <1>C, <1>V, <2>1 DEF Save
<1>1. ASSUME NEW j \in Instances, Reads(j) \/ Stores(j) \/ SaveEvicted(j) \/ Crash(j), j # i PROVE FALSE
  <2>1. UNCHANGED cache \/ \E c : cache' = [cache EXCEPT ![j] = c]
    BY <1>1 DEF Reads, Stores, StartDisabled, StartEmpty, StartCorrupt, StartLoaded, StartOverBudget,
                Stop, LookupOutdated, LookupFresh, ReadHit, ReadFailed, Charge, ChargeThrows,
                SaveEvicted, WriteFile, Insert, Crash, Evict, Clean, Save
  <2> QED BY <1>0, <1>1, <1>Q, <2>1
<1>2. ASSUME StartDisabled(i) \/ StartEmpty(i) \/ StartCorrupt(i) \/ StartLoaded(i) \/ StartOverBudget(i)
      PROVE FALSE
  BY <1>2 DEF StartDisabled, StartEmpty, StartCorrupt, StartLoaded, StartOverBudget
<1>3. ASSUME NEW h \in Hashes, LookupOutdated(i, h) \/ LookupFresh(i, h) PROVE FALSE
  <2>1. Keep(cache[i], cache[i].index \ {h}).up /\ Touched(cache[i], h).up
    BY <1>0, <1>K, NowFields
  <2> QED BY <1>3, <1>C, <2>1 DEF LookupOutdated, LookupFresh
<1>4. ASSUME ReadHit(i) \/ ReadFailed(i) PROVE FALSE
  BY <1>4, <1>C, <1>K, <1>Q DEF ReadHit, ReadFailed, Clean
<1>5. ASSUME NEW h \in Hashes, Charge(i, h) \/ ChargeThrows(i, h) PROVE FALSE
  <2>1. UNCHANGED cache \/ \E n, E : Evict(i, cache[i], n, E)
    BY <1>5 DEF Charge, ChargeThrows
  <2>2. ASSUME NEW n, NEW E, Evict(i, cache[i], n, E) PROVE FALSE
    BY <1>0, <1>C, <1>K, <2>2, cache[i].index \ E \in SUBSET Hashes DEF Evict
  <2> QED BY <1>Q, <2>1, <2>2
<1>6. ASSUME WriteFile(i) \/ Tick \/ UNCHANGED vars \/ \E h \in Hashes : SourceChanges(h) PROVE FALSE
  BY <1>6, <1>Q DEF WriteFile, Tick, vars, SourceChanges
<1>7. ASSUME SaveEvicted(i) PROVE FALSE
  BY <1>0, <1>7, <1>V DEF SaveEvicted
<1>8. ASSUME Insert(i) PROVE FALSE
  <2>1. call[i].hash \in Hashes
    BY <1>8 DEF Insert, BudgetInv, TypeOK
  <2> QED BY <1>0, <1>8, <1>V, <2>1, NowFields DEF Insert
<1> QED BY <1>1, <1>2, <1>3, <1>4, <1>5, <1>6, <1>7, <1>8 DEF Next, Reads, Stores

\* With one instance at a time and no unnoticed failure, whatever call a stop or
\* a crash comes in, the next run finds every entry listed, or an index file
\* torn while it was rewritten.
THEOREM Durable == ASSUME Alone PROVE Spec => LostOnlyInRewrite
<1>1. Init => Registered
  BY DEF Init, Registered, Down
<1>2. TypeOK /\ Registered /\ [Next]_vars => Registered'
  BY DurableStep
<1> DEFINE Step ==
      \A i \in Instances : (cache[i].up /\ cache[i].enabled /\ ~cache'[i].up) =>
        \/ disk' = disk /\ cache[i].index \subseteq disk.index
        \/ disk'.status = "corrupt" /\ call[i].op \in Rewriting
<1>3. BudgetInv /\ Registered /\ [Next]_vars => [Step]_vars
  <2> SUFFICES ASSUME BudgetInv, Registered, [Next]_vars, NEW i \in Instances,
                      cache[i].up, cache[i].enabled, ~cache'[i].up
               PROVE  \/ disk' = disk /\ cache[i].index \subseteq disk.index
                      \/ disk'.status = "corrupt" /\ call[i].op \in Rewriting
    OBVIOUS
  <2>1. cache[i].index \subseteq disk.index
    BY DEF Registered
  <2>2. disk' = disk \/ (disk' = CorruptIndex /\ call[i].op \in Rewriting)
    BY GoesDown DEF Stop, Crash, Rewriting
  <2> QED BY <2>1, <2>2 DEF CorruptIndex
<1> HIDE DEF Step
<1>4. Spec => [][Step]_vars
  BY <1>1, <1>2, <1>3, BudgetAlways, TypeCorrect, PTL DEF Spec
<1> QED BY <1>4 DEF Step, LostOnlyInRewrite

----------------------------------------------------------------------------
(* Why a file is turned away.                                              *)

\* Where the pass of removeOldFiles has stopped: at a pin none older than which
\* is left.
Blocked(c) == \E p \in c.pinned : \A u \in c.index : c.stamp[p] <= c.stamp[u]

RefusalInv == \A i \in Instances : call[i].op = "saveRefused" => Blocked(cache[i])

LEMMA StopBlocks ==
  ASSUME NEW c \in Cache, c.pinned \subseteq c.index, NEW n, NEW E \in SUBSET c.index, Evictable(c, E), StopsAtPin(c, n, E)
  PROVE  Blocked(Keep(c, c.index \ E))
<1> DEFINE S == c.index \ E
           k == Keep(c, S)
<1>1. k.pinned = c.pinned \cap S /\ k.index = S /\ k.stamp = Only(c.stamp, S)
  BY DEF Keep, Cache
<1>2. PICK p \in c.pinned \ E : \A g \in S : c.stamp[p] <= c.stamp[g]
  BY DEF StopsAtPin
<1>3. p \in S /\ p \in k.pinned
  BY <1>1, <1>2
<1>4. \A g \in S : k.stamp[g] = c.stamp[g]
  BY <1>1 DEF Only, Cache
<1> HIDE DEF k, S
<1>5. \A u \in k.index : k.stamp[p] <= k.stamp[u]
  BY <1>1, <1>2, <1>3, <1>4
<1>6. Blocked(k)
  BY <1>3, <1>5 DEF Blocked
<1> QED BY <1>6 DEF k, S

LEMMA RefusalStep ==
  ASSUME BudgetInv, RefusalInv, [Next]_vars
  PROVE  RefusalInv'
<1> SUFFICES ASSUME NEW i \in Instances, call'[i].op = "saveRefused" PROVE Blocked(cache[i])'
  BY DEF RefusalInv
<1>0. /\ cache \in [Instances -> Cache] /\ cache[i] \in Cache /\ cache[i].pinned \subseteq cache[i].index
      /\ ~cache[i].up => call[i] = Idle
  BY DEF BudgetInv, TypeOK, Sound
<1>c. DOMAIN call = Instances
  BY DEF BudgetInv, TypeOK
<1>a. ASSUME NEW k, call' = [call EXCEPT ![i] = k] PROVE call'[i] = k
  BY ONLY <1>c, <1>a, i \in Instances
<1>b. ASSUME NEW j \in Instances, j # i, NEW k, call' = [call EXCEPT ![j] = k] PROVE call'[i] = call[i]
  BY <1>c, <1>b
<1>1. ASSUME cache'[i] = cache[i], call'[i] = call[i] PROVE Blocked(cache[i])'
  BY <1>1 DEF RefusalInv, Blocked
<1>2. ASSUME NEW j \in Instances, Reads(j) \/ Stores(j) \/ SaveEvicted(j) \/ Crash(j), j # i
      PROVE  Blocked(cache[i])'
  <2>1. UNCHANGED cache \/ \E c : cache' = [cache EXCEPT ![j] = c]
    BY <1>2 DEF Reads, Stores, StartDisabled, StartEmpty, StartCorrupt, StartLoaded, StartOverBudget,
                Stop, LookupOutdated, LookupFresh, ReadHit, ReadFailed, Charge, ChargeThrows,
                SaveEvicted, WriteFile, Insert, Crash, Evict, Clean, Save
  <2>2. cache'[i] = cache[i]
    BY <1>0, <1>2, <2>1
  <2>3. UNCHANGED call \/ \E k : call' = [call EXCEPT ![j] = k]
    BY <1>2 DEF Reads, Stores, StartDisabled, StartEmpty, StartCorrupt, StartLoaded, StartOverBudget,
                Stop, LookupOutdated, LookupFresh, ReadHit, ReadFailed, Charge, ChargeThrows,
                SaveEvicted, WriteFile, Insert, Crash
  <2>4. call'[i] = call[i]
    BY <1>b, <1>2, <2>3
  <2> QED BY <1>1, <2>2, <2>4
<1>3. ASSUME NEW o, NEW g, call' = [call EXCEPT ![i] = [op |-> o, hash |-> g]] PROVE o = "saveRefused"
  BY <1>a, <1>3
<1>d. call' # [call EXCEPT ![i] = Idle]
  BY <1>3 DEF Idle
<1>4. ASSUME UNCHANGED call, call[i] = Idle PROVE FALSE
  BY <1>4 DEF Idle
<1>5. ASSUME Reads(i) PROVE FALSE
  <2>1. ASSUME StartDisabled(i) \/ StartEmpty(i) \/ StartCorrupt(i) \/ StartLoaded(i) \/ Stop(i) PROVE FALSE
    BY <1>0, <1>4, <2>1 DEF StartDisabled, StartEmpty, StartCorrupt, StartLoaded, Stop
  <2>2. ASSUME StartOverBudget(i) PROVE FALSE
    <3>1. CASE UNCHANGED call
      BY <1>0, <1>4, <2>2, <3>1 DEF StartOverBudget
    <3>2. CASE call' = [call EXCEPT ![i] = [op |-> "saveLoaded", hash |-> NoHash]]
      BY <1>3, <3>2
    <3> QED BY <2>2, <3>1, <3>2 DEF StartOverBudget
  <2>3. ASSUME NEW h \in Hashes, LookupOutdated(i, h) PROVE FALSE
    BY <1>4, <2>3 DEF LookupOutdated
  <2>4. ASSUME NEW h \in Hashes, LookupFresh(i, h) PROVE FALSE
    <3>1. call' = [call EXCEPT ![i] = [op |-> "read", hash |-> h]]
      BY <2>4 DEF LookupFresh
    <3> QED BY <1>3, <3>1
  <2>5. ASSUME ReadHit(i) \/ ReadFailed(i) PROVE FALSE
    BY <1>d, <2>5 DEF ReadHit, ReadFailed
  <2> QED BY <1>5, <2>1, <2>2, <2>3, <2>4, <2>5 DEF Reads
<1>6. ASSUME NEW h \in Hashes, Charge(i, h) PROVE Blocked(cache[i])'
  <2>1. ASSUME call' = [call EXCEPT ![i] = [op |-> "write", hash |-> h]] PROVE FALSE
    BY <1>3, <2>1
  <2>2. PICK n : \E E \in Victims(cache[i], n) :
               /\ Evict(i, cache[i], n, E)
               /\ call' = [call EXCEPT ![i] = [op |-> AfterEviction(cache[i], n, E), hash |-> h]]
    BY <1>6, <2>1 DEF Charge
  <2>3. PICK E \in Victims(cache[i], n) :
               /\ Evict(i, cache[i], n, E)
               /\ call' = [call EXCEPT ![i] = [op |-> AfterEviction(cache[i], n, E), hash |-> h]]
    BY <2>2
  <2>4. E \in SUBSET cache[i].index /\ Evictable(cache[i], E)
    BY <2>3 DEF Victims, Reached
  <2>8. AfterEviction(cache[i], n, E) = "saveRefused"
    BY <1>3, <2>3
  <2>5. StopsAtPin(cache[i], n, E)
    BY <2>8 DEF AfterEviction
  <2>6. cache'[i] = Keep(cache[i], cache[i].index \ E)
    BY <1>0, <2>3 DEF Evict
  <2>7. Blocked(Keep(cache[i], cache[i].index \ E))
    BY <1>0, <2>4, <2>5, StopBlocks
  <2> QED BY <2>6, <2>7 DEF Blocked
<1>7. ASSUME NEW h \in Hashes, ChargeThrows(i, h) PROVE FALSE
  BY <1>4, <1>7 DEF ChargeThrows
<1>8. ASSUME SaveEvicted(i) PROVE FALSE
  <2>1. CASE call[i].op = "saveEvicted"
    <3>1. call' = [call EXCEPT ![i] = [op |-> "write", hash |-> call[i].hash]]
      BY <1>8, <2>1 DEF SaveEvicted
    <3> QED BY <1>3, <3>1
  <2>2. CASE call[i].op # "saveEvicted"
    BY <1>d, <1>8, <2>2 DEF SaveEvicted
  <2> QED BY <2>1, <2>2
<1>9. ASSUME WriteFile(i) PROVE FALSE
  <2>1. call'[i].op = "insert"
    BY <1>0, <1>9 DEF WriteFile, BudgetInv, TypeOK
  <2> QED BY <2>1
<1>10. ASSUME Insert(i) \/ Crash(i) PROVE FALSE
  BY <1>d, <1>10 DEF Insert, Crash
<1>11. ASSUME Tick \/ UNCHANGED vars \/ \E h \in Hashes : SourceChanges(h) PROVE Blocked(cache[i])'
  BY <1>1, <1>11 DEF Tick, vars, SourceChanges
<1> QED BY <1>2, <1>5, <1>6, <1>7, <1>8, <1>9, <1>10, <1>11 DEF Next, Stores

\* A file is turned away only when what is left to evict is as recent as what
\* this run uses, for any number of instances, failures and crashes.
THEOREM OnlyPinsRefuse == Spec => []RefusedOnlyByPins
<1>1. Init => RefusalInv
  BY DEF Init, RefusalInv, Idle
<1>2. BudgetInv /\ RefusalInv /\ [Next]_vars => RefusalInv'
  BY RefusalStep
<1>3. BudgetInv /\ RefusalInv /\ PinnedNewest => RefusedOnlyByPins
  <2> SUFFICES ASSUME BudgetInv, RefusalInv, PinnedNewest, NEW i \in Instances, call[i].op = "saveRefused"
               PROVE  \E p \in cache[i].pinned : \A u \in cache[i].index \ cache[i].pinned :
                        cache[i].stamp[u] = cache[i].stamp[p]
    BY DEF RefusedOnlyByPins
  <2>1. PICK p \in cache[i].pinned : \A u \in cache[i].index : cache[i].stamp[p] <= cache[i].stamp[u]
    BY DEF RefusalInv, Blocked
  <2>2. cache[i] \in Cache
    BY DEF BudgetInv, TypeOK
  <2>3. \A h \in Hashes : cache[i].stamp[h] \in Nat
    BY <2>2, CacheAssumption DEF Cache, Second
  <2>4. \A u \in cache[i].index \ cache[i].pinned : cache[i].stamp[u] <= cache[i].stamp[p]
    BY DEF PinnedNewest
  <2>5. p \in Hashes /\ cache[i].index \subseteq Hashes
    BY <2>2 DEF Cache
  <2> QED BY <2>1, <2>3, <2>4, <2>5
<1> QED BY <1>1, <1>2, <1>3, BudgetAlways, PinnedAreNewest, PTL DEF Spec

----------------------------------------------------------------------------
(* The artifacts of the entries in use.                                    *)

\* One instance at a time, and no artifact that fails to be written unnoticed.
Noticed ==
  /\ \A i, j \in Instances : i = j
  /\ "write" \notin FaultKinds

\* What instance i counts on finding in the directory.
Needs(i, h) == h \in cache[i].pinned \/ call[i] = [op |-> "insert", hash |-> h]

LEMMA ArtifactStep ==
  ASSUME Noticed, BudgetInv, PinnedKeepsArtifact, [Next]_vars
  PROVE  PinnedKeepsArtifact'
<1>0. /\ TypeOK /\ cache \in [Instances -> Cache] /\ call = [j \in Instances |-> call[j]]
      /\ file = [h \in Hashes |-> file[h]] /\ disk.index \in SUBSET Hashes /\ clock \in Second
  BY DEF BudgetInv, TypeOK
<1> SUFFICES ASSUME NEW i \in Instances, NEW h \in Hashes, Needs(i, h)'
             PROVE  file'[h] \in {"good", "old"}
  BY DEF PinnedKeepsArtifact, Needs
<1>A. Needs(i, h) => file[h] \in {"good", "old"}
  BY DEF PinnedKeepsArtifact, Needs
<1>C. /\ cache[i] \in Cache /\ cache[i].index \in SUBSET Hashes
      /\ cache[i].enabled => cache[i].up
      /\ ~cache[i].up => call[i] = Idle
  BY <1>0 DEF BudgetInv, Sound, Cache
<1>I. Idle # [op |-> "insert", hash |-> h]
  BY DEF Idle
<1>D. /\ Down.pinned = {} /\ Fresh.pinned = {} /\ [Down EXCEPT !.up = TRUE].pinned = {}
      /\ Fresh \in Cache
  BY ConstantTypes DEF Down
<1>L. Loaded \in Cache /\ Loaded.pinned = {}
  BY <1>0, <1>D DEF Loaded, Fresh, Down, Cache, TypeOK
<1>K. ASSUME NEW c \in Cache, NEW S PROVE Keep(c, S).pinned = c.pinned \cap S
  BY DEF Keep, Cache
<1>N. ASSUME cache'[i].pinned = {}, call'[i].op # "insert" PROVE FALSE
  BY <1>N DEF Needs
<1>1. ASSUME Reads(i) PROVE file'[h] \in {"good", "old"}
  <2>1. ASSUME NEW c \in Cache, Clean(i, c), call'[i] = Idle PROVE FALSE
    <3>1. cache'[i].pinned = {}
      BY <1>0, <1>K, <2>1 DEF Clean
    <3> QED BY <1>N, <2>1, <3>1 DEF Idle
  <2>2. CASE StartCorrupt(i) \/ ReadFailed(i) \/ (StartOverBudget(i) /\ Clean(i, Fresh) /\ UNCHANGED call)
    BY <1>0, <1>C, <1>D, <2>1, <2>2 DEF StartCorrupt, ReadFailed, StartOverBudget
  <2>3. ASSUME NEW E, Evict(i, Loaded, LoadedSize, E),
               call' = [call EXCEPT ![i] = [op |-> "saveLoaded", hash |-> NoHash]]
        PROVE  FALSE
    BY <1>0, <1>K, <1>L, <1>N, <2>3 DEF Evict
  <2>4. CASE StartDisabled(i) \/ StartEmpty(i) \/ StartLoaded(i) \/ Stop(i)
    <3>1. cache'[i].pinned = {}
      BY <1>0, <1>D, <1>L, <2>4 DEF StartDisabled, StartEmpty, StartLoaded, Stop
    <3>2. call'[i] = Idle
      BY <1>C, <2>4 DEF StartDisabled, StartEmpty, StartLoaded, Stop
    <3> QED BY <1>N, <3>1, <3>2 DEF Idle
  <2>5. ASSUME NEW g \in Hashes, LookupOutdated(i, g) PROVE file'[h] \in {"good", "old"}
    <3>1. cache'[i].pinned = cache[i].pinned \cap (cache[i].index \ {g}) /\ UNCHANGED call
      BY <1>0, <1>C, <1>K, <2>5 DEF LookupOutdated
    <3>2. call[i] = Idle
      BY <2>5 DEF LookupOutdated
    <3>3. h # g /\ h \in cache[i].pinned
      BY <1>I, <3>1, <3>2 DEF Needs
    <3> QED BY <1>A, <2>5, <3>3 DEF LookupOutdated, Remove, Needs
  <2>6. ASSUME NEW g \in Hashes, LookupFresh(i, g) PROVE file'[h] \in {"good", "old"}
    <3>1. cache'[i].pinned = cache[i].pinned \cup {g}
      BY <1>0, <1>C, <2>6 DEF LookupFresh, Touched, Cache
    <3>2. call'[i].op # "insert" /\ UNCHANGED file /\ file[g] = "good"
      BY <1>0, <2>6 DEF LookupFresh
    <3>3. h = g \/ h \in cache[i].pinned
      BY <3>1, <3>2 DEF Needs
    <3> QED BY <1>A, <3>2, <3>3 DEF Needs
  <2>7. CASE ReadHit(i)
    <3>1. UNCHANGED <<cache, file>> /\ call'[i] = Idle
      BY <1>0, <2>7 DEF ReadHit
    <3> QED BY <1>A, <1>I, <3>1 DEF Needs
  <2> QED BY <1>1, <2>2, <2>3, <2>4, <2>5, <2>6, <2>7 DEF Reads, StartOverBudget
<1>E. ASSUME NEW n, NEW E \in SUBSET cache[i].index, Evictable(cache[i], E),
             Evict(i, cache[i], n, E), call'[i].op # "insert"
      PROVE  file'[h] \in {"good", "old"}
  <2>1. cache'[i].pinned = cache[i].pinned \cap (cache[i].index \ E)
    BY <1>0, <1>C, <1>E, <1>K DEF Evict
  <2>2. h \in cache[i].pinned /\ h \notin E
    BY <1>E, <2>1 DEF Needs, Evictable
  <2> QED BY <1>A, <1>E, <2>2 DEF Evict, Remove, Needs
<1>2. ASSUME Stores(i) PROVE file'[h] \in {"good", "old"}
  <2>1. ASSUME NEW g \in Hashes, Charge(i, g) PROVE file'[h] \in {"good", "old"}
    <3>1. CASE UNCHANGED <<cache, file>> /\ call' = [call EXCEPT ![i] = [op |-> "write", hash |-> g]]
      BY <1>0, <1>A, <3>1 DEF Needs
    <3>2. ASSUME NEW n, NEW E \in Victims(cache[i], n), Evict(i, cache[i], n, E),
                 call' = [call EXCEPT ![i] = [op |-> AfterEviction(cache[i], n, E), hash |-> g]]
          PROVE  file'[h] \in {"good", "old"}
      <4>1. E \in SUBSET cache[i].index /\ Evictable(cache[i], E)
        BY <3>2 DEF Victims, Reached
      <4>2. call'[i].op # "insert"
        BY <1>0, <3>2 DEF AfterEviction
      <4> QED BY <1>E, <3>2, <4>1, <4>2
    <3> QED BY <2>1, <3>1, <3>2 DEF Charge
  <2>2. ASSUME NEW g \in Hashes, ChargeThrows(i, g) PROVE file'[h] \in {"good", "old"}
    <3>1. call'[i].op # "insert"
      BY <2>2 DEF ChargeThrows, Idle
    <3> QED BY <1>E, <2>2, <3>1 DEF ChargeThrows, Reached
  <2>3. CASE WriteFile(i)
    <3>1. call[i].op = "write" /\ UNCHANGED cache /\ call' = [call EXCEPT ![i].op = "insert"]
          /\ file' = [file EXCEPT ![call[i].hash] = "good"]
      BY <2>3 DEF WriteFile, Fails, Noticed
    <3>2. CASE h = call[i].hash
      BY <1>0, <3>1, <3>2
    <3>3. CASE h # call[i].hash
      <4>1. call'[i].hash = call[i].hash
        BY <1>0, <3>1 DEF TypeOK
      <4>2. h \in cache[i].pinned
        BY <3>1, <3>3, <4>1 DEF Needs
      <4> QED BY <1>0, <1>A, <3>1, <3>3, <4>2 DEF Needs
    <3> QED BY <3>2, <3>3
  <2>4. CASE Insert(i)
    <3> DEFINE c == Entered(cache[i], call[i].hash)
    <3>1. call[i].op = "insert" /\ Save(i, c) /\ call' = [call EXCEPT ![i] = Idle] /\ UNCHANGED file
      BY <2>4 DEF Insert
    <3>2. call[i] = [op |-> "insert", hash |-> call[i].hash] /\ call[i].hash \in Hashes
      BY <1>0, <3>1 DEF TypeOK
    <3>3. c \in Cache /\ c.pinned = cache[i].pinned \cup {call[i].hash}
      <4>1. c \in Cache
        BY <1>0, <1>C, <3>2, NowFields
      <4> QED BY <1>C, <4>1 DEF Entered, Cache
    <3> HIDE DEF c
    <3>4. cache'[i].pinned = c.pinned
      <4>1. cache \in [Instances -> Cache]
        BY <1>0 DEF TypeOK
      <4>2. \/ cache' = [cache EXCEPT ![i] = c]
            \/ cache' = [cache EXCEPT ![i] = [c EXCEPT !.enabled = FALSE]]
        BY <3>1 DEF Save
      <4>3. [c EXCEPT !.enabled = FALSE].pinned = c.pinned
        BY <3>3 DEF Cache
      <4> QED BY <4>1, <4>2, <4>3
    <3>5. h \in cache[i].pinned \/ h = call[i].hash
      BY <1>0, <1>I, <3>1, <3>3, <3>4 DEF Needs
    <3> QED BY <1>A, <3>1, <3>2, <3>5 DEF Needs
  <2> QED BY <1>2, <2>1, <2>2, <2>3, <2>4 DEF Stores
<1>3. ASSUME SaveEvicted(i) PROVE file'[h] \in {"good", "old"}
  <2>1. cache'[i].pinned = cache[i].pinned /\ UNCHANGED file
    BY <1>0, <1>3 DEF SaveEvicted, Save, Cache
  <2>2. call'[i].op # "insert"
    BY <1>0, <1>3 DEF SaveEvicted, Idle
  <2> QED BY <1>A, <2>1, <2>2 DEF Needs
<1>4. ASSUME Crash(i) PROVE file'[h] \in {"good", "old"}
  BY <1>0, <1>4, <1>D, <1>N DEF Crash, Idle
<1>5. ASSUME NEW g \in Hashes, SourceChanges(g) PROVE file'[h] \in {"good", "old"}
  BY <1>0, <1>5, <1>A DEF SourceChanges, Needs
<1>6. ASSUME Tick \/ UNCHANGED vars PROVE file'[h] \in {"good", "old"}
  BY <1>6, <1>A DEF Tick, vars, Needs
<1> QED BY <1>1, <1>2, <1>3, <1>4, <1>5, <1>6 DEF Next, Noticed

\* With one instance at a time, whatever it evicts or wipes and however often it
\* crashes, the artifact of an entry used in this run stays in the directory.
THEOREM PinnedStay == ASSUME Noticed PROVE Spec => []PinnedKeepsArtifact
<1>1. Init => PinnedKeepsArtifact
  BY DEF Init, PinnedKeepsArtifact, Down, Idle
<1>2. BudgetInv /\ PinnedKeepsArtifact /\ [Next]_vars => PinnedKeepsArtifact'
  BY ArtifactStep
<1> QED BY <1>1, <1>2, BudgetAlways, PTL DEF Spec
=============================================================================
