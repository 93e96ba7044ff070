---------------------------- MODULE CachedParser ----------------------------
(***************************************************************************)
(* The on-disk LRU cache of parsed waveforms (io/cached_parser.cpp): the   *)
(* in-memory index of each CachedParser, the index file and the artifacts  *)
(* csv<hash>.wave in the cache directory they share.                       *)
(*                                                                         *)
(* An artifact is named by the content hash it is stored under, so a hash  *)
(* stands for the file and for its data.  What the code compares of the    *)
(* modification times is whether the source is newer than the artifact:    *)
(* an artifact is "good", "old" (the source was rewritten in a later       *)
(* second, or is gone), "torn" (half written) or "none".                   *)
(*                                                                         *)
(* A call is split where it leaves the disk in a state that another        *)
(* instance, or the next run after a crash, can see.  The constructor, the *)
(* destructor, loadCacheIndex, saveCacheIndex, cleanCache, removeOldFiles, *)
(* cacheFile, cacheFileOutdated and getCachedFile are modelled; getHash    *)
(* changes no state and the sections of an artifact are left out.          *)
(***************************************************************************)
EXTENDS Integers, FiniteSets, FiniteSetsExt

CONSTANTS
  Instances,   \* the CachedParser objects over one directory
  Hashes,      \* content hashes of the waveform files
  Bytes,       \* Bytes[h]: the budget charged for h, samples * 8 / 4
  CacheSize,   \* cacheSize_ (zero, which disables the cache, is not modelled)
  NoHash,      \* "no call in progress names a hash"
  FaultKinds,  \* the failures that may happen in a behaviour
  MaxFaults,   \* bound: failures in a behaviour
  MaxClock,    \* bound: the last second of std::time
  MaxSize      \* bound: no cacheFile takes currentSize_ beyond it

ASSUME CacheAssumption ==
  /\ Bytes \in [Hashes -> Nat] /\ CacheSize \in Nat \ {0}
  /\ NoHash \notin Hashes
  /\ FaultKinds \subseteq {"crash", "mkdir", "remove", "clean", "open", "save", "write", "read"}
  /\ MaxFaults \in Nat /\ MaxClock \in Nat /\ MaxSize \in Nat

VARIABLES
  clock,   \* std::time(nullptr), in seconds
  file,    \* file[h]: the artifact of h
  disk,    \* the index file
  cache,   \* cache[i]: the members of instance i
  size,    \* size[i]: its currentSize_
  call,    \* call[i]: the call instance i is in
  faults   \* failures so far

vars == <<clock, file, disk, cache, size, call, faults>>

Second == 0 .. MaxClock
NoStamps == [h \in Hashes |-> 0]

\* CacheEntry is its stamp and its pin; stamps of hashes not indexed read 0.
Cache == [up : BOOLEAN, enabled : BOOLEAN, index : SUBSET Hashes,
          stamp : [Hashes -> Second], pinned : SUBSET Hashes]

Down == [up |-> FALSE, enabled |-> FALSE, index |-> {},
         stamp |-> NoStamps, pinned |-> {}]

NoIndex      == [status |-> "absent", index |-> {}, stamp |-> NoStamps]
CorruptIndex == [status |-> "corrupt", index |-> {}, stamp |-> NoStamps]

Idle == [op |-> "idle", hash |-> NoHash]

Total(S) == MapThenSumSet(LAMBDA h : Bytes[h], S)

Only(stamp, S) == [h \in Hashes |-> IF h \in S THEN stamp[h] ELSE 0]

\* Mutant: the pins of erased entries stay.
KeepPins(c, S) == [c EXCEPT !.index = S, !.stamp = Only(c.stamp, S)]

\* The members after erasing all entries but those of S.
Keep(c, S) == [c EXCEPT !.index = S, !.stamp = Only(c.stamp, S), !.pinned = @ \cap S]

Fails(kind) == kind \in FaultKinds /\ faults < MaxFaults /\ faults' = faults + 1
NoFault == UNCHANGED faults

----------------------------------------------------------------------------
(* Eviction.                                                               *)

\* E can be the first entries of the vector sorted by timestamp_ (ties in any order).
OldestFirst(c, E) == \A e \in E, f \in c.index \ E : c.stamp[e] <= c.stamp[f]

Evictable(c, E) == E \cap c.pinned = {} /\ OldestFirst(c, E)

\* The loop goes on to its next entry while the size is over the budget.
Reached(c, charged, E) ==
  /\ Evictable(c, E)
  /\ E = {} \/ \E last \in E : /\ Evictable(c, E \ {last})
                               /\ charged - Total(E \ {last}) > CacheSize

\* removeOldFiles: stopped at a pinned entry, still over the budget.
StopsAtPin(c, charged, E) ==
  /\ charged - Total(E) > CacheSize
  /\ \E f \in c.pinned \ E : \A g \in c.index \ E : c.stamp[f] <= c.stamp[g]

\* removeOldFiles: the sets of entries it may remove.
Victims(c, charged) ==
  {E \in SUBSET c.index :
     /\ Reached(c, charged, E)
     /\ charged - Total(E) <= CacheSize \/ E = c.index \/ StopsAtPin(c, charged, E)}

Remove(S) == file' = [h \in Hashes |-> IF h \in S THEN "none" ELSE file[h]]

\* removeOldFiles, up to its save.
Evict(i, c, charged, E) ==
  /\ cache' = [cache EXCEPT ![i] = Keep(c, c.index \ E)]
  /\ size' = [size EXCEPT ![i] = charged - Total(E)]
  /\ Remove(E)

\* cleanCache on disk: remove_all may stop half way, which is swallowed.
CleanDisk ==
  \/ Remove(Hashes) /\ disk' = NoIndex /\ NoFault
  \/ /\ Fails("clean")
     /\ \E S \in SUBSET Hashes : Remove(S)
     /\ disk' \in {disk, NoIndex}

Clean(i, c) ==
  /\ cache' = [cache EXCEPT ![i] = Keep(c, {})]
  /\ size' = [size EXCEPT ![i] = 0]
  /\ CleanDisk

\* Mutant: entries used in this run are not written.
SavedUnpinned(c) == [status |-> "valid", index |-> c.index \ c.pinned,
                     stamp |-> Only(c.stamp, c.index \ c.pinned)]

\* What saveCacheIndex writes: every field but pinned_.
Saved(c) == [status |-> "valid", index |-> c.index, stamp |-> c.stamp]

\* saveCacheIndex: nothing to do, done, the file did not open, writing it threw.
Save(i, c) ==
  \/ /\ ~c.enabled \/ c.index = {}
     /\ cache' = [cache EXCEPT ![i] = c] /\ NoFault /\ UNCHANGED disk
  \/ /\ c.enabled /\ c.index # {}
     /\ \/ disk' = Saved(c) /\ NoFault /\ cache' = [cache EXCEPT ![i] = c]
        \/ Fails("open") /\ UNCHANGED disk /\ cache' = [cache EXCEPT ![i] = c]
        \/ /\ Fails("save") /\ disk' = CorruptIndex
           /\ cache' = [cache EXCEPT ![i] = [c EXCEPT !.enabled = FALSE]]

----------------------------------------------------------------------------
(* Construction.                                                           *)

Init ==
  /\ clock = 0 /\ faults = 0 /\ disk = NoIndex
  /\ file = [h \in Hashes |-> "none"]
  /\ cache = [i \in Instances |-> Down] /\ size = [i \in Instances |-> 0]
  /\ call = [i \in Instances |-> Idle]

Fresh == [Down EXCEPT !.up = TRUE, !.enabled = TRUE]

\* The directory could not be created: the instance is up and does nothing.
StartDisabled(i) ==
  /\ ~cache[i].up /\ Fails("mkdir")
  /\ cache' = [cache EXCEPT ![i] = [Down EXCEPT !.up = TRUE]]
  /\ UNCHANGED <<clock, file, disk, size, call>>

\* No index file: the index is empty, whatever artifacts lie there.
StartEmpty(i) ==
  /\ ~cache[i].up /\ disk.status = "absent"
  /\ cache' = [cache EXCEPT ![i] = Fresh]
  /\ UNCHANGED <<clock, file, disk, size, call, faults>>

\* An archive that does not load: everything goes.
StartCorrupt(i) ==
  /\ ~cache[i].up /\ disk.status = "corrupt"
  /\ Clean(i, Fresh)
  /\ UNCHANGED <<clock, call>>

Loaded == [Fresh EXCEPT !.index = disk.index, !.stamp = disk.stamp]

\* Mutant: currentSize_ is not computed from the entries loaded.
LoadedSizeZero == 0

LoadedSize == Total(disk.index)

StartLoaded(i) ==
  /\ ~cache[i].up /\ disk.status = "valid"
  /\ LoadedSize <= CacheSize
  /\ cache' = [cache EXCEPT ![i] = Loaded]
  /\ size' = [size EXCEPT ![i] = LoadedSize]
  /\ UNCHANGED <<clock, file, disk, call, faults>>

\* Over the budget (an oversized file, or another instance's entries); when a
\* remove() throws, the handler cleans.
StartOverBudget(i) ==
  /\ ~cache[i].up /\ disk.status = "valid"
  /\ LoadedSize > CacheSize
  /\ \/ /\ \E E \in Victims(Loaded, LoadedSize) : Evict(i, Loaded, LoadedSize, E)
        /\ call' = [call EXCEPT ![i] = [op |-> "saveLoaded", hash |-> NoHash]]
        /\ UNCHANGED <<disk, faults>>
     \/ "remove" \in FaultKinds /\ Clean(i, Fresh) /\ UNCHANGED call
  /\ UNCHANGED clock

\* The destructor flushes nothing.
Stop(i) ==
  /\ cache[i].up /\ call[i] = Idle
  /\ cache' = [cache EXCEPT ![i] = Down] /\ size' = [size EXCEPT ![i] = 0]
  /\ UNCHANGED <<clock, file, disk, call, faults>>

----------------------------------------------------------------------------
(* getCachedFile.                                                          *)

\* Mutant: the entry is not erased.
LookupOutdatedKept(i, h) ==
  /\ cache[i].enabled /\ call[i] = Idle
  /\ h \in cache[i].index /\ file[h] # "good"
  /\ Remove({h})
  /\ UNCHANGED <<clock, disk, cache, size, call, faults>>

\* An entry whose artifact is outdated, missing or unreadable: currentSize_ and
\* the index file stay as they are.
LookupOutdated(i, h) ==
  /\ cache[i].enabled /\ call[i] = Idle
  /\ h \in cache[i].index /\ file[h] # "good"
  /\ cache' = [cache EXCEPT ![i] = Keep(@, @.index \ {h})]
  /\ Remove({h})
  /\ UNCHANGED <<clock, disk, size, call, faults>>

\* Mutant: the entry is pinned, but keeps the stamp of its last use.
TouchedPinOnly(c, h) == [c EXCEPT !.pinned = @ \cup {h}]

Touched(c, h) == [c EXCEPT !.stamp[h] = clock, !.pinned = @ \cup {h}]

LookupFresh(i, h) ==
  /\ cache[i].enabled /\ call[i] = Idle
  /\ h \in cache[i].index /\ file[h] = "good"
  /\ cache' = [cache EXCEPT ![i] = Touched(@, h)]
  /\ call' = [call EXCEPT ![i] = [op |-> "read", hash |-> h]]
  /\ UNCHANGED <<clock, file, disk, size, faults>>

ReadHit(i) ==
  /\ call[i].op = "read" /\ file[call[i].hash] \in {"good", "old"}
  /\ call' = [call EXCEPT ![i] = Idle]
  /\ UNCHANGED <<clock, file, disk, cache, size, faults>>

\* The artifact went away, or does not read: everything goes.
ReadFailed(i) ==
  /\ call[i].op = "read"
  /\ file[call[i].hash] \in {"none", "torn"} \/ "read" \in FaultKinds
  /\ Clean(i, cache[i])
  /\ call' = [call EXCEPT ![i] = Idle]
  /\ UNCHANGED <<clock>>

----------------------------------------------------------------------------
(* cacheFile.                                                              *)

\* Mutant: what removeOldFiles returned is not looked at.
AfterEvictionGoesOn(c, charged, E) == "saveEvicted"

\* What cacheFile does with the result of removeOldFiles, once that has saved.
AfterEviction(c, charged, E) ==
  IF StopsAtPin(c, charged, E) THEN "saveRefused" ELSE "saveEvicted"

\* The charge, and the eviction pass when it goes over the budget.
Charge(i, h) ==
  /\ cache[i].enabled /\ call[i] = Idle
  /\ LET charged == size[i] + Bytes[h] IN
     /\ charged <= MaxSize
     /\ IF charged <= CacheSize
        THEN /\ size' = [size EXCEPT ![i] = charged]
             /\ call' = [call EXCEPT ![i] = [op |-> "write", hash |-> h]]
             /\ UNCHANGED <<cache, file>>
        ELSE \E E \in Victims(cache[i], charged) :
               /\ Evict(i, cache[i], charged, E)
               /\ call' = [call EXCEPT ![i] =
                    [op |-> AfterEviction(cache[i], charged, E), hash |-> h]]
  /\ UNCHANGED <<clock, disk, faults>>

\* remove() throws out of cacheFile: the charge is not taken back, nothing is saved.
ChargeThrows(i, h) ==
  /\ cache[i].enabled /\ call[i] = Idle
  /\ LET charged == size[i] + Bytes[h] IN
     /\ charged > CacheSize /\ charged <= MaxSize
     /\ \E E \in SUBSET cache[i].index :
          /\ E \notin Victims(cache[i], charged) /\ Reached(cache[i], charged, E)
          /\ Evict(i, cache[i], charged, E)
  /\ Fails("remove")
  /\ UNCHANGED <<clock, disk, call>>

\* removeOldFiles saves; a refused file is taken off the charge.
SaveEvicted(i) ==
  /\ call[i].op \in {"saveLoaded", "saveRefused", "saveEvicted"}
  /\ Save(i, cache[i])
  /\ size' = IF call[i].op = "saveRefused"
             THEN [size EXCEPT ![i] = @ - Bytes[call[i].hash]] ELSE size
  /\ call' = [call EXCEPT ![i] =
       IF call[i].op = "saveEvicted" THEN [op |-> "write", hash |-> call[i].hash] ELSE Idle]
  /\ UNCHANGED <<clock, file>>

\* elfw.writeFile: its result is not looked at.
WriteFile(i) ==
  /\ call[i].op = "write"
  /\ \/ file' = [file EXCEPT ![call[i].hash] = "good"] /\ NoFault
     \/ /\ Fails("write")
        /\ \E left \in {file[call[i].hash], "torn"} : file' = [file EXCEPT ![call[i].hash] = left]
  /\ call' = [call EXCEPT ![i].op = "insert"]
  /\ UNCHANGED <<clock, disk, cache, size>>

\* The entry made, or replaced, with the time of day and pinned.
Entered(c, h) ==
  [c EXCEPT !.index = @ \cup {h}, !.stamp[h] = clock, !.pinned = @ \cup {h}]

Insert(i) ==
  /\ call[i].op = "insert"
  /\ Save(i, Entered(cache[i], call[i].hash))
  /\ call' = [call EXCEPT ![i] = Idle]
  /\ UNCHANGED <<clock, file, size>>

----------------------------------------------------------------------------
(* The directory, the clock and the processes.                             *)

\* The source of an artifact is rewritten in a later second, or removed.
SourceChanges(h) ==
  /\ file[h] = "good"
  /\ file' = [file EXCEPT ![h] = "old"]
  /\ UNCHANGED <<clock, disk, cache, size, call, faults>>

Tick ==
  /\ clock < MaxClock
  /\ clock' = clock + 1
  /\ UNCHANGED <<file, disk, cache, size, call, faults>>

\* The process of i dies: a file it was writing is left half written, or untouched.
Crash(i) ==
  /\ cache[i].up /\ Fails("crash")
  /\ cache' = [cache EXCEPT ![i] = Down] /\ size' = [size EXCEPT ![i] = 0]
  /\ call' = [call EXCEPT ![i] = Idle]
  /\ disk' \in IF call[i].op \in {"saveLoaded", "saveRefused", "saveEvicted", "insert"}
               THEN {disk, CorruptIndex} ELSE {disk}
  /\ file' \in IF call[i].op = "write"
               THEN {file, [file EXCEPT ![call[i].hash] = "torn"]} ELSE {file}
  /\ UNCHANGED clock

\* getCachedFile and the constructor: what csvFileToWaveform calls.
Reads(i) ==
  \/ StartDisabled(i) \/ StartEmpty(i) \/ StartCorrupt(i)
  \/ StartLoaded(i) \/ StartOverBudget(i) \/ Stop(i)
  \/ \E h \in Hashes : LookupOutdated(i, h) \/ LookupFresh(i, h)
  \/ ReadHit(i) \/ ReadFailed(i)

\* cacheFile.
Stores(i) ==
  \/ \E h \in Hashes : Charge(i, h) \/ ChargeThrows(i, h)
  \/ WriteFile(i) \/ Insert(i)

Next ==
  \/ \E i \in Instances : Reads(i) \/ Stores(i) \/ SaveEvicted(i) \/ Crash(i)
  \/ \E h \in Hashes : SourceChanges(h)
  \/ Tick

Spec == Init /\ [][Next]_vars

----------------------------------------------------------------------------
(* Properties.                                                             *)

\* Type invariant; the size is the subject of ChargeCoversIndex.
TypeOK ==
  /\ clock \in Second /\ faults \in 0 .. MaxFaults
  /\ file \in [Hashes -> {"none", "torn", "good", "old"}]
  /\ disk \in [status : {"absent", "corrupt", "valid"}, index : SUBSET Hashes,
               stamp : [Hashes -> Second]]
  /\ cache \in [Instances -> Cache]
  /\ call \in [Instances -> [op : {"idle", "read", "saveLoaded", "saveRefused",
                                   "saveEvicted", "write", "insert"},
                             hash : Hashes \cup {NoHash}]]
  /\ \A i \in Instances : call[i].hash = NoHash => call[i].op \in {"idle", "saveLoaded"}
  /\ \A i \in Instances : cache[i].pinned \subseteq cache[i].index

\* What a call in progress has charged for a file not in the index yet.
Pending(i) ==
  IF call[i].op \in {"saveRefused", "saveEvicted", "write", "insert"} THEN Bytes[call[i].hash] ELSE 0

\* currentSize_ never falls short of the entries it stands for, so that the
\* unsigned subtraction of removeOldFiles cannot wrap, whatever order of
\* evictions, outdated entries, failed removals and cleanings came before.
ChargeCoversIndex ==
  \A i \in Instances : size[i] >= Total(cache[i].index) + Pending(i)

\* A pinned entry is at least as recent as any that is not: the pass, which
\* stops at the first pin it meets, leaves no older evictable entry behind it.
\* (So it is because no entry, here or in the index file, is from the future.)
PinnedNewest ==
  /\ \A h \in Hashes : /\ disk.stamp[h] <= clock
                       /\ \A i \in Instances : cache[i].stamp[h] <= clock
  /\ \A i \in Instances : \A p \in cache[i].pinned, u \in cache[i].index \ cache[i].pinned :
    cache[i].stamp[u] <= cache[i].stamp[p]

\* An entry used in this run keeps its artifact until its source changes or the
\* cache is wiped: neither an eviction pass nor a crash before this run takes it.
\* The artifact of a file being stored is there before its entry is.
PinnedKeepsArtifact ==
  \A i \in Instances : \A h \in Hashes :
    h \in cache[i].pinned \/ call[i] = [op |-> "insert", hash |-> h] => file[h] \in {"good", "old"}

\* A file is turned away only for what is in use: when the pass has stopped at a
\* pin, every entry that it might still have evicted was used in the very second
\* of that pin.  No old entry hides behind a pin and keeps new files out.
RefusedOnlyByPins ==
  \A i \in Instances : call[i].op = "saveRefused" =>
    \E p \in cache[i].pinned : \A u \in cache[i].index \ cache[i].pinned :
      cache[i].stamp[u] = cache[i].stamp[p]

\* The calls that rewrite the index file, and do it in place.
Rewriting == {"saveLoaded", "saveRefused", "saveEvicted", "insert"}

\* A process that stops or dies, in whatever call, leaves an index file that
\* lists every entry of its cache for the next run.  The exception is a crash in
\* the middle of a rewrite, which can leave a torn file, and that costs every
\* entry (StartCorrupt).  It is a property of an instance that has the directory
\* to itself and can open the file: saveCacheIndex does not look whether it did.
LostOnlyInRewrite ==
  [][\A i \in Instances : (cache[i].up /\ cache[i].enabled /\ ~cache'[i].up) =>
       \/ disk' = disk /\ cache[i].index \subseteq disk.index
       \/ disk'.status = "corrupt" /\ call[i].op \in Rewriting]_vars
=============================================================================
