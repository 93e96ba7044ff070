---------------------------- MODULE MCWaveCache ----------------------------
(* Small instances of WaveCache for TLC.                                   *)
EXTENDS WaveCache, TLC

CONSTANTS a, b

MCWaves == {a, b}

\* A wave of a page and a half (two pages once aligned) and one that fills
\* three quarters of the cache.
MCWaveBytes == a :> 3 @@ b :> 6
MCBranchCounts == {1, 2}

\* The first set fits whole; together the waves overflow the cache.
MCUsedSets == {{a}, {a, b}}
MCLockedWaves == {a}
=============================================================================
