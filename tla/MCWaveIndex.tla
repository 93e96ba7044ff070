---------------------------- MODULE MCWaveIndex ----------------------------
(* Four waves in a table of three: room for requests that collide, that     *)
(* leave holes, that are the "no index" value or below it, that lie at the  *)
(* end of the table and past it, and for one wave too many.                 *)
EXTENDS WaveIndex

CONSTANTS w1, w2, w3, w4

MCRequests == {-2, -1, 0, 1, 3, 4}

\* Only indices of the table.
MCInTable == {0, 2}
=============================================================================
