------------------------- MODULE MCCompilerSession -------------------------
(* Three programs on one compiler: enough for the data of a program that    *)
(* failed between two that did not.                                         *)
EXTENDS CompilerSession
=============================================================================
