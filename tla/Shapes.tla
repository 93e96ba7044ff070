------------------------------- MODULE Shapes -------------------------------
(***************************************************************************)
(* The curves that waves are computed from.  The sines, exponentials and   *)
(* random draws behind them are not the program's: a curve is any function *)
(* of its name, its parameters and the position.                           *)
(***************************************************************************)
EXTENDS Integers, Sequences

CONSTANT Curve(_, _, _)  \* sample i of the curve with a name and parameters
=============================================================================
