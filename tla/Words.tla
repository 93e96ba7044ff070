------------------------------- MODULE Words --------------------------------
(***************************************************************************)
(* The words of the sequencer: registers of WordBits bits, immediates in   *)
(* two parts (asm/asm_commands.cpp:306, kImm19HalfRange).                  *)
(***************************************************************************)
EXTENDS Integers

CONSTANTS
  WordBits,   \* bits of a register, 32 on the instrument
  UpperUnit   \* what the immediate of an ADDIU counts, 2^12 on the instrument

ASSUME WordsAssumption ==
  /\ WordBits \in Nat /\ WordBits > 1
  /\ UpperUnit \in 1 .. 2^(WordBits - 1)

WordSize == 2^WordBits
Word(n) == n % WordSize

\* The signed value of a word; Value::toInt wraps the same way.
Signed(n) ==
  IF Word(n) < WordSize \div 2 THEN Word(n) ELSE Word(n) - WordSize

IsPositive(n) == n \in 1 .. (WordSize \div 2) - 1

\* The immediates of one instruction: 20 of 32 bits, signed.
ImmHalf == WordSize \div (2 * UpperUnit)
FitsImm(n) == n \in -ImmHalf .. ImmHalf - 1
=============================================================================
