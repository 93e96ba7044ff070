-------------------------- MODULE MCFifoAllocator --------------------------
(* Eight lines instead of 256, with the proportions of the HDAWG: four      *)
(* lines are checked, two recorded, a line is two grains.  Sizes of half a  *)
(* line, a line, one and a half, three and five lines: five waves go around *)
(* the memory more than twice, and the largest run out of addresses.        *)
EXTENDS FifoAllocator
=============================================================================
