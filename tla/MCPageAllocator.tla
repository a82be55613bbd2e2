--------------------------- MODULE MCPageAllocator ---------------------------
(***************************************************************************)
(* Instances of PageAllocator for TLC: three bytes of three bits, the      *)
(* first of them all kernel pages.                                         *)
(***************************************************************************)
EXTENDS PageAllocator

\* The byte of the code: what the proofs ask of the masks holds for the runs of
\* the drivers.
Byte == INSTANCE PageAllocator WITH ByteBits <- 8, PageNum <- 16, KernelPages <- 8, Runs <- {1, 2}

ASSUME MasksAssumption == MasksSelect /\ Byte!MasksSelect
=============================================================================
