----------------------------- MODULE MCVirtioGpu -----------------------------
(***************************************************************************)
(* An instance of VirtioGpu for TLC: one program on queues of two          *)
(* descriptors, which every command fills, and enough events to use each   *)
(* receive buffer again.                                                   *)
(***************************************************************************)
EXTENDS VirtioGpu
=============================================================================
