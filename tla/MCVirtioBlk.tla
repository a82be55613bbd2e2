----------------------------- MODULE MCVirtioBlk -----------------------------
(***************************************************************************)
(* Instances of VirtioBlk for TLC.                                         *)
(***************************************************************************)
EXTENDS VirtioBlk
=============================================================================
