------------------------------ MODULE MCConsole ------------------------------
(***************************************************************************)
(* Instances of Console for TLC: ring buffers of a few characters with     *)
(* indices that wrap where the buffer does, as uint8_t and 256 do.         *)
(***************************************************************************)
EXTENDS Console
=============================================================================
