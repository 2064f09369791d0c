------------------------------ MODULE MCKernel ------------------------------
(* The dispatcher with a few handlers, events and packets.                 *)
EXTENDS Kernel
=============================================================================
