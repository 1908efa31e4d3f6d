------------------------------ MODULE MCKernel ------------------------------
(***************************************************************************)
(* Kernel and its inductive invariant for TLC.  The .cfg files give small  *)
(* values to the constants.                                                *)
(***************************************************************************)
EXTENDS KernelInvariant
=============================================================================
