------------------------------ MODULE MCMemory ------------------------------
(***************************************************************************)
(* Model checking of Memory on a stack of three contexts.                  *)
(***************************************************************************)
EXTENDS Memory
=============================================================================
