---------------------------- MODULE MCEnvironment ---------------------------
(* Model checking of Environment: two threads, one key, two contexts.      *)
EXTENDS Environment
=============================================================================
