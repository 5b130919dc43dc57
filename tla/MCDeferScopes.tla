---------------------------- MODULE MCDeferScopes ---------------------------
(* Model checking of DeferScopes: every function of up to MaxDepth nested  *)
(* scopes and MaxDefers defer statements, and every path through it.       *)
EXTENDS DeferScopes
=============================================================================
