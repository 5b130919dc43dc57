---------------------------- MODULE MCRuntimeMap ----------------------------
(***************************************************************************)
(* Model checking of MapClient: three texts, one of them under two keys,   *)
(* so that the table grows from 0 to 1, 2 and 4 buckets.  B and C have the *)
(* same hash, A shares a bucket with them until there are 4.               *)
(***************************************************************************)
EXTENDS MapClient, TLC

CONSTANTS k1, k2, k3, k4, textA, textB, textC, n1, n2, n3

MCKeys == {k1, k2, k3, k4}
MCTexts == {textA, textB, textC}
MCNodes == {n1, n2, n3}
MCTextOf == k1 :> textA @@ k2 :> textB @@ k3 :> textC @@ k4 :> textA
MCHashOf == textA :> 0 @@ textB :> 2 @@ textC :> 2
=============================================================================
