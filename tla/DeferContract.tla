---------------------------- MODULE DeferContract ---------------------------
(***************************************************************************)
(* What docs/language/defer.md promises of deferred code, as seen by one   *)
(* path through a running program.  A scope owes the code that was         *)
(* registered in it.  Leaving a scope runs what it owes, last registered   *)
(* first.  A return leaves every scope of the function or lambda, the      *)
(* innermost first.  break and continue leave the scopes inside the loop,  *)
(* and the loop's own scope without running what it owes.  A panic runs    *)
(* nothing.                                                                *)
(***************************************************************************)
EXTENDS Naturals, Sequences, SequencesExt

CONSTANT Defers   \* the defer statements

VARIABLES
  open,  \* the scopes the path is in, outermost first: [kind, owed]
  ran    \* the deferred code that has run since the function was called

Scope(k) == [kind |-> k, owed |-> << >>]

Depth == Len(open)

Activations == {n \in 1 .. Depth : open[n].kind \in {"FUNCTION", "LAMBDA"}}
Loops == {n \in 1 .. Depth : open[n].kind = "LOOP"}

Last1(S) == CHOOSE n \in S : \A m \in S : m <= n

(* What the scopes from n inwards owe, in the order in which it is to run. *)
Debt(n) ==
  FlattenSeq([i \in 1 .. Depth + 1 - n |-> Reverse(open[Depth + 1 - i].owed)])

LeaveTo(n) == open' = SubSeq(open, 1, n - 1)

-----------------------------------------------------------------------------
Init == open = << >> /\ ran = << >>

Call ==
  /\ open = << >>
  /\ open' = <<Scope("FUNCTION")>>
  /\ ran' = << >>

Enter(k) ==
  /\ open # << >>
  /\ open' = Append(open, Scope(k))
  /\ UNCHANGED ran

Register(d) ==
  /\ open # << >>
  /\ open' = [open EXCEPT ![Depth].owed = Append(@, d)]
  /\ UNCHANGED ran

Leave ==
  /\ open # << >>
  /\ LeaveTo(Depth)
  /\ ran' = ran \o Debt(Depth)

Return ==
  /\ open # << >>
  /\ LeaveTo(Last1(Activations))
  /\ ran' = ran \o Debt(Last1(Activations))

BreakOrContinue ==
  /\ \E n \in Loops : n > Last1(Activations)
  /\ LeaveTo(Last1(Loops))
  /\ ran' = ran \o Debt(Last1(Loops) + 1)

Panic ==
  /\ open # << >>
  /\ open' = << >>
  /\ UNCHANGED ran

Next ==
  \/ Call
  \/ \E k \in {"BLOCK", "LOOP", "LAMBDA"} : Enter(k)
  \/ \E d \in Defers : Register(d)
  \/ Leave
  \/ Return
  \/ BreakOrContinue
  \/ Panic

Spec == Init /\ [][Next]_<<open, ran>>
=============================================================================
