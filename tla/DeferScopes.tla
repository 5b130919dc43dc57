----------------------------- MODULE DeferScopes ----------------------------
(***************************************************************************)
(* How emitter_c compiles defer.  The emitter walks the text of a function *)
(* with a stack of scopes, each with the defer statements met in it so     *)
(* far, and copies the deferred code to the end of the scope and in front  *)
(* of every return, break and continue.                                    *)
(*                                                                         *)
(* The model walks one function and, along with the emission, follows one  *)
(* path of the emitted program: control is at the point of emission, or it *)
(* has jumped (or taken the other branch) and will be back when the scope  *)
(* at depth "skip" is closed.  The emitter does not know about the path:   *)
(* after a return it emits the rest of the text with the same stack.       *)
(*                                                                         *)
(* The body of a lambda is emitted where it is met in the text, and the    *)
(* path either calls it there or does not.  One iteration of each loop is  *)
(* followed: continue leaves it like break.                                *)
(***************************************************************************)
EXTENDS Naturals, Sequences, SequencesExt

CONSTANTS
  MaxDepth,       \* bound on nested scopes
  MaxDefers,      \* bound on defer statements in the function
  LambdaReturns   \* may a lambda contain a return statement?

ASSUME DeferAssumption ==
  /\ MaxDepth \in Nat \ {0}
  /\ MaxDefers \in Nat
  /\ LambdaReturns \in BOOLEAN

VARIABLES
  stack,   \* _defer_scope_stack, outermost first; parent is the one before
  skip,    \* 0: control is here; d: control returns when scope d is closed
  ran,     \* deferred code the path has run
  count    \* defer statements met in this function

vars == <<stack, skip, ran, count>>

Kinds == {"FUNCTION", "LAMBDA", "BLOCK", "LOOP"}
Defers == 1 .. MaxDefers

Depth == Len(stack)

NewScope(k) == [kind |-> k, defers |-> << >>]

(* push_defer_scope; pop_defer_scope drops the last element.               *)
Push(s, k) == Append(s, NewScope(k))

PoppedTwice(s) == SubSeq(s, 1, Len(s) - 2)   \* mutant: one pop too many
Pop(s) == SubSeq(s, 1, Len(s) - 1)

(* emit_scope_defers: rbegin to rend.                                      *)
InOrder(scope) == scope.defers   \* mutant: first registered, first emitted
ScopeDefers(scope) == Reverse(scope.defers)

(* The scopes from the current one out to depth n, each in turn.           *)
EmittedFrom(s, n) ==
  FlattenSeq([i \in 1 .. Len(s) + 1 - n |-> ScopeDefers(s[Len(s) + 1 - i])])

(* emit_all_remaining_defers follows parent to the end.                    *)
Remaining(s) == EmittedFrom(s, 1)

(* find_enclosing_loop_scope: the nearest LOOP scope, 0 when there is none *)
Nearest(s, kinds) ==
  LET here == {n \in DOMAIN s : s[n].kind \in kinds}
  IN IF here = {} THEN 0 ELSE CHOOSE n \in here : \A m \in here : m <= n

EnclosingLoop(s) == Nearest(s, {"LOOP"})

UpToFunction(s) == Remaining(s)   \* mutant: break emits like return
UpToLoop(s) == EmittedFrom(s, EnclosingLoop(s) + 1)

Activation == Nearest(stack, {"FUNCTION", "LAMBDA"})

(* The path runs the emitted code when control is where it is emitted.     *)
Run(code) == ran' = IF skip = 0 THEN ran \o code ELSE ran

(* Control leaves for the end of scope n.                                  *)
JumpTo(n) == skip' = IF skip = 0 THEN n ELSE skip

-----------------------------------------------------------------------------
Init == stack = << >> /\ skip = 0 /\ ran = << >> /\ count = 0

(* visit(fn_c): functions are emitted one after the other.                 *)
Function ==
  /\ stack = << >>
  /\ stack' = Push(stack, "FUNCTION")
  /\ skip' = 0
  /\ ran' = << >>
  /\ count' = 0

(* A block, a loop body or a lambda; the path enters it or passes it by.   *)
Open(k) ==
  /\ stack # << >>
  /\ Depth < MaxDepth
  /\ stack' = Push(stack, k)
  /\ \E taken \in BOOLEAN : IF taken THEN UNCHANGED skip ELSE JumpTo(Depth + 1)
  /\ UNCHANGED <<ran, count>>

Defer ==
  /\ stack # << >>
  /\ count < MaxDefers
  /\ count' = count + 1
  /\ stack' = [stack EXCEPT ![Depth].defers = Append(@, count + 1)]
  /\ UNCHANGED <<skip, ran>>

(* The end of a scope: its defers, and the scope is popped.                *)
Close ==
  /\ stack # << >>
  /\ Run(ScopeDefers(stack[Depth]))
  /\ stack' = Pop(stack)
  /\ skip' = IF skip = Depth THEN 0 ELSE skip
  /\ UNCHANGED count

MayReturn == LambdaReturns \/ stack[Activation].kind = "FUNCTION"

Return ==
  /\ stack # << >>
  /\ MayReturn
  /\ Run(Remaining(stack))
  /\ JumpTo(Activation)
  /\ UNCHANGED <<stack, count>>

(* break and continue.  Outside a loop, or across the border of a lambda,  *)
(* the text is rejected by the type checker or by the C compiler.          *)
BreakOrContinue ==
  /\ stack # << >>
  /\ Nearest(stack, {"LOOP"}) > Activation
  /\ Run(UpToLoop(stack))
  /\ JumpTo(Nearest(stack, {"LOOP"}))
  /\ UNCHANGED <<stack, count>>

(* The panic builtin exits the process, from wherever control is.          *)
Panic ==
  /\ stack # << >>
  /\ JumpTo(1)
  /\ UNCHANGED <<stack, ran, count>>

Next ==
  \/ Function
  \/ \E k \in {"BLOCK", "LOOP", "LAMBDA"} : Open(k)
  \/ Defer
  \/ Close
  \/ Return
  \/ BreakOrContinue
  \/ Panic

Spec == Init /\ [][Next]_vars

-----------------------------------------------------------------------------
TypeOK ==
  /\ stack \in Seq([kind : Kinds, defers : Seq(Defers)])
  /\ Depth <= MaxDepth
  /\ Depth > 0 => stack[1].kind = "FUNCTION"
  /\ skip \in 0 .. Depth
  /\ ran \in Seq(Defers)
  /\ count \in 0 .. MaxDefers

(* The scopes the path is in are those around the point where control will *)
(* be back, and what they owe is what the emitter has met in them.         *)
PathDepth == IF skip = 0 THEN Depth ELSE skip - 1

Owed == UNION {ToSet(stack[n].defers) : n \in 1 .. PathDepth}

(* defer.md: "Defers execute when exiting their declaring scope".  Nothing *)
(* runs while its scope is still open on the path, and nothing runs twice. *)
RunsOnceOnExit ==
  /\ ToSet(ran) \cap Owed = {}
  /\ IsInjective(ran)

(* Those scopes as the language sees them.                                 *)
Path == [n \in 1 .. PathDepth |->
           [kind |-> stack[n].kind, owed |-> stack[n].defers]]

Contract == INSTANCE DeferContract WITH open <- Path

(* The copies the emitter makes are, on every path, the deferred code the  *)
(* language promises to run, in the promised order.                        *)
ImplementsContract == Contract!Spec
=============================================================================
