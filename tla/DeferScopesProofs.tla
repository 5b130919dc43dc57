-------------------------- MODULE DeferScopesProofs -------------------------
(***************************************************************************)
(* What the emitter makes of defer, for functions of any size: the types,  *)
(* and, while lambdas do not return, that deferred code runs once and when *)
(* its scope is left, and that it is what DeferContract promises.          *)
(*                                                                         *)
(* RunsOnceOnExit is not inductive alone: a return runs what all scopes of *)
(* the stack owe, so that the scopes must owe different things (Distinct), *)
(* and a new defer must not have run before (it is above count).           *)
(***************************************************************************)
EXTENDS DeferScopes, SequenceFacts

Scopes == [kind : Kinds, defers : Seq(Defers)]

(* Only the outermost scope is that of the function.                       *)
Types ==
  /\ TypeOK
  /\ \A n \in DOMAIN stack : n # 1 => stack[n].kind # "FUNCTION"

(* No defer is owed twice, and none that has not been met.                 *)
Distinct(s, c) ==
  /\ \A n \in DOMAIN s : IsInjective(s[n].defers) /\ \A d \in ToSet(s[n].defers) : d <= c
  /\ \A m, n \in DOMAIN s : \A d :
       d \in ToSet(s[m].defers) /\ d \in ToSet(s[n].defers) => m = n

Once ==
  /\ Distinct(stack, count)
  /\ \A d \in ToSet(ran) : d <= count
  /\ RunsOnceOnExit

IInv == Types /\ Once

-----------------------------------------------------------------------------
(* Operators.                                                              *)

LEMMA StackFacts ==
  ASSUME NEW s \in Seq(Scopes)
  PROVE  /\ Len(s) \in Nat /\ DOMAIN s = 1 .. Len(s)
         /\ \A n \in 1 .. Len(s) :
              s[n] \in Scopes /\ s[n].kind \in Kinds /\ s[n].defers \in Seq(Defers)
         /\ \A n \in 1 .. Len(s) :
              s[n] = [kind |-> s[n].kind, defers |-> s[n].defers]
<1>1. Len(s) \in Nat /\ DOMAIN s = 1 .. Len(s) /\ \A n \in 1 .. Len(s) : s[n] \in Scopes
  OBVIOUS
<1>2. \A x \in Scopes : /\ x.kind \in Kinds /\ x.defers \in Seq(Defers)
                        /\ x = [kind |-> x.kind, defers |-> x.defers]
  BY DEF Scopes
<1> QED
  BY <1>1, <1>2

(* A bounded set of naturals has a greatest element.                       *)
LEMMA GreatestExists ==
  ASSUME NEW n \in Nat, NEW X \in SUBSET (1 .. n), X # {}
  PROVE  \E m \in X : \A x \in X : x <= m
<1> DEFINE Y == {n - x : x \in X}
<1>1. Y \in SUBSET Nat /\ Y # {}
  <2>1. \A x \in X : n - x \in Nat
    OBVIOUS
  <2> QED
    BY <2>1
<1>2. PICK y \in Y : \A z \in Y : y <= z
  BY <1>1, LeastExists
<1>3. PICK m \in X : y = n - m
  OBVIOUS
<1>4. ASSUME NEW x \in X PROVE x <= m
  <2>1. n - x \in Y /\ x \in 1 .. n /\ m \in 1 .. n
    OBVIOUS
  <2>2. n - m <= n - x
    BY <1>2, <1>3, <2>1
  <2> QED
    BY <2>1, <2>2
<1> QED
  BY <1>4

LEMMA NearestFacts ==
  ASSUME NEW s \in Seq(Scopes), NEW K
  PROVE  LET n == Nearest(s, K)
         IN \/ n = 0 /\ \A m \in 1 .. Len(s) : s[m].kind \notin K
            \/ /\ n \in 1 .. Len(s) /\ s[n].kind \in K
               /\ \A m \in 1 .. Len(s) : s[m].kind \in K => m <= n
<1> DEFINE here == {n \in DOMAIN s : s[n].kind \in K}
           top(n) == n \in here /\ \A m \in here : m <= n
<1>1. Len(s) \in Nat /\ DOMAIN s = 1 .. Len(s)
  BY StackFacts
<1>2. CASE here = {}
  BY <1>1, <1>2 DEF Nearest
<1>3. CASE here # {}
  <2>1. here \in SUBSET (1 .. Len(s))
    BY <1>1
  <2>2. Nearest(s, K) = CHOOSE n \in here : \A m \in here : m <= n
    BY <1>3 DEF Nearest
  <2> HIDE DEF here
  <2>3. \E n \in here : \A m \in here : m <= n
    BY <1>1, <1>3, <2>1, GreatestExists
  <2>4. Nearest(s, K) \in here /\ \A m \in here : m <= Nearest(s, K)
    BY <2>2, <2>3
  <2> QED
    BY <1>1, <2>4 DEF here
<1> QED
  BY <1>2, <1>3

(* What the emitter copies: the defers of the scopes from n inwards.       *)
LEMMA EmittedFacts ==
  ASSUME NEW s \in Seq(Scopes), NEW n \in 1 .. Len(s) + 1
  PROVE  /\ EmittedFrom(s, n) \in Seq(Defers)
         /\ \A d : d \in ToSet(EmittedFrom(s, n)) <=>
                   \E m \in n .. Len(s) : d \in ToSet(s[m].defers)
         /\ (\E c : Distinct(s, c)) => IsInjective(EmittedFrom(s, n))
<1> DEFINE k == Len(s) + 1 - n
           pieces == [i \in 1 .. k |-> ScopeDefers(s[Len(s) + 1 - i])]
<1>1. /\ Len(s) \in Nat /\ DOMAIN s = 1 .. Len(s) /\ n \in Nat /\ k \in Nat
      /\ \A i \in 1 .. k : Len(s) + 1 - i \in n .. Len(s) /\ Len(s) + 1 - i \in DOMAIN s
      /\ \A m \in n .. Len(s) : Len(s) + 1 - m \in 1 .. k /\ Len(s) + 1 - (Len(s) + 1 - m) = m
      /\ \A m \in DOMAIN s : s[m].defers \in Seq(Defers)
  BY StackFacts
<1>2. ASSUME NEW i \in 1 .. k
      PROVE  /\ pieces[i] = Reverse(s[Len(s) + 1 - i].defers)
             /\ pieces[i] \in Seq(Defers)
             /\ ToSet(pieces[i]) = ToSet(s[Len(s) + 1 - i].defers)
             /\ IsInjective(s[Len(s) + 1 - i].defers) => IsInjective(pieces[i])
  <2> DEFINE t == s[Len(s) + 1 - i].defers
  <2>1. t \in Seq(Defers)
    BY <1>1
  <2>2. pieces[i] = Reverse(t)
    BY DEF ScopeDefers
  <2> HIDE DEF t, pieces
  <2>3. Reverse(t) \in Seq(Defers) /\ ToSet(Reverse(t)) = ToSet(t)
    BY <2>1, ReverseFacts
  <2>4. IsInjective(t) => IsInjective(Reverse(t))
    BY <2>1, ReverseFacts
  <2> QED
    BY <2>2, <2>3, <2>4 DEF t
<1>3. pieces \in Seq(Seq(Defers)) /\ DOMAIN pieces = 1 .. k
  <2>1. pieces = [i \in 1 .. k |-> pieces[i]]
    OBVIOUS
  <2> HIDE DEF pieces, k
  <2>2. \A i \in 1 .. k : pieces[i] \in Seq(Defers)
    BY <1>2
  <2> QED
    BY <1>1, <2>1, <2>2, SequenceOf
<1>4. EmittedFrom(s, n) = FlattenSeq(pieces)
  BY DEF EmittedFrom
<1> HIDE DEF pieces, k
<1>5. ASSUME NEW d
      PROVE  d \in ToSet(EmittedFrom(s, n)) <=> \E m \in n .. Len(s) : d \in ToSet(s[m].defers)
  <2>1. d \in ToSet(EmittedFrom(s, n)) <=> \E i \in 1 .. k : d \in ToSet(pieces[i])
    BY <1>3, <1>4, FlattenMembers
  <2>2. ASSUME NEW m \in n .. Len(s), d \in ToSet(s[m].defers)
        PROVE  \E i \in 1 .. k : d \in ToSet(pieces[i])
    <3>1. Len(s) + 1 - m \in 1 .. k /\ Len(s) + 1 - (Len(s) + 1 - m) = m
      BY <1>1
    <3>2. ToSet(pieces[Len(s) + 1 - m]) = ToSet(s[m].defers)
      BY <1>2, <3>1
    <3> QED
      BY <2>2, <3>1, <3>2
  <2>3. \A i \in 1 .. k : d \in ToSet(pieces[i]) => \E m \in n .. Len(s) : d \in ToSet(s[m].defers)
    BY <1>1, <1>2
  <2> QED
    BY <2>1, <2>2, <2>3
<1>6. ASSUME NEW c, Distinct(s, c) PROVE IsInjective(EmittedFrom(s, n))
  <2>1. \A i \in 1 .. k : IsInjective(pieces[i])
    BY <1>1, <1>2, <1>6 DEF Distinct
  <2>2. ASSUME NEW i \in 1 .. k, NEW j \in 1 .. k, NEW d,
               d \in ToSet(pieces[i]), d \in ToSet(pieces[j])
        PROVE  i = j
    <3>1. /\ d \in ToSet(s[Len(s) + 1 - i].defers) /\ d \in ToSet(s[Len(s) + 1 - j].defers)
          /\ Len(s) + 1 - i \in DOMAIN s /\ Len(s) + 1 - j \in DOMAIN s
      BY <1>1, <1>2, <2>2
    <3>2. Len(s) + 1 - i = Len(s) + 1 - j
      BY <1>6, <3>1 DEF Distinct
    <3> QED
      BY <1>1, <3>2
  <2>3. \A i, j \in 1 .. k : i # j => ToSet(pieces[i]) \cap ToSet(pieces[j]) = {}
    BY <2>2
  <2> QED
    BY <1>3, <1>4, <2>1, <2>3, FlattenInjective
<1>7. EmittedFrom(s, n) \in Seq(Defers)
  BY <1>3, <1>4, FlattenMembers
<1> QED
  BY <1>5, <1>6, <1>7

LEMMA EmittedLast ==
  ASSUME NEW s \in Seq(Scopes), Len(s) # 0
  PROVE  EmittedFrom(s, Len(s)) = ScopeDefers(s[Len(s)])
<1> DEFINE t == ScopeDefers(s[Len(s)])
           pieces == [i \in 1 .. Len(s) + 1 - Len(s) |-> ScopeDefers(s[Len(s) + 1 - i])]
<1>1. Len(s) \in Nat /\ Len(s) + 1 - Len(s) = 1 /\ Len(s) + 1 - 1 = Len(s)
  OBVIOUS
<1>2. pieces = <<t>>
  BY <1>1
<1>3. EmittedFrom(s, Len(s)) = FlattenSeq(pieces)
  BY DEF EmittedFrom
<1> HIDE DEF pieces, t
<1>4. FlattenSeq(<<t>>) = t
  BY DEF FlattenSeq
<1> QED
  BY <1>2, <1>3, <1>4 DEF t

-----------------------------------------------------------------------------
(* The types, whatever lambdas do.                                         *)

LEMMA NewScopeFacts ==
  ASSUME NEW k \in Kinds
  PROVE  /\ NewScope(k) \in Scopes /\ NewScope(k).kind = k
         /\ NewScope(k).defers = << >> /\ ToSet(NewScope(k).defers) = {}
         /\ IsInjective(NewScope(k).defers)
<1>1. << >> \in Seq(Defers) /\ DOMAIN << >> = {}
  OBVIOUS
<1>2. ToSet(<< >>) = {} /\ IsInjective(<< >>)
  BY <1>1 DEF ToSet, IsInjective
<1> QED
  BY <1>1, <1>2 DEF NewScope, Scopes

LEMMA PushFacts ==
  ASSUME NEW s \in Seq(Scopes), NEW k \in Kinds
  PROVE  /\ Push(s, k) \in Seq(Scopes) /\ Len(Push(s, k)) = Len(s) + 1
         /\ Push(s, k)[Len(s) + 1] = NewScope(k)
         /\ \A n \in 1 .. Len(s) : Push(s, k)[n] = s[n]
BY NewScopeFacts DEF Push

LEMMA PopFacts ==
  ASSUME NEW s \in Seq(Scopes), Len(s) # 0
  PROVE  /\ Pop(s) \in Seq(Scopes) /\ Len(Pop(s)) = Len(s) - 1
         /\ \A n \in 1 .. Len(s) - 1 : Pop(s)[n] = s[n]
<1> DEFINE n == Len(s) - 1
<1>1. n \in Nat /\ n <= Len(s) /\ \A i \in 1 .. n : i \in 1 .. Len(s) /\ s[i] \in Scopes
  OBVIOUS
<1>2. Pop(s) = [i \in 1 .. n |-> s[i]]
  BY <1>1 DEF Pop
<1> HIDE DEF n
<1>3. \A i \in 1 .. n : Pop(s)[i] = s[i]
  BY <1>2
<1>4. Pop(s) = [i \in 1 .. n |-> Pop(s)[i]] /\ \A i \in 1 .. n : Pop(s)[i] \in Scopes
  BY <1>1, <1>2, <1>3
<1>5. Pop(s) \in Seq(Scopes) /\ Len(Pop(s)) = n
  BY <1>1, <1>4, SequenceOf
<1> QED
  BY <1>3, <1>5 DEF n

(* The current scope with one more defer.                                  *)
Registered(s, d) == [s EXCEPT ![Len(s)].defers = Append(@, d)]

LEMMA DeferFacts ==
  ASSUME NEW s \in Seq(Scopes), Len(s) # 0, NEW d \in Defers
  PROVE  /\ Registered(s, d) \in Seq(Scopes) /\ Len(Registered(s, d)) = Len(s)
         /\ Registered(s, d)[Len(s)].defers = Append(s[Len(s)].defers, d)
         /\ Registered(s, d)[Len(s)].kind = s[Len(s)].kind
         /\ \A n \in 1 .. Len(s) - 1 : Registered(s, d)[n] = s[n]
<1> DEFINE t == Registered(s, d)
           top == s[Len(s)]
           new == [kind |-> top.kind, defers |-> Append(top.defers, d)]
<1>1. Len(s) \in Nat /\ Len(s) \in 1 .. Len(s) /\ DOMAIN s = 1 .. Len(s)
  OBVIOUS
<1>2. /\ top \in Scopes /\ top.kind \in Kinds /\ top.defers \in Seq(Defers)
      /\ top = [kind |-> top.kind, defers |-> top.defers]
  BY <1>1, StackFacts
<1>3. new \in Scopes
  BY <1>2 DEF Scopes
<1>4. t = [s EXCEPT ![Len(s)] = new]
  <2>1. [top EXCEPT !.defers = Append(top.defers, d)] = new
    <3>1. PICK k \in Kinds, ds \in Seq(Defers) : top = [kind |-> k, defers |-> ds]
      BY <1>2
    <3>2. top.kind = k /\ top.defers = ds
      BY <3>1
    <3> DEFINE more == Append(ds, d)
    <3>3. new = [kind |-> k, defers |-> more] /\ Append(top.defers, d) = more
      BY <3>2
    <3> HIDE DEF top, more, new
    <3>4. [[kind |-> k, defers |-> ds] EXCEPT !.defers = more] = [kind |-> k, defers |-> more]
      OBVIOUS
    <3> QED
      BY <3>1, <3>3, <3>4
  <2>2. t = [s EXCEPT ![Len(s)] = [top EXCEPT !.defers = Append(top.defers, d)]]
    BY DEF Registered
  <2> QED
    BY <2>1, <2>2
<1>5. new.defers = Append(top.defers, d) /\ new.kind = top.kind
  OBVIOUS
<1> HIDE DEF new
<1> DEFINE u == [s EXCEPT ![Len(s)] = new]
<1>6. u \in Seq(Scopes) /\ Len(u) = Len(s)
  BY <1>1, <1>3
<1>7. u[Len(s)] = new /\ \A n \in 1 .. Len(s) - 1 : u[n] = s[n]
  <2> DEFINE k == Len(s)
  <2>0. k \in Nat /\ DOMAIN s = 1 .. k
    BY <1>1
  <2> HIDE DEF k
  <2>2. \A n \in 1 .. k - 1 : n \in 1 .. k /\ n # k
    BY <2>0
  <2>1. \A n \in 1 .. Len(s) - 1 : n \in DOMAIN s /\ n # Len(s)
    BY <2>0, <2>2 DEF k
  <2> QED
    BY <1>1, <2>1
<1> HIDE DEF u, t
<1>8. t = u
  BY <1>4 DEF u
<1> QED
  BY <1>5, <1>6, <1>7, <1>8 DEF t

LEMMA TypesFacts ==
  ASSUME Types
  PROVE  /\ stack \in Seq(Scopes) /\ Depth \in Nat /\ DOMAIN stack = 1 .. Depth
         /\ \A n \in 1 .. Depth : stack[n].kind \in Kinds /\ stack[n].defers \in Seq(Defers)
         /\ skip \in 0 .. Depth /\ count \in Nat /\ ran \in Seq(Defers)
         /\ Depth <= MaxDepth
         /\ (stack = << >> <=> Depth = 0)
<1>1. stack \in Seq(Scopes)
  BY DEF Types, TypeOK, Scopes
<1>2. /\ Depth \in Nat /\ DOMAIN stack = 1 .. Depth
      /\ \A n \in 1 .. Depth : stack[n].kind \in Kinds /\ stack[n].defers \in Seq(Defers)
  BY <1>1, StackFacts DEF Depth
<1>3. stack = << >> <=> Depth = 0
  BY <1>1 DEF Depth
<1> QED
  BY <1>1, <1>2, <1>3, DeferAssumption DEF Types, TypeOK

(* What a step runs is a sequence of defers.                               *)
LEMMA RunTypes ==
  ASSUME ran \in Seq(Defers), NEW code \in Seq(Defers), Run(code)
  PROVE  ran' \in Seq(Defers)
BY DEF Run

LEMMA TypesNext ==
  ASSUME stack' \in Seq(Scopes), Len(stack') <= MaxDepth,
         Len(stack') > 0 => stack'[1].kind = "FUNCTION",
         \A n \in 1 .. Len(stack') : n # 1 => stack'[n].kind # "FUNCTION",
         skip' \in 0 .. Len(stack'), ran' \in Seq(Defers), count' \in 0 .. MaxDefers
  PROVE  Types'
<1>1. DOMAIN stack' = 1 .. Len(stack')
  OBVIOUS
<1> QED
  BY <1>1 DEF Types, TypeOK, Depth, Scopes

LEMMA InitTypes == Init => Types
<1> SUFFICES ASSUME Init PROVE Types
  OBVIOUS
<1>1. stack = << >> /\ << >> \in Seq(Scopes) /\ Len(<< >>) = 0 /\ DOMAIN << >> = {}
  BY DEF Init
<1>2. << >> \in Seq(Defers)
  OBVIOUS
<1> QED
  BY <1>1, <1>2, DeferAssumption DEF Init, Types, TypeOK, Depth, Scopes

LEMMA FunctionTypes == Types /\ Function => Types'
<1> SUFFICES ASSUME Types, Function PROVE Types'
  OBVIOUS
<1>1. /\ stack = << >> /\ stack' = Push(stack, "FUNCTION")
      /\ skip' = 0 /\ ran' = << >> /\ count' = 0
  BY DEF Function
<1>2. stack \in Seq(Scopes) /\ Len(stack) = 0 /\ "FUNCTION" \in Kinds
  BY <1>1, TypesFacts DEF Kinds
<1>3. stack' \in Seq(Scopes) /\ Len(stack') = 1 /\ stack'[1] = NewScope("FUNCTION")
  <2> DEFINE t == Push(stack, "FUNCTION")
  <2>1. t \in Seq(Scopes) /\ Len(t) = Len(stack) + 1 /\ t[Len(stack) + 1] = NewScope("FUNCTION")
    BY <1>2, PushFacts
  <2>2. stack' = t
    BY <1>1
  <2> HIDE DEF t
  <2> QED
    BY <1>2, <2>1, <2>2
<1>4. stack'[1].kind = "FUNCTION"
  BY <1>2, <1>3, NewScopeFacts
<1>5. << >> \in Seq(Defers) /\ skip' \in 0 .. 1 /\ count' \in 0 .. MaxDefers /\ 1 <= MaxDepth
  BY <1>1, DeferAssumption
<1>6. \A n \in 1 .. 1 : n = 1
  OBVIOUS
<1> QED
  BY <1>1, <1>3, <1>4, <1>5, <1>6, TypesNext

LEMMA OpenTypes ==
  ASSUME Types, NEW k \in {"BLOCK", "LOOP", "LAMBDA"}, Open(k)
  PROVE  Types'
<1>1. /\ stack # << >> /\ Depth < MaxDepth /\ stack' = Push(stack, k)
      /\ skip' = skip \/ skip' = (IF skip = 0 THEN Depth + 1 ELSE skip)
      /\ UNCHANGED <<ran, count>>
  BY DEF Open, JumpTo
<1>2. /\ stack \in Seq(Scopes) /\ Depth \in Nat /\ Depth # 0 /\ Depth = Len(stack)
      /\ k \in Kinds /\ k # "FUNCTION" /\ skip \in 0 .. Depth
  BY <1>1, TypesFacts DEF Kinds, Depth
<1>3. /\ stack' \in Seq(Scopes) /\ Depth' = Depth + 1
      /\ stack'[Depth + 1] = NewScope(k) /\ NewScope(k).kind = k
      /\ \A n \in 1 .. Depth : stack'[n] = stack[n]
  BY <1>1, <1>2, PushFacts, NewScopeFacts DEF Depth
<1>4. DOMAIN stack' = 1 .. Depth + 1
  BY <1>3 DEF Depth
<1>5. Depth' <= MaxDepth /\ skip' \in 0 .. Depth'
  BY <1>1, <1>2, <1>3, DeferAssumption
<1>6. \A n \in DOMAIN stack' : n # 1 => stack'[n].kind # "FUNCTION"
  <2>1. \A n \in 1 .. Depth + 1 : n \in 1 .. Depth \/ n = Depth + 1
    BY <1>2
  <2> QED
    BY <1>2, <1>3, <1>4, <2>1, TypesFacts DEF Types
<1>7. stack'[1].kind = "FUNCTION"
  BY <1>2, <1>3 DEF Types, TypeOK
<1> QED
  BY <1>1, <1>3, <1>5, <1>6, <1>7 DEF Types, TypeOK, Scopes

LEMMA DeferTypes == Types /\ Defer => Types'
<1> SUFFICES ASSUME Types, Defer PROVE Types'
  OBVIOUS
<1> DEFINE d == count + 1
<1>1. /\ stack # << >> /\ count < MaxDefers /\ count' = d
      /\ stack' = Registered(stack, d) /\ UNCHANGED <<skip, ran>>
  BY DEF Defer, Depth, Registered
<1>2. /\ stack \in Seq(Scopes) /\ Depth \in Nat /\ Depth # 0 /\ Depth = Len(stack)
      /\ d \in Defers /\ d \in 0 .. MaxDefers /\ DOMAIN stack = 1 .. Depth
  BY <1>1, TypesFacts, DeferAssumption DEF Depth, Defers
<1> HIDE DEF d
<1>3. /\ stack' \in Seq(Scopes) /\ Depth' = Depth
      /\ stack'[Depth].kind = stack[Depth].kind
      /\ \A n \in 1 .. Depth - 1 : stack'[n] = stack[n]
  <2>1. Len(stack) # 0
    BY <1>2
  <2>2. /\ stack' \in Seq(Scopes) /\ Len(stack') = Len(stack)
        /\ stack'[Len(stack)].kind = stack[Len(stack)].kind
        /\ \A n \in 1 .. Len(stack) - 1 : stack'[n] = stack[n]
    BY <1>1, <1>2, <2>1, DeferFacts
  <2> QED
    BY <2>2 DEF Depth
<1>4. \A n \in 1 .. Depth : stack'[n].kind = stack[n].kind
  <2>1. \A n \in 1 .. Depth : n \in 1 .. Depth - 1 \/ n = Depth
    BY <1>2
  <2> QED
    BY <1>3, <2>1
<1>5. DOMAIN stack' = 1 .. Depth /\ 1 \in 1 .. Depth
  BY <1>2, <1>3 DEF Depth
<1> QED
  BY <1>1, <1>2, <1>3, <1>4, <1>5 DEF Types, TypeOK, Scopes

LEMMA CloseTypes == Types /\ Close => Types'
<1> SUFFICES ASSUME Types, Close PROVE Types'
  OBVIOUS
<1>1. /\ stack # << >> /\ Run(ScopeDefers(stack[Depth])) /\ stack' = Pop(stack)
      /\ skip' = (IF skip = Depth THEN 0 ELSE skip) /\ count' = count
  BY DEF Close
<1>2. /\ stack \in Seq(Scopes) /\ Depth \in Nat /\ Depth # 0 /\ Depth = Len(stack)
      /\ skip \in 0 .. Depth /\ DOMAIN stack = 1 .. Depth /\ Depth <= MaxDepth
      /\ stack[Depth].defers \in Seq(Defers) /\ ran \in Seq(Defers)
  BY <1>1, TypesFacts DEF Depth
<1>3. /\ stack' \in Seq(Scopes) /\ Depth' = Depth - 1
      /\ \A n \in 1 .. Depth - 1 : stack'[n] = stack[n]
  BY <1>1, <1>2, PopFacts DEF Depth
<1>4. skip' \in 0 .. Depth'
  BY <1>1, <1>2, <1>3
<1>5. ScopeDefers(stack[Depth]) \in Seq(Defers)
  BY <1>2, ReverseFacts DEF ScopeDefers
<1>6. ran' \in Seq(Defers)
  BY <1>1, <1>2, <1>5, RunTypes
<1>7. Depth' <= MaxDepth /\ Depth' \in Nat
  BY <1>2, <1>3, DeferAssumption
<1>8. Depth' > 0 => stack'[1].kind = "FUNCTION"
  <2>1. Depth' > 0 => 1 \in 1 .. Depth - 1 /\ Depth > 0
    BY <1>2, <1>3
  <2> QED
    BY <1>3, <2>1 DEF Types, TypeOK
<1>9. \A n \in 1 .. Depth' : n # 1 => stack'[n].kind # "FUNCTION"
  <2>1. \A n \in 1 .. Depth' : n \in 1 .. Depth - 1 /\ n \in 1 .. Depth
    BY <1>2, <1>3
  <2> QED
    BY <1>2, <1>3, <2>1 DEF Types
<1>10. count' \in 0 .. MaxDefers
  BY <1>1 DEF Types, TypeOK
<1> QED
  BY <1>3, <1>4, <1>6, <1>7, <1>8, <1>9, <1>10, TypesNext DEF Depth

(* A jump runs defers and leaves the stack.                                *)
LEMMA JumpTypes ==
  ASSUME Types, NEW n \in 1 .. Depth, JumpTo(n), NEW m \in 1 .. Depth + 1,
         Run(EmittedFrom(stack, m)), UNCHANGED <<stack, count>>
  PROVE  Types'
<1>1. skip' \in 0 .. Depth
  BY TypesFacts DEF JumpTo
<1>2. EmittedFrom(stack, m) \in Seq(Defers)
  BY TypesFacts, EmittedFacts DEF Depth
<1>3. ran' \in Seq(Defers)
  BY <1>2, TypesFacts, RunTypes
<1> QED
  BY <1>1, <1>3 DEF Types, TypeOK, Depth

(* Where jumps go.                                                         *)
LEMMA Places ==
  ASSUME Types, stack # << >>
  PROVE  /\ Activation \in 1 .. Depth
         /\ stack[Activation].kind \in {"FUNCTION", "LAMBDA"}
         /\ \A n \in 1 .. Depth : stack[n].kind \in {"FUNCTION", "LAMBDA"} => n <= Activation
         /\ stack[Activation].kind = "FUNCTION" => Activation = 1
<1>1. stack \in Seq(Scopes) /\ Depth \in Nat \ {0} /\ DOMAIN stack = 1 .. Depth
  BY TypesFacts
<1>2. stack[1].kind = "FUNCTION"
  BY <1>1 DEF Types, TypeOK
<1> QED
  BY <1>1, <1>2, NearestFacts DEF Activation, Depth, Types

LEMMA LoopPlace ==
  ASSUME Types, stack # << >>, Nearest(stack, {"LOOP"}) > Activation
  PROVE  /\ Nearest(stack, {"LOOP"}) \in 1 .. Depth
         /\ stack[Nearest(stack, {"LOOP"})].kind = "LOOP"
         /\ \A n \in 1 .. Depth : stack[n].kind = "LOOP" => n <= Nearest(stack, {"LOOP"})
<1>1. stack \in Seq(Scopes) /\ Activation \in 1 .. Depth /\ Depth = Len(stack) /\ Depth \in Nat
  BY TypesFacts, Places DEF Depth
<1>2. Nearest(stack, {"LOOP"}) # 0
  BY <1>1
<1> QED
  BY <1>1, <1>2, NearestFacts

LEMMA NextTypes == Types /\ [Next]_vars => Types'
<1> SUFFICES ASSUME Types, [Next]_vars PROVE Types'
  OBVIOUS
<1>1. CASE Function
  BY <1>1, FunctionTypes
<1>2. ASSUME NEW k \in {"BLOCK", "LOOP", "LAMBDA"}, Open(k) PROVE Types'
  BY <1>2, OpenTypes
<1>3. CASE Defer
  BY <1>3, DeferTypes
<1>4. CASE Close
  BY <1>4, CloseTypes
<1>5. CASE Return
  <2>1. /\ stack # << >> /\ JumpTo(Activation) /\ Run(EmittedFrom(stack, 1))
        /\ UNCHANGED <<stack, count>>
    BY <1>5 DEF Return, Remaining
  <2>2. Activation \in 1 .. Depth /\ 1 \in 1 .. Depth + 1
    BY <2>1, Places, TypesFacts
  <2> QED
    BY <2>1, <2>2, JumpTypes
<1>6. CASE BreakOrContinue
  <2> DEFINE n == Nearest(stack, {"LOOP"})
  <2>1. /\ stack # << >> /\ JumpTo(n) /\ Run(EmittedFrom(stack, n + 1)) /\ n > Activation
        /\ UNCHANGED <<stack, count>>
    BY <1>6 DEF BreakOrContinue, UpToLoop, EnclosingLoop
  <2>2. n \in 1 .. Depth
    BY <2>1, LoopPlace
  <2> HIDE DEF n
  <2>3. n + 1 \in 1 .. Depth + 1
    BY <2>2, TypesFacts
  <2> QED
    BY <2>1, <2>2, <2>3, JumpTypes
<1>7. CASE Panic
  <2>1. stack # << >> /\ JumpTo(1) /\ UNCHANGED <<stack, ran, count>>
    BY <1>7 DEF Panic
  <2>2. skip' \in 0 .. Depth
    BY <2>1, TypesFacts DEF JumpTo
  <2> QED
    BY <2>1, <2>2 DEF Types, TypeOK, Depth
<1>8. CASE UNCHANGED vars
  BY <1>8 DEF vars, Types, TypeOK, Depth
<1> QED
  BY <1>1, <1>2, <1>3, <1>4, <1>5, <1>6, <1>7, <1>8 DEF Next

(* TypeOK: the stack holds the scopes around the point of emission, the    *)
(* function outermost, and control will be back at one of them.            *)
THEOREM DeferTyping == Spec => []TypeOK
<1>1. Types => TypeOK
  BY DEF Types
<1> QED
  BY <1>1, InitTypes, NextTypes, PTL DEF Spec

-----------------------------------------------------------------------------
(* Deferred code runs once, while lambdas do not return.                   *)

LEMMA DistinctFacts ==
  ASSUME Types, Once
  PROVE  /\ \A n \in 1 .. Depth : IsInjective(stack[n].defers)
         /\ \A n \in 1 .. Depth : \A d \in ToSet(stack[n].defers) : d <= count
         /\ \A m, n \in 1 .. Depth : \A d :
              d \in ToSet(stack[m].defers) /\ d \in ToSet(stack[n].defers) => m = n
BY TypesFacts DEF Once, Distinct

LEMMA EmptyOnce ==
  /\ << >> \in Seq(Defers) /\ ToSet(<< >>) = {} /\ IsInjective(<< >>)
<1>1. DOMAIN << >> = {} /\ << >> \in Seq(Defers)
  OBVIOUS
<1> QED
  BY <1>1 DEF ToSet, IsInjective

LEMMA InitOnce == Init => Once
<1> SUFFICES ASSUME Init PROVE Once
  OBVIOUS
<1>1. stack = << >> /\ DOMAIN << >> = {} /\ Len(<< >>) = 0 /\ ran = << >> /\ skip = 0
  BY DEF Init
<1>2. Distinct(stack, count)
  BY <1>1 DEF Distinct
<1>3. ToSet(ran) = {} /\ IsInjective(ran)
  BY <1>1, EmptyOnce
<1> QED
  BY <1>2, <1>3 DEF Once, RunsOnceOnExit

LEMMA FunctionOnce ==
  ASSUME Types, Types', Function
  PROVE  Once'
<1>1. /\ Depth = 0 /\ stack \in Seq(Scopes) /\ stack' = Push(stack, "FUNCTION")
      /\ skip' = 0 /\ ran' = << >> /\ "FUNCTION" \in Kinds
  BY TypesFacts DEF Function, Kinds
<1>2. Len(stack') = 1 /\ stack'[1] = NewScope("FUNCTION") /\ stack' \in Seq(Scopes)
  <2> DEFINE t == Push(stack, "FUNCTION")
  <2>1. t \in Seq(Scopes) /\ Len(t) = Len(stack) + 1 /\ t[Len(stack) + 1] = NewScope("FUNCTION")
    BY <1>1, PushFacts
  <2>2. stack' = t /\ Len(stack) = 0
    BY <1>1 DEF Depth
  <2> HIDE DEF t
  <2> QED
    BY <2>1, <2>2
<1>3. DOMAIN stack' = {1} /\ ToSet(stack'[1].defers) = {} /\ IsInjective(stack'[1].defers)
  <2>1. DOMAIN stack' = 1 .. 1 /\ 1 .. 1 = {1}
    BY <1>2
  <2>2. ToSet(NewScope("FUNCTION").defers) = {} /\ IsInjective(NewScope("FUNCTION").defers)
    BY <1>1, NewScopeFacts
  <2> QED
    BY <1>2, <2>1, <2>2, Zenon
<1>4. Distinct(stack', count')
  BY <1>3 DEF Distinct
<1>5. ToSet(ran') = {} /\ IsInjective(ran')
  BY <1>1, EmptyOnce
<1> QED
  BY <1>4, <1>5 DEF Once, RunsOnceOnExit

LEMMA OpenOnce ==
  ASSUME Types, Once, NEW k \in {"BLOCK", "LOOP", "LAMBDA"}, Open(k)
  PROVE  Once'
<1>1. /\ Depth # 0 /\ Depth = Len(stack) /\ Depth \in Nat /\ skip \in 0 .. Depth
      /\ stack \in Seq(Scopes) /\ stack' = Push(stack, k) /\ k \in Kinds
      /\ skip' = skip \/ skip' = (IF skip = 0 THEN Depth + 1 ELSE skip)
      /\ UNCHANGED <<ran, count>>
  BY TypesFacts DEF Open, JumpTo, Kinds, Depth
<1>2. /\ stack' \in Seq(Scopes) /\ Depth' = Depth + 1
      /\ stack'[Depth + 1] = NewScope(k)
      /\ \A n \in 1 .. Depth : stack'[n] = stack[n]
  BY <1>1, PushFacts DEF Depth
<1>3. DOMAIN stack' = 1 .. Depth + 1 /\ \A n \in 1 .. Depth + 1 : n \in 1 .. Depth \/ n = Depth + 1
  BY <1>1, <1>2 DEF Depth
<1>4. ToSet(stack'[Depth + 1].defers) = {} /\ IsInjective(stack'[Depth + 1].defers)
  BY <1>1, <1>2, NewScopeFacts
<1>5. Distinct(stack', count')
  BY <1>1, <1>2, <1>3, <1>4, DistinctFacts, ZenonT(30) DEF Distinct
<1>6. Owed' \subseteq Owed
  <2> SUFFICES ASSUME NEW n \in 1 .. PathDepth', NEW d \in ToSet(stack'[n].defers)
               PROVE  d \in Owed
    BY DEF Owed
  <2>1. PathDepth' <= Depth + 1 /\ (skip # 0 => PathDepth' = PathDepth)
    BY <1>1, <1>2 DEF PathDepth
  <2>2. n \in 1 .. Depth + 1 /\ n # Depth + 1 /\ PathDepth' \in Int
    BY <1>1, <1>2, <1>4, <2>1 DEF PathDepth
  <2>3. n \in 1 .. PathDepth /\ n \in 1 .. Depth
    BY <1>1, <2>1, <2>2 DEF PathDepth
  <2> QED
    BY <1>2, <2>3 DEF Owed
<1> QED
  BY <1>1, <1>5, <1>6 DEF Once, RunsOnceOnExit

LEMMA DeferOnce ==
  ASSUME Types, Once, Defer
  PROVE  Once'
<1> DEFINE d == count + 1
<1>1. /\ Depth # 0 /\ Depth = Len(stack) /\ Depth \in Nat /\ skip \in 0 .. Depth
      /\ stack \in Seq(Scopes) /\ stack' = Registered(stack, d) /\ d \in Defers
      /\ count' = d /\ UNCHANGED <<skip, ran>> /\ count \in Nat
  BY TypesFacts, DeferAssumption DEF Defer, Defers, Depth, Registered
<1>2. d \notin ToSet(ran) /\ \A n \in 1 .. Depth : d \notin ToSet(stack[n].defers)
  <2>1. ~(d <= count)
    BY <1>1
  <2> HIDE DEF d
  <2> QED
    BY <2>1, DistinctFacts DEF Once
<1>3. \A e \in Nat : e <= count => e <= d
  BY <1>1
<1> HIDE DEF d
<1>4. /\ stack' \in Seq(Scopes) /\ Len(stack') = Len(stack)
      /\ stack'[Len(stack)].defers = Append(stack[Len(stack)].defers, d)
      /\ \A n \in 1 .. Len(stack) - 1 : stack'[n] = stack[n]
  BY <1>1, DeferFacts
<1>5. stack[Depth].defers \in Seq(Defers) /\ Depth \in 1 .. Depth
  BY <1>1, TypesFacts
<1>6. /\ ToSet(stack'[Depth].defers) = ToSet(stack[Depth].defers) \cup {d}
      /\ IsInjective(stack'[Depth].defers)
  <2> DEFINE t == stack[Depth].defers
  <2>1. t \in Seq(Defers) /\ IsInjective(t) /\ d \notin ToSet(t)
    BY <1>2, <1>5, DistinctFacts
  <2>2. stack'[Depth].defers = Append(t, d)
    BY <1>1, <1>4
  <2> HIDE DEF t
  <2>3. ToSet(Append(t, d)) = ToSet(t) \cup {d} /\ IsInjective(Append(t, d))
    BY <1>1, <2>1, AppendFacts
  <2> QED
    BY <2>2, <2>3 DEF t
<1>7. \A n \in 1 .. Depth : n # Depth => stack'[n] = stack[n]
  <2>1. \A n \in 1 .. Depth : n # Depth => n \in 1 .. Len(stack) - 1
    BY <1>1
  <2> QED
    BY <1>4, <2>1
<1>8. \A n \in 1 .. Depth : ToSet(stack'[n].defers) \subseteq ToSet(stack[n].defers) \cup {d}
  BY <1>6, <1>7
<1>9. \A n \in 1 .. Depth : d \in ToSet(stack'[n].defers) => n = Depth
  BY <1>2, <1>7
<1>10. DOMAIN stack' = 1 .. Depth
  BY <1>1, <1>4 DEF Depth
<1>11. Distinct(stack', count')
  <2>1. \A n \in 1 .. Depth : IsInjective(stack'[n].defers)
    BY <1>6, <1>7, DistinctFacts
  <2>2. \A n \in 1 .. Depth : \A e \in ToSet(stack'[n].defers) : e <= d
    <3>1. \A n \in 1 .. Depth : \A e \in ToSet(stack[n].defers) : e \in Nat /\ e <= count
      <4>1. \A n \in 1 .. Depth : ToSet(stack[n].defers) \subseteq Defers
        BY TypesFacts DEF ToSet
      <4> QED
        BY <4>1, DistinctFacts DEF Defers
    <3>2. d \in Nat /\ d <= d
      BY <1>1 DEF Defers
    <3> QED
      BY <1>3, <1>8, <3>1, <3>2
  <2>3. \A m, n \in 1 .. Depth : \A e :
          e \in ToSet(stack'[m].defers) /\ e \in ToSet(stack'[n].defers) => m = n
    BY <1>8, <1>9, DistinctFacts
  <2> QED
    BY <1>1, <1>10, <2>1, <2>2, <2>3 DEF Distinct
<1>12. Owed' \subseteq Owed \cup {d}
  <2>1. PathDepth' = PathDepth /\ \A n \in 1 .. PathDepth : n \in 1 .. Depth
    BY <1>1, <1>4 DEF PathDepth, Depth
  <2> QED
    BY <1>8, <2>1 DEF Owed
<1>13. \A e \in ToSet(ran') : e <= count'
  <2>1. ToSet(ran) \subseteq Defers
    BY TypesFacts DEF ToSet
  <2>2. \A e \in ToSet(ran) : e \in Nat /\ e <= count
    BY <2>1 DEF Once, Defers
  <2> QED
    BY <1>1, <1>3, <2>2
<1> QED
  BY <1>1, <1>2, <1>11, <1>12, <1>13 DEF Once, RunsOnceOnExit

(* Running what the scopes from m inwards owe.                             *)
LEMMA RunEmitted ==
  ASSUME Types, Once, skip = 0, NEW m \in 1 .. Depth + 1, ran' = ran \o EmittedFrom(stack, m)
  PROVE  /\ IsInjective(ran')
         /\ \A d : d \in ToSet(ran') <=>
                   \/ d \in ToSet(ran)
                   \/ \E n \in m .. Depth : d \in ToSet(stack[n].defers)
<1> DEFINE code == EmittedFrom(stack, m)
<1>1. /\ stack \in Seq(Scopes) /\ Depth = Len(stack) /\ Depth \in Nat /\ ran \in Seq(Defers)
      /\ m \in 1 .. Len(stack) + 1
  BY TypesFacts DEF Depth
<1>2. code \in Seq(Defers)
  BY <1>1, EmittedFacts
<1>3. \A d : d \in ToSet(code) <=> \E n \in m .. Depth : d \in ToSet(stack[n].defers)
  BY <1>1, EmittedFacts
<1>4. IsInjective(code)
  BY <1>1, EmittedFacts DEF Once
<1> HIDE DEF code
<1>5. IsInjective(ran) /\ ToSet(ran) \cap ToSet(code) = {}
  <2>1. \A n \in m .. Depth : n \in 1 .. PathDepth
    BY <1>1 DEF PathDepth
  <2>2. ToSet(code) \subseteq Owed
    BY <1>3, <2>1 DEF Owed
  <2> QED
    BY <2>2 DEF Once, RunsOnceOnExit
<1>6. IsInjective(ran \o code) /\ ToSet(ran \o code) = ToSet(ran) \cup ToSet(code)
  BY <1>1, <1>2, <1>4, <1>5, ConcatInjective, ConcatMembers
<1> QED
  BY <1>3, <1>6 DEF code

(* Leaving the scopes from n inwards and running what those from m owe.    *)
LEMMA LeaveOnce ==
  ASSUME Types, Once, NEW m \in 1 .. Depth + 1, NEW n \in 1 .. m, Run(EmittedFrom(stack, m)),
         count' = count, skip = 0 => PathDepth' = n - 1,
         skip # 0 => PathDepth' = PathDepth,
         Distinct(stack', count), \A i \in 1 .. PathDepth' : stack'[i] = stack[i]
  PROVE  Once'
<1>0. Depth \in Nat /\ skip \in 0 .. Depth /\ ran \in Seq(Defers)
  BY TypesFacts
<1>1. CASE skip = 0
  <2>1. /\ ran' = ran \o EmittedFrom(stack, m) /\ PathDepth = Depth
    BY <1>1 DEF Run, PathDepth
  <2>2. /\ IsInjective(ran')
        /\ \A d : d \in ToSet(ran') <=>
                  \/ d \in ToSet(ran)
                  \/ \E i \in m .. Depth : d \in ToSet(stack[i].defers)
    BY <1>1, <2>1, RunEmitted
  <2>3. \A d \in ToSet(ran') : d <= count'
    <3>1. \A i \in m .. Depth : i \in 1 .. Depth
      BY <1>0
    <3> QED
      BY <2>2, <3>1, DistinctFacts DEF Once
  <2>4. ToSet(ran') \cap Owed' = {}
    <3> SUFFICES ASSUME NEW i \in 1 .. PathDepth', NEW d \in ToSet(stack'[i].defers)
                 PROVE  d \notin ToSet(ran')
      BY DEF Owed
    <3>1. i \in 1 .. Depth /\ \A j \in m .. Depth : j \in 1 .. Depth /\ j # i
      BY <1>0, <1>1
    <3>2. d \in ToSet(stack[i].defers)
      OBVIOUS
    <3>3. d \notin ToSet(ran)
      BY <2>1, <3>1, <3>2 DEF Once, RunsOnceOnExit, Owed
    <3> QED
      BY <2>2, <3>1, <3>2, <3>3, DistinctFacts
  <2> QED
    BY <2>2, <2>3, <2>4 DEF Once, RunsOnceOnExit
<1>2. CASE skip # 0
  <2>1. ran' = ran
    BY <1>2 DEF Run
  <2>2. Owed' = Owed
    BY <1>2 DEF Owed
  <2> QED
    BY <2>1, <2>2 DEF Once, RunsOnceOnExit
<1> QED
  BY <1>1, <1>2

LEMMA CloseOnce ==
  ASSUME Types, Once, Close
  PROVE  Once'
<1>1. /\ Depth # 0 /\ Depth = Len(stack) /\ Depth \in Nat /\ skip \in 0 .. Depth
      /\ stack \in Seq(Scopes) /\ stack' = Pop(stack) /\ count' = count
      /\ skip' = (IF skip = Depth THEN 0 ELSE skip)
      /\ Run(ScopeDefers(stack[Depth]))
  BY TypesFacts DEF Close, Depth
<1>2. /\ stack' \in Seq(Scopes) /\ Depth' = Depth - 1
      /\ \A n \in 1 .. Depth - 1 : stack'[n] = stack[n]
  BY <1>1, PopFacts DEF Depth
<1>3. DOMAIN stack' = 1 .. Depth - 1 /\ \A n \in 1 .. Depth - 1 : n \in 1 .. Depth
  BY <1>1, <1>2 DEF Depth
<1>4. Distinct(stack', count)
  BY <1>2, <1>3, DistinctFacts DEF Distinct
<1>5. Run(EmittedFrom(stack, Depth))
  BY <1>1, EmittedLast
<1>6. /\ skip = 0 => PathDepth' = Depth - 1
      /\ skip # 0 => PathDepth' = PathDepth
      /\ PathDepth' <= Depth - 1 /\ PathDepth' \in Int
  BY <1>1, <1>2 DEF PathDepth
<1>7. \A i \in 1 .. PathDepth' : stack'[i] = stack[i]
  BY <1>1, <1>2, <1>6
<1>8. Depth \in 1 .. Depth + 1 /\ Depth \in 1 .. Depth
  BY <1>1
<1> QED
  BY <1>1, <1>4, <1>5, <1>6, <1>7, <1>8, LeaveOnce

LEMMA JumpOnce ==
  ASSUME Types, Once, NEW m \in 1 .. Depth + 1, NEW n \in 1 .. m,
         Run(EmittedFrom(stack, m)), JumpTo(n), UNCHANGED <<stack, count>>
  PROVE  Once'
<1>1. Depth \in Nat /\ skip \in 0 .. Depth /\ n \in Nat \ {0}
  BY TypesFacts
<1>2. /\ skip = 0 => PathDepth' = n - 1
      /\ skip # 0 => PathDepth' = PathDepth
  BY <1>1 DEF JumpTo, PathDepth, Depth
<1> QED
  BY <1>2, LeaveOnce DEF Once

LEMMA NextOnce ==
  ASSUME ~LambdaReturns, Types, Types', Once, [Next]_vars
  PROVE  Once'
<1>1. CASE Function
  BY <1>1, FunctionOnce
<1>2. ASSUME NEW k \in {"BLOCK", "LOOP", "LAMBDA"}, Open(k) PROVE Once'
  BY <1>2, OpenOnce
<1>3. CASE Defer
  BY <1>3, DeferOnce
<1>4. CASE Close
  BY <1>4, CloseOnce
<1>5. CASE Return
  <2>1. /\ stack # << >> /\ JumpTo(Activation) /\ Run(EmittedFrom(stack, 1))
        /\ UNCHANGED <<stack, count>> /\ stack[Activation].kind = "FUNCTION"
    BY <1>5 DEF Return, Remaining, MayReturn
  <2>2. Activation = 1 /\ 1 \in 1 .. 1 /\ 1 \in 1 .. Depth + 1
    BY <2>1, Places, TypesFacts
  <2> QED
    BY <2>1, <2>2, JumpOnce
<1>6. CASE BreakOrContinue
  <2> DEFINE n == Nearest(stack, {"LOOP"})
  <2>1. /\ stack # << >> /\ JumpTo(n) /\ Run(EmittedFrom(stack, n + 1)) /\ n > Activation
        /\ UNCHANGED <<stack, count>>
    BY <1>6 DEF BreakOrContinue, UpToLoop, EnclosingLoop
  <2>2. n \in 1 .. Depth
    BY <2>1, LoopPlace
  <2> HIDE DEF n
  <2>3. n + 1 \in 1 .. Depth + 1 /\ n \in 1 .. n + 1
    BY <2>2, TypesFacts
  <2> QED
    BY <2>1, <2>3, JumpOnce
<1>7. CASE Panic
  <2>1. stack # << >> /\ JumpTo(1) /\ UNCHANGED <<stack, ran, count>>
    BY <1>7 DEF Panic
  <2>2. \A n \in 1 .. PathDepth' : n \in 1 .. PathDepth
    BY <2>1, TypesFacts DEF JumpTo, PathDepth, Depth
  <2>3. Owed' \subseteq Owed
    BY <2>1, <2>2 DEF Owed
  <2> QED
    BY <2>1, <2>3 DEF Once, RunsOnceOnExit
<1>8. CASE UNCHANGED vars
  BY <1>8 DEF vars, Once, RunsOnceOnExit, Owed, PathDepth, Depth
<1> QED
  BY <1>1, <1>2, <1>3, <1>4, <1>5, <1>6, <1>7, <1>8 DEF Next

(* "Defers execute when exiting their declaring scope" (defer.md): on      *)
(* every path nothing runs while its scope is open, and nothing twice, as  *)
(* long as no lambda returns.                                              *)
THEOREM DeferRunsOnce == ~LambdaReturns => (Spec => []RunsOnceOnExit)
<1>1. Init => IInv
  BY InitTypes, InitOnce DEF IInv
<1>2. ASSUME ~LambdaReturns PROVE IInv /\ [Next]_vars => IInv'
  BY <1>2, NextTypes, NextOnce DEF IInv
<1>3. IInv => RunsOnceOnExit
  BY DEF IInv, Once
<1>4. ASSUME ~LambdaReturns PROVE Spec => []RunsOnceOnExit
  BY <1>1, <1>2, <1>3, <1>4, PTL DEF Spec
<1> QED
  BY <1>4

-----------------------------------------------------------------------------
(* The emitter implements the contract.                                    *)

LEMMA PathFacts ==
  ASSUME Types
  PROVE  /\ Path \in Seq([kind : Kinds, owed : Seq(Defers)]) /\ Len(Path) = PathDepth
         /\ DOMAIN Path = 1 .. PathDepth /\ PathDepth \in 0 .. Depth
         /\ \A n \in 1 .. PathDepth :
              /\ n \in 1 .. Depth
              /\ Path[n] = [kind |-> stack[n].kind, owed |-> stack[n].defers]
              /\ Path[n].kind = stack[n].kind /\ Path[n].owed = stack[n].defers
<1>1. PathDepth \in 0 .. Depth /\ PathDepth \in Nat /\ \A n \in 1 .. PathDepth : n \in 1 .. Depth
  BY TypesFacts DEF PathDepth
<1>2. \A n \in 1 .. PathDepth :
        /\ Path[n] = [kind |-> stack[n].kind, owed |-> stack[n].defers]
        /\ Path[n].kind = stack[n].kind /\ Path[n].owed = stack[n].defers
  BY DEF Path
<1>3. ASSUME NEW n \in 1 .. PathDepth PROVE Path[n] \in [kind : Kinds, owed : Seq(Defers)]
  <2>1. stack[n].kind \in Kinds /\ stack[n].defers \in Seq(Defers)
    BY <1>1, TypesFacts
  <2>2. [kind |-> stack[n].kind, owed |-> stack[n].defers] \in [kind : Kinds, owed : Seq(Defers)]
    BY <2>1
  <2> QED
    BY <1>2, <2>2
<1>4. Path = [n \in 1 .. PathDepth |-> Path[n]]
  BY DEF Path
<1>5. /\ Path \in Seq([kind : Kinds, owed : Seq(Defers)]) /\ Len(Path) = PathDepth
      /\ DOMAIN Path = 1 .. PathDepth
  <2> DEFINE S == [kind : Kinds, owed : Seq(Defers)]
  <2>1. \A n \in 1 .. PathDepth : Path[n] \in S
    BY <1>3
  <2> HIDE DEF S
  <2>2. Path \in Seq(S) /\ Len(Path) = PathDepth /\ DOMAIN Path = 1 .. PathDepth
    BY <1>1, <1>4, <2>1, SequenceOf
  <2> QED
    BY <2>2 DEF S
<1> QED
  BY <1>1, <1>2, <1>5

LEMMA PathSame ==
  ASSUME PathDepth' = PathDepth, \A n \in 1 .. PathDepth : stack'[n] = stack[n]
  PROVE  Path' = Path
BY DEF Path

LEMMA PathLeft ==
  ASSUME Types, NEW n \in 1 .. PathDepth + 1, PathDepth' = n - 1,
         \A i \in 1 .. n - 1 : stack'[i] = stack[i]
  PROVE  Path' = SubSeq(Path, 1, n - 1)
<1>1. PathDepth \in Nat /\ n - 1 \in Nat /\ \A i \in 1 .. n - 1 : i \in 1 .. PathDepth
  BY PathFacts, TypesFacts
<1>2. SubSeq(Path, 1, n - 1) = [i \in 1 .. n - 1 |-> Path[i]]
  <2> DEFINE k == n - 1
  <2>1. k \in Nat /\ k <= Len(Path) /\ Path \in Seq([kind : Kinds, owed : Seq(Defers)])
    BY <1>1, PathFacts
  <2> HIDE DEF k
  <2>2. SubSeq(Path, 1, k) = [i \in 1 .. k |-> Path[i]]
    BY <2>1
  <2> QED
    BY <2>2 DEF k
<1>3. Path' = [i \in 1 .. n - 1 |-> [kind |-> stack[i].kind, owed |-> stack[i].defers]]
  BY DEF Path
<1>4. \A i \in 1 .. n - 1 : Path[i] = [kind |-> stack[i].kind, owed |-> stack[i].defers]
  BY <1>1, PathFacts
<1> QED
  BY <1>2, <1>3, <1>4

(* The contract has its own instances of the library's operators.          *)
LEMMA SameOperators ==
  /\ \A s : Contract!Reverse(s) = Reverse(s)
  /\ \A s : Contract!FlattenSeq(s) = FlattenSeq(s)
BY DEF Contract!Reverse, Reverse, Contract!FlattenSeq, FlattenSeq

LEMMA DebtIsEmitted ==
  ASSUME Types, skip = 0, NEW n \in 1 .. Depth + 1
  PROVE  Contract!Debt(n) = EmittedFrom(stack, n)
<1> DEFINE k == Depth + 1 - n
           mine == [i \in 1 .. k |-> ScopeDefers(stack[Depth + 1 - i])]
           debt(D) == [i \in 1 .. D + 1 - n |-> Reverse(Path[D + 1 - i].owed)]
           theirs == debt(Depth)
<1>1. PathDepth = Depth /\ Len(Path) = Depth /\ Depth \in Nat
  BY PathFacts, TypesFacts DEF PathDepth
<1>2. EmittedFrom(stack, n) = FlattenSeq(mine)
  BY DEF EmittedFrom, Depth
<1>3. Contract!Debt(n) = FlattenSeq(theirs)
  <2>1. Contract!Debt(n) = FlattenSeq(debt(Contract!Depth))
    BY SameOperators DEF Contract!Debt
  <2>2. Contract!Depth = Depth
    BY <1>1 DEF Contract!Depth
  <2> HIDE DEF debt
  <2> QED
    BY <2>1, <2>2
<1>4. \A i \in 1 .. k : Path[Depth + 1 - i].owed = stack[Depth + 1 - i].defers
  <2>1. \A i \in 1 .. k : Depth + 1 - i \in 1 .. PathDepth
    BY <1>1
  <2> HIDE DEF k
  <2> QED
    BY <2>1, PathFacts
<1>5. mine = theirs
  BY <1>4 DEF ScopeDefers
<1> HIDE DEF mine, theirs
<1> QED
  BY <1>2, <1>3, <1>5

LEMMA LastIsNearest ==
  ASSUME Types, skip = 0, NEW K, Nearest(stack, K) # 0
  PROVE  Contract!Last1({n \in 1 .. Contract!Depth : Path[n].kind \in K}) = Nearest(stack, K)
<1> DEFINE here == {n \in DOMAIN stack : stack[n].kind \in K}
<1>1. PathDepth = Depth /\ DOMAIN stack = 1 .. Depth /\ Contract!Depth = Depth
  BY PathFacts, TypesFacts DEF PathDepth, Contract!Depth
<1>2. {n \in 1 .. Contract!Depth : Path[n].kind \in K} = here
  BY <1>1, PathFacts
<1>3. Nearest(stack, K) = CHOOSE n \in here : \A m \in here : m <= n
  BY DEF Nearest
<1> HIDE DEF here
<1>4. Contract!Last1(here) = CHOOSE n \in here : \A m \in here : m <= n
  BY DEF Contract!Last1
<1> QED
  BY <1>2, <1>3, <1>4

LEMMA InitContract == Init => Contract!Init
<1> SUFFICES ASSUME Init PROVE Contract!Init
  OBVIOUS
<1>1. PathDepth = 0 /\ ran = << >>
  BY DEF Init, PathDepth, Depth
<1>2. Path = << >>
  <2>1. 1 .. 0 = {}
    OBVIOUS
  <2> QED
    BY <1>1, <2>1 DEF Path
<1> QED
  BY <1>1, <1>2 DEF Contract!Init

LEMMA FunctionContract ==
  ASSUME Types, Types', Function
  PROVE  Contract!Call
<1>1. /\ Depth = 0 /\ skip = 0 /\ stack \in Seq(Scopes) /\ stack' = Push(stack, "FUNCTION")
      /\ skip' = 0 /\ ran' = << >> /\ "FUNCTION" \in Kinds
  BY TypesFacts DEF Function, Kinds
<1>2. Len(stack') = 1 /\ stack'[1] = NewScope("FUNCTION")
  <2> DEFINE t == Push(stack, "FUNCTION")
  <2>1. t \in Seq(Scopes) /\ Len(t) = Len(stack) + 1 /\ t[Len(stack) + 1] = NewScope("FUNCTION")
    BY <1>1, PushFacts
  <2>2. stack' = t /\ Len(stack) = 0
    BY <1>1 DEF Depth
  <2> HIDE DEF t
  <2> QED
    BY <2>1, <2>2
<1>3. PathDepth = 0 /\ PathDepth' = 1
  BY <1>1, <1>2 DEF PathDepth, Depth
<1>4. Path = << >>
  BY <1>3, PathFacts
<1>5. Path' = <<Contract!Scope("FUNCTION")>>
  <2>1. Path' = [n \in 1 .. 1 |-> [kind |-> stack'[n].kind, owed |-> stack'[n].defers]]
    BY <1>3 DEF Path
  <2>2. stack'[1].kind = "FUNCTION" /\ stack'[1].defers = << >>
    BY <1>2 DEF NewScope
  <2> QED
    BY <2>1, <2>2 DEF Contract!Scope
<1> QED
  BY <1>1, <1>4, <1>5 DEF Contract!Call

LEMMA OpenContract ==
  ASSUME Types, Types', NEW k \in {"BLOCK", "LOOP", "LAMBDA"}, Open(k)
  PROVE  Contract!Enter(k) \/ UNCHANGED <<Path, ran>>
<1>1. /\ Depth # 0 /\ Depth = Len(stack) /\ Depth \in Nat /\ skip \in 0 .. Depth
      /\ stack \in Seq(Scopes) /\ stack' = Push(stack, k) /\ k \in Kinds
      /\ skip' = skip \/ skip' = (IF skip = 0 THEN Depth + 1 ELSE skip)
      /\ ran' = ran
  BY TypesFacts DEF Open, JumpTo, Kinds, Depth
<1>2. /\ Depth' = Depth + 1 /\ stack'[Depth + 1] = NewScope(k)
      /\ \A n \in 1 .. Depth : stack'[n] = stack[n]
  BY <1>1, PushFacts DEF Depth
<1>3. PathDepth \in 0 .. Depth /\ \A n \in 1 .. PathDepth : stack'[n] = stack[n]
  BY <1>2, PathFacts
<1>4. CASE skip' # 0
  <2>1. PathDepth' = PathDepth
    BY <1>1, <1>4 DEF PathDepth
  <2> QED
    BY <1>1, <1>3, <2>1, PathSame
<1>5. CASE skip' = 0
  <2>1. skip = 0 /\ PathDepth = Depth /\ PathDepth' = Depth + 1
    BY <1>1, <1>2, <1>5 DEF PathDepth
  <2>2. Path' = Append(Path, Contract!Scope(k))
    <3> DEFINE new == Contract!Scope(k)
               old == [n \in 1 .. Depth |-> Path[n]]
    <3>1. Path' = [n \in 1 .. Depth + 1 |-> [kind |-> stack'[n].kind, owed |-> stack'[n].defers]]
      BY <2>1 DEF Path
    <3>2. \A n \in 1 .. Depth : [kind |-> stack'[n].kind, owed |-> stack'[n].defers] = Path[n]
      BY <1>2, <2>1, PathFacts
    <3>3. [kind |-> stack'[Depth + 1].kind, owed |-> stack'[Depth + 1].defers] = new
      BY <1>2 DEF NewScope, Contract!Scope
    <3>4. Len(Path) = Depth
      BY <2>1, PathFacts
    <3> HIDE DEF new
    <3>5. Append(Path, new) = [n \in 1 .. Depth + 1 |-> IF n = Depth + 1 THEN new ELSE Path[n]]
      <4> DEFINE S == [kind : Kinds, owed : Seq(Defers)]
      <4>1. Path \in Seq(S)
        BY PathFacts
      <4>2. new \in S
        BY <1>1, EmptyOnce DEF new, Contract!Scope
      <4> HIDE DEF S
      <4> DEFINE t == Append(Path, new)
      <4>3. /\ t \in Seq(S) /\ Len(t) = Len(Path) + 1 /\ t[Len(Path) + 1] = new
            /\ \A n \in 1 .. Len(Path) : t[n] = Path[n]
        BY <4>1, <4>2
      <4> HIDE DEF t
      <4>4. \A n \in 1 .. Depth + 1 : t[n] = IF n = Depth + 1 THEN new ELSE Path[n]
        <5>1. \A n \in 1 .. Depth + 1 : n \in 1 .. Depth \/ n = Depth + 1
          BY <1>1
        <5> QED
          BY <1>1, <3>4, <4>3, <5>1
      <4>5. t = [n \in 1 .. Depth + 1 |-> t[n]]
        BY <3>4, <4>3
      <4> QED
        BY <4>4, <4>5 DEF t
    <3>6. \A n \in 1 .. Depth + 1 : n \in 1 .. Depth \/ n = Depth + 1
      BY <1>1
    <3>7. \A n \in 1 .. Depth + 1 : [kind |-> stack'[n].kind, owed |-> stack'[n].defers]
                                    = IF n = Depth + 1 THEN new ELSE Path[n]
      BY <1>1, <3>2, <3>3, <3>6
    <3> QED
      BY <3>1, <3>5, <3>7 DEF new
  <2>3. Path # << >>
    BY <1>1, <2>1, PathFacts
  <2> QED
    BY <1>1, <2>2, <2>3 DEF Contract!Enter
<1> QED
  BY <1>4, <1>5

LEMMA DeferContracted ==
  ASSUME Types, Types', Defer
  PROVE  (\E d \in Defers : Contract!Register(d)) \/ UNCHANGED <<Path, ran>>
<1> DEFINE d == count + 1
<1>1. /\ Depth # 0 /\ Depth = Len(stack) /\ Depth \in Nat /\ skip \in 0 .. Depth
      /\ stack \in Seq(Scopes) /\ stack' = Registered(stack, d) /\ d \in Defers
      /\ UNCHANGED <<skip, ran>>
  BY TypesFacts, DeferAssumption DEF Defer, Defers, Depth, Registered
<1> HIDE DEF d
<1>2. /\ Len(stack') = Len(stack)
      /\ stack'[Depth].defers = Append(stack[Depth].defers, d)
      /\ stack'[Depth].kind = stack[Depth].kind
      /\ \A n \in 1 .. Depth - 1 : stack'[n] = stack[n]
  BY <1>1, DeferFacts
<1>3. PathDepth' = PathDepth /\ PathDepth \in 0 .. Depth
  BY <1>1, <1>2, PathFacts DEF PathDepth, Depth
<1>4. CASE skip # 0
  <2>1. \A n \in 1 .. PathDepth : n \in 1 .. Depth - 1
    BY <1>1, <1>4 DEF PathDepth
  <2> QED
    BY <1>1, <1>2, <1>3, <2>1, PathSame
<1>5. CASE skip = 0
  <2>1. PathDepth = Depth /\ Len(Path) = Depth /\ DOMAIN Path = 1 .. Depth /\ Depth \in 1 .. Depth
    BY <1>1, <1>5, PathFacts DEF PathDepth
  <2> DEFINE new == [kind |-> Path[Depth].kind, owed |-> Append(Path[Depth].owed, d)]
  <2>2. Path' = [n \in 1 .. Depth |-> [kind |-> stack'[n].kind, owed |-> stack'[n].defers]]
    BY <1>3, <2>1 DEF Path
  <2>3. [kind |-> stack'[Depth].kind, owed |-> stack'[Depth].defers] = new
    <3>1. Path[Depth].kind = stack[Depth].kind /\ Path[Depth].owed = stack[Depth].defers
      BY <2>1, PathFacts
    <3> QED
      BY <1>2, <3>1
  <2>4. \A n \in 1 .. Depth : n # Depth =>
          [kind |-> stack'[n].kind, owed |-> stack'[n].defers] = Path[n]
    <3>1. \A n \in 1 .. Depth : n # Depth => n \in 1 .. Depth - 1
      BY <1>1
    <3> QED
      BY <1>2, <2>1, <3>1, PathFacts
  <2>5. [Path[Depth] EXCEPT !.owed = Append(Path[Depth].owed, d)] = new
    <3>1. PICK k \in Kinds, ds \in Seq(Defers) : Path[Depth] = [kind |-> k, owed |-> ds]
      BY <2>1, PathFacts, TypesFacts
    <3> DEFINE more == Append(ds, d)
    <3>2. new = [kind |-> k, owed |-> more] /\ Append(Path[Depth].owed, d) = more
      BY <3>1
    <3> HIDE DEF more, new
    <3>3. [[kind |-> k, owed |-> ds] EXCEPT !.owed = more] = [kind |-> k, owed |-> more]
      OBVIOUS
    <3> QED
      BY <3>1, <3>2, <3>3
  <2> HIDE DEF new
  <2>6. Path' = [Path EXCEPT ![Depth] = new]
    BY <2>1, <2>2, <2>3, <2>4, PathFacts DEF Path
  <2>7. Path' = [Path EXCEPT ![Len(Path)].owed = Append(@, d)]
    BY <2>1, <2>5, <2>6
  <2>8. Path # << >>
    BY <1>1, <2>1
  <2>9. Contract!Register(d)
    BY <1>1, <2>7, <2>8 DEF Contract!Register, Contract!Depth
  <2> QED
    BY <1>1, <2>9
<1> QED
  BY <1>4, <1>5

(* The path leaves the scopes from n inwards and runs what those from m    *)
(* owe, or it is elsewhere and does not notice.                            *)
LEMMA PathLeaves ==
  ASSUME Types, NEW m \in 1 .. Depth + 1, NEW n \in 1 .. m, Run(EmittedFrom(stack, m)),
         skip = 0 => PathDepth' = n - 1,
         skip # 0 => PathDepth' = PathDepth,
         \A i \in 1 .. PathDepth' : stack'[i] = stack[i]
  PROVE  \/ skip # 0 /\ UNCHANGED <<Path, ran>>
         \/ skip = 0 /\ Contract!LeaveTo(n) /\ ran' = ran \o Contract!Debt(m)
<1>1. Depth \in Nat
  BY TypesFacts
<1>2. CASE skip = 0
  <2>1. PathDepth = Depth /\ n \in 1 .. PathDepth + 1
    BY <1>1, <1>2 DEF PathDepth
  <2>2. Path' = SubSeq(Path, 1, n - 1)
    BY <1>2, <2>1, PathLeft
  <2>3. ran' = ran \o Contract!Debt(m)
    BY <1>2, DebtIsEmitted DEF Run
  <2> QED
    BY <1>2, <2>2, <2>3 DEF Contract!LeaveTo
<1>3. CASE skip # 0
  BY <1>3, PathSame DEF Run
<1> QED
  BY <1>2, <1>3

LEMMA CloseContract ==
  ASSUME Types, Types', Close
  PROVE  Contract!Leave \/ UNCHANGED <<Path, ran>>
<1>1. /\ Depth # 0 /\ Depth = Len(stack) /\ Depth \in Nat /\ skip \in 0 .. Depth
      /\ stack \in Seq(Scopes) /\ stack' = Pop(stack)
      /\ skip' = (IF skip = Depth THEN 0 ELSE skip)
      /\ Run(ScopeDefers(stack[Depth]))
  BY TypesFacts DEF Close, Depth
<1>2. Depth' = Depth - 1 /\ \A n \in 1 .. Depth - 1 : stack'[n] = stack[n]
  BY <1>1, PopFacts DEF Depth
<1>3. Run(EmittedFrom(stack, Depth))
  BY <1>1, EmittedLast
<1>4. /\ skip = 0 => PathDepth' = Depth - 1
      /\ skip # 0 => PathDepth' = PathDepth
      /\ PathDepth' <= Depth - 1 /\ PathDepth' \in Int
  BY <1>1, <1>2 DEF PathDepth
<1>5. \A i \in 1 .. PathDepth' : stack'[i] = stack[i]
  BY <1>1, <1>2, <1>4
<1>6. Depth \in 1 .. Depth + 1 /\ Depth \in 1 .. Depth
  BY <1>1
<1>7. \/ UNCHANGED <<Path, ran>>
      \/ skip = 0 /\ Contract!LeaveTo(Depth) /\ ran' = ran \o Contract!Debt(Depth)
  BY <1>3, <1>4, <1>5, <1>6, PathLeaves
<1>8. skip = 0 => Len(Path) = Depth /\ Path # << >>
  BY <1>1, PathFacts DEF PathDepth
<1> QED
  BY <1>7, <1>8 DEF Contract!Leave, Contract!Depth

(* Jumps.                                                                  *)
LEMMA PathJumps ==
  ASSUME Types, NEW m \in 1 .. Depth + 1, NEW n \in 1 .. m, Run(EmittedFrom(stack, m)),
         JumpTo(n), stack' = stack
  PROVE  \/ skip # 0 /\ UNCHANGED <<Path, ran>>
         \/ skip = 0 /\ Contract!LeaveTo(n) /\ ran' = ran \o Contract!Debt(m)
<1>1. Depth \in Nat /\ skip \in 0 .. Depth /\ n \in Nat \ {0}
  BY TypesFacts
<1>2. /\ skip = 0 => PathDepth' = n - 1
      /\ skip # 0 => PathDepth' = PathDepth
  BY <1>1 DEF JumpTo, PathDepth, Depth
<1> QED
  BY <1>2, PathLeaves

LEMMA ReturnContract ==
  ASSUME ~LambdaReturns, Types, Return
  PROVE  Contract!Return \/ UNCHANGED <<Path, ran>>
<1>1. /\ stack # << >> /\ JumpTo(Activation) /\ Run(EmittedFrom(stack, 1))
      /\ stack' = stack /\ stack[Activation].kind = "FUNCTION"
  BY DEF Return, Remaining, MayReturn
<1>2. Activation = 1 /\ 1 \in 1 .. 1 /\ 1 \in 1 .. Depth + 1 /\ Depth # 0
  BY <1>1, Places, TypesFacts
<1>3. \/ UNCHANGED <<Path, ran>>
      \/ skip = 0 /\ Contract!LeaveTo(1) /\ ran' = ran \o Contract!Debt(1)
  BY <1>1, <1>2, PathJumps
<1>4. ASSUME skip = 0 PROVE Contract!Last1(Contract!Activations) = 1 /\ Path # << >>
  <2>1. Contract!Last1({n \in 1 .. Contract!Depth : Path[n].kind \in {"FUNCTION", "LAMBDA"}})
          = Nearest(stack, {"FUNCTION", "LAMBDA"})
    BY <1>2, <1>4, LastIsNearest DEF Activation
  <2>2. Path # << >>
    BY <1>2, <1>4, PathFacts DEF PathDepth
  <2> QED
    BY <1>2, <2>1, <2>2 DEF Contract!Activations, Activation
<1> QED
  BY <1>3, <1>4 DEF Contract!Return

LEMMA BreakContract ==
  ASSUME Types, BreakOrContinue
  PROVE  Contract!BreakOrContinue \/ UNCHANGED <<Path, ran>>
<1> DEFINE n == Nearest(stack, {"LOOP"})
<1>1. /\ stack # << >> /\ JumpTo(n) /\ Run(EmittedFrom(stack, n + 1)) /\ n > Activation
      /\ stack' = stack
  BY DEF BreakOrContinue, UpToLoop, EnclosingLoop
<1>2. n \in 1 .. Depth /\ stack[n].kind = "LOOP" /\ Activation \in 1 .. Depth /\ Depth \in Nat
  BY <1>1, LoopPlace, Places, TypesFacts
<1> HIDE DEF n
<1>3. n + 1 \in 1 .. Depth + 1 /\ n \in 1 .. n + 1
  BY <1>2
<1>4. \/ UNCHANGED <<Path, ran>>
      \/ skip = 0 /\ Contract!LeaveTo(n) /\ ran' = ran \o Contract!Debt(n + 1)
  BY <1>1, <1>3, PathJumps
<1>5. ASSUME skip = 0
      PROVE  /\ Contract!Last1(Contract!Loops) = n /\ n \in Contract!Loops
             /\ Contract!Last1(Contract!Activations) = Activation
  <2>1. Contract!Depth = Depth /\ PathDepth = Depth
    BY <1>5, PathFacts DEF PathDepth, Contract!Depth
  <2>2. Contract!Loops = {i \in 1 .. Contract!Depth : Path[i].kind \in {"LOOP"}}
    BY DEF Contract!Loops
  <2>3. Contract!Last1({i \in 1 .. Contract!Depth : Path[i].kind \in {"LOOP"}}) = n
    BY <1>2, <1>5, LastIsNearest DEF n
  <2>4. Contract!Last1({i \in 1 .. Contract!Depth : Path[i].kind \in {"FUNCTION", "LAMBDA"}})
          = Activation
    BY <1>2, <1>5, LastIsNearest DEF Activation
  <2>5. n \in Contract!Loops
    BY <1>2, <2>1, PathFacts DEF Contract!Loops
  <2> QED
    BY <2>2, <2>3, <2>4, <2>5 DEF Contract!Activations
<1> QED
  BY <1>1, <1>4, <1>5 DEF Contract!BreakOrContinue

LEMMA PanicContract ==
  ASSUME Types, Panic
  PROVE  Contract!Panic \/ UNCHANGED <<Path, ran>>
<1>1. stack # << >> /\ JumpTo(1) /\ UNCHANGED <<stack, ran>> /\ Depth # 0
  BY TypesFacts DEF Panic
<1>2. CASE skip = 0
  <2>1. PathDepth' = 0 /\ PathDepth = Depth
    BY <1>1, <1>2 DEF JumpTo, PathDepth
  <2>2. Path' = << >>
    <3>1. 1 .. 0 = {}
      OBVIOUS
    <3> QED
      BY <2>1, <3>1 DEF Path
  <2>3. Path # << >>
    BY <1>1, <2>1, PathFacts
  <2> QED
    BY <1>1, <2>2, <2>3 DEF Contract!Panic
<1>3. CASE skip # 0
  <2>1. PathDepth' = PathDepth
    BY <1>1, <1>3 DEF JumpTo, PathDepth
  <2> QED
    BY <1>1, <2>1, PathSame
<1> QED
  BY <1>2, <1>3

LEMMA NextContract ==
  ASSUME ~LambdaReturns, Types, Types', [Next]_vars
  PROVE  [Contract!Next]_<<Path, ran>>
<1>1. CASE Function
  BY <1>1, FunctionContract DEF Contract!Next
<1>2. ASSUME NEW k \in {"BLOCK", "LOOP", "LAMBDA"}, Open(k)
      PROVE  [Contract!Next]_<<Path, ran>>
  BY <1>2, OpenContract DEF Contract!Next
<1>3. CASE Defer
  BY <1>3, DeferContracted DEF Contract!Next
<1>4. CASE Close
  BY <1>4, CloseContract DEF Contract!Next
<1>5. CASE Return
  BY <1>5, ReturnContract DEF Contract!Next
<1>6. CASE BreakOrContinue
  BY <1>6, BreakContract DEF Contract!Next
<1>7. CASE Panic
  BY <1>7, PanicContract DEF Contract!Next
<1>8. CASE UNCHANGED vars
  BY <1>8 DEF vars, Path, PathDepth, Depth
<1> QED
  BY <1>1, <1>2, <1>3, <1>4, <1>5, <1>6, <1>7, <1>8 DEF Next

(* The copies the emitter makes run what defer.md promises, in its order,  *)
(* on every path of every function whose lambdas do not return.            *)
THEOREM DeferImplementsContract == ~LambdaReturns => (Spec => ImplementsContract)
<1>1. ASSUME ~LambdaReturns
      PROVE  Types /\ Types' /\ [Next]_vars => [Contract!Next]_<<Path, ran>>
  BY <1>1, NextContract
<1>2. ASSUME ~LambdaReturns PROVE Spec => ImplementsContract
  BY <1>1, <1>2, InitTypes, NextTypes, InitContract, PTL
  DEF Spec, ImplementsContract, Contract!Spec
<1> QED
  BY <1>2
=============================================================================
