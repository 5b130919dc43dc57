---------------------------- MODULE SequenceFacts ---------------------------
(***************************************************************************)
(* Facts about sequences that the proofs of several components need.  The  *)
(* induction they rest on is over a set of natural numbers, which the      *)
(* provers can instantiate.                                                *)
(***************************************************************************)
EXTENDS Integers, Sequences, SequencesExt, WellFoundedInduction, TLAPS

(* A nonempty set of natural numbers has a least element.                  *)
LEMMA LeastExists ==
  ASSUME NEW X \in SUBSET Nat, X # {}
  PROVE  \E m \in X : \A n \in X : m <= n
<1> DEFINE R == OpToRel(<, Nat)
<1>0. R = {p \in Nat \X Nat : p[1] < p[2]}
  BY DEF OpToRel
<1>1. IsWellFoundedOn(R, Nat)
  BY NatLessThanWellFounded
<1> HIDE DEF R
<1>2. PICK x \in X : \A y \in X : ~(<<y, x>> \in R)
  BY <1>1, WFMin
<1>3. ASSUME NEW y \in X PROVE x <= y
  <2>1. <<y, x>> \in Nat \X Nat /\ <<y, x>>[1] = y /\ <<y, x>>[2] = x
    OBVIOUS
  <2>2. ~(y < x)
    BY <1>0, <1>2, <2>1
  <2> QED
    BY <2>1, <2>2
<1> QED
  BY <1>2, <1>3

(* A set with 0 and the successors of its numbers holds all of them.       *)
LEMMA SetInduction ==
  ASSUME NEW X, 0 \in X, \A n \in Nat : n \in X => n + 1 \in X
  PROVE  \A n \in Nat : n \in X
<1> SUFFICES ASSUME Nat \ X # {} PROVE FALSE
  OBVIOUS
<1>1. PICK m \in Nat \ X : \A n \in Nat \ X : m <= n
  BY LeastExists
<1>2. m # 0 /\ m - 1 \in Nat
  BY <1>1
<1>3. m - 1 \in X
  BY <1>1, <1>2
<1> QED
  BY <1>1, <1>2, <1>3

-----------------------------------------------------------------------------
(* A function on 1 .. n with values in S is a sequence.                    *)
LEMMA SequenceOf ==
  ASSUME NEW S, NEW n \in Nat, NEW f, f = [i \in 1 .. n |-> f[i]],
         \A i \in 1 .. n : f[i] \in S
  PROVE  f \in Seq(S) /\ Len(f) = n /\ DOMAIN f = 1 .. n
<1>1. f \in [1 .. n -> S]
  OBVIOUS
<1> QED
  BY <1>1

(* A sequence read backwards.                                              *)
LEMMA ReverseFacts ==
  ASSUME NEW S, NEW s \in Seq(S)
  PROVE  /\ Reverse(s) \in Seq(S) /\ Len(Reverse(s)) = Len(s)
         /\ \A i \in 1 .. Len(s) :
              /\ Len(s) - i + 1 \in 1 .. Len(s)
              /\ Reverse(s)[i] = s[Len(s) - i + 1]
              /\ Reverse(s)[Len(s) - i + 1] = s[i]
         /\ ToSet(Reverse(s)) = ToSet(s)
         /\ IsInjective(s) => IsInjective(Reverse(s))
<1> DEFINE r == Reverse(s)
<1>1. r \in Seq(S) /\ Len(r) = Len(s) /\ DOMAIN r = 1 .. Len(s) /\ DOMAIN s = 1 .. Len(s)
  BY DEF Reverse
<1>2. ASSUME NEW i \in 1 .. Len(s)
      PROVE  /\ Len(s) - i + 1 \in 1 .. Len(s)
             /\ r[i] = s[Len(s) - i + 1]
             /\ r[Len(s) - i + 1] = s[i]
  <2>1. Len(s) - i + 1 \in 1 .. Len(s) /\ Len(s) - (Len(s) - i + 1) + 1 = i
    OBVIOUS
  <2> QED
    BY <2>1 DEF Reverse
<1> HIDE DEF r
<1>3. ToSet(r) = ToSet(s)
  <2>1. \A x \in ToSet(r) : x \in ToSet(s)
    BY <1>1, <1>2 DEF ToSet
  <2>2. \A x \in ToSet(s) : x \in ToSet(r)
    BY <1>1, <1>2 DEF ToSet
  <2> QED
    BY <2>1, <2>2
<1>4. ASSUME IsInjective(s) PROVE IsInjective(r)
  <2> SUFFICES ASSUME NEW i \in 1 .. Len(s), NEW j \in 1 .. Len(s), r[i] = r[j]
               PROVE  i = j
    BY <1>1 DEF IsInjective
  <2>1. s[Len(s) - i + 1] = s[Len(s) - j + 1]
    BY <1>2
  <2>2. Len(s) - i + 1 = Len(s) - j + 1
    BY <1>1, <1>2, <1>4, <2>1 DEF IsInjective
  <2> QED
    BY <2>2
<1> QED
  BY <1>1, <1>2, <1>3, <1>4 DEF r

(* The members of a concatenation, and when it repeats none.               *)
LEMMA ConcatMembers ==
  ASSUME NEW S, NEW s \in Seq(S), NEW t \in Seq(S)
  PROVE  /\ s \o t \in Seq(S)
         /\ ToSet(s \o t) = ToSet(s) \cup ToSet(t)
<1>1. /\ s \o t \in Seq(S) /\ Len(s \o t) = Len(s) + Len(t)
      /\ \A i \in 1 .. Len(s) : (s \o t)[i] = s[i]
      /\ \A i \in 1 .. Len(t) : (s \o t)[Len(s) + i] = t[i]
  OBVIOUS
<1>2. ASSUME NEW x PROVE x \in ToSet(s \o t) <=> x \in ToSet(s) \cup ToSet(t)
  <2>1. ASSUME x \in ToSet(s \o t) PROVE x \in ToSet(s) \cup ToSet(t)
    <3>1. PICK i \in 1 .. Len(s) + Len(t) : (s \o t)[i] = x
      BY <1>1, <2>1 DEF ToSet
    <3>2. CASE i <= Len(s)
      BY <1>1, <3>1, <3>2 DEF ToSet
    <3>3. CASE ~(i <= Len(s))
      <4>1. i - Len(s) \in 1 .. Len(t) /\ i = Len(s) + (i - Len(s))
        BY <3>3
      <4> QED
        BY <1>1, <3>1, <4>1 DEF ToSet
    <3> QED
      BY <3>2, <3>3
  <2>2. ASSUME x \in ToSet(s) PROVE x \in ToSet(s \o t)
    <3>1. PICK i \in 1 .. Len(s) : s[i] = x
      BY <2>2 DEF ToSet
    <3> QED
      BY <1>1, <3>1 DEF ToSet
  <2>3. ASSUME x \in ToSet(t) PROVE x \in ToSet(s \o t)
    <3>1. PICK i \in 1 .. Len(t) : t[i] = x
      BY <2>3 DEF ToSet
    <3>2. Len(s) + i \in 1 .. Len(s \o t)
      BY <1>1
    <3> QED
      BY <1>1, <3>1, <3>2 DEF ToSet
  <2> QED
    BY <2>1, <2>2, <2>3
<1> QED
  BY <1>1, <1>2

LEMMA ConcatInjective ==
  ASSUME NEW S, NEW s \in Seq(S), NEW t \in Seq(S),
         IsInjective(s), IsInjective(t), ToSet(s) \cap ToSet(t) = {}
  PROVE  IsInjective(s \o t)
<1>1. /\ s \o t \in Seq(S) /\ Len(s \o t) = Len(s) + Len(t)
      /\ \A i \in 1 .. Len(s) : (s \o t)[i] = s[i] /\ s[i] \in ToSet(s)
      /\ \A i \in 1 .. Len(t) : (s \o t)[Len(s) + i] = t[i] /\ t[i] \in ToSet(t)
  BY DEF ToSet
<1> SUFFICES ASSUME NEW i \in 1 .. Len(s) + Len(t), NEW j \in 1 .. Len(s) + Len(t),
                    (s \o t)[i] = (s \o t)[j]
             PROVE  i = j
  BY <1>1 DEF IsInjective
<1>2. ASSUME NEW k \in 1 .. Len(s) + Len(t)
      PROVE  \/ k \in 1 .. Len(s)
             \/ k - Len(s) \in 1 .. Len(t) /\ k = Len(s) + (k - Len(s))
  OBVIOUS
<1>3. CASE i \in 1 .. Len(s) /\ j \in 1 .. Len(s)
  BY <1>1, <1>3 DEF IsInjective
<1>4. CASE i - Len(s) \in 1 .. Len(t) /\ j - Len(s) \in 1 .. Len(t)
  <2>1. t[i - Len(s)] = t[j - Len(s)]
    BY <1>1, <1>2, <1>4
  <2>2. i - Len(s) = j - Len(s)
    BY <1>4, <2>1 DEF IsInjective
  <2> QED
    BY <2>2
<1>5. CASE i \in 1 .. Len(s) /\ j - Len(s) \in 1 .. Len(t)
  BY <1>1, <1>2, <1>5
<1>6. CASE i - Len(s) \in 1 .. Len(t) /\ j \in 1 .. Len(s)
  BY <1>1, <1>2, <1>6
<1> QED
  BY <1>2, <1>3, <1>4, <1>5, <1>6

(* A sequence with one more element.                                       *)
LEMMA AppendFacts ==
  ASSUME NEW S, NEW s \in Seq(S), NEW x \in S
  PROVE  /\ Append(s, x) \in Seq(S)
         /\ ToSet(Append(s, x)) = ToSet(s) \cup {x}
         /\ IsInjective(s) /\ x \notin ToSet(s) => IsInjective(Append(s, x))
<1>1. <<x>> \in Seq(S) /\ Append(s, x) = s \o <<x>>
  OBVIOUS
<1>2. DOMAIN <<x>> = {1} /\ <<x>>[1] = x
  OBVIOUS
<1>3. ToSet(<<x>>) = {x} /\ IsInjective(<<x>>)
  BY <1>2 DEF ToSet, IsInjective
<1>4. /\ s \o <<x>> \in Seq(S)
      /\ ToSet(s \o <<x>>) = ToSet(s) \cup ToSet(<<x>>)
  BY <1>1, ConcatMembers, ZenonT(30)
<1>5. ASSUME IsInjective(s), x \notin ToSet(s) PROVE IsInjective(s \o <<x>>)
  BY <1>1, <1>3, <1>5, ConcatInjective
<1> QED
  BY <1>1, <1>3, <1>4, <1>5

-----------------------------------------------------------------------------
(* FlattenSeq is defined by a recursive function; this one, the            *)
(* concatenations of the first pieces, satisfies the recursion.            *)
Joins(seqs, g) ==
  g = [i \in 1 .. Len(seqs) |-> IF i = 1 THEN seqs[i] ELSE g[i - 1] \o seqs[i]]

LEMMA JoinsExist ==
  ASSUME NEW S, NEW seqs \in Seq(Seq(S))
  PROVE  \E g : Joins(seqs, g)
<1> DEFINE Upto(n, g) ==
             g = [i \in 1 .. n |-> IF i = 1 THEN seqs[i] ELSE g[i - 1] \o seqs[i]]
           X == {n \in Nat : \E g : Upto(n, g)}
<1>1. 0 \in X
  <2>1. Upto(0, [i \in 1 .. 0 |-> i])
    OBVIOUS
  <2> QED
    BY <2>1
<1>2. ASSUME NEW n \in Nat, n \in X PROVE n + 1 \in X
  <2>1. PICK g : Upto(n, g)
    BY <1>2
  <2> DEFINE h == [i \in 1 .. n + 1 |->
                     IF i = n + 1
                     THEN IF i = 1 THEN seqs[i] ELSE g[i - 1] \o seqs[i]
                     ELSE g[i]]
  <2>2. \A i \in 1 .. n + 1 :
           h[i] = IF i = 1 THEN seqs[i] ELSE h[i - 1] \o seqs[i]
    <3> SUFFICES ASSUME NEW i \in 1 .. n + 1
                 PROVE  h[i] = IF i = 1 THEN seqs[i] ELSE h[i - 1] \o seqs[i]
      OBVIOUS
    <3>1. CASE i = n + 1
      <4>1. i # 1 => i - 1 \in 1 .. n + 1 /\ i - 1 # n + 1
        BY <3>1
      <4>2. i # 1 => h[i - 1] = g[i - 1]
        BY <4>1
      <4>3. h[i] = IF i = 1 THEN seqs[i] ELSE g[i - 1] \o seqs[i]
        BY <3>1
      <4> HIDE DEF h
      <4> QED
        BY <4>2, <4>3
    <3>2. CASE i # n + 1
      <4>1. i \in 1 .. n /\ (i # 1 => i - 1 \in 1 .. n + 1 /\ i - 1 # n + 1)
        BY <3>2
      <4>2. g[i] = IF i = 1 THEN seqs[i] ELSE g[i - 1] \o seqs[i]
        BY <2>1, <4>1
      <4>3. h[i] = g[i] /\ (i # 1 => h[i - 1] = g[i - 1])
        BY <3>2, <4>1
      <4> HIDE DEF h
      <4> QED
        BY <4>2, <4>3
    <3> QED
      BY <3>1, <3>2
  <2>3. h = [i \in 1 .. n + 1 |-> h[i]]
    OBVIOUS
  <2>4. Upto(n + 1, h)
    <3> HIDE DEF h
    <3> QED
      BY <2>2, <2>3
  <2>5. n + 1 \in Nat
    OBVIOUS
  <2> HIDE DEF Upto, h
  <2> QED
    BY <2>4, <2>5
<1>3. Len(seqs) \in X
  <2> HIDE DEF X
  <2>1. \A n \in Nat : n \in X => n + 1 \in X
    BY <1>2
  <2> QED
    BY <1>1, <2>1, SetInduction, SMTT(20)
<1> QED
  BY <1>3 DEF Joins

(* Induction over the pieces: what holds of the first piece, and goes on   *)
(* to hold with every next piece, holds of the whole.                      *)
LEMMA FlattenInduction ==
  ASSUME NEW S, NEW seqs \in Seq(Seq(S)), Len(seqs) # 0, NEW G,
         <<1, seqs[1]>> \in G,
         \A n \in 1 .. Len(seqs) - 1 : \A s \in Seq(S) :
           <<n, s>> \in G => <<n + 1, s \o seqs[n + 1]>> \in G
  PROVE  <<Len(seqs), FlattenSeq(seqs)>> \in G
<1> DEFINE flatten ==
             CHOOSE f : f = [i \in 1 .. Len(seqs) |->
                               IF i = 1 THEN seqs[i] ELSE f[i - 1] \o seqs[i]]
<1>1. Joins(seqs, flatten)
  BY JoinsExist DEF Joins
<1>2. FlattenSeq(seqs) = flatten[Len(seqs)]
  BY DEF FlattenSeq
<1> HIDE DEF flatten
<1>3. /\ 1 \in 1 .. Len(seqs) /\ flatten[1] = seqs[1]
      /\ \A n \in 1 .. Len(seqs) - 1 : flatten[n + 1] = flatten[n] \o seqs[n + 1]
  <2>1. \A i \in 1 .. Len(seqs) :
           flatten[i] = IF i = 1 THEN seqs[i] ELSE flatten[i - 1] \o seqs[i]
    BY <1>1 DEF Joins
  <2>2. \A n \in 1 .. Len(seqs) - 1 :
           n + 1 \in 1 .. Len(seqs) /\ n + 1 # 1 /\ n + 1 - 1 = n
    OBVIOUS
  <2>3. 1 \in 1 .. Len(seqs)
    OBVIOUS
  <2>4. flatten[1] = seqs[1]
    BY <2>1, <2>3, Zenon
  <2>5. ASSUME NEW n \in 1 .. Len(seqs) - 1
        PROVE  flatten[n + 1] = flatten[n] \o seqs[n + 1]
    <3>1. PICK m \in 1 .. Len(seqs) : m = n + 1 /\ m # 1 /\ m - 1 = n
      BY <2>2
    <3>2. flatten[m] = flatten[m - 1] \o seqs[m]
      BY <2>1, <3>1, Zenon
    <3> QED
      BY <3>1, <3>2, Zenon
  <2> QED
    BY <2>3, <2>4, <2>5
<1>4. \A i \in 1 .. Len(seqs) : seqs[i] \in Seq(S)
  OBVIOUS
<1> DEFINE Holds(n) == flatten[n] \in Seq(S) /\ <<n, flatten[n]>> \in G
           X == {n \in Nat : n = 0 \/ n > Len(seqs) \/ Holds(n)}
<1>5. ASSUME NEW n \in Nat, n \in X PROVE n + 1 \in X
  <2>1. CASE n >= Len(seqs)
    BY <2>1
  <2>2. CASE n = 0
    <3>1. Holds(1)
      BY <1>3, <1>4
    <3> HIDE DEF Holds
    <3> QED
      BY <2>2, <3>1
  <2>3. CASE n # 0 /\ n < Len(seqs)
    <3>1. n \in 1 .. Len(seqs) - 1 /\ n + 1 \in 1 .. Len(seqs)
      BY <2>3
    <3>2. Holds(n)
      BY <1>5, <2>3
    <3>3. Holds(n + 1)
      <4>1. /\ flatten[n] \in Seq(S) /\ <<n, flatten[n]>> \in G
            /\ seqs[n + 1] \in Seq(S)
        BY <1>4, <3>1, <3>2
      <4>2. <<n + 1, flatten[n] \o seqs[n + 1]>> \in G
        BY <3>1, <4>1
      <4>3. flatten[n] \o seqs[n + 1] \in Seq(S)
        BY <4>1
      <4>4. flatten[n + 1] = flatten[n] \o seqs[n + 1]
        BY <1>3, <3>1
      <4> QED
        BY <4>2, <4>3, <4>4
    <3> HIDE DEF Holds
    <3> QED
      BY <3>3
  <2> QED
    BY <2>1, <2>2, <2>3
<1>6. Len(seqs) \in X
  <2>1. 0 \in X
    OBVIOUS
  <2>2. \A n \in Nat : n \in X => n + 1 \in X
    BY <1>5
  <2>3. Len(seqs) \in Nat
    OBVIOUS
  <2> HIDE DEF X
  <2>4. \A n \in Nat : n \in X
    BY <2>1, <2>2, SetInduction
  <2> QED
    BY <2>3, <2>4
<1> QED
  BY <1>2, <1>6

(* What FlattenSeq yields: a sequence with the members of the pieces.      *)
LEMMA FlattenMembers ==
  ASSUME NEW S, NEW seqs \in Seq(Seq(S))
  PROVE  /\ FlattenSeq(seqs) \in Seq(S)
         /\ \A x : x \in ToSet(FlattenSeq(seqs)) <=>
                   \E i \in DOMAIN seqs : x \in ToSet(seqs[i])
<1>1. CASE Len(seqs) = 0
  <2>1. seqs = << >> /\ FlattenSeq(seqs) = << >>
    BY <1>1 DEF FlattenSeq
  <2>2. << >> \in Seq(S) /\ DOMAIN << >> = {}
    OBVIOUS
  <2>3. ToSet(<< >>) = {}
    BY <2>2 DEF ToSet
  <2> QED
    BY <2>1, <2>2, <2>3
<1>2. CASE Len(seqs) # 0
  <2> DEFINE Of(n, s) == \A x : x \in ToSet(s) <=> \E i \in 1 .. n : x \in ToSet(seqs[i])
             G == {p \in Nat \X Seq(S) : Of(p[1], p[2])}
  <2>1. \A i \in 1 .. Len(seqs) : seqs[i] \in Seq(S)
    OBVIOUS
  <2>2. <<1, seqs[1]>> \in G
    <3>1. 1 .. 1 = {1} /\ seqs[1] \in Seq(S)
      BY <1>2, <2>1
    <3>2. Of(1, seqs[1])
      BY <3>1
    <3> HIDE DEF Of
    <3> QED
      BY <3>1, <3>2
  <2>3. ASSUME NEW n \in 1 .. Len(seqs) - 1, NEW s \in Seq(S), <<n, s>> \in G
        PROVE  <<n + 1, s \o seqs[n + 1]>> \in G
    <3>1. n + 1 \in 1 .. Len(seqs) /\ seqs[n + 1] \in Seq(S) /\ n + 1 \in Nat
      BY <2>1
    <3>2. Of(n, s)
      BY <2>3
    <3>3. /\ s \o seqs[n + 1] \in Seq(S)
          /\ ToSet(s \o seqs[n + 1]) = ToSet(s) \cup ToSet(seqs[n + 1])
      BY <3>1, ConcatMembers
    <3>4. 1 .. n + 1 = (1 .. n) \cup {n + 1}
      OBVIOUS
    <3>5. Of(n + 1, s \o seqs[n + 1])
      BY <3>2, <3>3, <3>4
    <3> HIDE DEF Of
    <3> QED
      BY <3>1, <3>3, <3>5
  <2>4. <<Len(seqs), FlattenSeq(seqs)>> \in G
    <3> HIDE DEF G
    <3> QED
      BY <1>2, <2>2, <2>3, FlattenInduction
  <2>5. Of(Len(seqs), FlattenSeq(seqs)) /\ FlattenSeq(seqs) \in Seq(S)
    <3> HIDE DEF Of
    <3> QED
      BY <2>4
  <2>6. DOMAIN seqs = 1 .. Len(seqs)
    OBVIOUS
  <2> HIDE DEF G
  <2> QED
    BY <2>5, <2>6, Zenon
<1> QED
  BY <1>1, <1>2

(* Pieces that repeat nothing and share nothing flatten to a sequence that *)
(* repeats nothing.                                                        *)
LEMMA FlattenInjective ==
  ASSUME NEW S, NEW seqs \in Seq(Seq(S)),
         \A i \in DOMAIN seqs : IsInjective(seqs[i]),
         \A i, j \in DOMAIN seqs : i # j => ToSet(seqs[i]) \cap ToSet(seqs[j]) = {}
  PROVE  IsInjective(FlattenSeq(seqs))
<1>1. CASE Len(seqs) = 0
  BY <1>1 DEF FlattenSeq, IsInjective
<1>2. CASE Len(seqs) # 0
  <2> DEFINE Good(n, s) == /\ IsInjective(s)
                           /\ \A x \in ToSet(s) : \E i \in 1 .. n : x \in ToSet(seqs[i])
             G == {p \in Nat \X Seq(S) : Good(p[1], p[2])}
  <2>1. \A i \in 1 .. Len(seqs) : seqs[i] \in Seq(S) /\ IsInjective(seqs[i])
    OBVIOUS
  <2>2. <<1, seqs[1]>> \in G
    <3>1. 1 .. 1 = {1} /\ seqs[1] \in Seq(S) /\ IsInjective(seqs[1])
      BY <1>2, <2>1
    <3>2. Good(1, seqs[1])
      BY <3>1
    <3> HIDE DEF Good
    <3> QED
      BY <3>1, <3>2
  <2>3. ASSUME NEW n \in 1 .. Len(seqs) - 1, NEW s \in Seq(S), <<n, s>> \in G
        PROVE  <<n + 1, s \o seqs[n + 1]>> \in G
    <3>1. /\ n + 1 \in 1 .. Len(seqs) /\ n + 1 \in Nat
          /\ seqs[n + 1] \in Seq(S) /\ IsInjective(seqs[n + 1])
      BY <2>1
    <3>2. Good(n, s)
      BY <2>3
    <3>3. ToSet(s) \cap ToSet(seqs[n + 1]) = {}
      <4>1. \A i \in 1 .. n : i \in DOMAIN seqs /\ i # n + 1
        OBVIOUS
      <4> QED
        BY <3>1, <3>2, <4>1, SMTT(20)
    <3>4. IsInjective(s \o seqs[n + 1])
      BY <3>1, <3>2, <3>3, ConcatInjective
    <3>5. /\ s \o seqs[n + 1] \in Seq(S)
          /\ ToSet(s \o seqs[n + 1]) = ToSet(s) \cup ToSet(seqs[n + 1])
      BY <3>1, ConcatMembers
    <3>6. n + 1 \in 1 .. n + 1 /\ 1 .. n \subseteq 1 .. n + 1
      OBVIOUS
    <3>7. Good(n + 1, s \o seqs[n + 1])
      BY <3>2, <3>4, <3>5, <3>6
    <3> HIDE DEF Good
    <3> QED
      BY <3>1, <3>5, <3>7
  <2>4. <<Len(seqs), FlattenSeq(seqs)>> \in G
    <3> HIDE DEF G
    <3> QED
      BY <1>2, <2>2, <2>3, FlattenInduction
  <2> QED
    BY <2>4
<1> QED
  BY <1>1, <1>2
=============================================================================
