------------------------- MODULE ImportResolverProofs -------------------------
(***************************************************************************)
(* import_resolver_c for every file system, every program and every list   *)
(* of include directories.                                                 *)
(*                                                                         *)
(* IInv is about the walk: it is well typed, and its stack is a chain of   *)
(* imports on which no file stands twice and none is processed; each file  *)
(* of the stack has a text, of which what is left to visit is the end, and *)
(* the file about to be entered is the last import of the file on top.     *)
(*                                                                         *)
(* Account is about what the walk has found: only the program is entered,  *)
(* an error has its reason in it, the declarations visited are listed, and *)
(* as long as there is no error the processed files are closed under       *)
(* imports, none of them imports itself, and each declaration comes after  *)
(* a closed set of files around each of the imports before it.             *)
(***************************************************************************)
EXTENDS ImportResolver, SequenceFacts, FiniteSetTheorems

-----------------------------------------------------------------------------
(* The invariant.                                                          *)

\* the items of t that are left when i of them have been visited
Rest(t, i) == SubSeq(t, i + 1, Len(t))

\* an activation of process_file: its file, and the items still to visit
Frame == [file : Places, todo : Seq(Item)]

\* the file has the text t, and the first of its items have been visited
IsFrame(x, t) ==
  /\ x \in Frame
  /\ t \in TextsOf
  /\ \E i \in 0 .. Len(t) : x.todo = Rest(t, i)

\* the last item a frame has visited was an import of p
Imports(x, t, p) ==
  LET past == Len(t) - Len(x.todo)
  IN  past \in DOMAIN t /\ t[past] \in Names /\ p = Resolve(t[past], x.file)

Typed ==
  /\ kind \in [Places -> Kinds]
  /\ text \in [Places -> TextsOf \cup {Unread}]
  /\ call \in Places \cup {None}
  /\ stack \in Seq(Frame)
  /\ processed \in SUBSET Places
  /\ decls \in Seq([file : Places, at : Nat \ {0}])

\* of a stack s, with the texts tx and the processed files done
Frames(s, tx)   == \A n \in 1 .. Len(s) : IsFrame(s[n], tx[s[n].file])
Distinct(s)     == \A m, n \in 1 .. Len(s) : s[m].file = s[n].file => m = n
Open(s, done)   == \A n \in 1 .. Len(s) : s[n].file \notin done
Linked(s, tx)   == \A n \in 2 .. Len(s) : Imports(s[n - 1], tx[s[n - 1].file], s[n].file)
Calls(s, tx, p) == Len(s) >= 1 => Imports(s[Len(s)], tx[s[Len(s)].file], p)

Chain ==
  /\ Frames(stack, text)
  /\ Distinct(stack)
  /\ Open(stack, processed)
  /\ Linked(stack, text)
  /\ call # None => Calls(stack, text, call)

IInv == Typed /\ Chain

-----------------------------------------------------------------------------
(* Operators.                                                              *)

(* A nonempty set of indices has a least one.                              *)
LEMMA MinIsIn ==
  ASSUME NEW S \in SUBSET Nat, S # {}
  PROVE  Min(S) \in S
<1> DEFINE R == OpToRel(<, Nat)
<1>0. R = {p \in Nat \X Nat : p[1] < p[2]}
  BY DEF OpToRel
<1>3. IsWellFoundedOn(R, Nat)
  BY NatLessThanWellFounded
<1> HIDE DEF R
<1>1. PICK x \in S : \A y \in S : ~(<<y, x>> \in R)
  BY <1>3, WFMin
<1>2. \A y \in S : x =< y
  <2> SUFFICES ASSUME NEW y \in S PROVE x =< y
    OBVIOUS
  <2>1. <<y, x>> \in Nat \X Nat /\ <<y, x>>[1] = y /\ <<y, x>>[2] = x
    OBVIOUS
  <2>2. ~(y < x)
    BY <1>0, <1>1, <2>1
  <2> QED
    BY <2>1, <2>2
<1> QED
  BY <1>2 DEF Min

(* resolve_import_path yields a place, whatever there is in it.            *)
LEMMA ResolveTyping ==
  ASSUME kind \in [Places -> Kinds], NEW x \in Names, NEW f \in Places
  PROVE  Resolve(x, f) \in Places
<1> DEFINE paths == <<Beside[f][x]>> \o Included[x]
           found == {i \in DOMAIN paths : Exists(paths[i])}
<1>1. Beside[f][x] \in Places /\ Included[x] \in Seq(Places)
  BY ImportAssumption
<1>2. paths \in Seq(Places) /\ DOMAIN paths \subseteq Nat
  BY <1>1
<1>3. \A p \in Places : FileAt(p) \in Places
  BY ImportAssumption DEF FileAt
<1>4. CASE found = {}
  BY <1>1, <1>4 DEF Resolve
<1>5. CASE found # {}
  <2>1. found \in SUBSET Nat /\ found \subseteq DOMAIN paths
    BY <1>2
  <2>2. Min(found) \in DOMAIN paths
    BY <1>5, <2>1, MinIsIn
  <2>3. \A n \in DOMAIN paths : paths[n] \in Places
    BY <1>2
  <2>4. paths[Min(found)] \in Places
    BY <2>2, <2>3, Zenon
  <2> QED
    BY <1>3, <1>5, <2>4 DEF Resolve
<1> QED
  BY <1>4, <1>5

(* What is left of a text is one of its suffixes.                          *)
LEMMA RestIsSuffix ==
  ASSUME NEW S, NEW t \in Seq(S), NEW i \in 0 .. Len(t)
  PROVE  IsSuffix(Rest(t, i), t)
<1> DEFINE r == Rest(t, i)
<1>1. r \in Seq(S) /\ Len(r) = Len(t) - i /\ \A j \in 1 .. Len(r) : r[j] = t[i + j]
  BY DEF Rest
<1>2. Reverse(r) \in Seq(S) /\ Reverse(t) \in Seq(S) /\ Len(Reverse(r)) = Len(r) /\ Len(Reverse(t)) = Len(t)
  BY <1>1 DEF Reverse
<1>3. \A j \in 1 .. Len(r) : Reverse(r)[j] = Reverse(t)[j]
  BY <1>1 DEF Reverse
<1> HIDE DEF r
<1>4. SubSeq(Reverse(r), 1, Len(r)) = SubSeq(Reverse(t), 1, Len(r))
  BY <1>1, <1>2, <1>3
<1> QED
  BY <1>1, <1>2, <1>4 DEF IsSuffix, IsPrefix, r

(* Visiting an item leaves one item fewer.                                 *)
LEMMA TailOfRest ==
  ASSUME NEW S, NEW t \in Seq(S), NEW i \in 0 .. Len(t), Rest(t, i) # << >>
  PROVE  /\ i + 1 \in 0 .. Len(t)
         /\ Tail(Rest(t, i)) = Rest(t, i + 1)
         /\ Head(Rest(t, i)) = t[i + 1]
         /\ Len(t) - Len(Rest(t, i + 1)) = i + 1
<1>1. Rest(t, i) \in Seq(S) /\ Len(Rest(t, i)) = Len(t) - i
  BY DEF Rest
<1>2. i < Len(t)
  BY <1>1
<1>3. Head(Rest(t, i)) = t[i + 1]
  BY <1>1, <1>2 DEF Rest
<1>4. /\ Rest(t, i + 1) \in Seq(S) /\ Len(Rest(t, i + 1)) = Len(t) - (i + 1)
      /\ \A j \in 1 .. Len(t) - (i + 1) : Rest(t, i + 1)[j] = t[i + 1 + j]
  BY <1>2 DEF Rest
<1>5. /\ Tail(Rest(t, i)) \in Seq(S) /\ Len(Tail(Rest(t, i))) = Len(t) - (i + 1)
      /\ \A j \in 1 .. Len(t) - (i + 1) : Tail(Rest(t, i))[j] = t[i + 1 + j]
  BY <1>1, <1>2 DEF Rest
<1>6. Tail(Rest(t, i)) = Rest(t, i + 1)
  BY <1>4, <1>5
<1> QED
  BY <1>2, <1>3, <1>4, <1>6

-----------------------------------------------------------------------------
(* Stacks.                                                                 *)

(* Pushing a file that the last one imports.                               *)
LEMMA Pushing ==
  ASSUME NEW s \in Seq(Frame), NEW tx, NEW ty, NEW done, NEW x \in Frame,
         Frames(s, tx), Distinct(s), Open(s, done), Linked(s, tx), Calls(s, tx, x.file),
         IsFrame(x, ty[x.file]), x.file \notin done,
         \A n \in 1 .. Len(s) : s[n].file # x.file /\ ty[s[n].file] = tx[s[n].file]
  PROVE  LET r == Append(s, x)
         IN  r \in Seq(Frame) /\ Frames(r, ty) /\ Distinct(r) /\ Open(r, done) /\ Linked(r, ty)
<1> DEFINE r == Append(s, x)
           k == Len(s)
<1>1. /\ k \in Nat /\ r \in Seq(Frame) /\ Len(r) = k + 1 /\ r[k + 1] = x
      /\ \A n \in 1 .. k : r[n] = s[n]
  OBVIOUS
<1> HIDE DEF r, k
<1>2. \A n \in 1 .. (k + 1) : n = k + 1 \/ n \in 1 .. k
  BY <1>1
<1>3. \A n \in 1 .. k : n # k + 1
  BY <1>1
<1>4. \A n \in 1 .. k : /\ IsFrame(s[n], tx[s[n].file]) /\ s[n].file \notin done
                       /\ s[n].file # x.file /\ ty[s[n].file] = tx[s[n].file]
  BY DEF k, Frames, Open
<1>5. Frames(r, ty)
  <2> SUFFICES ASSUME NEW n \in 1 .. (k + 1) PROVE IsFrame(r[n], ty[r[n].file])
    BY <1>1 DEF Frames
  <2>1. CASE n = k + 1
    BY <1>1, <2>1
  <2>2. CASE n \in 1 .. k
    BY <1>1, <1>4, <2>2
  <2> QED
    BY <1>2, <2>1, <2>2
<1>6. Distinct(r)
  <2> SUFFICES ASSUME NEW m \in 1 .. (k + 1), NEW n \in 1 .. (k + 1), r[m].file = r[n].file PROVE m = n
    BY <1>1 DEF Distinct
  <2>1. CASE m \in 1 .. k /\ n \in 1 .. k
    <3>1. s[m].file = s[n].file
      BY <1>1, <2>1
    <3> QED
      BY <2>1, <3>1 DEF Distinct, k
  <2>2. CASE m = k + 1 /\ n \in 1 .. k
    BY <1>1, <1>4, <2>2
  <2>3. CASE m \in 1 .. k /\ n = k + 1
    BY <1>1, <1>4, <2>3
  <2> QED
    BY <1>2, <2>1, <2>2, <2>3
<1>7. Open(r, done)
  <2> SUFFICES ASSUME NEW n \in 1 .. (k + 1) PROVE r[n].file \notin done
    BY <1>1 DEF Open
  <2> QED
    BY <1>1, <1>2, <1>4
<1>8. Linked(r, ty)
  <2> SUFFICES ASSUME NEW n \in 2 .. (k + 1) PROVE Imports(r[n - 1], ty[r[n - 1].file], r[n].file)
    BY <1>1 DEF Linked
  <2>1. n - 1 \in 1 .. k
    BY <1>1
  <2>2. r[n - 1] = s[n - 1] /\ ty[r[n - 1].file] = tx[s[n - 1].file]
    BY <1>1, <1>4, <2>1
  <2>3. CASE n = k + 1
    <3>1. n - 1 = k /\ k >= 1
      BY <1>1, <2>3
    <3>2. Imports(s[k], tx[s[k].file], x.file)
      BY <3>1 DEF Calls, k
    <3> QED
      BY <1>1, <2>2, <2>3, <3>1, <3>2
  <2>4. CASE n # k + 1
    <3>1. n \in 2 .. k /\ n \in 1 .. k
      BY <1>1, <2>4
    <3>2. Imports(s[n - 1], tx[s[n - 1].file], s[n].file)
      BY <3>1 DEF Linked, k
    <3>3. r[n] = s[n]
      BY <1>1, <3>1
    <3> QED
      BY <2>2, <3>2, <3>3
  <2> QED
    BY <2>3, <2>4
<1> QED
  BY <1>1, <1>5, <1>6, <1>7, <1>8 DEF r

(* A frame with other items left.                                          *)
LEMMA WithTodo ==
  ASSUME NEW x \in Frame, NEW y
  PROVE  [x EXCEPT !.todo = y] = [file |-> x.file, todo |-> y]
<1>1. PICK g, d : x = [file |-> g, todo |-> d]
  BY DEF Frame
<1>2. [x EXCEPT !.todo = y] = [file |-> g, todo |-> y]
  BY <1>1
<1>3. x.file = g
  BY <1>1
<1> QED
  BY <1>2, <1>3

(* Visiting an item of the last file.                                      *)
LEMMA Advancing ==
  ASSUME NEW s \in Seq(Frame), NEW tx, NEW done, Len(s) >= 1, s[Len(s)].todo # << >>,
         Frames(s, tx), Distinct(s), Open(s, done), Linked(s, tx)
  PROVE  LET k == Len(s)
             r == [s EXCEPT ![k].todo = Tail(@)]
             t == tx[s[k].file]
             i == Len(t) - Len(s[k].todo) + 1
         IN  /\ r \in Seq(Frame) /\ Frames(r, tx) /\ Distinct(r) /\ Open(r, done) /\ Linked(r, tx)
             /\ Len(r) = k /\ r[k].file = s[k].file /\ s[k].file \in Places
             /\ i \in Nat \ {0} /\ i \in DOMAIN t /\ t[i] = Head(s[k].todo)
             /\ Len(t) - Len(r[k].todo) = i
<1> DEFINE k == Len(s)
           r == [s EXCEPT ![k].todo = Tail(@)]
           t == tx[s[k].file]
           f == s[k].file
<1>1. k \in Nat /\ k \in 1 .. k /\ s[k] \in Frame /\ \A n \in 1 .. k : s[n] \in Frame
  OBVIOUS
<1>2. f \in Places /\ s[k].todo \in Seq(Item) /\ s[k] = [file |-> f, todo |-> s[k].todo]
  BY <1>1 DEF Frame
<1>3. PICK j \in 0 .. Len(t) : s[k].todo = Rest(t, j)
  BY <1>1 DEF Frames, IsFrame
<1>4. t \in TextsOf /\ t \in Seq(Item) /\ Len(t) \in Nat /\ DOMAIN t = 1 .. Len(t)
  BY <1>1, ImportAssumption DEF Frames, IsFrame
<1>5. /\ j + 1 \in 0 .. Len(t) /\ Tail(s[k].todo) = Rest(t, j + 1)
      /\ Head(s[k].todo) = t[j + 1] /\ Len(t) - Len(Rest(t, j + 1)) = j + 1
  BY <1>3, <1>4, TailOfRest
<1>6. Len(s[k].todo) = Len(t) - j
  BY <1>3, <1>4 DEF Rest
<1>7. Tail(s[k].todo) \in Seq(Item)
  BY <1>2
<1>8. [s[k] EXCEPT !.todo = Tail(@)] = [file |-> f, todo |-> Tail(s[k].todo)]
  BY <1>1, WithTodo
<1>9. r = [s EXCEPT ![k] = [file |-> f, todo |-> Tail(s[k].todo)]]
  BY <1>8
<1>10. [file |-> f, todo |-> Tail(s[k].todo)] \in Frame
  BY <1>2, <1>7 DEF Frame
<1> DEFINE x == [file |-> f, todo |-> Tail(s[k].todo)]
<1>11. x.file = f /\ x.todo = Rest(t, j + 1) /\ x \in Frame
  BY <1>5, <1>10
<1>12. r = [s EXCEPT ![k] = x]
  BY <1>9
<1> HIDE DEF x, r
<1>13. /\ r \in Seq(Frame) /\ Len(r) = k /\ r[k] = x
       /\ \A n \in 1 .. k : n # k => r[n] = s[n]
  BY <1>1, <1>11, <1>12
<1>14. \A n \in 1 .. k : r[n].file = s[n].file
  BY <1>11, <1>13
<1> HIDE DEF f, t, k
<1>15. t = tx[f] /\ f = s[k].file /\ k = Len(s)
  BY DEF f, t, k
<1>16. Frames(r, tx)
  <2> SUFFICES ASSUME NEW n \in 1 .. k PROVE IsFrame(r[n], tx[r[n].file])
    BY <1>13 DEF Frames
  <2>1. CASE n = k
    <3>1. r[n] = x /\ tx[r[n].file] = t
      BY <1>11, <1>13, <1>15, <2>1
    <3>2. IsFrame(x, t)
      BY <1>4, <1>5, <1>11 DEF IsFrame, Frame
    <3> QED
      BY <3>1, <3>2
  <2>2. CASE n # k
    <3>1. IsFrame(s[n], tx[s[n].file])
      BY <1>15 DEF Frames
    <3> QED
      BY <1>13, <2>2, <3>1
  <2> QED
    BY <2>1, <2>2
<1>17. Distinct(r)
  BY <1>13, <1>14, <1>15 DEF Distinct
<1>18. Open(r, done)
  BY <1>13, <1>14, <1>15 DEF Open
<1>19. Linked(r, tx)
  <2> SUFFICES ASSUME NEW n \in 2 .. k PROVE Imports(r[n - 1], tx[r[n - 1].file], r[n].file)
    BY <1>13 DEF Linked
  <2>1. n - 1 \in 1 .. k /\ n - 1 # k /\ n \in 1 .. k
    BY <1>1
  <2>2. r[n - 1] = s[n - 1] /\ r[n].file = s[n].file
    BY <1>13, <1>14, <2>1
  <2>3. Imports(s[n - 1], tx[s[n - 1].file], s[n].file)
    BY <1>15 DEF Linked
  <2> QED
    BY <2>2, <2>3
<1>20. LET i == Len(t) - Len(s[k].todo) + 1
       IN  /\ i \in Nat \ {0} /\ i \in DOMAIN t /\ t[i] = Head(s[k].todo)
           /\ Len(t) - Len(r[k].todo) = i
  <2>1. Len(t) - Len(s[k].todo) + 1 = j + 1
    BY <1>3, <1>4, <1>6
  <2>2. j + 1 \in Nat \ {0} /\ j + 1 \in DOMAIN t
    BY <1>3, <1>4, <1>5
  <2> QED
    BY <1>5, <1>11, <1>13, <2>1, <2>2
<1>21. r[k].file = s[k].file
  BY <1>1, <1>14
<1> QED
  BY <1>2, <1>13, <1>16, <1>17, <1>18, <1>19, <1>20, <1>21 DEF r, t, k, f

(* The beginning of a sequence.                                            *)
LEMMA PrefixOf ==
  ASSUME NEW S, NEW s \in Seq(S), NEW n \in 0 .. Len(s)
  PROVE  /\ SubSeq(s, 1, n) \in Seq(S) /\ Len(SubSeq(s, 1, n)) = n
         /\ \A i \in 1 .. n : SubSeq(s, 1, n)[i] = s[i]
OBVIOUS

(* Taking off the last file, which is processed from then on.              *)
LEMMA Popping ==
  ASSUME NEW s \in Seq(Frame), NEW tx, NEW done, Len(s) >= 1,
         Frames(s, tx), Distinct(s), Open(s, done), Linked(s, tx)
  PROVE  LET r == Front(s)
         IN  /\ r \in Seq(Frame) /\ Frames(r, tx) /\ Distinct(r) /\ Linked(r, tx)
             /\ Open(r, done \cup {s[Len(s)].file}) /\ s[Len(s)].file \in Places
<1> DEFINE r == Front(s)
           k == Len(s)
<1>0. k \in Nat /\ k - 1 \in Nat /\ k \in 1 .. k /\ \A n \in 1 .. k : s[n] \in Frame
  OBVIOUS
<1>1. /\ k \in Nat /\ k - 1 \in Nat /\ r \in Seq(Frame) /\ Len(r) = k - 1
      /\ \A n \in 1 .. (k - 1) : r[n] = s[n]
  <2>1. r = SubSeq(s, 1, k - 1)
    BY DEF Front
  <2>2. k - 1 \in 0 .. Len(s)
    BY <1>0
  <2> QED
    BY <1>0, <2>1, <2>2, PrefixOf
<1>2. s[k] \in Frame /\ s[k].file \in Places
  BY <1>0 DEF Frame
<1> HIDE DEF r
<1>3. \A n \in 1 .. (k - 1) : n \in 1 .. k /\ n # k
  BY <1>1
<1>4. Frames(r, tx)
  BY <1>1, <1>3 DEF Frames
<1>5. Distinct(r)
  BY <1>1, <1>3 DEF Distinct
<1>6. Open(r, done \cup {s[k].file})
  <2> SUFFICES ASSUME NEW n \in 1 .. (k - 1) PROVE r[n].file \notin done /\ r[n].file # s[k].file
    BY <1>1 DEF Open
  <2>1. n \in 1 .. k /\ n # k /\ k \in 1 .. k /\ r[n] = s[n]
    BY <1>1, <1>3
  <2> QED
    BY <2>1 DEF Open, Distinct
<1>7. Linked(r, tx)
  <2> SUFFICES ASSUME NEW n \in 2 .. (k - 1) PROVE Imports(r[n - 1], tx[r[n - 1].file], r[n].file)
    BY <1>1 DEF Linked
  <2>1. n - 1 \in 1 .. (k - 1) /\ n \in 1 .. (k - 1) /\ n \in 2 .. k
    BY <1>1
  <2>2. r[n - 1] = s[n - 1] /\ r[n] = s[n]
    BY <1>1, <2>1
  <2> QED
    BY <2>1, <2>2 DEF Linked
<1> QED
  BY <1>1, <1>2, <1>4, <1>5, <1>6, <1>7 DEF r

-----------------------------------------------------------------------------
(* The walk.                                                               *)

LEMMA InitIInv == Init => IInv
<1> SUFFICES ASSUME Init PROVE IInv
  OBVIOUS
<1>1. Typed
  BY ImportAssumption DEF Init, Typed
<1>2. stack = << >> /\ Len(stack) = 0
  BY DEF Init
<1>3. 1 .. 0 = {} /\ 2 .. 0 = {}
  OBVIOUS
<1>4. Chain
  BY <1>2, <1>3 DEF Chain, Frames, Distinct, Open, Linked, Calls
<1> QED
  BY <1>1, <1>4 DEF IInv

(* The file system stays as it is, and with it what imports denote.        *)
LEMMA SameImports ==
  ASSUME kind' = kind
  PROVE  \A x, t, p : Imports(x, t, p)' <=> Imports(x, t, p)
<1>1. \A x, f : Resolve(x, f)' = Resolve(x, f)
  BY DEF Resolve, Exists, FileAt
<1> QED
  BY <1>1 DEF Imports

(* What Chain is in the next state.                                        *)
LEMMA NextChain ==
  ASSUME kind' = kind, Frames(stack', text'), Distinct(stack'), Open(stack', processed'),
         Linked(stack', text'), call' # None => Calls(stack', text', call')
  PROVE  Chain'
<1>1. \A x, t, p : Imports(x, t, p)' <=> Imports(x, t, p)
  BY SameImports
<1> QED
  BY <1>1 DEF Chain, Frames, Distinct, Open, Linked, Calls

(* A return of process_file before it has pushed the file.                 *)
LEMMA EarlyReturn ==
  ASSUME IInv, call' = None, UNCHANGED <<kind, text, stack, processed, decls>>
  PROVE  IInv'
<1>1. Typed'
  BY DEF IInv, Typed
<1>2. Chain'
  BY NextChain DEF IInv, Chain
<1> QED
  BY <1>1, <1>2 DEF IInv

LEMMA ParseIInv ==
  ASSUME IInv, Parse
  PROVE  IInv'
<1>1. PICK t \in TextsOf :
        /\ text' = [text EXCEPT ![call] = t]
        /\ stack' = Append(stack, [file |-> call, todo |-> t])
  BY DEF Parse
<1> DEFINE x == [file |-> call, todo |-> t]
<1>2. /\ call \in Places /\ call # None /\ call \notin processed
      /\ \A n \in DOMAIN stack : stack[n].file # call
      /\ kind' = kind /\ call' = None /\ processed' = processed /\ decls' = decls
  BY DEF IInv, Typed, Parse, Entering, OnStack
<1>3. t \in Seq(Item) /\ x \in Frame /\ x.file = call /\ x.todo = t
  BY <1>2, ImportAssumption DEF Frame
<1>4. /\ stack \in Seq(Frame) /\ DOMAIN stack = 1 .. Len(stack)
      /\ \A n \in 1 .. Len(stack) : stack[n] \in Frame
  BY DEF IInv, Typed
<1>5. \A n \in 1 .. Len(stack) : stack[n].file \in Places /\ stack[n].file # call
  BY <1>2, <1>4 DEF Frame
<1>6. text'[call] = t /\ \A p \in Places : p # call => text'[p] = text[p]
  BY <1>1, <1>2 DEF IInv, Typed
<1>7. IsFrame(x, text'[x.file])
  <2>1. Rest(t, 0) = t /\ 0 \in 0 .. Len(t)
    BY <1>3 DEF Rest
  <2>2. IsFrame(x, t)
    BY <1>3, <2>1 DEF IsFrame, Frame
  <2> QED
    BY <1>3, <1>6, <2>2
<1> HIDE DEF x
<1>8. /\ Frames(stack, text) /\ Distinct(stack) /\ Open(stack, processed)
      /\ Linked(stack, text) /\ Calls(stack, text, x.file)
  BY <1>2, <1>3 DEF IInv, Chain
<1>9. \A n \in 1 .. Len(stack) : stack[n].file # x.file /\ text'[stack[n].file] = text[stack[n].file]
  BY <1>3, <1>5, <1>6
<1>10. stack' = Append(stack, x)
  BY <1>1 DEF x
<1>11. /\ stack' \in Seq(Frame) /\ Frames(stack', text') /\ Distinct(stack')
       /\ Open(stack', processed) /\ Linked(stack', text')
  <2>1. x.file \notin processed
    BY <1>2, <1>3
  <2> QED
    BY <1>3, <1>4, <1>7, <1>8, <1>9, <1>10, <2>1, Pushing
<1>12. Typed'
  <2>1. text' \in [Places -> TextsOf \cup {Unread}]
    BY <1>1 DEF IInv, Typed
  <2> QED
    BY <1>2, <1>11, <2>1 DEF IInv, Typed
<1>13. Chain'
  BY <1>2, <1>11, NextChain
<1> QED
  BY <1>12, <1>13 DEF IInv

(* Visiting an item: the file on top moves on by one, nothing else does.   *)
LEMMA VisitItem ==
  ASSUME IInv, Visiting, Top.todo # << >>, NextItem
  PROVE  LET t == text[Top.file]
             i == Len(t) - Len(Top.todo) + 1
         IN  /\ stack' \in Seq(Frame) /\ Frames(stack', text) /\ Distinct(stack')
             /\ Open(stack', processed) /\ Linked(stack', text)
             /\ Len(stack') >= 1 /\ stack'[Len(stack')].file = Top.file /\ Top.file \in Places
             /\ i \in Nat \ {0} /\ i \in DOMAIN t /\ t[i] = Head(Top.todo)
             /\ Len(t) - Len(stack'[Len(stack')].todo) = i
<1>1. stack \in Seq(Frame) /\ Len(stack) >= 1 /\ Top = stack[Len(stack)]
  BY DEF IInv, Typed, Visiting, Top
<1>2. Frames(stack, text) /\ Distinct(stack) /\ Open(stack, processed) /\ Linked(stack, text)
  BY DEF IInv, Chain
<1>3. stack' = [stack EXCEPT ![Len(stack)].todo = Tail(@)]
  BY DEF NextItem
<1> QED
  BY <1>1, <1>2, <1>3, Advancing, ZenonT(30)

LEMMA DeclareIInv ==
  ASSUME IInv, Declare
  PROVE  IInv'
<1>1. /\ call' = call /\ call = None /\ kind' = kind /\ text' = text /\ processed' = processed
      /\ decls' = Append(decls, [file |-> Top.file, at |-> Len(text[Top.file]) - Len(Top.todo) + 1])
      /\ Visiting /\ Top.todo # << >> /\ NextItem
  BY DEF Declare, Visiting
<1>2. /\ stack' \in Seq(Frame) /\ Frames(stack', text) /\ Distinct(stack')
      /\ Open(stack', processed) /\ Linked(stack', text)
      /\ Top.file \in Places /\ Len(text[Top.file]) - Len(Top.todo) + 1 \in Nat \ {0}
  BY <1>1, VisitItem
<1>3. decls' \in Seq([file : Places, at : Nat \ {0}])
  BY <1>1, <1>2 DEF IInv, Typed
<1>4. Typed'
  BY <1>1, <1>2, <1>3 DEF IInv, Typed
<1>5. Chain'
  BY <1>1, <1>2, NextChain
<1> QED
  BY <1>4, <1>5 DEF IInv

LEMMA ImportIInv ==
  ASSUME IInv, Import
  PROVE  IInv'
<1> DEFINE p == Resolve(Head(Top.todo), Top.file)
           t == text[Top.file]
           last == stack'[Len(stack')]
<1>1. /\ call = None /\ kind' = kind /\ text' = text /\ processed' = processed /\ decls' = decls
      /\ call' = call \/ call' = p
      /\ Visiting /\ Top.todo # << >> /\ NextItem /\ Head(Top.todo) \in Names
  BY DEF Import, Visiting
<1>2. /\ stack' \in Seq(Frame) /\ Frames(stack', text) /\ Distinct(stack')
      /\ Open(stack', processed) /\ Linked(stack', text) /\ Top.file \in Places
  BY <1>1, VisitItem
<1>3. p \in Places
  BY <1>1, <1>2, ResolveTyping DEF IInv, Typed
<1>4. Imports(last, t, p)
  <2>1. LET i == Len(t) - Len(Top.todo) + 1
        IN  /\ i \in DOMAIN t /\ t[i] = Head(Top.todo)
            /\ Len(t) - Len(last.todo) = i /\ last.file = Top.file
    BY <1>1, VisitItem
  <2> HIDE DEF t, last
  <2> QED
    BY <1>1, <2>1 DEF Imports
<1>5. Typed'
  BY <1>1, <1>2, <1>3 DEF IInv, Typed
<1>6. last.file = Top.file
  BY <1>1, VisitItem
<1>7. call' # None => Calls(stack', text, call')
  BY <1>1, <1>4, <1>6 DEF Calls
<1>8. Chain'
  BY <1>1, <1>2, <1>7, NextChain
<1> QED
  BY <1>5, <1>8 DEF IInv

LEMMA CompleteIInv ==
  ASSUME IInv, Complete
  PROVE  IInv'
<1>1. /\ call = None /\ call' = call /\ kind' = kind /\ text' = text /\ decls' = decls
      /\ processed' = processed \cup {Top.file} /\ stack' = Front(stack)
  BY DEF Complete, Visiting, output, Marked, Popped
<1>2. stack \in Seq(Frame) /\ Len(stack) >= 1 /\ Top = stack[Len(stack)]
  BY DEF IInv, Typed, Complete, Visiting, Top
<1>3. Frames(stack, text) /\ Distinct(stack) /\ Open(stack, processed) /\ Linked(stack, text)
  BY DEF IInv, Chain
<1>4. /\ stack' \in Seq(Frame) /\ Frames(stack', text) /\ Distinct(stack')
      /\ Linked(stack', text) /\ Open(stack', processed \cup {Top.file}) /\ Top.file \in Places
  BY <1>1, <1>2, <1>3, Popping
<1>5. Typed'
  BY <1>1, <1>4 DEF IInv, Typed
<1>6. Chain'
  BY <1>1, <1>4, NextChain
<1> QED
  BY <1>5, <1>6 DEF IInv

LEMMA NextIInv == IInv /\ [Next]_vars => IInv'
<1> SUFFICES ASSUME IInv, [Next]_vars PROVE IInv'
  OBVIOUS
<1>1. CASE CircularImport
  BY <1>1, EarlyReturn DEF CircularImport
<1>2. CASE AlreadyProcessed
  BY <1>2, EarlyReturn DEF AlreadyProcessed, output
<1>3. CASE ReadFails
  BY <1>3, EarlyReturn DEF ReadFails
<1>4. CASE ParseFails
  BY <1>4, EarlyReturn DEF ParseFails
<1>5. CASE Parse
  BY <1>5, ParseIInv
<1>6. CASE Declare
  BY <1>6, DeclareIInv
<1>7. CASE Import
  BY <1>7, ImportIInv
<1>8. CASE Complete
  BY <1>8, CompleteIInv
<1>9. CASE UNCHANGED vars
  <2>1. UNCHANGED <<kind, text, stack, processed, decls, call>>
    BY <1>9 DEF vars, output
  <2>2. Typed'
    BY <2>1 DEF IInv, Typed
  <2>3. Chain'
    BY <2>1, NextChain DEF IInv, Chain
  <2> QED
    BY <2>2, <2>3 DEF IInv
<1> QED
  BY <1>1, <1>2, <1>3, <1>4, <1>5, <1>6, <1>7, <1>8, <1>9 DEF Next

-----------------------------------------------------------------------------
(* What the imports of a file lead to.                                     *)

\* what the text t of the file f imports
Of(f, t) == IF t = Unread THEN {} ELSE {Resolve(x, f) : x \in ToSet(t) \cap Names}

Closed(S) == \A g \in S : ImportsOf(g) \subseteq S

\* the places in S, and what each of them imports
Wider(S) == S \cup UNION {ImportsOf(g) : g \in S}

LEMMA ImportsArePlaces ==
  ASSUME kind \in [Places -> Kinds]
  PROVE  \A f \in Places : ImportsOf(f) \subseteq Places
BY ResolveTyping DEF ImportsOf

(* The recursion of Leads has a solution.                                  *)
LEMMA ReachExists ==
  ASSUME NEW f, NEW n \in Nat
  PROVE  \E g : g = [i \in 1 .. n |-> IF i = 1 THEN ImportsOf(f) ELSE Wider(g[i - 1])]
<1> DEFINE first == ImportsOf(f)
           Upto(m, g) == g = [i \in 1 .. m |-> IF i = 1 THEN first ELSE Wider(g[i - 1])]
           X == {m \in Nat : \E g : Upto(m, g)}
<1> HIDE DEF first
<1>1. 0 \in X
  <2>1. Upto(0, [i \in 1 .. 0 |-> i])
    OBVIOUS
  <2> QED
    BY <2>1
<1>2. ASSUME NEW m \in Nat, m \in X PROVE m + 1 \in X
  <2>1. PICK g : Upto(m, g)
    BY <1>2
  <2> DEFINE h == [i \in 1 .. m + 1 |->
                     IF i = m + 1 THEN IF i = 1 THEN first ELSE Wider(g[i - 1]) ELSE g[i]]
  <2>2. \A i \in 1 .. m + 1 : h[i] = IF i = 1 THEN first ELSE Wider(h[i - 1])
    <3> SUFFICES ASSUME NEW i \in 1 .. m + 1
                 PROVE  h[i] = IF i = 1 THEN first ELSE Wider(h[i - 1])
      OBVIOUS
    <3>1. CASE i = m + 1
      <4>1. i # 1 => i - 1 \in 1 .. m + 1 /\ i - 1 # m + 1
        BY <3>1
      <4>2. i # 1 => h[i - 1] = g[i - 1]
        BY <4>1
      <4>3. h[i] = IF i = 1 THEN first ELSE Wider(g[i - 1])
        BY <3>1
      <4> HIDE DEF h
      <4> QED
        BY <4>2, <4>3
    <3>2. CASE i # m + 1
      <4>1. i \in 1 .. m /\ (i # 1 => i - 1 \in 1 .. m + 1 /\ i - 1 # m + 1)
        BY <3>2
      <4>2. g[i] = IF i = 1 THEN first ELSE Wider(g[i - 1])
        BY <2>1, <4>1
      <4>3. h[i] = g[i] /\ (i # 1 => h[i - 1] = g[i - 1])
        BY <3>2, <4>1
      <4> HIDE DEF h
      <4> QED
        BY <4>2, <4>3
    <3> QED
      BY <3>1, <3>2
  <2>3. h = [i \in 1 .. m + 1 |-> h[i]]
    OBVIOUS
  <2>4. Upto(m + 1, h)
    <3> HIDE DEF h
    <3> QED
      BY <2>2, <2>3
  <2> HIDE DEF Upto, h
  <2> QED
    BY <2>4
<1>3. n \in X
  <2> HIDE DEF X
  <2> QED
    BY <1>1, <1>2, SetInduction
<1> QED
  BY <1>3 DEF first

(* A set that does not grow under Wider is closed.                         *)
LEMMA WiderFacts ==
  ASSUME kind \in [Places -> Kinds], NEW S \in SUBSET Places
  PROVE  /\ S \subseteq Wider(S) /\ Wider(S) \subseteq Places
         /\ Wider(S) = S <=> Closed(S)
         /\ \A T : S \subseteq T /\ Closed(T) => Wider(S) \subseteq T
<1>1. \A g \in S : ImportsOf(g) \subseteq Places
  BY ImportsArePlaces
<1> QED
  BY <1>1 DEF Wider, Closed

(* Leads(f) is the least closed set around the imports of f: as many steps *)
(* as there are places reach every place that can be reached.              *)
LEMMA LeadsFacts ==
  ASSUME kind \in [Places -> Kinds], NEW f \in Places
  PROVE  /\ Leads(f) \subseteq Places /\ ImportsOf(f) \subseteq Leads(f) /\ Closed(Leads(f))
         /\ \A S : ImportsOf(f) \subseteq S /\ Closed(S) => Leads(f) \subseteq S
<1> DEFINE N == Cardinality(Places)
           reach == CHOOSE g : g = [i \in 1 .. N |->
                                      IF i = 1 THEN ImportsOf(f) ELSE Wider(g[i - 1])]
<1>1. N \in Nat /\ N >= 1
  <2>1. IsFiniteSet(Places) /\ Places # {}
    BY ImportAssumption
  <2> QED
    BY <2>1, FS_CardinalityType, FS_EmptySet
<1>2. reach = [i \in 1 .. N |-> IF i = 1 THEN ImportsOf(f) ELSE Wider(reach[i - 1])]
  BY <1>1, ReachExists
<1>3. Leads(f) = reach[N]
  BY DEF Leads, Wider
<1> HIDE DEF reach, N
<1>4. reach[1] = ImportsOf(f)
  BY <1>1, <1>2
<1>5. \A i \in 1 .. N - 1 : reach[i + 1] = Wider(reach[i])
  <2>1. \A i \in 1 .. N : reach[i] = IF i = 1 THEN ImportsOf(f) ELSE Wider(reach[i - 1])
    BY <1>2
  <2> SUFFICES ASSUME NEW i \in 1 .. N - 1 PROVE reach[i + 1] = Wider(reach[i])
    OBVIOUS
  <2>2. PICK j \in 1 .. N : j = i + 1 /\ j # 1 /\ j - 1 = i
    BY <1>1
  <2>3. reach[j] = Wider(reach[j - 1])
    BY <2>1, <2>2, Zenon
  <2> QED
    BY <2>2, <2>3, Zenon
(* The sets reached grow until they are closed.                            *)
<1> DEFINE Grows(i) == /\ reach[i] \subseteq Places /\ ImportsOf(f) \subseteq reach[i]
                       /\ Closed(reach[i]) \/ Cardinality(reach[i]) >= i
                       /\ \A S : ImportsOf(f) \subseteq S /\ Closed(S) => reach[i] \subseteq S
           X == {i \in Nat : i \in 1 .. N => Grows(i)}
<1>6. Grows(1)
  <2>1. reach[1] \subseteq Places /\ IsFiniteSet(reach[1])
    BY <1>4, ImportsArePlaces, ImportAssumption, FS_Subset
  <2>2. reach[1] = {} => Closed(reach[1])
    BY DEF Closed
  <2>3. reach[1] # {} => Cardinality(reach[1]) >= 1
    BY <2>1, FS_CardinalityType, FS_EmptySet
  <2> QED
    BY <1>4, <2>1, <2>2, <2>3
<1>7. ASSUME NEW i \in 1 .. N - 1, Grows(i) PROVE Grows(i + 1)
  <2> DEFINE R == reach[i]
  <2>1. reach[i + 1] = Wider(R)
    BY <1>5
  <2>2. R \in SUBSET Places
    BY <1>7
  <2>3. R \subseteq Wider(R) /\ Wider(R) \subseteq Places /\ (Wider(R) = R <=> Closed(R))
    BY <2>2, WiderFacts
  <2>4. \A S : ImportsOf(f) \subseteq S /\ Closed(S) => Wider(R) \subseteq S
    BY <1>7, <2>2, WiderFacts
  <2>5. Closed(Wider(R)) \/ Cardinality(Wider(R)) >= i + 1
    <3>1. CASE Closed(R)
      BY <2>3, <3>1
    <3>2. CASE ~Closed(R)
      <4>1. IsFiniteSet(Wider(R)) /\ IsFiniteSet(R)
        BY <2>2, <2>3, ImportAssumption, FS_Subset
      <4>2. R # Wider(R)
        BY <2>3, <3>2
      <4>3. Cardinality(R) < Cardinality(Wider(R))
        <5>1. Cardinality(R) <= Cardinality(Wider(R))
          BY <2>3, <4>1, FS_Subset
        <5>2. Cardinality(R) # Cardinality(Wider(R))
          BY <2>3, <4>1, <4>2, FS_Subset
        <5> QED
          BY <4>1, <5>1, <5>2, FS_CardinalityType
      <4>4. Cardinality(R) >= i /\ Cardinality(R) \in Nat /\ Cardinality(Wider(R)) \in Nat
        BY <1>7, <3>2, <4>1, FS_CardinalityType
      <4> HIDE DEF R
      <4> QED
        BY <4>3, <4>4
    <3> QED
      BY <3>1, <3>2
  <2>6. ImportsOf(f) \subseteq Wider(R)
    BY <1>7, <2>3
  <2> HIDE DEF R
  <2> QED
    BY <2>1, <2>3, <2>4, <2>5, <2>6
<1>8. N \in X
  <2>1. 0 \in X
    OBVIOUS
  <2>2. ASSUME NEW i \in Nat, i \in X PROVE i + 1 \in X
    <3> HIDE DEF Grows
    <3>1. CASE i = 0
      BY <1>6, <3>1
    <3>2. CASE i # 0 /\ i < N
      BY <1>1, <1>7, <2>2, <3>2
    <3>3. CASE i >= N
      BY <1>1, <3>3
    <3> QED
      BY <1>1, <3>1, <3>2, <3>3
  <2> HIDE DEF X
  <2> QED
    BY <1>1, <2>1, <2>2, SetInduction
<1>9. Grows(N)
  BY <1>1, <1>8
<1>10. Closed(reach[N])
  <2>1. CASE Cardinality(reach[N]) >= N
    <3>1. IsFiniteSet(reach[N]) /\ Cardinality(reach[N]) <= N
      BY <1>9, ImportAssumption, FS_Subset DEF N
    <3>2. Cardinality(reach[N]) = N
      BY <1>1, <2>1, <3>1, FS_CardinalityType
    <3>3. reach[N] = Places
      BY <1>9, <3>2, ImportAssumption, FS_Subset DEF N
    <3> QED
      BY <3>3, ImportsArePlaces DEF Closed
  <2> QED
    BY <1>9, <2>1
<1> QED
  BY <1>3, <1>9, <1>10

-----------------------------------------------------------------------------
(* What has been found so far.                                             *)

\* the item i of the file f, with the text t, lies behind the stack s
Behind(s, t, f, i) ==
  \A n \in 1 .. Len(s) : s[n].file = f => i <= Len(t) - Len(s[n].todo)

\* the item i of f is a declaration that has been visited
Stands(s, tx, f, i) ==
  tx[f] # Unread /\ i \in DOMAIN tx[f] /\ tx[f][i] = Decl /\ Behind(s, tx[f], f, i)

Around(S)    == Entry \in S /\ Closed(S)
InProgram(p) == \A S \in SUBSET Places : Around(S) => p \in S
InCycle(p)   == \A S \in SUBSET Places : ImportsOf(p) \subseteq S /\ Closed(S) => p \in S

\* what the frame n of the stack s waits for, when pend is being called
Awaited(s, pend, n) == IF n = Len(s) THEN pend ELSE s[n + 1].file

\* the imports that a frame has visited are processed, or awaited
Followed(s, tx, done, pend) ==
  \A n \in 1 .. Len(s) :
    \A i \in 1 .. Len(tx[s[n].file]) - Len(s[n].todo) :
      tx[s[n].file][i] \in Names =>
        LET p == Resolve(tx[s[n].file][i], s[n].file)
        IN  p \in done \/ p = Awaited(s, pend, n)

\* all that p leads to is processed, and declared before n
Settled(ds, done, p, n) ==
  \E S \in SUBSET done :
    p \in S /\ Closed(S) /\ \A m \in DOMAIN ds : ds[m].file \in S => m < n

Ordered(ds, tx, done) ==
  \A n \in DOMAIN ds : \A i \in 1 .. ds[n].at - 1 :
    tx[ds[n].file][i] \in Names =>
      Settled(ds, done, Resolve(tx[ds[n].file][i], ds[n].file), n)

Acyclic(done) ==
  \A p \in done : \E S \in SUBSET done : Closed(S) /\ ImportsOf(p) \subseteq S /\ p \notin S

\* the files with a text are those that have been entered
Opened == \A p \in Places : text[p] # Unread <=> p \in processed \/ OnStack(p)

Sourced == \A p \in Places : text[p] # Unread => kind[p] = "source"

Reported ==
  errors \in Seq([what : {"circular", "read", "parse", "directory"}, file : Places])

\* nothing but the program is entered
Entered ==
  /\ call # None => InProgram(call)
  /\ \A p \in Places : text[p] # Unread => InProgram(p)

\* an error has its reason in the program
Blamed ==
  errors # << >> => \E p \in Places : InProgram(p) /\ (kind[p] # "source" \/ InCycle(p))

\* the declarations visited are listed, each of them once
Listed ==
  /\ \A m, n \in DOMAIN decls : decls[m] = decls[n] => m = n
  /\ \A f \in Places, i \in Nat :
       (\E n \in DOMAIN decls : decls[n].file = f /\ decls[n].at = i) <=> Stands(stack, text, f, i)

\* as long as there is no error
Clean ==
  errors = << >> =>
    /\ text[Entry] # Unread \/ call = Entry
    /\ Closed(processed)
    /\ Acyclic(processed)
    /\ Followed(stack, text, processed, call)
    /\ Ordered(decls, text, processed)

Account == Opened /\ Sourced /\ Reported /\ Entered /\ Blamed /\ Listed /\ Clean

LEMMA InitAccount == Init => Account
<1> SUFFICES ASSUME Init PROVE Account
  OBVIOUS
<1>1. /\ stack = << >> /\ Len(stack) = 0 /\ DOMAIN stack = {} /\ 1 .. 0 = {}
      /\ decls = << >> /\ DOMAIN decls = {} /\ processed = {} /\ errors = << >>
      /\ \A p \in Places : text[p] = Unread
      /\ call = Entry
  BY DEF Init
<1>2. Opened /\ Sourced /\ Reported
  BY <1>1 DEF Opened, Sourced, Reported, OnStack
<1>3. Entered /\ Blamed
  BY <1>1 DEF Entered, Blamed, InProgram, Around
<1>4. Listed
  BY <1>1 DEF Listed, Stands
<1>5. Clean
  BY <1>1 DEF Clean, Closed, Acyclic, Followed, Ordered
<1> QED
  BY <1>2, <1>3, <1>4, <1>5 DEF Account

-----------------------------------------------------------------------------
(* A step keeps the texts that have been read, and what follows from them. *)

LEMMA StepTexts ==
  ASSUME IInv, Opened, [Next]_vars
  PROVE  kind' = kind /\ \A p \in Places : text[p] # Unread => text'[p] = text[p]
<1>1. CASE Parse
  <2>1. PICK t \in TextsOf : text' = [text EXCEPT ![call] = t]
    BY <1>1 DEF Parse
  <2>2. call \in Places /\ text[call] = Unread /\ kind' = kind
    BY <1>1 DEF Parse, Entering, Opened, IInv, Typed
  <2> QED
    BY <2>1, <2>2 DEF IInv, Typed
<1>2. CASE ~Parse
  <2>1. kind' = kind /\ text' = text
    BY <1>2 DEF Next, vars, CircularImport, AlreadyProcessed, ReadFails, ParseFails, Declare, Import, Complete
  <2> QED
    BY <2>1
<1> QED
  BY <1>1, <1>2

LEMMA ImportsGrow ==
  ASSUME kind' = kind, \A p \in Places : text[p] # Unread => text'[p] = text[p]
  PROVE  /\ \A p \in Places : ImportsOf(p) \subseteq ImportsOf(p)'
         /\ \A p \in Places : text[p] # Unread => ImportsOf(p)' = ImportsOf(p)
<1>1. \A x, f : Resolve(x, f)' = Resolve(x, f)
  BY DEF Resolve, Exists, FileAt
<1>2. \A f : ImportsOf(f) = Of(f, text[f])
  BY DEF ImportsOf, Of
<1>3. \A f : ImportsOf(f)' = Of(f, text'[f])
  BY <1>1 DEF ImportsOf, Of
<1>4. \A f : Of(f, Unread) = {}
  BY DEF Of
<1> QED
  BY <1>2, <1>3, <1>4

LEMMA StepKeeps ==
  ASSUME kind' = kind, \A p \in Places : text[p] # Unread => text'[p] = text[p]
  PROVE  /\ \A S \in SUBSET Places : Closed(S)' => Closed(S)
         /\ \A S \in SUBSET Places : Closed(S) /\ (\A p \in S : text[p] # Unread) => Closed(S)'
         /\ \A p \in Places : InProgram(p) => InProgram(p)'
         /\ \A p \in Places : InCycle(p) => InCycle(p)'
<1>1. \A S \in SUBSET Places : Closed(S)' => Closed(S)
  BY ImportsGrow DEF Closed
<1>2. \A S \in SUBSET Places : Closed(S) /\ (\A p \in S : text[p] # Unread) => Closed(S)'
  BY ImportsGrow DEF Closed
<1>3. \A p \in Places : InProgram(p) => InProgram(p)'
  BY <1>1 DEF InProgram, Around
<1>4. \A p \in Places : InCycle(p) => InCycle(p)'
  <2> SUFFICES ASSUME NEW p \in Places, InCycle(p),
                      NEW S \in SUBSET Places, ImportsOf(p)' \subseteq S, Closed(S)'
               PROVE  p \in S
    BY DEF InCycle
  <2>1. ImportsOf(p) \subseteq S /\ Closed(S)
    BY <1>1, ImportsGrow
  <2> QED
    BY <2>1 DEF InCycle
<1> QED
  BY <1>1, <1>2, <1>3, <1>4

(* What the program imports is part of it.                                 *)
LEMMA ImportedByProgram ==
  ASSUME NEW f \in Places, InProgram(f), NEW p \in ImportsOf(f)
  PROVE  InProgram(p)
BY DEF InProgram, Around, Closed

LEMMA VisitedImport ==
  ASSUME NEW f, text[f] # Unread, NEW i \in DOMAIN text[f], text[f][i] \in Names
  PROVE  Resolve(text[f][i], f) \in ImportsOf(f)
BY DEF ImportsOf, ToSet

-----------------------------------------------------------------------------
(* What the steps do to the stack, frame by frame.                         *)

LEMMA FrameFacts ==
  ASSUME IInv
  PROVE  /\ Len(stack) \in Nat /\ DOMAIN stack = 1 .. Len(stack)
         /\ \A n \in 1 .. Len(stack) :
              /\ stack[n].file \in Places /\ stack[n].file \notin processed
              /\ text[stack[n].file] \in Seq(Item) /\ text[stack[n].file] # Unread
              /\ Len(stack[n].todo) \in Nat
              /\ Len(stack[n].todo) <= Len(text[stack[n].file])
         /\ \A m, n \in 1 .. Len(stack) : stack[m].file = stack[n].file => m = n
<1>1. stack \in Seq(Frame)
  BY DEF IInv, Typed
<1>2. ASSUME NEW n \in 1 .. Len(stack)
      PROVE  /\ stack[n].file \in Places /\ stack[n].file \notin processed
             /\ text[stack[n].file] \in Seq(Item) /\ text[stack[n].file] # Unread
             /\ Len(stack[n].todo) \in Nat
             /\ Len(stack[n].todo) <= Len(text[stack[n].file])
  <2> DEFINE t == text[stack[n].file]
  <2>1. IsFrame(stack[n], t) /\ stack[n].file \notin processed
    BY DEF IInv, Chain, Frames, Open
  <2>2. t \in Seq(Item) /\ t # Unread
    BY <2>1, ImportAssumption DEF IsFrame
  <2>3. stack[n].file \in Places
    <3>1. stack[n] \in Frame
      BY <1>1
    <3> QED
      BY <3>1 DEF Frame
  <2>4. PICK i \in 0 .. Len(t) : stack[n].todo = Rest(t, i)
    BY <2>1 DEF IsFrame
  <2> HIDE DEF t
  <2>5. Len(Rest(t, i)) = Len(t) - i
    BY <2>2 DEF Rest
  <2>6. Len(stack[n].todo) \in Nat /\ Len(stack[n].todo) <= Len(t)
    BY <2>2, <2>4, <2>5
  <2> QED
    BY <2>1, <2>2, <2>3, <2>6 DEF t
<1> QED
  BY <1>1, <1>2 DEF IInv, Chain, Distinct

LEMMA ParseShape ==
  ASSUME IInv, Opened, Parse
  PROVE  /\ call \in Places /\ call # None /\ call' = None /\ call \notin processed
         /\ kind[call] = "source" /\ text[call] = Unread
         /\ text'[call] \in Seq(Item) /\ text'[call] # Unread
         /\ \A p \in Places : p # call => text'[p] = text[p]
         /\ Len(stack') = Len(stack) + 1
         /\ \A n \in 1 .. Len(stack) : stack'[n] = stack[n] /\ stack[n].file # call
         /\ stack'[Len(stack) + 1].file = call
         /\ stack'[Len(stack) + 1].todo = text'[call]
<1>1. PICK t \in TextsOf :
        /\ text' = [text EXCEPT ![call] = t]
        /\ stack' = Append(stack, [file |-> call, todo |-> t])
  BY DEF Parse
<1>2. /\ call \in Places /\ call # None /\ call' = None /\ call \notin processed
      /\ kind[call] = "source" /\ \A n \in DOMAIN stack : stack[n].file # call
      /\ text[call] = Unread
  BY DEF IInv, Typed, Parse, Entering, OnStack, Opened
<1>3. t \in Seq(Item) /\ t # Unread
  BY ImportAssumption
<1>4. text'[call] = t /\ \A p \in Places : p # call => text'[p] = text[p]
  BY <1>1, <1>2 DEF IInv, Typed
<1> DEFINE x == [file |-> call, todo |-> t]
<1>5. x.file = call /\ x.todo = t
  OBVIOUS
<1> HIDE DEF x
<1>6. /\ stack' = Append(stack, x) /\ stack \in Seq(Frame)
      /\ DOMAIN stack = 1 .. Len(stack)
  BY <1>1 DEF x, IInv, Typed
<1>7. /\ Len(stack') = Len(stack) + 1 /\ stack'[Len(stack) + 1] = x
      /\ \A n \in 1 .. Len(stack) : stack'[n] = stack[n]
  BY <1>6
<1> QED
  BY <1>2, <1>3, <1>4, <1>5, <1>6, <1>7

LEMMA VisitShape ==
  ASSUME IInv, Visiting, Top.todo # << >>, NextItem
  PROVE  LET k == Len(stack)
             t == text[Top.file]
             i == Len(t) - Len(stack[k].todo) + 1
         IN  /\ k >= 1 /\ k \in 1 .. k /\ Top = stack[k] /\ Len(stack') = k
             /\ \A n \in 1 .. k : stack'[n].file = stack[n].file
             /\ \A n \in 1 .. k : n # k => stack'[n] = stack[n]
             /\ i \in DOMAIN t /\ t[i] = Head(Top.todo)
             /\ Len(t) - Len(stack'[k].todo) = i
<1> DEFINE k == Len(stack)
<1>1. stack \in Seq(Frame) /\ k >= 1 /\ k \in 1 .. k /\ Top = stack[k]
  BY DEF IInv, Typed, Visiting, Top
<1>2. stack' = [stack EXCEPT ![k] = [stack[k] EXCEPT !.todo = Tail(stack[k].todo)]]
  BY DEF NextItem
<1>3. \A n \in 1 .. k : stack[n] \in Frame
  BY <1>1
<1>4. [stack[k] EXCEPT !.todo = Tail(stack[k].todo)].file = stack[k].file
  <2>1. [stack[k] EXCEPT !.todo = Tail(stack[k].todo)]
          = [file |-> stack[k].file, todo |-> Tail(stack[k].todo)]
    BY <1>1, <1>3, WithTodo
  <2> QED
    BY <2>1
<1> DEFINE x == [stack[k] EXCEPT !.todo = Tail(stack[k].todo)]
<1>8. stack' = [stack EXCEPT ![k] = x]
  BY <1>2
<1> HIDE DEF x
<1>5. /\ Len(stack') = k /\ stack'[k] = x
      /\ \A n \in 1 .. k : n # k => stack'[n] = stack[n]
  BY <1>1, <1>8
<1>6. \A n \in 1 .. k : stack'[n].file = stack[n].file
  BY <1>4, <1>5 DEF x
<1>7. LET t == text[Top.file]
          i == Len(t) - Len(Top.todo) + 1
      IN  i \in DOMAIN t /\ t[i] = Head(Top.todo) /\ Len(t) - Len(stack'[Len(stack')].todo) = i
  BY VisitItem, ZenonT(30)
<1> QED
  BY <1>1, <1>5, <1>6, <1>7

LEMMA CompleteShape ==
  ASSUME IInv, Complete
  PROVE  LET k == Len(stack)
         IN  /\ k >= 1 /\ k \in 1 .. k /\ Top = stack[k] /\ Len(stack') = k - 1
             /\ \A n \in 1 .. k - 1 : /\ n \in 1 .. k /\ n # k /\ stack'[n] = stack[n]
                                      /\ stack[n].file # Top.file
             /\ Len(Top.todo) = 0
             /\ processed' = processed \cup {Top.file}
             /\ call = None /\ call' = None
             /\ UNCHANGED <<kind, text, decls, errors>>
<1> DEFINE k == Len(stack)
<1>1. stack \in Seq(Frame) /\ k >= 1 /\ k \in 1 .. k /\ Top = stack[k] /\ k \in Nat
  BY DEF IInv, Typed, Complete, Visiting, Top
<1>2. stack' = SubSeq(stack, 1, k - 1) /\ k - 1 \in 0 .. k
  BY <1>1 DEF Complete, Popped, Front
<1>3. Len(stack') = k - 1 /\ \A n \in 1 .. k - 1 : stack'[n] = stack[n]
  BY <1>1, <1>2, PrefixOf
<1>4. \A n \in 1 .. k - 1 : n \in 1 .. k /\ n # k
  BY <1>1
<1>5. \A n \in 1 .. k - 1 : stack[n].file # Top.file
  BY <1>1, <1>4, FrameFacts
<1>6. Len(Top.todo) = 0
  BY DEF Complete
<1>7. /\ processed' = processed \cup {Top.file} /\ call = None /\ call' = None
      /\ UNCHANGED <<kind, text, decls, errors>>
  BY DEF Complete, Visiting, Marked, output
<1> QED
  BY <1>1, <1>3, <1>4, <1>5, <1>6, <1>7

-----------------------------------------------------------------------------
(* The steps keep the account.                                             *)

\* an item of a file is visited
Visit == (Declare \/ Import) /\ Visiting /\ Top.todo # << >> /\ NextItem

LEMMA VisitFacts ==
  ASSUME Declare \/ Import
  PROVE  /\ Visit /\ UNCHANGED <<kind, text, processed>>
         /\ call = None /\ Visiting /\ Top.todo # << >> /\ NextItem
BY DEF Visit, Declare, Import, Visiting

\* process_file returns before it has pushed the file
Early ==
  /\ call # None /\ call' = None
  /\ UNCHANGED <<kind, text, stack, processed, decls>>

LEMMA EarlyFacts ==
  ASSUME CircularImport \/ AlreadyProcessed \/ ReadFails \/ ParseFails
  PROVE  Early
BY DEF CircularImport, AlreadyProcessed, ReadFails, ParseFails, Entering, Early, output

LEMMA StepCases ==
  ASSUME [Next]_vars
  PROVE  Early \/ Parse \/ Declare \/ Import \/ Complete \/ UNCHANGED vars
BY EarlyFacts DEF Next

LEMMA KeepsOpened ==
  ASSUME IInv, Opened, [Next]_vars
  PROVE  Opened'
<1>1. CASE Early \/ UNCHANGED vars
  BY <1>1 DEF Early, vars, Opened, OnStack
<1>2. CASE Parse
  <2>1. processed' = processed
    BY <1>2 DEF Parse
  <2>2. DOMAIN stack' = 1 .. Len(stack') /\ DOMAIN stack = 1 .. Len(stack) /\ Len(stack) \in Nat
    BY NextIInv DEF IInv, Typed
  <2>3. \A p : OnStack(p)' <=> OnStack(p) \/ p = call
    <3>1. \A n \in 1 .. Len(stack) + 1 : n \in 1 .. Len(stack) \/ n = Len(stack) + 1
      BY <2>2
    <3>2. \A n \in 1 .. Len(stack) : n \in 1 .. Len(stack) + 1
      BY <2>2
    <3>3. Len(stack) + 1 \in 1 .. Len(stack) + 1
      BY <2>2
    <3> QED
      BY <1>2, <2>2, <3>1, <3>2, <3>3, ParseShape DEF OnStack
  <2> QED
    BY <1>2, <2>1, <2>3, ParseShape DEF Opened
<1>3. CASE Declare \/ Import
  <2>1. DOMAIN stack' = DOMAIN stack /\ \A n \in DOMAIN stack : stack'[n].file = stack[n].file
    <3>1. DOMAIN stack' = 1 .. Len(stack') /\ DOMAIN stack = 1 .. Len(stack)
      BY NextIInv DEF IInv, Typed
    <3> QED
      BY <1>3, <3>1, VisitFacts, VisitShape
  <2> QED
    BY <1>3, <2>1, VisitFacts DEF Opened, OnStack
<1>4. CASE Complete
  <2>1. DOMAIN stack' = 1 .. Len(stack) - 1 /\ DOMAIN stack = 1 .. Len(stack) /\ Len(stack) \in Nat
    <3>1. DOMAIN stack' = 1 .. Len(stack') /\ DOMAIN stack = 1 .. Len(stack) /\ Len(stack) \in Nat
      BY NextIInv DEF IInv, Typed
    <3> QED
      BY <1>4, <3>1, CompleteShape
  <2>2. \A n \in 1 .. Len(stack) : n \in 1 .. Len(stack) - 1 \/ n = Len(stack)
    <3>1. \A k \in Nat : \A n \in 1 .. k : n \in 1 .. k - 1 \/ n = k
      OBVIOUS
    <3> QED
      BY <2>1, <3>1
  <2>3. \A p : OnStack(p) <=> OnStack(p)' \/ p = Top.file
    BY <1>4, <2>1, <2>2, CompleteShape DEF OnStack
  <2> QED
    BY <1>4, <2>3, CompleteShape DEF Opened
<1> QED
  BY <1>1, <1>2, <1>3, <1>4, StepCases

LEMMA KeepsSourced ==
  ASSUME IInv, Opened, Sourced, [Next]_vars
  PROVE  Sourced'
<1>1. CASE Parse
  BY <1>1, ParseShape, StepTexts DEF Sourced
<1>2. CASE ~Parse
  <2>1. kind' = kind /\ text' = text
    BY <1>2, StepCases DEF Early, vars, Declare, Import, Complete
  <2> QED
    BY <2>1 DEF Sourced
<1> QED
  BY <1>1, <1>2

(* What an import of the file on top denotes is one of its imports.        *)
LEMMA ImportedByTop ==
  ASSUME IInv, Import
  PROVE  /\ Top.file \in Places /\ text[Top.file] # Unread
         /\ Resolve(Head(Top.todo), Top.file) \in ImportsOf(Top.file)
         /\ Resolve(Head(Top.todo), Top.file) \in Places
<1>1. Visiting /\ Top.todo # << >> /\ NextItem /\ Head(Top.todo) \in Names
  BY VisitFacts DEF Import
<1> DEFINE t == text[Top.file]
           i == Len(t) - Len(stack[Len(stack)].todo) + 1
<1>2. Top = stack[Len(stack)] /\ Len(stack) \in 1 .. Len(stack) /\ i \in DOMAIN t /\ t[i] = Head(Top.todo)
  BY <1>1, VisitShape
<1>3. Top.file \in Places /\ t # Unread
  BY <1>2, FrameFacts
<1> HIDE DEF i
<1>4. Resolve(t[i], Top.file) \in ImportsOf(Top.file)
  BY <1>1, <1>2, <1>3, VisitedImport
<1> QED
  BY <1>1, <1>2, <1>3, <1>4, ResolveTyping DEF IInv, Typed

LEMMA KeepsEntered ==
  ASSUME IInv, Opened, Entered, [Next]_vars
  PROVE  Entered'
<1>1. \A p \in Places : InProgram(p) => InProgram(p)'
  BY StepTexts, StepKeeps
<1>2. CASE Parse
  BY <1>1, <1>2, ParseShape DEF Entered
<1>3. CASE ~Parse
  <2>1. text' = text /\ (call' # None => call' = call \/ Import)
    BY <1>3, StepCases DEF Early, vars, Declare, Import, Complete
  <2>2. \A p \in Places : text'[p] # Unread => InProgram(p)'
    BY <1>1, <2>1 DEF Entered
  <2>3. call \in Places \cup {None}
    BY DEF IInv, Typed
  <2>4. CASE Import
    <3>1. InProgram(Resolve(Head(Top.todo), Top.file))
      BY <2>4, ImportedByTop, ImportedByProgram DEF Entered
    <3>2. call' = Resolve(Head(Top.todo), Top.file) \/ call' = None
      BY <2>4 DEF Import, Visiting
    <3>3. \A p \in Places : InProgram(p) => \A S \in SUBSET Places : Around(S)' => p \in S
      BY <1>1 DEF InProgram
    <3>4. call' # None => \A S \in SUBSET Places : Around(S)' => call' \in S
      BY <2>4, <3>1, <3>2, <3>3, ImportedByTop
    <3> QED
      BY <2>2, <3>4 DEF Entered, InProgram
  <2>5. CASE ~Import
    <3>1. call' # None => call' = call /\ call \in Places /\ InProgram(call)
      BY <2>1, <2>3, <2>5 DEF Entered
    <3>2. call' # None => \A S \in SUBSET Places : Around(S)' => call' \in S
      BY <1>1, <3>1 DEF InProgram
    <3> QED
      BY <2>2, <3>2 DEF Entered, InProgram
  <2> QED
    BY <2>4, <2>5
<1> QED
  BY <1>2, <1>3

LEMMA KeepsReported ==
  ASSUME IInv, Reported, [Next]_vars
  PROVE  Reported' /\ (errors' = errors \/ errors' # << >>)
<1> DEFINE E == [what : {"circular", "read", "parse", "directory"}, file : Places]
<1>1. errors' = errors \/ \E e \in E : errors' = Append(errors, e)
  <2>1. CASE CircularImport \/ ReadFails \/ ParseFails
    <3>1. call \in Places
      BY <2>1 DEF CircularImport, ReadFails, ParseFails, Entering, IInv, Typed
    <3> QED
      BY <2>1, <3>1 DEF CircularImport, ReadFails, ParseFails, Fail
  <2>2. CASE Import
    <3>1. Top.file \in Places
      BY <2>2, ImportedByTop
    <3> QED
      BY <2>2, <3>1 DEF Import, Fail
  <2>3. CASE ~(CircularImport \/ ReadFails \/ ParseFails \/ Import)
    BY <2>3 DEF Next, vars, output, AlreadyProcessed, Parse, Declare, Complete
  <2> QED
    BY <2>1, <2>2, <2>3
<1> HIDE DEF E
<1>2. errors \in Seq(E)
  BY DEF Reported, E
<1>3. \A e \in E : Append(errors, e) \in Seq(E) /\ Append(errors, e) # << >>
  <2>1. \A e \in E : Append(errors, e) \in Seq(E) /\ Len(Append(errors, e)) = Len(errors) + 1
    BY <1>2
  <2>2. Len(errors) \in Nat /\ Len(<< >>) = 0
    BY <1>2
  <2>3. Len(errors) + 1 # 0
    BY <2>2
  <2> QED
    BY <2>1, <2>2, <2>3
<1>4. errors' \in Seq(E)
  BY <1>1, <1>2, <1>3
<1> QED
  BY <1>1, <1>3, <1>4 DEF Reported, E

LEMMA FrameImports ==
  ASSUME IInv, NEW n \in 1 .. Len(stack), NEW p, Imports(stack[n], text[stack[n].file], p)
  PROVE  p \in ImportsOf(stack[n].file)
<1>1. text[stack[n].file] # Unread
  BY FrameFacts
<1> QED
  BY <1>1, VisitedImport DEF Imports

(* A file that is called while it is on the stack imports itself: through  *)
(* the files above it, of which each imports the next.                     *)
LEMMA CycleFound ==
  ASSUME IInv, call # None, OnStack(call)
  PROVE  InCycle(call)
<1> DEFINE k == Len(stack)
<1>1. k \in Nat /\ DOMAIN stack = 1 .. k
  BY FrameFacts
<1>2. PICK n \in 1 .. k : stack[n].file = call
  BY <1>1 DEF OnStack
<1> SUFFICES ASSUME NEW S \in SUBSET Places, ImportsOf(call) \subseteq S, Closed(S)
             PROVE  call \in S
  BY DEF InCycle
<1>3. \A m \in 2 .. k : stack[m].file \in ImportsOf(stack[m - 1].file)
  <2> SUFFICES ASSUME NEW m \in 2 .. k PROVE stack[m].file \in ImportsOf(stack[m - 1].file)
    OBVIOUS
  <2>1. m - 1 \in 1 .. k
    BY <1>1
  <2>2. Imports(stack[m - 1], text[stack[m - 1].file], stack[m].file)
    BY DEF IInv, Chain, Linked
  <2> QED
    BY <2>1, <2>2, FrameImports
<1>4. call \in ImportsOf(stack[k].file)
  <2>1. k \in 1 .. k /\ k >= 1
    BY <1>1, <1>2
  <2>2. Imports(stack[k], text[stack[k].file], call)
    BY <2>1 DEF IInv, Chain, Calls
  <2> QED
    BY <2>1, <2>2, FrameImports
<1> HIDE DEF k
<1> DEFINE X == {j \in Nat : n + j + 1 <= k => stack[n + j + 1].file \in S}
<1>5. 0 \in X
  <2> SUFFICES ASSUME n + 1 <= k PROVE stack[n + 1].file \in S
    BY <1>1, <1>2
  <2>1. n + 1 \in 2 .. k /\ (n + 1) - 1 = n
    BY <1>1, <1>2
  <2> QED
    BY <1>2, <1>3, <2>1
<1>6. ASSUME NEW j \in Nat, j \in X PROVE j + 1 \in X
  <2> SUFFICES ASSUME n + (j + 1) + 1 <= k PROVE stack[n + (j + 1) + 1].file \in S
    OBVIOUS
  <2> DEFINE m == n + (j + 1) + 1
  <2>1. m \in 2 .. k /\ m - 1 = n + j + 1 /\ n + j + 1 <= k
    BY <1>1, <1>2
  <2>2. stack[m - 1].file \in S
    BY <1>6, <2>1
  <2>3. stack[m].file \in ImportsOf(stack[m - 1].file)
    BY <1>3, <2>1
  <2> HIDE DEF m
  <2>4. stack[m].file \in S
    BY <2>2, <2>3 DEF Closed
  <2> QED
    BY <2>4 DEF m
<1>7. \A j \in Nat : j \in X
  <2> HIDE DEF X
  <2> QED
    BY <1>5, <1>6, SetInduction
<1>8. CASE n = k
  BY <1>2, <1>4, <1>8
<1>9. CASE n # k
  <2>1. k - n - 1 \in Nat /\ n + (k - n - 1) + 1 = k
    BY <1>1, <1>2, <1>9
  <2>2. PICK j \in Nat : n + j + 1 = k
    BY <2>1
  <2>3. stack[n + j + 1].file \in S
    BY <1>1, <1>7, <2>2
  <2>4. stack[k].file \in S
    BY <2>2, <2>3
  <2> QED
    BY <1>4, <2>4 DEF Closed
<1> QED
  BY <1>8, <1>9

LEMMA KeepsBlamed ==
  ASSUME IInv, Opened, Entered, Blamed, [Next]_vars
  PROVE  Blamed'
<1>0. /\ kind' = kind
      /\ \A p \in Places : InProgram(p) => InProgram(p)'
      /\ \A p \in Places : InCycle(p) => InCycle(p)'
  BY StepTexts, StepKeeps
<1>1. SUFFICES ASSUME errors' # << >>
               PROVE  \E p \in Places : InProgram(p) /\ (kind[p] # "source" \/ InCycle(p))
  BY <1>0, <1>1 DEF Blamed
<1>2. CASE errors # << >>
  BY <1>2 DEF Blamed
<1>3. CASE errors = << >>
  <2>1. CircularImport \/ ReadFails \/ ParseFails \/ Import
    BY <1>1, <1>3 DEF Next, vars, output, AlreadyProcessed, Parse, Declare, Complete
  <2>2. CASE CircularImport
    <3>1. call \in Places /\ InProgram(call)
      BY <2>2 DEF CircularImport, Entered, IInv, Typed
    <3>2. InCycle(call)
      BY <2>2, CycleFound DEF CircularImport
    <3> QED
      BY <3>1, <3>2
  <2>3. CASE ReadFails \/ ParseFails
    <3>1. call \in Places /\ InProgram(call) /\ kind[call] # "source"
      BY <2>3 DEF ReadFails, ParseFails, Entering, Entered, IInv, Typed
    <3> QED
      BY <3>1
  <2>4. CASE Import
    <3> DEFINE p == Resolve(Head(Top.todo), Top.file)
    <3>1. kind[p] = "directory"
      BY <1>1, <1>3, <2>4 DEF Import
    <3>2. InProgram(p) /\ p \in Places
      BY <2>4, ImportedByTop, ImportedByProgram DEF Entered
    <3> HIDE DEF p
    <3> QED
      BY <3>1, <3>2
  <2> QED
    BY <2>1, <2>2, <2>3, <2>4
<1> QED
  BY <1>2, <1>3

(* What lies behind the stack after each step.                             *)
LEMMA ParseStands ==
  ASSUME IInv, Opened, Parse
  PROVE  \A f \in Places, i \in Nat : Stands(stack', text', f, i) <=> Stands(stack, text, f, i)
<1> DEFINE k == Len(stack)
<1>1. /\ k \in Nat /\ k + 1 \in 1 .. k + 1
      /\ \A n \in 1 .. k + 1 : n \in 1 .. k \/ n = k + 1
      /\ \A n \in 1 .. k : n \in 1 .. k + 1
  BY FrameFacts
<1>2. SUFFICES ASSUME NEW f \in Places, NEW i \in Nat
               PROVE  Stands(stack', text', f, i) <=> Stands(stack, text, f, i)
  OBVIOUS
<1>3. Len(stack') = k + 1
  BY ParseShape
<1> HIDE DEF k
<1>4. CASE f = call
  <2>1. ~Stands(stack, text, f, i)
    BY <1>4, ParseShape DEF Stands
  <2>2. text'[call] \in Seq(Item) /\ stack'[k + 1].file = call /\ stack'[k + 1].todo = text'[call]
    BY ParseShape DEF k
  <2>3. Len(text'[call]) - Len(stack'[k + 1].todo) = 0
    BY <2>2
  <2>4. ASSUME Stands(stack', text', f, i) PROVE FALSE
    <3>1. i <= 0
      BY <1>1, <1>3, <1>4, <2>2, <2>3, <2>4 DEF Stands, Behind
    <3>2. i \in DOMAIN text'[call]
      BY <1>4, <2>4 DEF Stands
    <3> QED
      BY <2>2, <3>1, <3>2
  <2> QED
    BY <2>1, <2>4
<1>5. CASE f # call
  <2>1. text'[f] = text[f]
    BY <1>5, ParseShape
  <2>2. stack'[k + 1].file # f /\ \A n \in 1 .. k : stack'[n] = stack[n]
    BY <1>5, ParseShape DEF k
  <2>3. Behind(stack', text'[f], f, i) <=> Behind(stack, text[f], f, i)
    <3>1. Behind(stack', text'[f], f, i)
            <=> \A n \in 1 .. k : stack'[n].file = f => i <= Len(text[f]) - Len(stack'[n].todo)
      BY <1>1, <1>3, <2>1, <2>2 DEF Behind
    <3> QED
      BY <2>2, <3>1 DEF Behind, k
  <2> QED
    BY <2>1, <2>3 DEF Stands
<1> QED
  BY <1>4, <1>5

LEMMA VisitStands ==
  ASSUME IInv, Declare \/ Import
  PROVE  LET at == Len(text[Top.file]) - Len(Top.todo) + 1
         IN  /\ at \in DOMAIN text[Top.file] /\ text[Top.file][at] = Head(Top.todo)
             /\ ~Stands(stack, text, Top.file, at)
             /\ \A f \in Places, i \in Nat :
                  Stands(stack', text', f, i) <=>
                    Stands(stack, text, f, i) \/ (f = Top.file /\ i = at /\ Head(Top.todo) = Decl)
<1> DEFINE k == Len(stack)
           t == text[Top.file]
           at == Len(t) - Len(Top.todo) + 1
<1>1. /\ text' = text /\ Visiting /\ Top.todo # << >> /\ NextItem
  BY VisitFacts
<1>2. /\ k \in 1 .. k /\ Top = stack[k] /\ Len(stack') = k
      /\ \A n \in 1 .. k : stack'[n].file = stack[n].file
      /\ \A n \in 1 .. k : n # k => stack'[n] = stack[n]
      /\ at \in DOMAIN t /\ t[at] = Head(Top.todo)
      /\ Len(t) - Len(stack'[k].todo) = at
  BY <1>1, VisitShape
<1>3. /\ \A n \in 1 .. k : stack[n].file = Top.file => n = k
      /\ t \in Seq(Item) /\ t # Unread /\ Len(t) \in Nat /\ Len(Top.todo) \in Nat
      /\ DOMAIN t = 1 .. Len(t)
  BY <1>2, FrameFacts
<1>4. Len(t) - Len(stack[k].todo) = at - 1 /\ at \in Nat
  BY <1>2, <1>3
<1> HIDE DEF k, at, t
<1>5. k = Len(stack) /\ t = text[Top.file]
  BY DEF k, t
<1>6. \A i \in Nat : Behind(stack, t, Top.file, i) <=> i <= at - 1
  BY <1>2, <1>3, <1>4, <1>5 DEF Behind
<1>7. \A i \in Nat : Behind(stack', t, Top.file, i) <=> i <= at
  <2>1. \A n \in 1 .. k : stack'[n].file = Top.file <=> n = k
    BY <1>2, <1>3
  <2> QED
    BY <1>2, <2>1 DEF Behind
<1>8. ~Stands(stack, text, Top.file, at)
  BY <1>4, <1>5, <1>6 DEF Stands
<1>9. ASSUME NEW f \in Places, NEW i \in Nat
      PROVE  Stands(stack', text', f, i) <=>
               Stands(stack, text, f, i) \/ (f = Top.file /\ i = at /\ Head(Top.todo) = Decl)
  <2>1. CASE f = Top.file
    <3>1. Stands(stack', text', f, i) <=> i \in DOMAIN t /\ t[i] = Decl /\ i <= at
      BY <1>1, <1>3, <1>5, <1>7, <2>1 DEF Stands
    <3>2. Stands(stack, text, f, i) <=> i \in DOMAIN t /\ t[i] = Decl /\ i <= at - 1
      BY <1>3, <1>5, <1>6, <2>1 DEF Stands
    <3>3. i <= at <=> i <= at - 1 \/ i = at
      BY <1>4
    <3> QED
      BY <1>2, <2>1, <3>1, <3>2, <3>3
  <2>2. CASE f # Top.file
    <3>1. \A n \in 1 .. k : stack[n].file = f => n # k
      BY <1>2, <2>2
    <3>2. Behind(stack', text[f], f, i) <=> Behind(stack, text[f], f, i)
      BY <1>2, <1>5, <3>1 DEF Behind
    <3> QED
      BY <1>1, <2>2, <3>2 DEF Stands
  <2> QED
    BY <2>1, <2>2
<1> QED
  BY <1>2, <1>8, <1>9 DEF at, t

LEMMA CompleteStands ==
  ASSUME IInv, Complete
  PROVE  \A f \in Places, i \in Nat : Stands(stack', text', f, i) <=> Stands(stack, text, f, i)
<1> DEFINE k == Len(stack)
<1>1. /\ k \in Nat /\ k \in 1 .. k /\ Len(stack') = k - 1 /\ Top = stack[k] /\ text' = text
      /\ Len(Top.todo) = 0
      /\ \A n \in 1 .. k - 1 : n \in 1 .. k /\ stack'[n] = stack[n] /\ stack[n].file # Top.file
  BY CompleteShape, FrameFacts
<1>2. \A n \in 1 .. k : n \in 1 .. k - 1 \/ n = k
  BY <1>1
<1>3. text[Top.file] \in Seq(Item)
  BY <1>1, FrameFacts
<1> HIDE DEF k
<1> SUFFICES ASSUME NEW f \in Places, NEW i \in Nat, i \in DOMAIN text[f]
             PROVE  Behind(stack', text[f], f, i) <=> Behind(stack, text[f], f, i)
  BY <1>1 DEF Stands
<1>4. CASE f = Top.file
  <2>1. i <= Len(text[f]) - Len(Top.todo)
    BY <1>1, <1>3, <1>4
  <2> QED
    BY <1>1, <1>2, <1>4, <2>1, ZenonT(30) DEF Behind, k
<1>5. CASE f # Top.file
  BY <1>1, <1>2, <1>5, ZenonT(30) DEF Behind, k
<1> QED
  BY <1>4, <1>5

LEMMA KeepsListed ==
  ASSUME IInv, Opened, Listed, [Next]_vars
  PROVE  Listed'
<1>1. CASE Declare
  <2> DEFINE at == Len(text[Top.file]) - Len(Top.todo) + 1
             d == [file |-> Top.file, at |-> at]
  <2>1. decls' = Append(decls, d) /\ Head(Top.todo) = Decl
    BY <1>1 DEF Declare
  <2>2. /\ at \in DOMAIN text[Top.file] /\ ~Stands(stack, text, Top.file, at)
        /\ \A f \in Places, i \in Nat :
             Stands(stack', text', f, i) <=>
               Stands(stack, text, f, i) \/ (f = Top.file /\ i = at)
    BY <1>1, <2>1, VisitStands
  <2>3. Top.file \in Places /\ at \in Nat
    BY <1>1, VisitFacts, VisitItem
  <2>4. d.file = Top.file /\ d.at = at
    OBVIOUS
  <2>5. decls \in Seq([file : Places, at : Nat \ {0}])
    BY DEF IInv, Typed
  <2> HIDE DEF d, at
  <2>6. /\ DOMAIN decls' = 1 .. Len(decls) + 1 /\ DOMAIN decls = 1 .. Len(decls) /\ Len(decls) \in Nat
        /\ \A n \in DOMAIN decls : decls'[n] = decls[n]
        /\ decls'[Len(decls) + 1] = d
    BY <2>1, <2>5
  <2>7. \A n \in DOMAIN decls' : n \in DOMAIN decls \/ n = Len(decls) + 1
    BY <2>6
  <2>8. \A n \in DOMAIN decls : n \in DOMAIN decls' /\ decls[n] # d
    <3> SUFFICES ASSUME NEW n \in DOMAIN decls PROVE n \in DOMAIN decls' /\ decls[n] # d
      OBVIOUS
    <3>1. n \in DOMAIN decls'
      BY <2>6
    <3>2. ~(decls[n].file = Top.file /\ decls[n].at = at)
      BY <2>2, <2>3 DEF Listed
    <3> QED
      BY <2>4, <3>1, <3>2
  <2>9. Len(decls) + 1 \in DOMAIN decls'
    BY <2>6
  <2>10. \A m, n \in DOMAIN decls' : decls'[m] = decls'[n] => m = n
    BY <2>6, <2>7, <2>8 DEF Listed
  <2>11. ASSUME NEW f \in Places, NEW i \in Nat
         PROVE  (\E n \in DOMAIN decls' : decls'[n].file = f /\ decls'[n].at = i)
                  <=> Stands(stack', text', f, i)
    <3>1. (\E n \in DOMAIN decls' : decls'[n].file = f /\ decls'[n].at = i)
            <=> (\E n \in DOMAIN decls : decls[n].file = f /\ decls[n].at = i)
                  \/ (Top.file = f /\ at = i)
      BY <2>4, <2>6, <2>7, <2>8, <2>9
    <3> QED
      BY <2>2, <3>1 DEF Listed
  <2> QED
    BY <2>10, <2>11 DEF Listed
<1>2. CASE ~Declare
  <2>1. decls' = decls
    BY <1>2, StepCases DEF Early, vars, output, Parse, Import, Complete
  <2>2. \A f \in Places, i \in Nat : Stands(stack', text', f, i) <=> Stands(stack, text, f, i)
    <3>1. CASE Import
      <4>1. Head(Top.todo) # Decl
        BY <3>1, ImportAssumption DEF Import
      <4> QED
        BY <3>1, <4>1, VisitStands
    <3>2. CASE Early \/ UNCHANGED vars
      <4>1. stack' = stack /\ text' = text
        BY <3>2 DEF Early, vars
      <4> QED
        BY <4>1
    <3> QED
      BY <1>2, <3>1, <3>2, StepCases, ParseStands, CompleteStands
  <2> QED
    BY <2>1, <2>2 DEF Listed
<1> QED
  BY <1>1, <1>2

(* Followed, Acyclic and Ordered in the next state.                        *)
LEMMA NextFollowed ==
  ASSUME kind' = kind, Followed(stack', text', processed', call')
  PROVE  Followed(stack, text, processed, call)'
<1>1. \A x, f : Resolve(x, f)' = Resolve(x, f)
  BY DEF Resolve, Exists, FileAt
<1> QED
  BY <1>1 DEF Followed, Awaited

(* When a file is complete, all it imports has been processed.             *)
LEMMA CompleteImports ==
  ASSUME IInv, Complete, Followed(stack, text, processed, call)
  PROVE  ImportsOf(Top.file) \subseteq processed
<1> DEFINE k == Len(stack)
           f == Top.file
<1>1. /\ k \in 1 .. k /\ Top = stack[k] /\ Len(Top.todo) = 0 /\ call = None
      /\ f \in Places /\ text[f] \in Seq(Item) /\ text[f] # Unread
  BY CompleteShape, FrameFacts
<1> SUFFICES ASSUME NEW p \in ImportsOf(f) PROVE p \in processed
  OBVIOUS
<1>2. PICK i \in DOMAIN text[f] : text[f][i] \in Names /\ p = Resolve(text[f][i], f)
  BY <1>1 DEF ImportsOf, ToSet
<1>3. p \in Places
  BY <1>1, ImportsArePlaces DEF IInv, Typed
<1>4. i \in 1 .. Len(text[f]) - Len(Top.todo)
  BY <1>1, <1>2
<1>5. p \in processed \/ p = Awaited(stack, call, k)
  BY <1>1, <1>2, <1>4 DEF Followed
<1>6. Awaited(stack, call, k) = None
  BY <1>1 DEF Awaited
<1> QED
  BY <1>3, <1>5, <1>6, ImportAssumption

LEMMA ParseFollowed ==
  ASSUME IInv, Opened, Parse, Followed(stack, text, processed, call)
  PROVE  Followed(stack', text', processed', call')
<1> DEFINE k == Len(stack)
<1>1. /\ k \in Nat /\ processed' = processed
      /\ \A n \in 1 .. k + 1 : n \in 1 .. k \/ n = k + 1
      /\ \A n \in 1 .. k : n # k + 1 /\ n + 1 \in 1 .. k + 1 /\ (n # k => n + 1 \in 1 .. k)
  <2>1. k \in Nat
    BY FrameFacts
  <2>2. processed' = processed
    BY DEF Parse
  <2> HIDE DEF k
  <2> QED
    BY <2>1, <2>2
<1>2. /\ Len(stack') = k + 1 /\ stack'[k + 1].file = call /\ stack'[k + 1].todo = text'[call]
      /\ text'[call] \in Seq(Item)
      /\ \A n \in 1 .. k : stack'[n] = stack[n] /\ stack[n].file # call
  BY ParseShape
<1>3. \A n \in 1 .. k : text'[stack[n].file] = text[stack[n].file]
  BY ParseShape, FrameFacts
<1> HIDE DEF k
<1>4. k = Len(stack)
  BY DEF k
<1>5. \A n \in 1 .. k : Awaited(stack', call', n) = Awaited(stack, call, n)
  BY <1>1, <1>2, <1>4 DEF Awaited
<1> SUFFICES ASSUME NEW n \in 1 .. k + 1,
                    NEW i \in 1 .. Len(text'[stack'[n].file]) - Len(stack'[n].todo),
                    text'[stack'[n].file][i] \in Names
             PROVE  LET p == Resolve(text'[stack'[n].file][i], stack'[n].file)
                    IN  p \in processed' \/ p = Awaited(stack', call', n)
  BY <1>2 DEF Followed
<1>6. CASE n = k + 1
  <2>1. Len(text'[stack'[n].file]) - Len(stack'[n].todo) = 0
    BY <1>2, <1>6
  <2> QED
    BY <2>1
<1>7. CASE n \in 1 .. k
  <2>1. stack'[n] = stack[n] /\ text'[stack'[n].file] = text[stack[n].file]
    BY <1>2, <1>3, <1>7
  <2> DEFINE p == Resolve(text[stack[n].file][i], stack[n].file)
  <2>2. p \in processed \/ p = Awaited(stack, call, n)
    BY <1>4, <1>7, <2>1 DEF Followed
  <2> QED
    BY <1>1, <1>5, <1>7, <2>1, <2>2
<1> QED
  BY <1>1, <1>6, <1>7

LEMMA VisitFollowed ==
  ASSUME IInv, Declare \/ Import, errors = << >>, errors' = << >>, Followed(stack, text, processed, call)
  PROVE  Followed(stack', text', processed', call')
<1> DEFINE k == Len(stack)
           at == Len(text[Top.file]) - Len(Top.todo) + 1
<1>1. /\ processed' = processed /\ text' = text /\ kind' = kind /\ call = None
      /\ Visiting /\ Top.todo # << >> /\ NextItem
  BY VisitFacts
<1>2. /\ k \in 1 .. k /\ Top = stack[k] /\ Len(stack') = k
      /\ \A n \in 1 .. k : stack'[n].file = stack[n].file
      /\ \A n \in 1 .. k : n # k => stack'[n] = stack[n]
      /\ at \in DOMAIN text[Top.file] /\ text[Top.file][at] = Head(Top.todo)
      /\ Len(text[Top.file]) - Len(stack'[k].todo) = at
  BY <1>1, VisitShape
<1>3. /\ k \in Nat /\ text[Top.file] \in Seq(Item) /\ Top.file \in Places
      /\ Len(Top.todo) \in Nat /\ Len(text[Top.file]) \in Nat
      /\ \A n \in 1 .. k : n # k => n + 1 \in 1 .. k
  BY <1>2, FrameFacts
<1>4. Len(text[Top.file]) - Len(stack[k].todo) = at - 1 /\ at \in Nat
  <2>1. \A a, b \in Nat : a - b = (a - b + 1) - 1
    OBVIOUS
  <2>2. Len(stack[k].todo) = Len(Top.todo)
    BY <1>2
  <2>3. at \in Nat
    <3>1. DOMAIN text[Top.file] = 1 .. Len(text[Top.file])
      BY <1>3
    <3>2. at \in 1 .. Len(text[Top.file])
      BY <1>2, <3>1, Zenon
    <3> QED
      BY <3>2
  <2> QED
    BY <1>3, <2>1, <2>2, <2>3
<1> HIDE DEF k, at
<1>5. k = Len(stack)
  BY DEF k
<1> SUFFICES ASSUME NEW n \in 1 .. k,
                    NEW i \in 1 .. Len(text[stack[n].file]) - Len(stack'[n].todo),
                    text[stack[n].file][i] \in Names
             PROVE  LET p == Resolve(text[stack[n].file][i], stack[n].file)
                    IN  p \in processed \/ p = Awaited(stack', call', n)
  BY <1>1, <1>2 DEF Followed
<1> DEFINE p == Resolve(text[stack[n].file][i], stack[n].file)
<1>6. CASE n # k
  <2>1. i \in 1 .. Len(text[stack[n].file]) - Len(stack[n].todo)
    BY <1>2, <1>6
  <2>2. p \in processed \/ p = Awaited(stack, call, n)
    BY <1>5, <2>1 DEF Followed
  <2>3. Awaited(stack', call', n) = Awaited(stack, call, n)
    BY <1>2, <1>3, <1>5, <1>6 DEF Awaited
  <2> QED
    BY <2>2, <2>3
<1>7. CASE n = k /\ i # at
  <2>1. i \in 1 .. Len(text[stack[n].file]) - Len(stack[n].todo)
    <3>1. i \in 1 .. at
      BY <1>2, <1>7
    <3>2. i \in 1 .. at - 1
      BY <1>4, <1>7, <3>1
    <3> QED
      BY <1>2, <1>4, <1>7, <3>2
  <2>2. p \in processed \/ p = Awaited(stack, call, n)
    BY <1>5, <2>1 DEF Followed
  <2>3. Awaited(stack, call, n) = None
    BY <1>1, <1>5, <1>7 DEF Awaited
  <2>4. p \in Places
    BY <1>2, <1>3, <1>7, ResolveTyping DEF IInv, Typed
  <2> QED
    BY <2>2, <2>3, <2>4, ImportAssumption
<1>8. CASE n = k /\ i = at
  <2>1. text[stack[n].file][i] = Head(Top.todo) /\ stack[n].file = Top.file
    BY <1>2, <1>8
  <2>2. Import
    BY <2>1, ImportAssumption DEF Declare
  <2>3. call' = p
    <3>1. errors' # << >> \/ call' = Resolve(Head(Top.todo), Top.file)
      <4>1. \A y : Append(<< >>, y) # << >>
        OBVIOUS
      <4> QED
        BY <2>2, <4>1 DEF Import, Fail
    <3> QED
      BY <2>1, <3>1
  <2>4. Awaited(stack', call', n) = call'
    BY <1>2, <1>8 DEF Awaited
  <2> QED
    BY <2>3, <2>4
<1> QED
  BY <1>6, <1>7, <1>8

LEMMA CompleteFollowed ==
  ASSUME IInv, Complete, Followed(stack, text, processed, call)
  PROVE  Followed(stack', text', processed', call')
<1> DEFINE k == Len(stack)
<1>1. /\ k \in Nat /\ k \in 1 .. k /\ Len(stack') = k - 1 /\ Top = stack[k] /\ text' = text
      /\ processed' = processed \cup {Top.file}
      /\ \A n \in 1 .. k - 1 : n \in 1 .. k /\ n # k /\ stack'[n] = stack[n]
  BY CompleteShape, FrameFacts
<1>2. \A n \in 1 .. k - 1 : n # k - 1 => n + 1 \in 1 .. k - 1
  BY <1>1
<1>3. \A n \in 1 .. k - 1 : n = k - 1 => n + 1 = k
  BY <1>1
<1> HIDE DEF k
<1>4. k = Len(stack)
  BY DEF k
<1> SUFFICES ASSUME NEW n \in 1 .. k - 1,
                    NEW i \in 1 .. Len(text[stack[n].file]) - Len(stack[n].todo),
                    text[stack[n].file][i] \in Names
             PROVE  LET p == Resolve(text[stack[n].file][i], stack[n].file)
                    IN  p \in processed' \/ p = Awaited(stack', call', n)
  BY <1>1 DEF Followed
<1> DEFINE p == Resolve(text[stack[n].file][i], stack[n].file)
<1>5. p \in processed \/ p = Awaited(stack, call, n)
  BY <1>1, <1>4 DEF Followed
<1>6. Awaited(stack, call, n) = stack[n + 1].file
  BY <1>1, <1>4 DEF Awaited
<1>7. n = k - 1 => stack[n + 1].file \in processed'
  BY <1>1, <1>3
<1>8. n # k - 1 => Awaited(stack', call', n) = stack[n + 1].file
  BY <1>1, <1>2 DEF Awaited
<1> QED
  BY <1>1, <1>5, <1>6, <1>7, <1>8

LEMMA KeepsFollowed ==
  ASSUME IInv, Opened, errors = << >>, errors' = << >>, [Next]_vars,
         Followed(stack, text, processed, call)
  PROVE  Followed(stack', text', processed', call')
<1>1. CASE AlreadyProcessed
  <2>1. /\ call \in processed /\ processed' = processed /\ stack' = stack /\ text' = text
        /\ call' = None
    BY <1>1 DEF AlreadyProcessed
  <2>2. \A n \in 1 .. Len(stack) :
          Awaited(stack, call, n) = Awaited(stack, None, n) \/ Awaited(stack, call, n) \in processed
    BY <2>1 DEF Awaited
  <2> QED
    BY <2>1, <2>2 DEF Followed
<1>2. CASE UNCHANGED vars
  BY <1>2 DEF vars, output
<1>3. ~(CircularImport \/ ReadFails \/ ParseFails)
  <2>1. \A y : Append(<< >>, y) # << >>
    OBVIOUS
  <2> QED
    BY <2>1 DEF CircularImport, ReadFails, ParseFails, Fail
<1> QED
  BY <1>1, <1>2, <1>3, ParseFollowed, VisitFollowed, CompleteFollowed DEF Next

(* What has been processed is closed, and settled, for good.               *)
LEMMA KeepsClosed ==
  ASSUME IInv, Opened, [Next]_vars, Followed(stack, text, processed, call),
         Closed(processed), Acyclic(processed)
  PROVE  Closed(processed)' /\ Acyclic(processed)'
<1>1. /\ \A p \in Places : text[p] # Unread => ImportsOf(p)' = ImportsOf(p)
      /\ \A S \in SUBSET Places : Closed(S) /\ (\A p \in S : text[p] # Unread) => Closed(S)'
  BY StepTexts, StepKeeps, ImportsGrow
<1>2. processed \subseteq Places /\ \A p \in processed : text[p] # Unread
  BY DEF IInv, Typed, Opened
<1>3. \A S \in SUBSET processed : Closed(S) => Closed(S)'
  BY <1>1, <1>2
<1>4. \A p \in processed : ImportsOf(p)' = ImportsOf(p)
  BY <1>1, <1>2
<1>5. CASE Complete
  <2>1. PICK f \in Places : /\ f = Top.file /\ processed' = processed \cup {f}
                            /\ text[f] # Unread /\ f \notin processed
    BY <1>5, CompleteShape, FrameFacts
  <2>2. ImportsOf(f)' = ImportsOf(f) /\ ImportsOf(f) \subseteq processed
    BY <1>1, <1>5, <2>1, CompleteImports
  <2>3. \A g \in processed' : ImportsOf(g)' \subseteq processed
    BY <1>4, <2>1, <2>2 DEF Closed
  <2>4. ASSUME NEW p \in processed'
        PROVE  \E S \in SUBSET processed' : Closed(S)' /\ ImportsOf(p)' \subseteq S /\ p \notin S
    <3>1. CASE p \in processed
      BY <1>3, <1>4, <2>1, <3>1 DEF Acyclic
    <3>2. CASE p = f
      BY <1>3, <2>1, <2>2, <3>2
    <3> QED
      BY <2>1, <3>1, <3>2
  <2> QED
    BY <2>1, <2>3, <2>4 DEF Closed, Acyclic
<1>6. CASE ~Complete
  <2>1. processed' = processed
    BY <1>6, StepCases, VisitFacts DEF Early, vars, Parse
  <2>2. Closed(processed)'
    BY <1>4, <2>1 DEF Closed
  <2>3. \A p \in processed' : \E S \in SUBSET processed' :
          Closed(S)' /\ ImportsOf(p)' \subseteq S /\ p \notin S
    BY <1>3, <1>4, <2>1 DEF Acyclic
  <2> QED
    BY <2>2, <2>3 DEF Acyclic
<1> QED
  BY <1>5, <1>6

LEMMA KeepsOrdered ==
  ASSUME IInv, Opened, Listed, [Next]_vars, Followed(stack, text, processed, call),
         Closed(processed), Ordered(decls, text, processed)
  PROVE  Ordered(decls, text, processed)'
<1> DEFINE Late(p, n) == \E S \in SUBSET processed' :
             p \in S /\ Closed(S)' /\ \A m \in DOMAIN decls' : decls'[m].file \in S => m < n
<1>1. kind' = kind /\ \A p \in Places : text[p] # Unread => text'[p] = text[p]
  BY StepTexts
<1>2. \A x, f : Resolve(x, f)' = Resolve(x, f)
  BY <1>1 DEF Resolve, Exists, FileAt
<1>3. processed \in SUBSET Places /\ \A p \in processed : text[p] # Unread
  BY DEF IInv, Typed, Opened
<1>4. \A S \in SUBSET processed : Closed(S) => Closed(S)'
  BY <1>1, <1>3, StepKeeps
<1>5. \A n \in DOMAIN decls : decls[n].file \in Places /\ decls[n].at \in Nat /\ text[decls[n].file] # Unread
  <2> SUFFICES ASSUME NEW n \in DOMAIN decls
               PROVE  decls[n].file \in Places /\ decls[n].at \in Nat /\ text[decls[n].file] # Unread
    OBVIOUS
  <2>1. decls[n] \in [file : Places, at : Nat \ {0}]
    <3>1. \A S : decls \in Seq(S) => \A m \in DOMAIN decls : decls[m] \in S
      OBVIOUS
    <3> QED
      BY <3>1, Zenon DEF IInv, Typed
  <2>2. decls[n].file \in Places /\ decls[n].at \in Nat
    BY <2>1
  <2> QED
    BY <2>2 DEF Listed, Stands
<1>6. processed \subseteq processed'
  BY StepCases, VisitFacts, CompleteShape DEF Early, vars, Parse
<1>7. SUFFICES ASSUME NEW n \in DOMAIN decls', NEW i \in 1 .. decls'[n].at - 1,
                      text'[decls'[n].file][i] \in Names
               PROVE  Late(Resolve(text'[decls'[n].file][i], decls'[n].file), n)
  BY <1>2, <1>7 DEF Ordered, Settled
<1> DEFINE f == decls'[n].file
<1>8. CASE Declare
  <2> DEFINE at == Len(text[Top.file]) - Len(Top.todo) + 1
             d == [file |-> Top.file, at |-> at]
             k == Len(stack)
             l == Len(decls)
  <2>1. decls' = Append(decls, d) /\ text' = text /\ processed' = processed
    BY <1>8 DEF Declare
  <2>2. decls \in Seq([file : Places, at : Nat \ {0}])
    BY DEF IInv, Typed
  <2>3. d.file = Top.file /\ d.at = at
    OBVIOUS
  <2>4. /\ k \in 1 .. k /\ Top = stack[k] /\ call = None /\ Top.file \in Places
        /\ Top.file \notin processed /\ text[Top.file] \in Seq(Item)
        /\ Len(text[Top.file]) - Len(stack[k].todo) = at - 1 /\ at \in Nat
    <3>1. Visiting /\ Top.todo # << >> /\ NextItem /\ call = None
      BY <1>8, VisitFacts
    <3>2. k \in 1 .. k /\ Top = stack[k] /\ at \in DOMAIN text[Top.file]
      BY <3>1, VisitShape
    <3>3. /\ Top.file \in Places /\ Top.file \notin processed /\ text[Top.file] \in Seq(Item)
          /\ Len(text[Top.file]) \in Nat /\ Len(stack[k].todo) \in Nat
      BY <3>2, FrameFacts
    <3>4. \A a, b \in Nat : a - b = (a - b + 1) - 1
      OBVIOUS
    <3>5. at = Len(text[Top.file]) - Len(stack[k].todo) + 1
      BY <3>2
    <3>6. at \in Nat
      <4>1. DOMAIN text[Top.file] = 1 .. Len(text[Top.file])
        BY <3>3
      <4>2. at \in 1 .. Len(text[Top.file])
        BY <3>2, <4>1, Zenon
      <4> QED
        BY <4>2
    <3> QED
      BY <3>1, <3>2, <3>3, <3>4, <3>5, <3>6
  <2> HIDE DEF d, at
  <2>5. /\ DOMAIN decls = 1 .. l /\ DOMAIN decls' = 1 .. l + 1 /\ l \in Nat
        /\ \A m \in 1 .. l : decls'[m] = decls[m]
        /\ decls'[l + 1] = d
        /\ \A m \in 1 .. l + 1 : m \in 1 .. l \/ m = l + 1
    BY <2>1, <2>2
  <2> HIDE DEF l
  <2>6. \A S \in SUBSET processed : \A m \in DOMAIN decls' :
          decls'[m].file \in S => m \in DOMAIN decls /\ decls'[m] = decls[m]
    BY <2>3, <2>4, <2>5
  <2>7. CASE n \in 1 .. l
    <3>1. decls'[n] = decls[n] /\ text'[f] = text[decls[n].file] /\ n \in DOMAIN decls
      BY <2>1, <2>5, <2>7
    <3>2. Settled(decls, processed, Resolve(text'[f][i], f), n)
      BY <1>7, <3>1 DEF Ordered
    <3> QED
      BY <1>4, <2>1, <2>6, <3>2 DEF Settled
  <2>8. CASE n = l + 1
    <3> DEFINE p == Resolve(text[Top.file][i], Top.file)
    <3>1. f = Top.file /\ i \in 1 .. at - 1 /\ text[Top.file][i] \in Names
      BY <1>7, <2>1, <2>3, <2>5, <2>8
    <3>2. p \in processed \/ p = Awaited(stack, call, k)
      BY <2>4, <3>1 DEF Followed
    <3>3. Awaited(stack, call, k) = None /\ p \in Places
      BY <2>4, <3>1, ResolveTyping DEF Awaited, IInv, Typed
    <3>4. p \in processed
      BY <3>2, <3>3, ImportAssumption
    <3>5. \A m \in DOMAIN decls' : decls'[m].file \in processed => m < n
      BY <2>5, <2>6, <2>8
    <3> HIDE DEF p
    <3>6. Late(p, n)
      BY <1>4, <2>1, <3>4, <3>5
    <3>7. p = Resolve(text'[f][i], f)
      BY <2>1, <3>1 DEF p
    <3> QED
      BY <3>6, <3>7
  <2> QED
    BY <2>5, <2>7, <2>8
<1>9. CASE ~Declare
  <2>1. decls' = decls
    BY <1>9, StepCases DEF Early, vars, output, Parse, Import, Complete
  <2>2. n \in DOMAIN decls /\ text'[f] = text[f] /\ f = decls[n].file
    BY <1>1, <1>5, <2>1
  <2>3. Settled(decls, processed, Resolve(text'[f][i], f), n)
    BY <1>7, <2>1, <2>2 DEF Ordered
  <2> QED
    BY <1>4, <1>6, <2>1, <2>3 DEF Settled
<1> QED
  BY <1>8, <1>9

LEMMA KeepsClean ==
  ASSUME IInv, Opened, Reported, Listed, Clean, [Next]_vars
  PROVE  Clean'
<1> SUFFICES ASSUME errors' = << >>
             PROVE  /\ (text[Entry] # Unread \/ call = Entry)'
                    /\ Closed(processed)' /\ Acyclic(processed)'
                    /\ Followed(stack, text, processed, call)'
                    /\ Ordered(decls, text, processed)'
  BY DEF Clean
<1>1. /\ errors = << >>
      /\ text[Entry] # Unread \/ call = Entry
      /\ Closed(processed) /\ Acyclic(processed)
      /\ Followed(stack, text, processed, call)
      /\ Ordered(decls, text, processed)
  BY KeepsReported DEF Clean
<1>2. kind' = kind /\ \A p \in Places : text[p] # Unread => text'[p] = text[p]
  BY StepTexts
<1>3. text'[Entry] # Unread \/ call' = Entry
  <2>1. CASE text[Entry] # Unread
    BY <1>2, <2>1, ImportAssumption
  <2>2. CASE text[Entry] = Unread
    <3>1. call = Entry /\ call # None
      BY <1>1, <2>2, ImportAssumption
    <3>2. ~AlreadyProcessed
      BY <2>2, <3>1, ImportAssumption DEF AlreadyProcessed, Opened
    <3>3. \A y : Append(<< >>, y) # << >>
      OBVIOUS
    <3>4. Parse \/ UNCHANGED vars
      BY <1>1, <3>1, <3>2, <3>3 DEF Next, CircularImport, ReadFails, ParseFails, Fail,
                                   Declare, Import, Complete, Visiting
    <3>5. CASE Parse
      BY <3>1, <3>5, ParseShape
    <3>6. CASE UNCHANGED vars
      BY <3>1, <3>6 DEF vars
    <3> QED
      BY <3>4, <3>5, <3>6
  <2> QED
    BY <2>1, <2>2
<1>4. Followed(stack, text, processed, call)'
  BY <1>1, <1>2, KeepsFollowed, NextFollowed
<1>5. Closed(processed)' /\ Acyclic(processed)'
  BY <1>1, KeepsClosed
<1>6. Ordered(decls, text, processed)'
  BY <1>1, KeepsOrdered
<1> QED
  BY <1>3, <1>4, <1>5, <1>6

LEMMA NextAccount == IInv /\ Account /\ [Next]_vars => Account'
<1> SUFFICES ASSUME IInv, Account, [Next]_vars PROVE Account'
  OBVIOUS
<1>1. Opened' /\ Sourced' /\ Reported'
  BY KeepsOpened, KeepsSourced, KeepsReported DEF Account
<1>2. Entered' /\ Blamed'
  BY KeepsEntered, KeepsBlamed DEF Account
<1>3. Listed' /\ Clean'
  BY KeepsListed, KeepsClean DEF Account
<1> QED
  BY <1>1, <1>2, <1>3 DEF Account

-----------------------------------------------------------------------------
(* Theorems.                                                               *)

LEMMA TypingFollows == IInv => TypeOK
<1> SUFFICES ASSUME IInv PROVE TypeOK
  OBVIOUS
<1>1. /\ kind \in [Places -> Kinds] /\ \A p \in Places : text[p] \in TextsOf \cup {Unread}
      /\ call \in Places \cup {None} /\ processed \subseteq Places
  BY DEF IInv, Typed
<1>3. \A n \in DOMAIN decls : decls[n] \in [file : Places, at : Nat \ {0}]
  <2>1. \A S : decls \in Seq(S) => \A n \in DOMAIN decls : decls[n] \in S
    OBVIOUS
  <2> QED
    BY <2>1, Zenon DEF IInv, Typed
<1>2. \A n \in DOMAIN stack : IsSuffix(stack[n].todo, text[stack[n].file])
  <2> SUFFICES ASSUME NEW n \in DOMAIN stack
               PROVE  IsSuffix(stack[n].todo, text[stack[n].file])
    OBVIOUS
  <2>1. IsFrame(stack[n], text[stack[n].file])
    BY DEF IInv, Typed, Chain, Frames
  <2>2. text[stack[n].file] \in Seq(Item)
    BY <2>1, ImportAssumption DEF IsFrame
  <2> QED
    BY <2>1, <2>2, RestIsSuffix DEF IsFrame
<1> QED
  BY <1>1, <1>2, <1>3 DEF TypeOK

LEMMA ChainFollows == IInv => StackIsAChain
<1> SUFFICES ASSUME IInv PROVE StackIsAChain
  OBVIOUS
<1>1. DOMAIN stack = 1 .. Len(stack)
  BY DEF IInv, Typed
<1> QED
  BY <1>1 DEF IInv, Chain, Distinct, Open, Linked, Imports, StackIsAChain

(* For every file system, every text of its files and every list of        *)
(* include directories, the walk is well typed: what is left of a file is  *)
(* the end of its text, and what an import denotes is a place.             *)
THEOREM ResolverTyping == Spec => []TypeOK
<1>1. Init => IInv
  BY InitIInv
<1>2. IInv /\ [Next]_vars => IInv'
  BY NextIInv
<1>3. IInv => TypeOK
  BY TypingFollows
<1> QED
  BY <1>1, <1>2, <1>3, PTL DEF Spec

(* For the same, the import stack is a chain of imports without repeats    *)
(* and without processed files.  A file that is imported while it is on    *)
(* the stack imports itself, therefore, and the error of process_file is   *)
(* right; a file that has been processed is never among them.              *)
THEOREM StackChain == Spec => []StackIsAChain
<1>1. Init => IInv
  BY InitIInv
<1>2. IInv /\ [Next]_vars => IInv'
  BY NextIInv
<1>3. IInv => StackIsAChain
  BY ChainFollows
<1> QED
  BY <1>1, <1>2, <1>3, PTL DEF Spec

(* The program, when its texts have been read.                             *)
LEMMA ProgramFacts ==
  ASSUME IInv
  PROVE  /\ Program \in SUBSET Places /\ Around(Program)
         /\ \A S : Around(S) => Program \subseteq S
<1>1. Entry \in Places /\ kind \in [Places -> Kinds]
  BY ImportAssumption DEF IInv, Typed
<1>2. /\ Leads(Entry) \subseteq Places /\ ImportsOf(Entry) \subseteq Leads(Entry)
      /\ Closed(Leads(Entry))
      /\ \A S : ImportsOf(Entry) \subseteq S /\ Closed(S) => Leads(Entry) \subseteq S
  BY <1>1, LeadsFacts
<1>3. Around(Program)
  BY <1>2 DEF Program, Around, Closed
<1>4. ASSUME NEW S, Around(S) PROVE Program \subseteq S
  BY <1>2, <1>4 DEF Around, Closed, Program
<1> QED
  BY <1>1, <1>2, <1>3, <1>4 DEF Program

(* At the end of a walk without errors the program has been processed.     *)
LEMMA ProgramIsProcessed ==
  ASSUME IInv, Account, Done, errors = << >>
  PROVE  Program = processed /\ \A p \in processed : text[p] # Unread
<1>1. stack = << >> /\ call = None /\ Entry \in Places /\ Entry # None
  BY ImportAssumption DEF Done
<1>2. \A p : ~OnStack(p)
  BY <1>1 DEF OnStack
<1>3. processed \in SUBSET Places /\ \A p \in Places : text[p] # Unread <=> p \in processed
  BY <1>2 DEF IInv, Typed, Account, Opened
<1>4. Entry \in processed /\ Closed(processed)
  BY <1>1, <1>3 DEF Account, Clean
<1>5. Program \subseteq processed
  BY <1>4, ProgramFacts DEF Around
<1>6. processed \subseteq Program
  BY <1>3, ProgramFacts DEF Account, Entered, InProgram
<1> QED
  BY <1>3, <1>5, <1>6

LEMMA VerdictFollows ==
  ASSUME IInv, Account
  PROVE  VerdictIsRight
<1> SUFFICES ASSUME Done PROVE errors = << >> <=> WellFormed
  BY DEF VerdictIsRight
<1>1. kind \in [Places -> Kinds] /\ processed \in SUBSET Places
  BY DEF IInv, Typed
<1>2. ASSUME errors = << >>, NEW p \in Program PROVE kind[p] = "source" /\ p \notin Leads(p)
  <2>1. p \in processed /\ p \in Places /\ text[p] # Unread
    BY <1>1, <1>2, ProgramIsProcessed
  <2>2. kind[p] = "source"
    BY <2>1 DEF Account, Sourced
  <2>3. PICK S \in SUBSET processed : Closed(S) /\ ImportsOf(p) \subseteq S /\ p \notin S
    BY <1>2, <2>1 DEF Account, Clean, Acyclic
  <2>4. Leads(p) \subseteq S
    BY <1>1, <2>1, <2>3, LeadsFacts
  <2> QED
    BY <2>2, <2>3, <2>4
<1>3. ASSUME errors # << >> PROVE ~WellFormed
  <2>1. PICK p \in Places : InProgram(p) /\ (kind[p] # "source" \/ InCycle(p))
    BY <1>3 DEF Account, Blamed
  <2>2. p \in Program
    BY <2>1, ProgramFacts DEF InProgram
  <2>3. InCycle(p) => p \in Leads(p)
    BY <1>1, <2>1, LeadsFacts DEF InCycle
  <2> QED
    BY <2>1, <2>2, <2>3 DEF WellFormed
<1> QED
  BY <1>2, <1>3 DEF WellFormed

LEMMA OrderFollows ==
  ASSUME IInv, Account
  PROVE  DeclarationsInOrder
<1> SUFFICES ASSUME Done, errors = << >>
             PROVE  /\ IsInjective(decls)
                    /\ ToSet(decls) = UNION {DeclarationsOf(f) : f \in Program}
                    /\ \A n \in DOMAIN decls :
                         LET f == decls[n].file
                             before == ToSet(SubSeq(text[f], 1, decls[n].at - 1))
                         IN \A x \in before \cap Names :
                              LET p == Resolve(x, f)
                              IN \A g \in {p} \cup Leads(p) : \A m \in Declared(g) : m < n
  BY DEF DeclarationsInOrder
<1>1. /\ Program = processed /\ stack = << >> /\ processed \in SUBSET Places
      /\ \A p \in Places : text[p] # Unread <=> p \in processed
  <2>1. stack = << >> /\ \A p : ~OnStack(p)
    BY DEF Done, OnStack
  <2> QED
    BY <2>1, ProgramIsProcessed DEF IInv, Typed, Account, Opened
<1>2. IsInjective(decls)
  BY DEF Account, Listed, IsInjective
<1>3. \A n \in DOMAIN decls :
        /\ decls[n].file \in Places /\ decls[n].at \in Nat \ {0}
        /\ decls[n] = [file |-> decls[n].file, at |-> decls[n].at]
  <2>1. \A S : decls \in Seq(S) => \A n \in DOMAIN decls : decls[n] \in S
    OBVIOUS
  <2>2. \A n \in DOMAIN decls : decls[n] \in [file : Places, at : Nat \ {0}]
    BY <2>1, Zenon DEF IInv, Typed
  <2> QED
    BY <2>2
<1>4. ASSUME NEW f \in Places, NEW i \in Nat
      PROVE  (\E n \in DOMAIN decls : decls[n].file = f /\ decls[n].at = i)
               <=> f \in processed /\ i \in DOMAIN text[f] /\ text[f][i] = Decl
  <2>1. Behind(stack, text[f], f, i)
    <3>1. Len(stack) = 0 /\ 1 .. 0 = {}
      BY <1>1
    <3> QED
      BY <3>1 DEF Behind
  <2> QED
    BY <1>1, <2>1 DEF Account, Listed, Stands
<1>5. \A f \in processed : text[f] \in Seq(Item) /\ DOMAIN text[f] \subseteq Nat
  <2> SUFFICES ASSUME NEW f \in processed
               PROVE  text[f] \in Seq(Item) /\ DOMAIN text[f] \subseteq Nat
    OBVIOUS
  <2>1. text[f] \in Seq(Item)
    BY <1>1, ImportAssumption DEF IInv, Typed
  <2> QED
    BY <2>1
<1>6. ToSet(decls) = UNION {DeclarationsOf(f) : f \in Program}
  <2>1. ASSUME NEW n \in DOMAIN decls
        PROVE  \E f \in processed : decls[n] \in DeclarationsOf(f)
    <3>1. /\ decls[n].file \in processed /\ decls[n].at \in DOMAIN text[decls[n].file]
          /\ text[decls[n].file][decls[n].at] = Decl
      BY <1>3, <1>4
    <3> QED
      BY <1>3, <3>1 DEF DeclarationsOf
  <2>2. ASSUME NEW f \in processed, NEW d \in DeclarationsOf(f)
        PROVE  \E n \in DOMAIN decls : decls[n] = d
    <3>1. PICK i \in DOMAIN text[f] : text[f][i] = Decl /\ d = [file |-> f, at |-> i]
      BY DEF DeclarationsOf
    <3>2. i \in Nat /\ f \in Places
      BY <1>1, <1>5
    <3>3. PICK n \in DOMAIN decls : decls[n].file = f /\ decls[n].at = i
      BY <1>4, <3>1, <3>2
    <3> QED
      BY <1>3, <3>1, <3>3
  <2> QED
    BY <1>1, <2>1, <2>2 DEF ToSet
<1>7. ASSUME NEW n \in DOMAIN decls,
             NEW x \in ToSet(SubSeq(text[decls[n].file], 1, decls[n].at - 1)) \cap Names,
             NEW g \in {Resolve(x, decls[n].file)} \cup Leads(Resolve(x, decls[n].file)),
             NEW m \in Declared(g)
      PROVE  m < n
  <2> DEFINE f == decls[n].file
             j == decls[n].at
             t == text[f]
             p == Resolve(x, f)
  <2>1. f \in processed /\ f \in Places /\ j \in DOMAIN t /\ j \in Nat \ {0} /\ t \in Seq(Item)
    BY <1>1, <1>3, <1>4, <1>5
  <2>2. PICK i \in 1 .. j - 1 : t[i] = x
    <3> HIDE DEF j, t
    <3>1. /\ SubSeq(t, 1, j - 1) \in Seq(Item)
          /\ Len(SubSeq(t, 1, j - 1)) = j - 1
          /\ \A i \in 1 .. j - 1 : SubSeq(t, 1, j - 1)[i] = t[i]
      <4>1. j - 1 \in 0 .. Len(t)
        BY <2>1
      <4> QED
        BY <2>1, <4>1, PrefixOf
    <3>2. DOMAIN SubSeq(t, 1, j - 1) = 1 .. j - 1
      BY <3>1
    <3>3. x \in ToSet(SubSeq(t, 1, j - 1))
      BY DEF j, t
    <3> QED
      BY <3>1, <3>2, <3>3 DEF ToSet
  <2>3. PICK S \in SUBSET processed :
          p \in S /\ Closed(S) /\ \A l \in DOMAIN decls : decls[l].file \in S => l < n
    <3>1. Settled(decls, processed, p, n)
      BY <2>2 DEF Account, Clean, Ordered
    <3> QED
      BY <3>1 DEF Settled
  <2>4. Leads(p) \subseteq S
    <3>1. p \in Places /\ ImportsOf(p) \subseteq S /\ kind \in [Places -> Kinds]
      BY <1>1, <2>3 DEF Closed, IInv, Typed
    <3> QED
      BY <2>3, <3>1, LeadsFacts
  <2>5. g \in S /\ m \in DOMAIN decls /\ decls[m].file = g
    BY <2>3, <2>4 DEF Declared
  <2> QED
    BY <2>3, <2>5
<1> QED
  BY <1>2, <1>6, <1>7

(* For every finite set of places, every file system and every text of its *)
(* files, a walk that ends has no errors exactly if every file of the      *)
(* program can be parsed and none imports itself, directly or not.         *)
THEOREM WalkVerdict == Spec => []VerdictIsRight
<1>1. Init => IInv /\ Account
  BY InitIInv, InitAccount
<1>2. IInv /\ Account /\ [Next]_vars => (IInv /\ Account)'
  BY NextIInv, NextAccount
<1>3. IInv /\ Account => VerdictIsRight
  BY VerdictFollows
<1> QED
  BY <1>1, <1>2, <1>3, PTL DEF Spec

(* For the same, a walk that ends without errors has listed every          *)
(* declaration of the program once, and what the imports before a          *)
(* declaration lead to is declared before it.                              *)
THEOREM WalkOrder == Spec => []DeclarationsInOrder
<1>1. Init => IInv /\ Account
  BY InitIInv, InitAccount
<1>2. IInv /\ Account /\ [Next]_vars => (IInv /\ Account)'
  BY NextIInv, NextAccount
<1>3. IInv /\ Account => DeclarationsInOrder
  BY OrderFollows
<1> QED
  BY <1>1, <1>2, <1>3, PTL DEF Spec
=============================================================================
