---------------------------- MODULE ParserProofs ----------------------------
(***************************************************************************)
(* parser_c for every text.                                                *)
(*                                                                         *)
(* IInv is about the cursor: what the tokenizer hands over ends in its     *)
(* only end of file, and no path through the parse functions moves the     *)
(* cursor past it.  Nothing is used of the grammar but what a single item  *)
(* does to the cursor: at most one token forward, and not from the end of  *)
(* the file.                                                               *)
(*                                                                         *)
(* VInv is about the values: they have the shape that the rest of the      *)
(* items works on (Typed), wherever a handler may catch an exception       *)
(* (Framed), every node is Sound down to its leaves, and the last item is  *)
(* the loop of parse_program, which ends at the end of the file (Bottom).  *)
(* Of the rules it uses what GrammarProofs says, that each leaves one      *)
(* value of its shape on those it was called with.                         *)
(***************************************************************************)
EXTENDS Parser, GrammarProofs

\* the members of the parser that an item may change
IsMachine(m) == \E at, todo, vals, ok : m = [at |-> at, todo |-> todo, vals |-> vals, ok |-> ok]

\* the end of the file is the last token and no other
EndsInEof(ts) ==
    /\ ts # <<>>
    /\ \A i \in DOMAIN ts : ts[i].kind = "eof" <=> i = Len(ts)

IInv ==
    /\ phase \in {"lex", "parse", "parsed", "failed"}
    /\ \E S : tokens \in Seq(S)
    /\ phase = "lex" =>
         /\ \A i \in DOMAIN tokens : tokens[i].kind # "eof"
         /\ machine = Start
    /\ phase \in {"parse", "parsed"} => EndsInEof(tokens)
    /\ phase = "parse" => IsMachine(machine) /\ machine.at \in DOMAIN tokens

-----------------------------------------------------------------------------
(* The cursor after an item.                                               *)

\* where the cursor may be after one item
Moves(ts, m, n) == n.at = m.at \/ (ts[m.at].kind # "eof" /\ n.at = m.at + 1)

(* Changing one member of a machine leaves the others.                     *)
LEMMA Edited ==
  ASSUME NEW m, IsMachine(m), NEW x
  PROVE  /\ IsMachine([m EXCEPT !.todo = x]) /\ [m EXCEPT !.todo = x].at = m.at
         /\ IsMachine([m EXCEPT !.vals = x]) /\ [m EXCEPT !.vals = x].at = m.at
         /\ IsMachine([m EXCEPT !.at = x]) /\ [m EXCEPT !.at = x].at = x
<1>1. PICK at, todo, vals, ok : m = [at |-> at, todo |-> todo, vals |-> vals, ok |-> ok]
  BY DEF IsMachine
<1>2. [m EXCEPT !.todo = x] = [at |-> at, todo |-> x, vals |-> vals, ok |-> ok]
  BY <1>1
<1>3. [m EXCEPT !.vals = x] = [at |-> at, todo |-> todo, vals |-> x, ok |-> ok]
  BY <1>1
<1>4. [m EXCEPT !.at = x] = [at |-> x, todo |-> todo, vals |-> vals, ok |-> ok]
  BY <1>1
<1>5. m.at = at
  BY <1>1
<1>6. IsMachine([m EXCEPT !.todo = x])
  BY <1>2, Zenon DEF IsMachine
<1>7. IsMachine([m EXCEPT !.vals = x])
  BY <1>3, Zenon DEF IsMachine
<1>8. IsMachine([m EXCEPT !.at = x])
  BY <1>4, Zenon DEF IsMachine
<1>9. /\ [m EXCEPT !.todo = x].at = m.at
      /\ [m EXCEPT !.vals = x].at = m.at
  BY <1>2, <1>3, <1>5
<1>10. [m EXCEPT !.at = x].at = x
  BY <1>4
<1> QED
  BY <1>6, <1>7, <1>8, <1>9, <1>10

(* Taking items off the list and putting others in front of it.            *)
LEMMA Staying ==
  ASSUME NEW m, IsMachine(m), NEW items, NEW node, NEW n
  PROVE  /\ IsMachine(Skipped(m)) /\ Skipped(m).at = m.at
         /\ IsMachine(Instead(m, items)) /\ Instead(m, items).at = m.at
         /\ IsMachine(Pushed(m, node)) /\ Pushed(m, node).at = m.at
         /\ IsMachine(Without(m, n)) /\ Without(m, n).at = m.at
BY Edited DEF Skipped, Instead, Pushed, Without

(* A rule that takes n values and leaves one stays where it is.            *)
LEMMA Reducing ==
  ASSUME NEW m, IsMachine(m), NEW n, NEW node
  PROVE  /\ IsMachine(Skipped(Pushed(Without(m, n), node)))
         /\ Skipped(Pushed(Without(m, n), node)).at = m.at
<1>1. IsMachine(Without(m, n)) /\ Without(m, n).at = m.at
  BY Staying
<1>2. IsMachine(Pushed(Without(m, n), node)) /\ Pushed(Without(m, n), node).at = m.at
  BY <1>1, Staying
<1> QED
  BY <1>2, Staying

\* advance() does not leave the end of the file
LEMMA ForwardMoves ==
  ASSUME NEW m, IsMachine(m), NEW ts
  PROVE  IsMachine(Forward(ts, m)) /\ Moves(ts, m, Forward(ts, m))
BY Edited, ZenonT(30) DEF Forward, Moves

(* An exception leaves the cursor where it was thrown.                     *)
LEMMA ThrownStays ==
  ASSUME NEW m, IsMachine(m)
  PROVE  IsMachine(Thrown(m)) /\ Thrown(m).at = m.at
<1> DEFINE handlers == {i \in DOMAIN m.todo : m.todo[i].op = "catch"}
           near     == CHOOSE i \in handlers : \A j \in handlers : i <= j
<1>1. CASE handlers = {}
  BY <1>1 DEF Thrown, IsMachine
<1>2. CASE handlers # {}
  <2>1. Thrown(m) = [m EXCEPT !.todo = SubSeq(@, near + 1, Len(@)),
                              !.vals = Append(SubSeq(@, 1, m.todo[near].height), Nothing)]
    BY <1>2 DEF Thrown
  <2> QED
    BY <2>1 DEF IsMachine
<1> QED
  BY <1>1, <1>2

(* Every item leaves the cursor or moves it over a token that is not the   *)
(* last one.                                                               *)
LEMMA DoMoves ==
  ASSUME NEW m, IsMachine(m), NEW ts,
         Item(m).op \in {"expect", "keep", "advance", "call", "try", "switch", "while", "until",
                         "lookahead", "wild", "build", "put", "add", "assign", "guard", "catch",
                           "throw"}
  PROVE  IsMachine(Do(ts, m)) /\ Moves(ts, m, Do(ts, m))
<1>1. CASE Item(m).op = "expect"
  <2>1. Do(ts, m) \in {Skipped(Forward(ts, m)), Thrown(m)}
    BY <1>1 DEF Do, Consume
  <2> QED
    BY <2>1, ForwardMoves, ThrownStays, Staying DEF Moves
<1>2. CASE Item(m).op = "keep"
  <2>1. \E node : Do(ts, m) \in {Skipped(Pushed(Forward(ts, m), node)), Thrown(m)}
    BY <1>2 DEF Do, Hold
  <2>2. PICK node : Do(ts, m) \in {Skipped(Pushed(Forward(ts, m), node)), Thrown(m)}
    BY <2>1
  <2>3. IsMachine(Pushed(Forward(ts, m), node)) /\ Pushed(Forward(ts, m), node).at = Forward(ts,
    m).at
    BY ForwardMoves, Staying
  <2> QED
    BY <2>2, <2>3, ForwardMoves, ThrownStays, Staying DEF Moves
<1>3. CASE Item(m).op = "advance"
  BY <1>3, ForwardMoves, Staying DEF Do, Moves
<1>4. CASE Item(m).op \in {"call", "try"}
  <2>1. \E items : Do(ts, m) = Instead(m, items)
    BY <1>4 DEF Do, Enter
  <2> QED
    BY <2>1, Staying DEF Moves
<1>5. CASE Item(m).op \in {"switch", "while", "until", "lookahead", "wild"}
  <2>1. \E items : Do(ts, m) = Instead(m, items)
    BY <1>5 DEF Do, Choose
  <2> QED
    BY <2>1, Staying DEF Moves
<1>6. CASE Item(m).op = "build"
  <2>1. \E n, node : Do(ts, m) = Skipped(Pushed(Without(m, n), node))
    BY <1>6 DEF Do, Construct
  <2> QED
    BY <2>1, Reducing DEF Moves
<1>7. CASE Item(m).op = "put"
  BY <1>7, Staying DEF Do, Moves
<1>8. CASE Item(m).op = "add"
  <2>1. \E n, node : Do(ts, m) = Skipped(Pushed(Without(m, n), node))
    BY <1>8 DEF Do, AddToList
  <2> QED
    BY <2>1, Reducing DEF Moves
<1>9. CASE Item(m).op = "assign"
  <2>1. PICK node : Do(ts, m) \in {Skipped(Pushed(Without(m, 3), node)), Thrown(m)}
    BY <1>9 DEF Do, AssignTo
  <2>2. /\ IsMachine(Skipped(Pushed(Without(m, 3), node)))
        /\ Skipped(Pushed(Without(m, 3), node)).at = m.at
    BY Reducing
  <2> QED
    BY <2>1, <2>2, ThrownStays DEF Moves
<1>10. CASE Item(m).op = "guard"
  <2>1. PICK node : Do(ts, m) \in {Skipped(Pushed(Without(m, 1), node)), Skipped(m), Thrown(m)}
    BY <1>10 DEF Do, Test, ReturnBody
  <2>2. /\ IsMachine(Skipped(Pushed(Without(m, 1), node)))
        /\ Skipped(Pushed(Without(m, 1), node)).at = m.at
    BY Reducing
  <2> QED
    BY <2>1, <2>2, Staying, ThrownStays DEF Moves
<1>11. CASE Item(m).op = "catch"
  BY <1>11, Staying DEF Do, Moves
<1>12. CASE Item(m).op = "throw"
  BY <1>12, ThrownStays DEF Do, Moves
<1> QED
  BY <1>1, <1>2, <1>3, <1>4, <1>5, <1>6, <1>7, <1>8, <1>9, <1>10, <1>11, <1>12
-----------------------------------------------------------------------------
(* The cursor stays on the tokens.                                         *)

\* a cursor that moves like this stays on the tokens
LEMMA MovesInside ==
  ASSUME NEW S, NEW ts \in Seq(S), EndsInEof(ts), NEW m, NEW n,
         m.at \in DOMAIN ts, Moves(ts, m, n)
  PROVE  n.at \in DOMAIN ts
BY DEF EndsInEof, Moves

\* nothing has been read
LEMMA InitIInv == Init => IInv
<1> SUFFICES ASSUME Init PROVE IInv
  OBVIOUS
<1>1. tokens \in Seq({}) /\ DOMAIN tokens = {}
  BY DEF Init
<1> QED
  BY <1>1 DEF Init, IInv

\* lexing adds a token, parsing is one item
LEMMA NextIInv == IInv /\ [Next]_vars => IInv'
<1> SUFFICES ASSUME IInv, [Next]_vars PROVE IInv'
  OBVIOUS
<1>0. PICK S : tokens \in Seq(S)
  BY DEF IInv
<1>1. CASE Lex
  <2> DEFINE t   == next_token(source, read)
             new == [kind |-> t.kind, text |-> t.text, at |-> t.at]
  <2>1. /\ \A i \in DOMAIN tokens : tokens[i].kind # "eof"
        /\ machine' = Start
    BY <1>1 DEF Lex, IInv
  <2>2. CASE t.kind = "error"
    <3>1. tokens' = tokens /\ phase' = "failed"
      BY <1>1, <2>2 DEF Lex
    <3> QED
      BY <3>1, <1>0 DEF IInv
  <2>3. CASE t.kind # "error"
    <3>1. tokens' = Append(tokens, new)
      BY <1>1, <2>3 DEF Lex
    <3>2. tokens' \in Seq(S \cup {new})
      BY <3>1, <1>0
    <3>3. /\ Len(tokens') = Len(tokens) + 1
          /\ DOMAIN tokens' = 1..(Len(tokens) + 1)
          /\ \A i \in DOMAIN tokens : tokens'[i] = tokens[i]
          /\ tokens'[Len(tokens) + 1] = new
          /\ Len(tokens) \in Nat /\ DOMAIN tokens = 1..Len(tokens)
      BY <3>1, <1>0
    <3>4. CASE t.kind = "eof"
      <4>1. phase' = "parse"
        BY <1>1, <3>4 DEF Lex
      <4>2. new.kind = "eof"
        BY <3>4
      <4>3. EndsInEof(tokens')
        BY <2>1, <3>2, <3>3, <4>2 DEF EndsInEof
      <4>4. IsMachine(machine') /\ machine'.at = 1
        BY <2>1 DEF Start, IsMachine
      <4> QED
        BY <3>2, <3>3, <4>1, <4>3, <4>4 DEF IInv
    <3>5. CASE t.kind # "eof"
      <4>1. phase' = "lex"
        BY <1>1, <2>3, <3>5 DEF Lex
      <4>2. new.kind # "eof"
        BY <3>5
      <4>3. \A i \in DOMAIN tokens' : tokens'[i].kind # "eof"
        BY <2>1, <3>3, <4>2
      <4> QED
        BY <2>1, <3>2, <4>1, <4>3 DEF IInv
    <3> QED
      BY <3>4, <3>5
  <2> QED
    BY <2>2, <2>3
<1>2. CASE Reads \/ Calls \/ Decides \/ Builds
  <2>1. /\ phase = "parse" /\ phase' = phase /\ tokens' = tokens
        /\ machine' = Do(tokens, machine)
        /\ Item(machine).op \in {"expect", "keep", "advance", "call", "try", "switch", "while",
                                 "until", "lookahead", "wild", "build", "put", "add", "assign",
                                 "guard", "catch", "throw"}
    BY <1>2 DEF Reads, Calls, Decides, Builds, Step
  <2>2. IsMachine(machine) /\ machine.at \in DOMAIN tokens /\ EndsInEof(tokens)
    BY <2>1 DEF IInv
  <2>3. IsMachine(machine') /\ Moves(tokens, machine, machine')
    BY <2>1, <2>2, DoMoves
  <2>4. machine'.at \in DOMAIN tokens
    BY <1>0, <2>2, <2>3, MovesInside
  <2> QED
    BY <1>0, <2>1, <2>2, <2>3, <2>4 DEF IInv
<1>3. CASE Return
  BY <1>3 DEF Return, IInv
<1>4. CASE UNCHANGED vars
  BY <1>4 DEF vars, IInv
<1> QED
  BY <1>1, <1>2, <1>3, <1>4 DEF Next

(* TypeOK for every text: the tokens end in the only end of file, and      *)
(* current(), peek() and advance() of parser_c never leave them.           *)
THEOREM CursorStaysOnTokens == Spec => []TypeOK
<1>1. IInv => TypeOK
  BY DEF IInv, EndsInEof, TypeOK
<1> QED
  BY <1>1, InitIInv, NextIInv, PTL DEF Spec

-----------------------------------------------------------------------------
(* Values.                                                                 *)

HasFields(n) == n = [k |-> n.k, v |-> n.v, p |-> n.p, c |-> n.c, copy |-> n.copy]

\* what is true of a node, looking at its children only
Local(ts, n) ==
    /\ HasFields(n)
    /\ \E S : n.c \in Seq(S)
    /\ n.k # "token"
    /\ n.copy => /\ n.k \notin {"call", "assign", "lambda", "struct_literal"}
                 /\ \A i \in DOMAIN n.c : n.c[i].copy
    /\ n.k = "assign" /\ ts[n.p].kind # "=" =>
         1 \in DOMAIN n.c /\ n.c[2].c[1] = n.c[1] /\ n.c[1].copy
    /\ n.k \in {"param", "field", "pointer", "map", "tuple", "var", "extern var", "const",
                "enum", "type_param"} => n.c[1].k # "nothing"
    /\ n.k \in {"fn", "lambda", "array", "map"} => n.c[2].k # "nothing"
    /\ n.k = "tuple" => \A i \in DOMAIN n.c[1].c : n.c[1].c[i].k # "nothing"

(* The nodes below a node are all those of some set that contains the      *)
(* children of its members.                                                *)
Sound(ts, N) == \A n \in N : Local(ts, n) /\ \A i \in DOMAIN n.c : n.c[i] \in N

IsNode(ts, n) == \E N : n \in N /\ Sound(ts, N)

Holds(ts, v, f) ==
    /\ f \in {"token", "assigner"} <=> v.k = "token"
    /\ f = "assigner" => (v.v = "=" <=> ts[v.p].kind = "=")
    /\ f \in Children => IsNode(ts, v)
    /\ f \in Solid => v.k # "nothing"
    /\ f \in {"list", "holes"} => v.k = "list" /\ ~v.copy
    /\ f = "list" => \A i \in DOMAIN v.c : v.c[i].k # "nothing"

Matches(ts, vals, s) ==
    /\ \E V : vals \in Seq(V)
    /\ Len(vals) = Len(s)
    /\ \A i \in 1..Len(s) : Holds(ts, vals[i], s[i])

\* a node of a sound tree is sound, and so are its children
LEMMA NodeParts ==
  ASSUME NEW ts, NEW n, IsNode(ts, n)
  PROVE  Local(ts, n) /\ \A i \in DOMAIN n.c : IsNode(ts, n.c[i])
BY DEF IsNode, Sound

\* a node with sound children that is sound itself roots a sound tree
LEMMA NodeOfParts ==
  ASSUME NEW ts, NEW n, Local(ts, n), \A i \in DOMAIN n.c : IsNode(ts, n.c[i])
  PROVE  IsNode(ts, n)
<1> DEFINE Below(m) == CHOOSE N : m \in N /\ Sound(ts, N)
           M == UNION {Below(n.c[i]) : i \in DOMAIN n.c}
<1>1. ASSUME NEW i \in DOMAIN n.c
      PROVE  n.c[i] \in Below(n.c[i]) /\ Sound(ts, Below(n.c[i]))
  BY DEF IsNode
<1> HIDE DEF Below
<1>2. \A i \in DOMAIN n.c : n.c[i] \in M
  BY <1>1
<1>3. ASSUME NEW m \in M PROVE Local(ts, m) /\ \A i \in DOMAIN m.c : m.c[i] \in M
  <2>1. PICK i \in DOMAIN n.c : m \in Below(n.c[i])
    OBVIOUS
  <2>2. Below(n.c[i]) \subseteq M
    OBVIOUS
  <2> HIDE DEF M
  <2> QED
    BY <1>1, <2>1, <2>2 DEF Sound
<1> HIDE DEF M
<1>4. Sound(ts, {n} \cup M)
  BY <1>2, <1>3 DEF Sound
<1> QED
  BY <1>4 DEF IsNode

\* the null type, the types that are made up, and the empty list
LEMMA LeafNodes ==
  ASSUME NEW ts
  PROVE  /\ IsNode(ts, Nothing)
         /\ IsNode(ts, VoidType) /\ VoidType.k # "nothing"
         /\ IsNode(ts, VariadicType) /\ VariadicType.k # "nothing"
         /\ Holds(ts, EmptyList, "list") /\ Holds(ts, EmptyList, "holes")
<1>0. <<>> \in Seq({}) /\ DOMAIN <<>> = {}
  OBVIOUS
<1>1. ASSUME NEW n, n.k \in {"nothing", "primitive", "list"}, n.c = <<>>, ~n.copy,
             HasFields(n)
      PROVE  IsNode(ts, n)
  <2>1. Local(ts, n)
    BY <1>0, <1>1 DEF Local
  <2>2. \A i \in DOMAIN n.c : IsNode(ts, n.c[i])
    BY <1>0, <1>1
  <2> QED
    BY <2>1, <2>2, NodeOfParts
<1>2. IsNode(ts, Nothing)
  <2>1. /\ Nothing.k = "nothing" /\ Nothing.c = <<>> /\ ~Nothing.copy
        /\ HasFields(Nothing)
    BY DEF Nothing, HasFields
  <2> QED
    BY <1>1, <2>1
<1>3. IsNode(ts, VoidType) /\ VoidType.k # "nothing"
  <2>1. /\ VoidType.k = "primitive" /\ VoidType.c = <<>> /\ ~VoidType.copy
        /\ HasFields(VoidType)
    BY DEF VoidType, Named, HasFields
  <2> QED
    BY <1>1, <2>1
<1>4. IsNode(ts, VariadicType) /\ VariadicType.k # "nothing"
  <2>1. /\ VariadicType.k = "array" /\ VariadicType.c = <<Nothing, VoidType>>
        /\ ~VariadicType.copy
        /\ HasFields(VariadicType)
    BY DEF VariadicType, Named, HasFields
  <2>2. /\ VariadicType.c \in Seq({Nothing, VoidType}) /\ DOMAIN VariadicType.c = {1, 2}
        /\ VariadicType.c[1] = Nothing /\ VariadicType.c[2] = VoidType
    BY <2>1
  <2>3. Local(ts, VariadicType)
    BY <1>3, <2>1, <2>2 DEF Local
  <2>4. \A i \in DOMAIN VariadicType.c : IsNode(ts, VariadicType.c[i])
    BY <1>2, <1>3, <2>2
  <2> QED
    BY <2>1, <2>3, <2>4, NodeOfParts
<1>5. Holds(ts, EmptyList, "list") /\ Holds(ts, EmptyList, "holes")
  <2>2. /\ EmptyList.k = "list" /\ EmptyList.c = <<>> /\ ~EmptyList.copy
        /\ HasFields(EmptyList)
    BY DEF EmptyList, Named, HasFields
  <2>1. IsNode(ts, EmptyList)
    BY <1>1, <2>2
  <2> QED
    BY <1>0, <2>1, <2>2 DEF Holds, Solid, Children
<1> QED
  BY <1>2, <1>3, <1>4, <1>5

(* What Made makes of a token and nodes.                                   *)
LEMMA MadeOf ==
  ASSUME NEW V, NEW parts \in Seq(V), NEW i \in 1..Len(parts), parts[i].k = "token",
         \A j \in 1..Len(parts) : j # i => parts[j].k # "token", NEW k
  PROVE  \E kids \in Seq(V) : \E op :
           /\ Len(kids) = Len(parts) - 1
           /\ \A j \in 1..Len(kids) : kids[j] = IF j < i THEN parts[j] ELSE parts[j + 1]
           /\ Made(k, parts) = [k |-> k, v |-> op, p |-> parts[i].p, c |-> kids,
                                copy |-> clone_expr_for_compound_assignment(k, op, kids)]
<1> DEFINE anchor == CHOOSE j \in DOMAIN parts : parts[j].k = "token"
           kids   == RemoveAt(parts, anchor)
<1>1. DOMAIN parts = 1..Len(parts) /\ Len(parts) \in Nat
  OBVIOUS
<1>2. anchor = i
  BY <1>1
<1> HIDE DEF anchor
<1>3. kids = SubSeq(parts, 1, i - 1) \o SubSeq(parts, i + 1, Len(parts))
  BY <1>2 DEF RemoveAt
<1>4. PICK before \in Seq(V) :
         /\ before = SubSeq(parts, 1, i - 1) /\ Len(before) = i - 1
         /\ \A j \in 1..(i - 1) : before[j] = parts[j]
  <2>1. /\ SubSeq(parts, 1, i - 1) \in Seq(V) /\ Len(SubSeq(parts, 1, i - 1)) = i - 1
        /\ \A j \in 1..(i - 1) : SubSeq(parts, 1, i - 1)[j] = parts[j]
    OBVIOUS
  <2> QED
    BY <2>1, Zenon
<1>5. PICK behind \in Seq(V) :
         /\ behind = SubSeq(parts, i + 1, Len(parts)) /\ Len(behind) = Len(parts) - i
         /\ \A j \in 1..(Len(parts) - i) : behind[j] = parts[i + j]
  <2>1. /\ SubSeq(parts, i + 1, Len(parts)) \in Seq(V)
        /\ Len(SubSeq(parts, i + 1, Len(parts))) = Len(parts) - i
        /\ \A j \in 1..(Len(parts) - i) : SubSeq(parts, i + 1, Len(parts))[j] = parts[i + j]
    OBVIOUS
  <2> QED
    BY <2>1, Zenon
<1> HIDE DEF kids
<1>6. /\ kids \in Seq(V) /\ Len(kids) = Len(before) + Len(behind)
      /\ \A j \in 1..Len(before) : kids[j] = before[j]
      /\ \A j \in 1..Len(behind) : kids[Len(before) + j] = behind[j]
  <2>1. kids = before \o behind
    BY <1>3, <1>4, <1>5, Zenon
  <2> QED
    BY <2>1
<1>7. ASSUME NEW j \in 1..Len(kids)
      PROVE  kids[j] = IF j < i THEN parts[j] ELSE parts[j + 1]
  <2>1. CASE j < i
    BY <1>4, <1>6, <2>1
  <2>2. CASE ~(j < i)
    <3>1. j - (i - 1) \in 1..(Len(parts) - i) /\ i + (j - (i - 1)) = j + 1
      BY <1>4, <1>5, <1>6, <2>2
    <3>2. Len(before) + (j - (i - 1)) = j
      BY <1>4
    <3>3. kids[j] = behind[j - (i - 1)]
      BY <1>5, <1>6, <3>1, <3>2
    <3> QED
      BY <1>5, <2>2, <3>1, <3>3
  <2> QED
    BY <2>1, <2>2
<1>9. Len(kids) = Len(parts) - 1
  BY <1>4, <1>5, <1>6
<1> DEFINE op == OperatorOf(k, parts[anchor].v)
<1>8. Made(k, parts) = [k |-> k, v |-> op, p |-> parts[anchor].p, c |-> kids,
                        copy |-> clone_expr_for_compound_assignment(k, op, kids)]
  BY DEF Made, anchor, kids
<1> HIDE DEF op
<1> QED
  BY <1>2, <1>6, <1>7, <1>8, <1>9

(* A node made of values that its kind may be made of is sound.            *)
LEMMA BuiltNode ==
  ASSUME NEW ts, NEW u \in Shapes, NEW parts, Matches(ts, parts, u), NEW k, Parts(k, u)
  PROVE  IsNode(ts, Made(k, parts)) /\ Made(k, parts).k = k
<1>1. PICK V : parts \in Seq(V)
  BY DEF Matches
<1>2. PICK i \in 1..Len(u), f \in Seq(Children) :
         /\ u[i] = "token" /\ Len(f) = Len(u) - 1
         /\ \A j \in 1..Len(f) : f[j] = IF j < i THEN u[j] ELSE u[j + 1]
         /\ Needs(k, f)
  BY DEF Parts
<1>3. Len(parts) = Len(u) /\ i \in 1..Len(parts) /\ Len(u) \in Nat
  BY <1>2 DEF Matches, Shapes
<1>4. parts[i].k = "token"
  BY <1>2, <1>3 DEF Matches, Holds
<1>5. ASSUME NEW j \in 1..Len(u), j # i PROVE u[j] \in Children
  <2>1. CASE j < i
    <3>1. j \in 1..Len(f) /\ f[j] = u[j]
      BY <1>2, <1>3, <2>1
    <3> QED
      BY <3>1
  <2>2. CASE j > i
    <3>1. j - 1 \in 1..Len(f) /\ ~(j - 1 < i) /\ (j - 1) + 1 = j
      BY <1>2, <1>3, <2>2
    <3>2. f[j - 1] = u[j]
      BY <1>2, <3>1
    <3> QED
      BY <3>1, <3>2
  <2> QED
    BY <1>5, <2>1, <2>2
<1>6. ASSUME NEW j \in 1..Len(parts), j # i PROVE parts[j].k # "token"
  <2>1. Holds(ts, parts[j], u[j]) /\ u[j] \in Children
    BY <1>3, <1>5, <1>6 DEF Matches
  <2> QED
    BY <2>1 DEF Holds, Children
<1>7. PICK kids \in Seq(V) : \E op :
         /\ Len(kids) = Len(parts) - 1
         /\ \A j \in 1..Len(kids) : kids[j] = IF j < i THEN parts[j] ELSE parts[j + 1]
         /\ Made(k, parts) = [k |-> k, v |-> op, p |-> parts[i].p, c |-> kids,
                              copy |-> clone_expr_for_compound_assignment(k, op, kids)]
  BY <1>1, <1>3, <1>4, <1>6, MadeOf
<1>13. PICK op :
         Made(k, parts) = [k |-> k, v |-> op, p |-> parts[i].p, c |-> kids,
                           copy |-> clone_expr_for_compound_assignment(k, op, kids)]
  BY <1>7
<1>8. Len(kids) = Len(f) /\ \A j \in 1..Len(kids) : f[j] \in Children /\ Holds(ts, kids[j], f[j])
  <2>1. Len(kids) = Len(f)
    BY <1>2, <1>3, <1>7
  <2>2. ASSUME NEW j \in 1..Len(kids) PROVE f[j] \in Children /\ Holds(ts, kids[j], f[j])
    <3>1. f[j] \in Children /\ j \in 1..Len(u) /\ j + 1 \in 1..Len(u)
      BY <1>2, <1>3, <2>1
    <3>2. Holds(ts, parts[j], u[j]) /\ Holds(ts, parts[j + 1], u[j + 1])
      BY <3>1 DEF Matches
    <3> QED
      BY <1>2, <1>7, <2>1, <3>1, <3>2
  <2> QED
    BY <2>1, <2>2
<1> DEFINE n == Made(k, parts)
<1>9. /\ HasFields(n)
      /\ n.k = k /\ n.c = kids /\ n.copy = clone_expr_for_compound_assignment(k, op, kids)
  BY <1>13 DEF HasFields
<1> HIDE DEF n
<1>10. \A j \in DOMAIN kids : j \in 1..Len(kids)
  BY <1>7
<1>11. \A j \in DOMAIN n.c : IsNode(ts, n.c[j])
  BY <1>8, <1>9, <1>10 DEF Holds
<1>12. Local(ts, n)
  <2>1. ASSUME n.copy
        PROVE  /\ k \notin {"call", "assign", "lambda", "struct_literal"}
               /\ \A j \in DOMAIN kids : kids[j].copy
    <3>1. CASE k \in Literals \cup {"id"}
      <4>1. Len(kids) = 0
        BY <1>2, <1>8, <3>1 DEF Needs
      <4>2. DOMAIN kids = {}
        BY <1>7, <4>1
      <4> QED
        BY <3>1, <4>2 DEF Literals
    <3>2. CASE k \notin Literals \cup {"id"}
      BY <1>9, <2>1, <3>2 DEF clone_expr_for_compound_assignment
    <3> QED
      BY <3>1, <3>2
  <2>2. Len(f) >= 1 /\ f[1] \in Solid => kids[1].k # "nothing"
    <3> SUFFICES ASSUME Len(f) >= 1, f[1] \in Solid PROVE kids[1].k # "nothing"
      OBVIOUS
    <3>1. 1 \in 1..Len(kids)
      BY <1>7, <1>8
    <3> QED
      BY <1>8, <3>1 DEF Holds
  <2>3. Len(f) >= 2 /\ f[2] \in Solid => kids[2].k # "nothing"
    <3> SUFFICES ASSUME Len(f) >= 2, f[2] \in Solid PROVE kids[2].k # "nothing"
      OBVIOUS
    <3>1. 2 \in 1..Len(kids)
      BY <1>7, <1>8
    <3> QED
      BY <1>8, <3>1 DEF Holds
  <2>4. Len(f) >= 1 /\ f[1] = "list" => \A j \in DOMAIN kids[1].c : kids[1].c[j].k # "nothing"
    <3> SUFFICES ASSUME Len(f) >= 1, f[1] = "list"
                 PROVE  \A j \in DOMAIN kids[1].c : kids[1].c[j].k # "nothing"
      OBVIOUS
    <3>1. 1 \in 1..Len(kids)
      BY <1>7, <1>8
    <3> QED
      BY <1>8, <3>1 DEF Holds
  <2>5. k # "token" /\ k # "assign"
    BY <1>2 DEF Needs
  <2>6. k = "tuple" => Len(f) >= 1 /\ f[1] = "list"
    BY <1>2 DEF Needs
  <2>7. k \in {"param", "field", "pointer", "map", "tuple", "var", "extern var", "const", "enum",
              "type_param"} => kids[1].k # "nothing"
    BY <1>2, <2>2 DEF Needs
  <2>8. k \in {"fn", "lambda", "array", "map"} => kids[2].k # "nothing"
    BY <1>2, <2>3 DEF Needs
  <2> QED
    BY <1>9, <2>1, <2>4, <2>5, <2>6, <2>7, <2>8 DEF Local
<1> QED
  BY <1>9, <1>11, <1>12, NodeOfParts DEF n

-----------------------------------------------------------------------------
(* Values on top of others.                                                *)

\* every node may stand where a node or null may
LEMMA HoldsNode ==
  ASSUME NEW ts, NEW v, IsNode(ts, v)
  PROVE  Holds(ts, v, "maybe") /\ (v.k # "nothing" => Holds(ts, v, "node"))
<1>1. v.k # "token"
  BY NodeParts DEF Local
<1> QED
  BY <1>1 DEF Holds, Children, Solid

\* the elements of a sequence on top of another
LEMMA Piling ==
  ASSUME NEW p \in Shapes, NEW q \in Shapes
  PROVE  /\ p \o q \in Shapes
         /\ \A f \in Forms : p ** f \in Shapes /\ (p \o q) ** f = p \o (q ** f)
         /\ \A u \in Shapes : (p \o q) \o u = p \o (q \o u)
<1>1. p \o q \in Shapes
  BY DEF Shapes
<1>2. ASSUME NEW f \in Forms PROVE p ** f \in Shapes /\ (p \o q) ** f = p \o (q ** f)
  BY DEF Shapes, **
<1>3. ASSUME NEW u \in Shapes PROVE (p \o q) \o u = p \o (q \o u)
  BY DEF Shapes
<1> QED
  BY <1>1, <1>2, <1>3

\* one more value of one more form
LEMMA MatchesPush ==
  ASSUME NEW ts, NEW vals, NEW s \in Shapes, Matches(ts, vals, s), NEW v, NEW f \in Forms,
         Holds(ts, v, f)
  PROVE  Matches(ts, Append(vals, v), s ** f)
<1>1. PICK V : vals \in Seq(V)
  BY DEF Matches
<1>2. vals \in Seq(V \cup {v}) /\ v \in V \cup {v}
  BY <1>1
<1>3. /\ Append(vals, v) \in Seq(V \cup {v}) /\ Len(Append(vals, v)) = Len(vals) + 1
      /\ Append(vals, v)[Len(vals) + 1] = v
      /\ \A i \in 1..Len(vals) : Append(vals, v)[i] = vals[i]
  BY <1>2
<1>4. /\ Len(s ** f) = Len(s) + 1 /\ (s ** f)[Len(s) + 1] = f /\ Len(s) \in Nat
      /\ \A i \in 1..Len(s) : (s ** f)[i] = s[i]
  BY DEF Shapes, **
<1>5. ASSUME NEW i \in 1..(Len(s) + 1) PROVE Holds(ts, Append(vals, v)[i], (s ** f)[i])
  <2>1. CASE i \in 1..Len(s)
    BY <1>3, <1>4, <2>1 DEF Matches
  <2>2. CASE i = Len(s) + 1
    BY <1>3, <1>4, <2>2 DEF Matches
  <2>3. i \in 1..Len(s) \/ i = Len(s) + 1
    BY <1>4
  <2> QED
    BY <2>1, <2>2, <2>3
<1> QED
  BY <1>3, <1>4, <1>5 DEF Matches

\* values of a shape on top of another, taken apart
LEMMA MatchesSplit ==
  ASSUME NEW ts, NEW vals, NEW p \in Shapes, NEW u \in Shapes, Matches(ts, vals, p \o u)
  PROVE  /\ Len(vals) \in Nat /\ Len(u) \in Nat /\ Len(vals) >= Len(u)
         /\ Matches(ts, SubSeq(vals, 1, Len(vals) - Len(u)), p)
         /\ Matches(ts, SubSeq(vals, Len(vals) - Len(u) + 1, Len(vals)), u)
         /\ \A i \in 1..Len(u) : /\ Holds(ts, vals[Len(vals) - Len(u) + i], u[i])
                                 /\ SubSeq(vals, Len(vals) - Len(u) + 1, Len(vals))[i]
                                      = vals[Len(vals) - Len(u) + i]
<1>1. PICK V : vals \in Seq(V)
  BY DEF Matches
<1>2. /\ Len(p \o u) = Len(p) + Len(u) /\ Len(p) \in Nat /\ Len(u) \in Nat
      /\ \A i \in 1..Len(p) : (p \o u)[i] = p[i]
      /\ \A i \in 1..Len(u) : (p \o u)[Len(p) + i] = u[i]
  BY DEF Shapes
<1>3. Len(vals) = Len(p) + Len(u) /\ Len(vals) - Len(u) = Len(p)
  BY <1>2 DEF Matches
<1>4. /\ SubSeq(vals, 1, Len(p)) \in Seq(V) /\ Len(SubSeq(vals, 1, Len(p))) = Len(p)
      /\ \A i \in 1..Len(p) : SubSeq(vals, 1, Len(p))[i] = vals[i]
  BY <1>1, <1>2, <1>3
<1>5. /\ SubSeq(vals, Len(p) + 1, Len(vals)) \in Seq(V)
      /\ Len(SubSeq(vals, Len(p) + 1, Len(vals))) = Len(u)
      /\ \A i \in 1..Len(u) : SubSeq(vals, Len(p) + 1, Len(vals))[i] = vals[Len(p) + i]
  BY <1>1, <1>2, <1>3
<1>6. ASSUME NEW i \in 1..Len(p) PROVE Holds(ts, vals[i], p[i])
  <2>1. i \in 1..Len(p \o u)
    BY <1>2
  <2> QED
    BY <1>2, <2>1 DEF Matches
<1>7. ASSUME NEW i \in 1..Len(u) PROVE Holds(ts, vals[Len(p) + i], u[i])
  <2>1. Len(p) + i \in 1..Len(p \o u)
    BY <1>2
  <2> QED
    BY <1>2, <2>1 DEF Matches
<1>8. Matches(ts, SubSeq(vals, 1, Len(p)), p)
  BY <1>4, <1>6 DEF Matches
<1>9. Matches(ts, SubSeq(vals, Len(p) + 1, Len(vals)), u)
  BY <1>5, <1>7 DEF Matches
<1> QED
  BY <1>2, <1>3, <1>5, <1>7, <1>8, <1>9

-----------------------------------------------------------------------------
(* The members of a machine.                                               *)

\* what each member of a machine is after an item has edited it
LEMMA Members ==
  ASSUME NEW m, IsMachine(m), NEW items, NEW node, NEW n, NEW ts
  PROVE  /\ Skipped(m).todo = Tail(m.todo) /\ Skipped(m).vals = m.vals /\ Skipped(m).ok = m.ok
         /\ Instead(m, items).todo = items \o Tail(m.todo) /\ Instead(m, items).vals = m.vals
         /\ Instead(m, items).ok = m.ok
         /\ Pushed(m, node).todo = m.todo /\ Pushed(m, node).vals = Append(m.vals, node)
         /\ Pushed(m, node).ok = m.ok
         /\ Without(m, n).todo = m.todo
         /\ Without(m, n).vals = SubSeq(m.vals, 1, Len(m.vals) - n) /\ Without(m, n).ok = m.ok
         /\ Forward(ts, m).todo = m.todo /\ Forward(ts, m).vals = m.vals
         /\ Forward(ts, m).ok = m.ok
<1>1. PICK at, todo, vals, ok : m = [at |-> at, todo |-> todo, vals |-> vals, ok |-> ok]
  BY DEF IsMachine
<1>2. Skipped(m).todo = Tail(m.todo) /\ Skipped(m).vals = m.vals /\ Skipped(m).ok = m.ok
  BY <1>1 DEF Skipped
<1>3. /\ Instead(m, items).todo = items \o Tail(m.todo) /\ Instead(m, items).vals = m.vals
      /\ Instead(m, items).ok = m.ok
  BY <1>1 DEF Instead
<1>4. /\ Pushed(m, node).todo = m.todo /\ Pushed(m, node).vals = Append(m.vals, node)
      /\ Pushed(m, node).ok = m.ok
  BY <1>1 DEF Pushed
<1>5. /\ Without(m, n).todo = m.todo
      /\ Without(m, n).vals = SubSeq(m.vals, 1, Len(m.vals) - n) /\ Without(m, n).ok = m.ok
  BY <1>1 DEF Without
<1>6. /\ Forward(ts, m).todo = m.todo /\ Forward(ts, m).vals = m.vals
      /\ Forward(ts, m).ok = m.ok
  BY <1>1 DEF Forward
<1> QED
  BY <1>2, <1>3, <1>4, <1>5, <1>6

\* what m becomes by an item that leaves values of shape b, with values of shape q below
Done(ts, m, n, q, b) == n.todo = Tail(m.todo) /\ n.ok = m.ok /\ Matches(ts, n.vals, q \o b)
Branched(m, n, a, b) ==
    \E items : n.todo = items \o Tail(m.todo) /\ n.ok = m.ok /\ n.vals = m.vals
      /\ Runs(items, a, b)

\* a value pushed in place of the last n
LEMMA ReducingDone ==
  ASSUME NEW ts, NEW m, IsMachine(m), NEW q \in Shapes, NEW p \in Shapes, NEW u \in Shapes,
         Matches(ts, m.vals, q \o (p \o u)), NEW node, NEW f \in Forms, Holds(ts, node, f)
  PROVE  Done(ts, m, Skipped(Pushed(Without(m, Len(u)), node)), q, p ** f)
<1>1. q \o p \in Shapes /\ (q \o p) \o u = q \o (p \o u) /\ (q \o p) ** f = q \o (p ** f)
  <2>1. q \o p \in Shapes
    BY Piling
  <2>2. (q \o p) \o u = q \o (p \o u)
    BY Piling, ZenonT(30)
  <2>3. (q \o p) ** f = q \o (p ** f)
    BY Piling, ZenonT(30)
  <2> QED
    BY <2>1, <2>2, <2>3
<1>2. Matches(ts, SubSeq(m.vals, 1, Len(m.vals) - Len(u)), q \o p)
  BY <1>1, MatchesSplit
<1>0. ASSUME NEW y, IsMachine(y)
      PROVE  /\ Pushed(y, node).todo = y.todo /\ Pushed(y, node).ok = y.ok
             /\ Pushed(y, node).vals = Append(y.vals, node)
  BY <1>0, Members
<1> DEFINE w == Without(m, Len(u))
           x == Pushed(w, node)
<1>3. /\ IsMachine(w) /\ w.todo = m.todo /\ w.ok = m.ok
      /\ w.vals = SubSeq(m.vals, 1, Len(m.vals) - Len(u))
  <2>1. IsMachine(w)
    BY Staying
  <2>2. /\ w.todo = m.todo /\ w.ok = m.ok
        /\ w.vals = SubSeq(m.vals, 1, Len(m.vals) - Len(u))
    BY Members
  <2> QED
    BY <2>1, <2>2
<1> HIDE DEF w
<1>4. IsMachine(x) /\ x.todo = m.todo /\ x.ok = m.ok /\ x.vals = Append(w.vals, node)
  <2>1. IsMachine(x)
    BY <1>3, Staying
  <2>2. x.todo = w.todo /\ x.ok = w.ok /\ x.vals = Append(w.vals, node)
    BY <1>3, <1>0
  <2> QED
    BY <1>3, <2>1, <2>2
<1> HIDE DEF x
<1>5. Matches(ts, x.vals, (q \o p) ** f)
  BY <1>1, <1>2, <1>3, <1>4, MatchesPush
<1>6. Skipped(x).todo = Tail(x.todo) /\ Skipped(x).vals = x.vals /\ Skipped(x).ok = x.ok
  BY <1>4, Members
<1>7. Done(ts, m, Skipped(x), q, p ** f)
  BY <1>1, <1>4, <1>5, <1>6 DEF Done
<1> QED
  BY <1>7 DEF x, w

\* a value pushed on top
LEMMA PushingDone ==
  ASSUME NEW ts, NEW m, IsMachine(m), NEW q \in Shapes, NEW a \in Shapes,
         Matches(ts, m.vals, q \o a), NEW node, NEW f \in Forms, Holds(ts, node, f)
  PROVE  Done(ts, m, Skipped(Pushed(m, node)), q, a ** f)
<1>1. q \o a \in Shapes /\ (q \o a) ** f = q \o (a ** f)
  BY Piling
<1> DEFINE x == Pushed(m, node)
<1>2. IsMachine(x) /\ x.todo = m.todo /\ x.ok = m.ok /\ x.vals = Append(m.vals, node)
  BY Staying, Members
<1> HIDE DEF x
<1>3. Matches(ts, x.vals, (q \o a) ** f)
  BY <1>1, <1>2, MatchesPush
<1>4. Skipped(x).todo = Tail(x.todo) /\ Skipped(x).vals = x.vals /\ Skipped(x).ok = x.ok
  BY <1>2, Members
<1>5. Done(ts, m, Skipped(x), q, a ** f)
  BY <1>1, <1>2, <1>3, <1>4 DEF Done
<1> QED
  BY <1>5 DEF x

-----------------------------------------------------------------------------
(* What one item does.                                                     *)

\* the text of an operator that assigns is its kind
AssignersNamed(ts) ==
    \A i \in DOMAIN ts : ts[i].kind \in Assigners => ts[i].text = ts[i].kind

\* m before an item that takes shape a to b, with values of shape q below
Before(ts, m, q, a, b) ==
    /\ IsMachine(m) /\ m.at \in DOMAIN ts /\ AssignersNamed(ts)
    /\ q \in Shapes /\ a \in Shapes /\ b \in Shapes
    /\ Fits(Item(m), a, b) /\ Matches(ts, m.vals, q \o a)

\* a node will do where null is allowed too
Widens(c, b) == c = b \/ \E p \in Shapes : c = p ** "node" /\ b = p ** "maybe"

After(ts, m, n, q, a, b) ==
    \/ n = Thrown(m)
    \/ Done(ts, m, n, q, b)
    \/ \E c : Widens(c, b) /\ Branched(m, n, a, c)

\* expect() and advance() leave the values alone
LEMMA ExpectDone ==
  ASSUME NEW ts, NEW m, NEW q, NEW a, NEW b, Before(ts, m, q, a, b),
         Item(m).op \in {"expect", "advance", "throw"}
  PROVE  After(ts, m, Do(ts, m), q, a, b)
<1> DEFINE y == Forward(ts, m)
<1>1. /\ IsMachine(m) /\ q \in Shapes /\ a \in Shapes /\ Matches(ts, m.vals, q \o a)
      /\ Fits(Item(m), a, b)
  BY DEF Before
<1>2. IsMachine(y)
  BY <1>1, ForwardMoves
<1>3. y.todo = m.todo /\ y.vals = m.vals /\ y.ok = m.ok
  BY <1>1, Members
<1> HIDE DEF y
<1>4. Skipped(y).todo = Tail(y.todo) /\ Skipped(y).vals = y.vals /\ Skipped(y).ok = y.ok
  BY <1>2, Members
<1>5. CASE Item(m).op \in {"expect", "advance"}
  <2>1. b = a
    BY <1>1, <1>5 DEF Fits, Flat, Loops, Choice
  <2>2. Do(ts, m) \in {Skipped(y), Thrown(m)}
    BY <1>5 DEF Do, Consume, y
  <2> QED
    BY <1>1, <1>3, <1>4, <2>1, <2>2 DEF After, Done
<1>6. CASE Item(m).op = "throw"
  BY <1>6 DEF Do, After
<1> QED
  BY <1>5, <1>6

\* a token kept for a node
LEMMA KeepDone ==
  ASSUME NEW ts, NEW m, NEW q, NEW a, NEW b, Before(ts, m, q, a, b), Item(m).op = "keep"
  PROVE  After(ts, m, Do(ts, m), q, a, b)
<1> DEFINE y == Forward(ts, m)
           node == [Named("token", ts[m.at].text, <<>>) EXCEPT !.p = m.at]
<1>1. /\ IsMachine(m) /\ q \in Shapes /\ a \in Shapes /\ Matches(ts, m.vals, q \o a)
      /\ Fits(Item(m), a, b) /\ m.at \in DOMAIN ts /\ AssignersNamed(ts)
  BY DEF Before
<1>2. IsMachine(y)
  BY <1>1, ForwardMoves
<1>3. y.todo = m.todo /\ y.vals = m.vals /\ y.ok = m.ok
  BY <1>1, Members
<1>4. /\ node.k = "token" /\ node.v = ts[m.at].text /\ node.p = m.at
  BY DEF Named
<1>5. CASE ts[m.at].kind \in Item(m).kinds
  <2>1. Do(ts, m) = Skipped(Pushed(y, node))
    BY <1>5 DEF Do, Hold
  <2> HIDE DEF y, node
  <2>2. ASSUME NEW f \in Forms, Holds(ts, node, f), b = a ** f
        PROVE  After(ts, m, Do(ts, m), q, a, b)
    <3>1. Done(ts, y, Skipped(Pushed(y, node)), q, b)
      BY <1>1, <1>2, <1>3, <2>2, PushingDone
    <3> QED
      BY <1>3, <2>1, <3>1 DEF Done, After
  <2>3. CASE b = a ** "token"
    <3>1. Holds(ts, node, "token") /\ "token" \in Forms
      BY <1>4 DEF Holds, Children, Solid, Forms
    <3> QED
      BY <2>2, <2>3, <3>1
  <2>4. CASE Item(m).kinds \subseteq Assigners /\ b = a ** "assigner"
    <3>1. ts[m.at].text = ts[m.at].kind
      BY <1>1, <1>5, <2>4 DEF AssignersNamed
    <3>2. Holds(ts, node, "assigner") /\ "assigner" \in Forms
      BY <1>4, <3>1 DEF Holds, Children, Solid, Forms
    <3> QED
      BY <2>2, <2>4, <3>2
  <2>5. b = a ** "token" \/ (Item(m).kinds \subseteq Assigners /\ b = a ** "assigner")
    BY <1>1 DEF Fits, Flat, Loops, Choice
  <2> QED
    BY <2>3, <2>4, <2>5
<1>6. CASE ts[m.at].kind \notin Item(m).kinds
  <2>1. Do(ts, m) = Thrown(m)
    BY <1>6 DEF Do, Hold
  <2> QED
    BY <2>1 DEF After
<1> QED
  BY <1>5, <1>6

\* a node that is not made from a token
LEMMA PutDone ==
  ASSUME NEW ts, NEW m, NEW q, NEW a, NEW b, Before(ts, m, q, a, b), Item(m).op = "put"
  PROVE  After(ts, m, Do(ts, m), q, a, b)
<1>1. /\ IsMachine(m) /\ q \in Shapes /\ a \in Shapes /\ Matches(ts, m.vals, q \o a)
      /\ Fits(Item(m), a, b)
  BY DEF Before
<1> DEFINE node == Item(m).node
<1>2. Do(ts, m) = Skipped(Pushed(m, node))
  BY DEF Do
<1> HIDE DEF node
<1>3. ASSUME NEW f \in Forms, Holds(ts, node, f), b = a ** f
      PROVE  After(ts, m, Do(ts, m), q, a, b)
  BY <1>1, <1>2, <1>3, PushingDone DEF After
<1>4. \/ node = Nothing /\ b = a ** "maybe"
      \/ node \in {VoidType, VariadicType} /\ b \in {a ** "node", a ** "maybe"}
      \/ node = EmptyList /\ b \in {a ** "list", a ** "holes"}
  BY <1>1 DEF Fits, Flat, Loops, Choice, node
<1>5. /\ Holds(ts, Nothing, "maybe")
      /\ Holds(ts, VoidType, "node") /\ Holds(ts, VoidType, "maybe")
      /\ Holds(ts, VariadicType, "node") /\ Holds(ts, VariadicType, "maybe")
      /\ Holds(ts, EmptyList, "list") /\ Holds(ts, EmptyList, "holes")
  BY LeafNodes, HoldsNode
<1>6. "node" \in Forms /\ "maybe" \in Forms /\ "list" \in Forms /\ "holes" \in Forms
  BY DEF Forms
<1>7. CASE node = Nothing /\ b = a ** "maybe"
  BY <1>3, <1>5, <1>6, <1>7
<1>8. CASE node \in {VoidType, VariadicType} /\ b \in {a ** "node", a ** "maybe"}
  BY <1>3, <1>5, <1>6, <1>8
<1>9. CASE node = EmptyList /\ b \in {a ** "list", a ** "holes"}
  BY <1>3, <1>5, <1>6, <1>9
<1> QED
  BY <1>4, <1>7, <1>8, <1>9

\* a node made of the last values
LEMMA BuildDone ==
  ASSUME NEW ts, NEW m, NEW q, NEW a, NEW b, Before(ts, m, q, a, b), Item(m).op = "build"
  PROVE  After(ts, m, Do(ts, m), q, a, b)
<1>1. /\ IsMachine(m) /\ q \in Shapes /\ a \in Shapes /\ Matches(ts, m.vals, q \o a)
      /\ Fits(Item(m), a, b)
  BY DEF Before
<1> DEFINE k == Item(m).k
           n == Item(m).n
           node == Made(k, LastValues(m, n))
<1>2. \E p, u \in Shapes : /\ a = p \o u /\ Len(u) = n /\ Parts(k, u)
                           /\ b \in {p ** "node", p ** "maybe"}
  BY <1>1 DEF Fits, Flat, Loops, Choice
<1>3. PICK p \in Shapes, u \in Shapes :
         a = p \o u /\ Len(u) = n /\ Parts(k, u) /\ b \in {p ** "node", p ** "maybe"}
  BY <1>2
<1>4. Do(ts, m) = Skipped(Pushed(Without(m, n), node))
  BY DEF Do, Construct
<1>5. q \o p \in Shapes /\ (q \o p) \o u = q \o a
  <2>1. q \o p \in Shapes
    BY <1>1, Piling
  <2>2. \A w \in Shapes : (q \o p) \o w = q \o (p \o w)
    BY <1>1, Piling
  <2> QED
    BY <1>3, <2>1, <2>2
<1>6. Matches(ts, LastValues(m, n), u)
  <2>1. Matches(ts, SubSeq(m.vals, Len(m.vals) - Len(u) + 1, Len(m.vals)), u)
    BY <1>1, <1>5, MatchesSplit
  <2> QED
    BY <1>3, <2>1 DEF LastValues
<1> HIDE DEF k, n
<1>7. IsNode(ts, node) /\ node.k = k
  BY <1>3, <1>6, BuiltNode
<1>8. k # "nothing"
  BY <1>3 DEF Parts, Needs
<1> HIDE DEF node
<1>9. Holds(ts, node, "node") /\ Holds(ts, node, "maybe")
  BY <1>7, <1>8, HoldsNode
<1>10. "node" \in Forms /\ "maybe" \in Forms
  BY DEF Forms
<1>11. /\ Done(ts, m, Skipped(Pushed(Without(m, Len(u)), node)), q, p ** "node")
       /\ Done(ts, m, Skipped(Pushed(Without(m, Len(u)), node)), q, p ** "maybe")
  BY <1>1, <1>3, <1>9, <1>10, ReducingDone
<1> QED
  BY <1>3, <1>4, <1>11 DEF After

\* a node of one child without a clause of its own in Local
LEMMA WrappedNode ==
  ASSUME NEW ts, NEW e, IsNode(ts, e), NEW k \in {"list", "return", "block"}, NEW v
  PROVE  IsNode(ts, Named(k, v, <<e>>)) /\ Named(k, v, <<e>>).k = k
<1> DEFINE n == Named(k, v, <<e>>)
<1>1. n.k = k /\ n.c = <<e>> /\ ~n.copy /\ HasFields(n)
  BY DEF Named, HasFields
<1>2. <<e>> \in Seq({e}) /\ DOMAIN <<e>> = {1} /\ <<e>>[1] = e
  OBVIOUS
<1> HIDE DEF n
<1>3. Local(ts, n)
  <2>1. \E S : n.c \in Seq(S)
    BY <1>1, <1>2, Zenon
  <2> QED
    BY <1>1, <2>1 DEF Local
<1>4. \A i \in DOMAIN n.c : IsNode(ts, n.c[i])
  BY <1>1, <1>2
<1>5. IsNode(ts, n)
  BY <1>3, <1>4, NodeOfParts
<1> QED
  BY <1>1, <1>5 DEF n

\* a check that changes nothing, and the expression body that becomes a block
LEMMA GuardDone ==
  ASSUME NEW ts, NEW m, NEW q, NEW a, NEW b, Before(ts, m, q, a, b), Item(m).op = "guard"
  PROVE  After(ts, m, Do(ts, m), q, a, b)
<1>1. /\ IsMachine(m) /\ q \in Shapes /\ a \in Shapes /\ Matches(ts, m.vals, q \o a)
      /\ Fits(Item(m), a, b)
  BY DEF Before
<1>2. b = a /\ (Item(m).what = "as body" => \E p \in Shapes : a = p ** "node")
  BY <1>1 DEF Fits, Flat, Loops, Choice
<1>3. CASE Item(m).what = "as body"
  <2>1. PICK p \in Shapes : a = p ** "node"
    BY <1>2, <1>3
  <2> DEFINE inner  == Named("list", "", <<Top(m)>>)
             return == Named("return", "return", <<inner>>)
             one    == Named("list", "", <<return>>)
             node   == Named("block", "{", <<one>>)
             u      == <<"node">>
  <2>2. Do(ts, m) = Skipped(Pushed(Without(m, 1), node))
    <3>1. Do(ts, m) = Test(m)
      BY DEF Do
    <3>2. Test(m) = ReturnBody(m)
      BY <1>3 DEF Test
    <3>3. ReturnBody(m) = Skipped(Pushed(Without(m, 1), node))
      BY Zenon DEF ReturnBody
    <3> QED
      BY <3>1, <3>2, <3>3
  <2>3. "node" \in Forms
    BY DEF Forms
  <2>4. a = p \o u
    BY <2>1, <2>3, OnTop
  <2>5. u \in Shapes /\ Len(u) = 1 /\ u[1] = "node"
    BY <2>3 DEF Shapes
  <2> HIDE DEF u
  <2>6. q \o p \in Shapes /\ (q \o p) \o u = q \o a
    <3>1. q \o p \in Shapes
      BY <1>1, Piling
    <3>2. \A w \in Shapes : (q \o p) \o w = q \o (p \o w)
      BY <1>1, Piling
    <3> QED
      BY <2>4, <2>5, <3>1, <3>2
  <2>7. IsNode(ts, Top(m))
    <3>1. /\ Len(m.vals) \in Nat
          /\ \A i \in 1..Len(u) : Holds(ts, m.vals[Len(m.vals) - Len(u) + i], u[i])
      BY <1>1, <2>5, <2>6, MatchesSplit
    <3>2. Holds(ts, m.vals[Len(m.vals) - 1 + 1], "node")
      BY <2>5, <3>1
    <3>3. Len(m.vals) - 1 + 1 = Len(m.vals)
      BY <3>1
    <3> QED
      BY <3>2, <3>3 DEF Top, Holds, Children
  <2>8. IsNode(ts, node) /\ node.k = "block"
    <3>1. IsNode(ts, inner)
      BY <2>7, WrappedNode
    <3> HIDE DEF inner
    <3>2. IsNode(ts, return)
      BY <3>1, WrappedNode
    <3> HIDE DEF return
    <3>3. IsNode(ts, one)
      BY <3>2, WrappedNode
    <3> HIDE DEF one
    <3> QED
      BY <3>3, WrappedNode
  <2> HIDE DEF node
  <2>9. Holds(ts, node, "node")
    BY <2>8, HoldsNode
  <2>10. Done(ts, m, Skipped(Pushed(Without(m, Len(u)), node)), q, p ** "node")
    BY <1>1, <2>3, <2>4, <2>5, <2>9, ReducingDone
  <2> QED
    BY <1>2, <2>1, <2>2, <2>5, <2>10 DEF After
<1>4. CASE Item(m).what # "as body"
  <2>1. Do(ts, m) \in {Skipped(m), Thrown(m)}
    BY <1>4 DEF Do, Test
  <2>2. Skipped(m).todo = Tail(m.todo) /\ Skipped(m).vals = m.vals /\ Skipped(m).ok = m.ok
    BY <1>1, Members
  <2> QED
    BY <1>1, <1>2, <2>1, <2>2 DEF After, Done
<1> QED
  BY <1>3, <1>4

\* a list with one more member
LEMMA LongerList ==
  ASSUME NEW ts, NEW list, NEW e, NEW f \in {"list", "holes"}, Holds(ts, list, f), IsNode(ts, e),
         f = "list" => e.k # "nothing"
  PROVE  Holds(ts, [list EXCEPT !.c = Append(@, e)], f)
<1> DEFINE n == [list EXCEPT !.c = Append(@, e)]
<1>1. IsNode(ts, list) /\ list.k = "list" /\ ~list.copy
  BY DEF Holds, Children
<1>2. Local(ts, list) /\ \A i \in DOMAIN list.c : IsNode(ts, list.c[i])
  BY <1>1, NodeParts
<1>3. PICK S : list.c \in Seq(S)
  BY <1>2 DEF Local
<1>4. /\ n.k = "list" /\ n.c = Append(list.c, e) /\ ~n.copy /\ HasFields(n)
  <2>1. PICK k, v, p, c, copy : list = [k |-> k, v |-> v, p |-> p, c |-> c, copy |-> copy]
    BY <1>2, Zenon DEF Local, HasFields
  <2>2. n = [k |-> k, v |-> v, p |-> p, c |-> Append(c, e), copy |-> copy]
    BY <2>1, SMTT(20)
  <2> HIDE DEF n
  <2> QED
    BY <1>1, <2>1, <2>2 DEF HasFields
<1> HIDE DEF n
<1>5. list.c \in Seq(S \cup {e}) /\ e \in S \cup {e}
  BY <1>3
<1>6. /\ n.c \in Seq(S \cup {e}) /\ DOMAIN n.c = 1..(Len(list.c) + 1)
      /\ n.c[Len(list.c) + 1] = e /\ Len(list.c) \in Nat /\ DOMAIN list.c = 1..Len(list.c)
      /\ \A i \in DOMAIN list.c : n.c[i] = list.c[i]
  BY <1>4, <1>5
<1>7. \A i \in DOMAIN n.c : i \in DOMAIN list.c \/ i = Len(list.c) + 1
  BY <1>6
<1>8. \A i \in DOMAIN n.c : IsNode(ts, n.c[i])
  BY <1>2, <1>6, <1>7
<1>9. Local(ts, n)
  <2>1. \E T : n.c \in Seq(T)
    BY <1>6, Zenon
  <2> QED
    BY <1>4, <2>1 DEF Local
<1>10. IsNode(ts, n)
  BY <1>8, <1>9, NodeOfParts
<1>11. f = "list" => \A i \in DOMAIN n.c : n.c[i].k # "nothing"
  BY <1>6, <1>7 DEF Holds
<1>12. Holds(ts, n, f)
  BY <1>4, <1>10, <1>11 DEF Holds, Solid, Children
<1> QED
  BY <1>12 DEF n

\* a list that takes the last value as its last member
LEMMA AddDone ==
  ASSUME NEW ts, NEW m, NEW q, NEW a, NEW b, Before(ts, m, q, a, b), Item(m).op = "add"
  PROVE  After(ts, m, Do(ts, m), q, a, b)
<1>1. /\ IsMachine(m) /\ q \in Shapes /\ a \in Shapes /\ Matches(ts, m.vals, q \o a)
      /\ Fits(Item(m), a, b)
  BY DEF Before
<1>2. \E p \in Shapes : \E f \in {"list", "holes"} : \E g \in {"node", "maybe"} :
         (f = "list" => g = "node") /\ a = p ** f ** g /\ b = p ** f
  BY <1>1 DEF Fits, Flat, Loops, Choice
<1>3. PICK p \in Shapes, f \in {"list", "holes"}, g \in {"node", "maybe"} :
         (f = "list" => g = "node") /\ a = p ** f ** g /\ b = p ** f
  BY <1>2
<1> DEFINE u == <<f, g>>
           list == m.vals[Len(m.vals) - 1]
           node == [list EXCEPT !.c = Append(@, Top(m))]
<1>4. f \in Forms /\ g \in Forms
  BY DEF Forms
<1>5. a = p \o u
  BY <1>3, <1>4, OnTop
<1>6. u \in Shapes /\ Len(u) = 2 /\ u[1] = f /\ u[2] = g
  BY <1>4 DEF Shapes
<1> HIDE DEF u
<1>7. q \o p \in Shapes /\ (q \o p) \o u = q \o a
  <2>1. q \o p \in Shapes
    BY <1>1, Piling
  <2>2. \A w \in Shapes : (q \o p) \o w = q \o (p \o w)
    BY <1>1, <1>3, Piling
  <2> QED
    BY <1>5, <1>6, <2>1, <2>2
<1>8. Holds(ts, list, f) /\ Holds(ts, Top(m), g)
  <2>1. /\ Len(m.vals) \in Nat
        /\ \A i \in 1..Len(u) : Holds(ts, m.vals[Len(m.vals) - Len(u) + i], u[i])
    BY <1>1, <1>6, <1>7, MatchesSplit
  <2>2. Holds(ts, m.vals[Len(m.vals) - 2 + 1], f) /\ Holds(ts, m.vals[Len(m.vals) - 2 + 2], g)
    BY <1>6, <2>1
  <2>3. Len(m.vals) - 2 + 1 = Len(m.vals) - 1 /\ Len(m.vals) - 2 + 2 = Len(m.vals)
    BY <2>1
  <2> QED
    BY <2>2, <2>3 DEF Top
<1>9. Do(ts, m) = Skipped(Pushed(Without(m, 2), node))
  BY DEF Do, AddToList
<1> HIDE DEF list
<1>10. IsNode(ts, Top(m)) /\ (f = "list" => Top(m).k # "nothing")
  BY <1>3, <1>8 DEF Holds, Children, Solid
<1>11. Holds(ts, node, f)
  BY <1>8, <1>10, LongerList
<1> HIDE DEF node
<1>12. Done(ts, m, Skipped(Pushed(Without(m, Len(u)), node)), q, p ** f)
  BY <1>1, <1>3, <1>4, <1>5, <1>6, <1>11, ReducingDone
<1> QED
  BY <1>3, <1>6, <1>9, <1>12 DEF After

\* an assignment, and a compound one whose value repeats a target that may be repeated
LEMMA AssignNode ==
  ASSUME NEW ts, NEW vs, Matches(ts, vs, <<"node", "assigner", "node">>),
         vs[2].v # "=" => vs[1].copy
  PROVE  IsNode(ts, Made("assign", <<vs[1], vs[2],
                                     IF vs[2].v # "=" THEN Made("binary", vs) ELSE vs[3]>>))
<1> DEFINE u == <<"node", "assigner", "node">>
           s == <<"node", "token", "node">>
           f == <<"node", "node">>
           binary == Made("binary", vs)
           value  == IF vs[2].v # "=" THEN binary ELSE vs[3]
           parts  == <<vs[1], vs[2], value>>
           node   == Made("assign", parts)
<1>1. u \in Shapes /\ Len(u) = 3 /\ u[1] = "node" /\ u[2] = "assigner" /\ u[3] = "node"
  BY DEF Shapes, Forms
<1>2. s \in Shapes /\ Len(s) = 3 /\ s[1] = "node" /\ s[2] = "token" /\ s[3] = "node"
  BY DEF Shapes, Forms
<1>3. f \in Seq(Children) /\ Len(f) = 2 /\ f[1] = "node" /\ f[2] = "node"
  BY DEF Children
<1> HIDE DEF u, s, f
<1>4. PICK V : vs \in Seq(V)
  BY DEF Matches
<1>5. /\ Len(vs) = 3 /\ Holds(ts, vs[1], "node") /\ Holds(ts, vs[2], "assigner")
      /\ Holds(ts, vs[3], "node")
  BY <1>1 DEF Matches, u
<1>6. /\ IsNode(ts, vs[1]) /\ IsNode(ts, vs[3])
      /\ vs[2].k = "token" /\ (vs[2].v = "=" <=> ts[vs[2].p].kind = "=")
      /\ vs[1].k # "token" /\ vs[3].k # "token"
  BY <1>5 DEF Holds, Children
<1>7. /\ vs[1] \in V /\ vs[2] \in V /\ vs[3] \in V
  BY <1>4, <1>5
<1>8. IsNode(ts, binary) /\ binary.k = "binary"
  <2>1. Holds(ts, vs[2], "token")
    BY <1>6 DEF Holds, Children, Solid
  <2>2. Matches(ts, vs, s)
    BY <1>2, <1>4, <1>5, <2>1 DEF Matches
  <2>3. Needs("binary", f)
    BY DEF Needs, Literals
  <2>4. Parts("binary", s)
    <3>1. \A j \in 1..Len(f) : f[j] = IF j < 2 THEN s[j] ELSE s[j + 1]
      BY <1>2, <1>3
    <3>2. 2 \in 1..Len(s) /\ Len(f) = Len(s) - 1
      BY <1>2, <1>3
    <3> QED
      BY <1>2, <1>3, <2>3, <3>1, <3>2 DEF Parts
  <2> QED
    BY <1>2, <2>2, <2>4, BuiltNode
<1>9. binary.c[1] = vs[1]
  <2>1. 2 \in 1..Len(vs) /\ \A j \in 1..Len(vs) : j # 2 => vs[j].k # "token"
    BY <1>5, <1>6
  <2>2. PICK kids \in Seq(V) : \E op :
           /\ Len(kids) = Len(vs) - 1
           /\ \A j \in 1..Len(kids) : kids[j] = IF j < 2 THEN vs[j] ELSE vs[j + 1]
           /\ binary = [k |-> "binary", v |-> op, p |-> vs[2].p, c |-> kids,
                        copy |-> clone_expr_for_compound_assignment("binary", op, kids)]
    BY <1>4, <1>6, <2>1, MadeOf
  <2>3. binary.c = kids
    BY <2>2
  <2>4. 1 \in 1..Len(kids)
    BY <1>5, <2>2
  <2> QED
    BY <2>2, <2>3, <2>4
<1> HIDE DEF binary
<1>10. IsNode(ts, value) /\ value.k # "token"
  BY <1>6, <1>8, NodeParts DEF Local
<1> HIDE DEF value
<1> DEFINE W == V \cup {value}
<1>11. parts \in Seq(W) /\ Len(parts) = 3
  BY <1>7
<1>12. parts[1] = vs[1] /\ parts[2] = vs[2] /\ parts[3] = value
  OBVIOUS
<1> HIDE DEF parts, W, node
<1>13. 2 \in 1..Len(parts) /\ \A j \in 1..Len(parts) : j # 2 => parts[j].k # "token"
  BY <1>6, <1>10, <1>11, <1>12
<1>14. parts[2].k = "token"
  BY <1>6, <1>12
<1>15. PICK kids \in Seq(W) : \E op :
          /\ Len(kids) = Len(parts) - 1
          /\ \A j \in 1..Len(kids) : kids[j] = IF j < 2 THEN parts[j] ELSE parts[j + 1]
          /\ Made("assign", parts)
               = [k |-> "assign", v |-> op, p |-> parts[2].p, c |-> kids,
                  copy |-> clone_expr_for_compound_assignment("assign", op, kids)]
  <2>1. parts \in Seq(W) /\ 2 \in 1..Len(parts)
    BY <1>11, <1>13
  <2>2. \A j \in 1..Len(parts) : j # 2 => parts[j].k # "token"
    BY <1>13
  <2> QED
    BY <1>14, <2>1, <2>2, MadeOf
<1>16. PICK op : node = [k |-> "assign", v |-> op, p |-> parts[2].p, c |-> kids,
                         copy |-> clone_expr_for_compound_assignment("assign", op, kids)]
  BY <1>15 DEF node
<1>17. ~clone_expr_for_compound_assignment("assign", op, kids)
  BY DEF clone_expr_for_compound_assignment, Literals
<1>18. /\ HasFields(node) /\ node.k = "assign" /\ node.c = kids /\ ~node.copy
       /\ node.p = vs[2].p
  BY <1>12, <1>16, <1>17 DEF HasFields
<1> HIDE DEF node
<1>19. DOMAIN kids = {1, 2} /\ kids[1] = vs[1] /\ kids[2] = value
  <2>1. Len(kids) = 2 /\ 1 \in 1..Len(kids) /\ 2 \in 1..Len(kids)
    BY <1>11, <1>15
  <2>2. kids[1] = parts[1] /\ kids[2] = parts[3]
    BY <1>15, <2>1
  <2> QED
    BY <1>12, <1>15, <2>1, <2>2
<1>20. Local(ts, node)
  <2>1. ts[node.p].kind # "=" =>
           1 \in DOMAIN node.c /\ node.c[2].c[1] = node.c[1] /\ node.c[1].copy
    BY <1>6, <1>9, <1>18, <1>19 DEF value
  <2>2. \E S : node.c \in Seq(S)
    BY <1>18
  <2> QED
    BY <1>18, <2>1, <2>2 DEF Local
<1>21. \A i \in DOMAIN node.c : IsNode(ts, node.c[i])
  BY <1>6, <1>10, <1>18, <1>19
<1>22. IsNode(ts, node)
  BY <1>20, <1>21, NodeOfParts
<1> QED
  BY <1>22 DEF node, parts, value, binary

\* the assignment or compound assignment of the last three values
LEMMA AssignDone ==
  ASSUME NEW ts, NEW m, NEW q, NEW a, NEW b, Before(ts, m, q, a, b), Item(m).op = "assign"
  PROVE  After(ts, m, Do(ts, m), q, a, b)
<1>1. /\ IsMachine(m) /\ q \in Shapes /\ a \in Shapes /\ Matches(ts, m.vals, q \o a)
      /\ Fits(Item(m), a, b)
  BY DEF Before
<1>2. \E p \in Shapes : a = p ** "node" ** "assigner" ** "node" /\ b = p ** "node"
  BY <1>1 DEF Fits, Flat, Loops, Choice
<1>3. PICK p \in Shapes : a = p ** "node" ** "assigner" ** "node" /\ b = p ** "node"
  BY <1>2
<1> DEFINE u  == <<"node", "assigner", "node">>
           vs == LastValues(m, 3)
           node == Made("assign", <<vs[1], vs[2],
                                    IF vs[2].v # "=" THEN Made("binary", vs) ELSE vs[3]>>)
<1>4. "node" \in Forms /\ "assigner" \in Forms
  BY DEF Forms
<1>5. a = p \o u
  BY <1>3, <1>4, OnTop
<1>6. u \in Shapes /\ Len(u) = 3
  BY <1>4 DEF Shapes
<1>7. Matches(ts, vs, u)
  <2> HIDE DEF u
  <2>1. q \o p \in Shapes
    BY <1>1, Piling
  <2>2. \A w \in Shapes : (q \o p) \o w = q \o (p \o w)
    BY <1>1, <1>3, Piling
  <2>3. (q \o p) \o u = q \o a
    BY <1>5, <1>6, <2>2
  <2>4. Matches(ts, SubSeq(m.vals, Len(m.vals) - Len(u) + 1, Len(m.vals)), u)
    BY <1>1, <1>6, <2>1, <2>3, MatchesSplit
  <2> QED
    BY <1>6, <2>4 DEF LastValues
<1>8. CASE vs[2].v # "=" /\ ~vs[1].copy
  <2>1. Do(ts, m) = Thrown(m)
    BY <1>8 DEF Do, AssignTo
  <2> QED
    BY <2>1 DEF After
<1>9. CASE ~(vs[2].v # "=" /\ ~vs[1].copy)
  <2>1. Do(ts, m) = AssignTo(m)
    BY DEF Do
  <2>2. AssignTo(m) = Skipped(Pushed(Without(m, 3), node))
    BY <1>9, Zenon DEF AssignTo
  <2> HIDE DEF vs
  <2>3. IsNode(ts, node) /\ node.k = "assign"
    <3>1. IsNode(ts, node)
      BY <1>7, <1>9, AssignNode
    <3>2. \A parts : Made("assign", parts).k = "assign"
      BY DEF Made
    <3> QED
      BY <3>1, <3>2
  <2> HIDE DEF u, node
  <2>4. Holds(ts, node, "node")
    BY <2>3, HoldsNode
  <2>5. Done(ts, m, Skipped(Pushed(Without(m, Len(u)), node)), q, p ** "node")
    BY <1>1, <1>3, <1>4, <1>5, <1>6, <2>4, ReducingDone
  <2> QED
    BY <1>3, <1>6, <2>1, <2>2, <2>5 DEF After
<1> QED
  BY <1>8, <1>9

\* choices, loops, calls and lookaheads put items in their place and leave the values alone
LEMMA BranchDone ==
  ASSUME NEW ts, NEW m, NEW q, NEW a, NEW b, Before(ts, m, q, a, b),
         Item(m).op \in {"call"} \cup Loops \cup Choice
  PROVE  After(ts, m, Do(ts, m), q, a, b)
<1>1. IsMachine(m) /\ a \in Shapes /\ b \in Shapes /\ Fits(Item(m), a, b)
  BY DEF Before
<1>2. ASSUME NEW items, NEW c, Runs(items, a, c), Widens(c, b), Do(ts, m) = Instead(m, items)
      PROVE  After(ts, m, Do(ts, m), q, a, b)
  <2>1. /\ Instead(m, items).todo = items \o Tail(m.todo) /\ Instead(m, items).vals = m.vals
        /\ Instead(m, items).ok = m.ok
    BY <1>1, Members
  <2> QED
    BY <1>2, <2>1 DEF After, Branched
<1> DEFINE x == Item(m)
           kind == ts[m.at].kind
<1>3. CASE x.op = "call"
  <2>1. Do(ts, m) = Instead(m, Rules[x.rule])
    BY <1>3 DEF Do, Enter
  <2>2. \/ x.rule \in NodeRules /\ b \in {a ** "node", a ** "maybe"}
        \/ x.rule \in ListNames /\ b = a ** "list"
    BY <1>1, <1>3 DEF Fits, Flat, Loops, Choice
  <2>3. \E c : Runs(Rules[x.rule], a, c) /\ Widens(c, b)
    BY <1>1, <2>2, RulesRun DEF Widens
  <2> QED
    BY <1>2, <2>1, <2>3
<1>4. CASE x.op \in Loops
  <2>1. a = b /\ Runs(x.do, a, a)
    BY <1>1, <1>4 DEF Fits, Flat, Branches, Loops, Choice
  <2>2. Do(ts, m) \in {Instead(m, <<>>), Instead(m, Append(x.do, x))}
    BY <1>4 DEF Do, Choose, Loops
  <2>5. Widens(b, b)
    BY DEF Widens
  <2>3. Runs(<<>>, a, b)
    BY <1>1, <2>1, Runs0
  <2>4. Runs(Append(x.do, x), a, b)
    <3>1. Runs(<<x>>, a, a)
      BY <1>1, <2>1, Runs1
    <3>2. Runs(x.do \o <<x>>, a, a)
      BY <2>1, <3>1, RunsConcat
    <3>3. PICK S : x.do \in Seq(S)
      BY <2>1, RunsItems DEF IsSequence
    <3> HIDE DEF x
    <3>4. Append(x.do, x) = x.do \o <<x>>
      <4>1. x.do \in Seq(S \cup {x}) /\ x \in S \cup {x}
        BY <3>3
      <4> QED
        BY <4>1
    <3> QED
      BY <2>1, <3>2, <3>4
  <2> QED
    BY <1>2, <2>2, <2>3, <2>4, <2>5
<1>5. CASE x.op \in Choice
  <2>1. \A c \in Branches(x) : Runs(c, a, b)
    BY <1>1, <1>5 DEF Fits, Flat, Loops, Choice
  <2>2. \E c \in Branches(x) : Do(ts, m) = Instead(m, c)
    <3>1. CASE x.op = "switch"
      <4>1. Branches(x) = {x.on[k] : k \in DOMAIN x.on} \cup {x.other}
        BY <3>1 DEF Branches, Loops
      <4>2. Do(ts, m) = Instead(m, IF kind \in DOMAIN x.on THEN x.on[kind] ELSE x.other)
        BY <3>1 DEF Do, Choose
      <4> QED
        BY <4>1, <4>2
    <3>2. CASE x.op \in {"lookahead", "wild"}
      <4>1. Branches(x) = {x.yes, x.no}
        BY <3>2 DEF Branches, Loops
      <4>2. Do(ts, m) \in {Instead(m, x.yes), Instead(m, x.no)}
        BY <3>2 DEF Do, Choose
      <4> QED
        BY <4>1, <4>2
    <3> QED
      BY <1>5, <3>1, <3>2 DEF Choice
  <2>3. Widens(b, b)
    BY DEF Widens
  <2> QED
    BY <1>2, <2>1, <2>2, <2>3
<1> QED
  BY <1>3, <1>4, <1>5

-----------------------------------------------------------------------------
(* One item of a machine.                                                  *)

Leads(x, a, b) == \E c : Fits(x, a, c) /\ Widens(c, b)

\* n does what m was to do but for its next item, in whose place there are items that take the
\* values to shape b
Goes(ts, m, n, q, b) ==
    \E items : /\ IsSequence(items)
               /\ n.todo = items \o Tail(m.todo) /\ n.ok = m.ok
               /\ \E h \in [1..(Len(items) + 1) -> Shapes] :
                     /\ h[Len(items) + 1] = b
                     /\ Matches(ts, n.vals, q \o h[1])
                     /\ \A i \in 1..Len(items) : Leads(items[i], h[i], h[i + 1])

\* values of a form are of every wider one
LEMMA Widening ==
  ASSUME NEW ts, NEW vals, NEW q \in Shapes, NEW c \in Shapes, NEW b, Widens(c, b),
         Matches(ts, vals, q \o c)
  PROVE  b \in Shapes /\ Matches(ts, vals, q \o b)
<1>1. CASE c = b
  BY <1>1
<1>2. CASE c # b
  <2>1. PICK p \in Shapes : c = p ** "node" /\ b = p ** "maybe"
    BY <1>2 DEF Widens
  <2>2. "node" \in Forms /\ "maybe" \in Forms
    BY DEF Forms
  <2>3. q \o p \in Shapes /\ q \o c = (q \o p) ** "node" /\ q \o b = (q \o p) ** "maybe"
    <3>1. q \o p \in Shapes
      BY Piling
    <3>2. \A f \in Forms : (q \o p) ** f = q \o (p ** f)
      BY Piling, ZenonT(30)
    <3> QED
      BY <2>1, <2>2, <3>1, <3>2
  <2> DEFINE s == q \o p
  <2> HIDE DEF s
  <2>4. \A f \in Forms : /\ Len(s ** f) = Len(s) + 1 /\ (s ** f)[Len(s) + 1] = f
                         /\ \A i \in 1..Len(s) : (s ** f)[i] = s[i]
    BY <2>3 DEF Shapes, **, s
  <2>5. Len(s) \in Nat
    BY <2>3 DEF Shapes, s
  <2>6. ASSUME NEW i \in 1..(Len(s) + 1) PROVE Holds(ts, vals[i], (s ** "maybe")[i])
    <3>1. Holds(ts, vals[i], (s ** "node")[i])
      BY <2>2, <2>3, <2>4 DEF Matches, s
    <3>2. CASE i \in 1..Len(s)
      BY <2>2, <2>4, <3>1, <3>2
    <3>3. CASE i = Len(s) + 1
      <4>1. Holds(ts, vals[i], "node")
        BY <2>2, <2>4, <3>1, <3>3
      <4>2. Holds(ts, vals[i], "maybe")
        BY <4>1 DEF Holds, Children, Solid
      <4> QED
        BY <2>2, <2>4, <3>3, <4>2
    <3>4. i \in 1..Len(s) \/ i = Len(s) + 1
      BY <2>5
    <3> QED
      BY <3>2, <3>3, <3>4
  <2>7. Matches(ts, vals, s ** "maybe")
    BY <2>2, <2>3, <2>4, <2>6 DEF Matches, s
  <2>8. b \in Shapes
    BY <2>1, Longer
  <2> QED
    BY <2>3, <2>7, <2>8 DEF s
<1> QED
  BY <1>1, <1>2

\* widening is transitive
LEMMA WidensTwice ==
  ASSUME NEW a, NEW b, NEW c, Widens(a, b), Widens(b, c)
  PROVE  Widens(a, c)
<1>1. CASE a = b \/ b = c
  BY <1>1
<1>2. CASE a # b /\ b # c
  <2>1. PICK p \in Shapes : b = p ** "maybe"
    BY <1>2 DEF Widens
  <2>2. PICK r \in Shapes : b = r ** "node"
    BY <1>2 DEF Widens
  <2>3. "node" \in Forms /\ "maybe" \in Forms
    BY DEF Forms
  <2>4. /\ Len(b) = Len(p) + 1 /\ b[Len(p) + 1] = "maybe"
        /\ Len(b) = Len(r) + 1 /\ b[Len(r) + 1] = "node"
        /\ Len(p) \in Nat /\ Len(r) \in Nat
    BY <2>1, <2>2, <2>3 DEF Shapes, **
  <2> QED
    BY <2>4
<1> QED
  BY <1>1, <1>2

\* an item that is done goes on with no items in its place
LEMMA DoneGoes ==
  ASSUME NEW ts, NEW m, NEW n, NEW q \in Shapes, NEW b \in Shapes, Done(ts, m, n, q, b),
         m.todo # <<>>, IsSequence(m.todo)
  PROVE  Goes(ts, m, n, q, b)
<1>1. PICK S : m.todo \in Seq(S)
  BY DEF IsSequence
<1>2. <<>> \o Tail(m.todo) = Tail(m.todo)
  BY <1>1
<1>3. IsSequence(<<>>) /\ Len(<<>>) = 0
  BY DEF IsSequence
<1> DEFINE h == [i \in 1..1 |-> b]
<1>4. h \in [1..(Len(<<>>) + 1) -> Shapes] /\ h[Len(<<>>) + 1] = b /\ h[1] = b
  BY <1>3
<1> HIDE DEF h
<1>5. \A i \in 1..Len(<<>>) : Leads(<<>>[i], h[i], h[i + 1])
  BY <1>3
<1> QED
  BY <1>2, <1>3, <1>4, <1>5 DEF Goes, Done

\* an item that has branched goes on with those it has chosen
LEMMA BranchedGoes ==
  ASSUME NEW ts, NEW m, NEW n, NEW q \in Shapes, NEW a \in Shapes, NEW c, NEW b, Widens(c, b),
         Branched(m, n, a, c), Matches(ts, m.vals, q \o a)
  PROVE  Goes(ts, m, n, q, b)
<1>1. PICK items : /\ n.todo = items \o Tail(m.todo) /\ n.ok = m.ok /\ n.vals = m.vals
                   /\ Runs(items, a, c)
  BY DEF Branched
<1>2. PICK h \in [1..(Len(items) + 1) -> Shapes] :
         /\ h[1] = a /\ h[Len(items) + 1] = c
         /\ \A i \in 1..Len(items) : Fits(items[i], h[i], h[i + 1])
  BY <1>1, RunsItems
<1>3. PICK S : items \in Seq(S)
  BY <1>1, RunsItems DEF IsSequence
<1>4. Len(items) \in Nat /\ Len(items) + 1 \in 1..(Len(items) + 1)
  BY <1>3
<1>5. c \in Shapes
  BY <1>2, <1>4
<1>6. b \in Shapes
  BY <1>5, Longer DEF Widens
<1> DEFINE g == [h EXCEPT ![Len(items) + 1] = b]
<1>7. /\ g \in [1..(Len(items) + 1) -> Shapes] /\ g[Len(items) + 1] = b
      /\ \A i \in 1..Len(items) : g[i] = h[i]
  BY <1>2, <1>4, <1>6
<1> HIDE DEF g
<1>8. Matches(ts, n.vals, q \o g[1])
  <2>1. CASE Len(items) = 0
    <3>1. g[1] = b /\ a = c
      BY <1>2, <1>7, <2>1
    <3>2. Matches(ts, m.vals, q \o b)
      BY <1>5, <3>1, Widening
    <3> QED
      BY <1>1, <3>1, <3>2
  <2>2. CASE Len(items) # 0
    <3>1. 1 \in 1..Len(items)
      BY <1>4, <2>2
    <3>2. g[1] = a
      BY <1>2, <1>7, <3>1
    <3> QED
      BY <1>1, <3>2
  <2> QED
    BY <2>1, <2>2
<1>9. ASSUME NEW i \in 1..Len(items) PROVE Leads(items[i], g[i], g[i + 1])
  <2>1. Fits(items[i], g[i], h[i + 1])
    BY <1>2, <1>7
  <2>2. CASE i = Len(items)
    <3>1. Widens(h[i + 1], g[i + 1])
      BY <1>2, <1>7, <2>2
    <3> QED
      BY <2>1, <3>1 DEF Leads
  <2>3. CASE i # Len(items)
    <3>1. i + 1 \in 1..Len(items)
      BY <1>4, <2>3
    <3>2. g[i + 1] = h[i + 1]
      BY <1>7, <3>1
    <3>3. Widens(h[i + 1], g[i + 1])
      BY <3>2 DEF Widens
    <3> QED
      BY <2>1, <3>3 DEF Leads
  <2> QED
    BY <2>2, <2>3
<1>10. IsSequence(items)
  BY <1>1, RunsItems
<1> QED
  BY <1>1, <1>7, <1>8, <1>9, <1>10 DEF Goes

(* One item of a machine whose values it fits: an exception, or the values *)
(* fit the items that are there now.                                       *)
LEMMA ItemGoes ==
  ASSUME NEW ts, NEW m, IsMachine(m), m.at \in DOMAIN ts, AssignersNamed(ts),
         m.todo # <<>>, IsSequence(m.todo), NEW q \in Shapes, NEW a \in Shapes, NEW b,
         Leads(Item(m), a, b), Matches(ts, m.vals, q \o a), Item(m).op \notin {"try", "catch"}
  PROVE  Do(ts, m) = Thrown(m) \/ Goes(ts, m, Do(ts, m), q, b)
<1> DEFINE x == Item(m)
           n == Do(ts, m)
<1>1. PICK c : Fits(x, a, c) /\ Widens(c, b)
  BY DEF Leads
<1>2. c \in Shapes
  BY <1>1 DEF Fits
<1>3. Before(ts, m, q, a, c)
  BY <1>1, <1>2 DEF Before
<1>4. x.op \in {"expect", "advance", "throw", "keep", "put", "build", "guard", "add", "assign",
                "call"} \cup Loops \cup Choice
  BY <1>1 DEF Fits, Flat
<1> HIDE DEF x
<1>5. After(ts, m, n, q, a, c)
  BY <1>3, <1>4, ExpectDone, KeepDone, PutDone, BuildDone, GuardDone, AddDone, AssignDone,
     BranchDone DEF x
<1> HIDE DEF n
<1>6. CASE Done(ts, m, n, q, c)
  <2>1. b \in Shapes /\ Matches(ts, n.vals, q \o b)
    BY <1>1, <1>2, <1>6, Widening DEF Done
  <2>2. Done(ts, m, n, q, b)
    BY <1>6, <2>1 DEF Done
  <2> QED
    BY <2>1, <2>2, DoneGoes DEF n
<1>7. ASSUME NEW d, Widens(d, c), Branched(m, n, a, d) PROVE Goes(ts, m, n, q, b)
  <2>1. Widens(d, b)
    BY <1>1, <1>7, WidensTwice
  <2> QED
    BY <1>7, <2>1, BranchedGoes
<1> QED
  BY <1>5, <1>6, <1>7 DEF After, n

-----------------------------------------------------------------------------
(* The items of a machine.                                                 *)

(* An item finds values of shape base and on top of them some of shape h,  *)
(* and works on these; a handler has all the values up to its height below *)
(* it and goes on with the one it caught as one more of them.              *)
Frame(x, base, h, base2, h2) ==
    \/ x.op # "catch" /\ base2 = base /\ Leads(x, h, h2)
    \/ x.op = "catch" /\ x.height = Len(base) /\ h = <<"maybe">> /\ base2 \o h2 = base \o h

Frames(todo, B, H) ==
    /\ B \in [1..(Len(todo) + 1) -> Shapes] /\ H \in [1..(Len(todo) + 1) -> Shapes]
    /\ \A i \in 1..Len(todo) : Frame(todo[i], B[i], H[i], B[i + 1], H[i + 1])

\* what is left to do makes the list of a program from values of shape base and h
Framed(todo, base, h) ==
    /\ IsSequence(todo)
    /\ \E B, H : /\ Frames(todo, B, H) /\ B[1] = base /\ H[1] = h
                 /\ B[Len(todo) + 1] = <<>> /\ H[Len(todo) + 1] = <<"list">>

\* a suffix of framed items is framed
LEMMA FramedDrop ==
  ASSUME NEW todo, IsSequence(todo), NEW B, NEW H, Frames(todo, B, H),
         B[Len(todo) + 1] = <<>>, H[Len(todo) + 1] = <<"list">>, NEW n \in 0..Len(todo)
  PROVE  Framed(SubSeq(todo, n + 1, Len(todo)), B[n + 1], H[n + 1])
<1>1. PICK S : todo \in Seq(S)
  BY DEF IsSequence
<1> DEFINE t == SubSeq(todo, n + 1, Len(todo))
           k == Len(todo) - n
           b == [i \in 1..(k + 1) |-> B[n + i]]
           h == [i \in 1..(k + 1) |-> H[n + i]]
<1>2. /\ t \in Seq(S) /\ Len(t) = k /\ k \in Nat
      /\ \A i \in 1..k : t[i] = todo[n + i] /\ n + i \in 1..Len(todo)
  BY <1>1
<1>3. /\ \A i \in 1..(k + 1) : n + i \in 1..(Len(todo) + 1) /\ b[i] = B[n + i] /\ h[i] = H[n + i]
      /\ n + (k + 1) = Len(todo) + 1
  BY <1>1
<1>4. b \in [1..(k + 1) -> Shapes] /\ h \in [1..(k + 1) -> Shapes]
  BY <1>3 DEF Frames
<1> HIDE DEF t, b, h
<1>5. ASSUME NEW i \in 1..k PROVE Frame(t[i], b[i], h[i], b[i + 1], h[i + 1])
  <2>1. Frame(todo[n + i], B[n + i], H[n + i], B[(n + i) + 1], H[(n + i) + 1])
    BY <1>2 DEF Frames
  <2>2. i \in 1..(k + 1) /\ i + 1 \in 1..(k + 1) /\ n + (i + 1) = (n + i) + 1
    BY <1>2
  <2>3. /\ b[i] = B[n + i] /\ h[i] = H[n + i]
        /\ b[i + 1] = B[(n + i) + 1] /\ h[i + 1] = H[(n + i) + 1]
    BY <1>3, <2>2
  <2> QED
    BY <1>2, <2>1, <2>3
<1>6. /\ b[k + 1] = <<>> /\ h[k + 1] = <<"list">> /\ b[1] = B[n + 1] /\ h[1] = H[n + 1]
  <2>1. 1 \in 1..(k + 1) /\ k + 1 \in 1..(k + 1)
    BY <1>2
  <2> QED
    BY <1>3, <2>1
<1>7. Frames(t, b, h)
  BY <1>2, <1>4, <1>5 DEF Frames
<1>8. Framed(t, B[n + 1], H[n + 1])
  BY <1>2, <1>6, <1>7 DEF Framed, IsSequence
<1> QED
  BY <1>8 DEF t

\* the items behind the first are framed, by the values it leaves
LEMMA FramedTail ==
  ASSUME NEW todo, todo # <<>>, NEW base, NEW h, Framed(todo, base, h)
  PROVE  \E base2, h2 \in Shapes : /\ Frame(Head(todo), base, h, base2, h2)
                                   /\ Framed(Tail(todo), base2, h2)
<1>1. PICK S : todo \in Seq(S)
  BY DEF Framed, IsSequence
<1>2. PICK B, H : /\ Frames(todo, B, H) /\ B[1] = base /\ H[1] = h
                  /\ B[Len(todo) + 1] = <<>> /\ H[Len(todo) + 1] = <<"list">>
  BY DEF Framed
<1>3. /\ 1 \in 1..Len(todo) /\ Head(todo) = todo[1] /\ 1 \in 0..Len(todo)
      /\ Tail(todo) = SubSeq(todo, 2, Len(todo)) /\ 2 \in 1..(Len(todo) + 1)
  BY <1>1
<1>4. Framed(SubSeq(todo, 2, Len(todo)), B[2], H[2])
  <2>1. Framed(SubSeq(todo, 1 + 1, Len(todo)), B[1 + 1], H[1 + 1])
    BY <1>1, <1>2, <1>3, FramedDrop DEF IsSequence
  <2> QED
    BY <2>1
<1>5. Frame(todo[1], B[1], H[1], B[2], H[2])
  <2>1. Frame(todo[1], B[1], H[1], B[1 + 1], H[1 + 1])
    BY <1>2, <1>3 DEF Frames
  <2> QED
    BY <2>1
<1>6. B[2] \in Shapes /\ H[2] \in Shapes
  BY <1>2, <1>3 DEF Frames
<1> QED
  BY <1>2, <1>3, <1>4, <1>5, <1>6

\* items in front of framed ones, if they take the values to what those work on
LEMMA FramedBefore ==
  ASSUME NEW items, IsSequence(items), NEW b, NEW h, Frames(items, b, h), NEW todo,
         Framed(todo, b[Len(items) + 1], h[Len(items) + 1])
  PROVE  Framed(items \o todo, b[1], h[1])
<1>1. PICK S1 : items \in Seq(S1)
  BY DEF IsSequence
<1>2. PICK S2 : todo \in Seq(S2)
  BY DEF Framed, IsSequence
<1> DEFINE S == S1 \cup S2
           t == items \o todo
           n == Len(items)
           k == Len(todo)
<1>3. items \in Seq(S) /\ todo \in Seq(S)
  BY <1>1, <1>2
<1>4. /\ t \in Seq(S) /\ Len(t) = n + k /\ n \in Nat /\ k \in Nat
      /\ \A i \in 1..n : t[i] = items[i]
      /\ \A i \in 1..k : t[n + i] = todo[i]
  BY <1>3
<1>5. PICK B, H : /\ Frames(todo, B, H) /\ B[1] = b[n + 1] /\ H[1] = h[n + 1]
                  /\ B[k + 1] = <<>> /\ H[k + 1] = <<"list">>
  BY DEF Framed
<1> DEFINE Bs == [i \in 1..(n + k + 1) |-> IF i <= n THEN b[i] ELSE B[i - n]]
           Hs == [i \in 1..(n + k + 1) |-> IF i <= n THEN h[i] ELSE H[i - n]]
<1> HIDE DEF S, t, n, k
<1>6. ASSUME NEW i \in 1..(n + k + 1)
      PROVE  IF i <= n THEN i \in 1..(n + 1) ELSE i - n \in 1..(k + 1)
  BY <1>4
<1>7. Bs \in [1..(n + k + 1) -> Shapes] /\ Hs \in [1..(n + k + 1) -> Shapes]
  <2>1. /\ \A i \in 1..(n + 1) : b[i] \in Shapes /\ h[i] \in Shapes
        /\ \A i \in 1..(k + 1) : B[i] \in Shapes /\ H[i] \in Shapes
    BY <1>5 DEF Frames, n, k
  <2> QED
    BY <1>4, <1>6, <2>1
<1>15. \A j \in 1..(n + k + 1) : /\ Bs[j] = IF j <= n THEN b[j] ELSE B[j - n]
                                 /\ Hs[j] = IF j <= n THEN h[j] ELSE H[j - n]
  OBVIOUS
<1> HIDE DEF Bs, Hs
<1>8. ASSUME NEW i \in 1..n
      PROVE  /\ Bs[i] = b[i] /\ Hs[i] = h[i] /\ Bs[i + 1] = b[i + 1] /\ Hs[i + 1] = h[i + 1]
  <2>1. i \in 1..(n + k + 1) /\ i <= n /\ i + 1 \in 1..(n + k + 1)
    BY <1>4
  <2>2. Bs[i] = b[i] /\ Hs[i] = h[i]
    BY <1>15, <2>1
  <2>3. CASE i + 1 <= n
    BY <1>15, <2>1, <2>2, <2>3
  <2>4. CASE ~(i + 1 <= n)
    <3>1. i + 1 - n = 1 /\ i + 1 = n + 1
      BY <1>4, <2>4
    <3>2. PICK j \in 1..(n + k + 1) : j = i + 1 /\ ~(j <= n) /\ j - n = 1
      BY <1>4, <2>1, <2>4, <3>1
    <3>3. Bs[j] = B[1] /\ Hs[j] = H[1]
      BY <1>15, <3>2, Zenon
    <3> QED
      BY <1>5, <2>2, <3>1, <3>2, <3>3
  <2> QED
    BY <2>3, <2>4
<1>9. ASSUME NEW i \in 1..(k + 1) PROVE Bs[n + i] = B[i] /\ Hs[n + i] = H[i]
  <2>1. PICK j \in 1..(n + k + 1) : j = n + i /\ ~(j <= n) /\ j - n = i
    BY <1>4
  <2>2. Bs[j] = B[i] /\ Hs[j] = H[i]
    BY <1>15, <2>1, Zenon
  <2> QED
    BY <2>1, <2>2
<1>10. ASSUME NEW i \in 1..(n + k) PROVE Frame(t[i], Bs[i], Hs[i], Bs[i + 1], Hs[i + 1])
  <2>1. CASE i <= n
    <3>1. i \in 1..n
      BY <1>4, <2>1
    <3>2. Frame(items[i], b[i], h[i], b[i + 1], h[i + 1])
      BY <3>1 DEF Frames, n
    <3> QED
      BY <1>4, <1>8, <3>1, <3>2
  <2>2. CASE ~(i <= n)
    <3>1. PICK j \in 1..k : i = n + j
      <4>1. i - n \in 1..k /\ i = n + (i - n)
        BY <1>4, <2>2
      <4> QED
        BY <4>1
    <3>2. Frame(todo[j], B[j], H[j], B[j + 1], H[j + 1])
      BY <1>5 DEF Frames, k
    <3>3. j \in 1..(k + 1) /\ j + 1 \in 1..(k + 1) /\ i + 1 = n + (j + 1)
      BY <1>4, <3>1
    <3>4. /\ Bs[i] = B[j] /\ Hs[i] = H[j] /\ Bs[i + 1] = B[j + 1] /\ Hs[i + 1] = H[j + 1]
      BY <1>9, <3>1, <3>3
    <3> QED
      BY <1>4, <3>1, <3>2, <3>4
  <2> QED
    BY <2>1, <2>2
<1>11. Bs[1] = b[1] /\ Hs[1] = h[1]
  <2>1. CASE n = 0
    <3>1. 1 \in 1..(k + 1) /\ n + 1 = 1
      BY <1>4, <2>1
    <3> QED
      BY <1>5, <1>9, <2>1, <3>1
  <2>2. CASE n # 0
    <3>1. 1 \in 1..n
      BY <1>4, <2>2
    <3> QED
      BY <1>8, <3>1
  <2> QED
    BY <2>1, <2>2
<1>12. Bs[n + k + 1] = <<>> /\ Hs[n + k + 1] = <<"list">>
  <2>1. k + 1 \in 1..(k + 1) /\ n + (k + 1) = n + k + 1
    BY <1>4
  <2> QED
    BY <1>5, <1>9, <2>1
<1>13. Frames(t, Bs, Hs)
  BY <1>4, <1>7, <1>10 DEF Frames
<1>14. Framed(t, b[1], h[1])
  <2>1. Bs[Len(t) + 1] = <<>> /\ Hs[Len(t) + 1] = <<"list">>
    BY <1>4, <1>12
  <2> QED
    BY <1>4, <1>11, <1>13, <2>1 DEF Framed, IsSequence
<1> QED
  BY <1>14 DEF t

\* up to the first handler the values below stay
LEMMA BaseStays ==
  ASSUME NEW todo, IsSequence(todo), NEW B, NEW H, Frames(todo, B, H),
         NEW n \in 1..Len(todo), \A i \in 1..(n - 1) : todo[i].op # "catch"
  PROVE  B[n] = B[1]
<1> DEFINE X == {i \in Nat : i + 1 <= n => B[i + 1] = B[1]}
<1>1. 0 \in X
  OBVIOUS
<1>2. ASSUME NEW i \in Nat, i \in X PROVE i + 1 \in X
  <2> SUFFICES ASSUME (i + 1) + 1 <= n PROVE B[(i + 1) + 1] = B[1]
    OBVIOUS
  <2>0. PICK S : todo \in Seq(S)
    BY DEF IsSequence
  <2>1. i + 1 \in 1..(n - 1) /\ i + 1 \in 1..Len(todo)
    BY <2>0
  <2>2. Frame(todo[i + 1], B[i + 1], H[i + 1], B[(i + 1) + 1], H[(i + 1) + 1])
    BY <2>1 DEF Frames
  <2>3. B[(i + 1) + 1] = B[i + 1]
    BY <2>1, <2>2 DEF Frame
  <2> QED
    BY <1>2, <2>1, <2>3
<1> HIDE DEF X
<1>3. \A i \in Nat : i \in X
  BY <1>1, <1>2, SetInduction
<1>4. n - 1 \in Nat /\ (n - 1) + 1 = n
  BY DEF IsSequence
<1>5. n - 1 \in X
  BY <1>3, <1>4
<1> QED
  BY <1>4, <1>5 DEF X

-----------------------------------------------------------------------------
(* The values of a machine.                                                *)

\* the values of m are what the rest of its items works on
Typed(ts, m) ==
    \E base, h \in Shapes : Framed(m.todo, base, h) /\ Matches(ts, m.vals, base \o h)

\* n has gone on from the first item of m, or from the handler that caught its exception
GoneOn(m, n) ==
    \/ \E items : IsSequence(items) /\ n.todo = items \o Tail(m.todo)
    \/ \E i \in DOMAIN m.todo : /\ m.todo[i].op = "catch"
                                /\ n.todo = SubSeq(m.todo, i + 1, Len(m.todo))

Follows(ts, m, n) ==
    \/ ~n.ok /\ n.todo = <<>>
    \/ n.ok /\ Typed(ts, n) /\ GoneOn(m, n)

(* An exception drops the items up to the handler, and with them what they *)
(* have built: the values left are those the handler has counted.          *)
LEMMA ThrownFollows ==
  ASSUME NEW ts, NEW m, IsMachine(m), m.ok, Typed(ts, m)
  PROVE  Follows(ts, m, Thrown(m))
<1>1. PICK base \in Shapes, h \in Shapes :
         Framed(m.todo, base, h) /\ Matches(ts, m.vals, base \o h)
  BY DEF Typed
<1>2. PICK B, H : /\ Frames(m.todo, B, H) /\ B[1] = base /\ H[1] = h
                  /\ B[Len(m.todo) + 1] = <<>> /\ H[Len(m.todo) + 1] = <<"list">>
  BY <1>1 DEF Framed
<1>3. PICK S : m.todo \in Seq(S)
  BY <1>1 DEF Framed, IsSequence
<1> DEFINE handlers == {i \in DOMAIN m.todo : m.todo[i].op = "catch"}
           near     == CHOOSE i \in handlers : \A j \in handlers : i <= j
           vals     == Append(SubSeq(m.vals, 1, m.todo[near].height), Nothing)
           rest     == SubSeq(m.todo, near + 1, Len(m.todo))
<1>4. PICK at, todo, values, ok : m = [at |-> at, todo |-> todo, vals |-> values, ok |-> ok]
  BY DEF IsMachine
<1>5. CASE handlers = {}
  <2>1. Thrown(m) = [m EXCEPT !.todo = <<>>, !.vals = <<>>, !.ok = FALSE]
    BY <1>5 DEF Thrown
  <2>2. ~Thrown(m).ok /\ Thrown(m).todo = <<>>
    BY <1>4, <2>1
  <2> QED
    BY <2>2 DEF Follows
<1>6. CASE handlers # {}
  <2>1. Thrown(m) = [m EXCEPT !.todo = rest, !.vals = vals]
    <3>1. m.todo = todo /\ m.vals = values
      BY <1>4
    <3> QED
      BY <1>6 DEF Thrown
  <2>2. Thrown(m).todo = rest /\ Thrown(m).vals = vals /\ Thrown(m).ok = m.ok
    <3> HIDE DEF rest, vals
    <3> QED
      BY <1>4, <2>1
  <2>3. handlers \in SUBSET Nat /\ DOMAIN m.todo = 1..Len(m.todo) /\ Len(m.todo) \in Nat
    BY <1>3
  <2>4. \E i \in handlers : \A j \in handlers : i <= j
    <3> HIDE DEF handlers
    <3> QED
      BY <1>6, <2>3, LeastExists
  <2>5. near \in handlers /\ \A j \in handlers : near <= j
    <3> HIDE DEF handlers
    <3> QED
      BY <2>4
  <2> HIDE DEF near
  <2>6. near \in 1..Len(m.todo) /\ m.todo[near].op = "catch" /\ near \in DOMAIN m.todo
    BY <2>3, <2>5
  <2>7. ASSUME NEW i \in 1..(near - 1) PROVE m.todo[i].op # "catch"
    BY <2>3, <2>5, <2>6
  <2>8. B[near] = base
    BY <1>1, <1>2, <2>6, <2>7, BaseStays DEF Framed
  <2>9. Frame(m.todo[near], B[near], H[near], B[near + 1], H[near + 1])
    BY <1>2, <2>6 DEF Frames
  <2>10. /\ m.todo[near].height = Len(base)
         /\ B[near + 1] \o H[near + 1] = base \o <<"maybe">>
    BY <2>6, <2>8, <2>9 DEF Frame
  <2>11. B[near + 1] \in Shapes /\ H[near + 1] \in Shapes
    BY <1>2, <2>3, <2>6 DEF Frames
  <2>12. Framed(rest, B[near + 1], H[near + 1])
    <3>1. near \in 0..Len(m.todo)
      BY <2>6
    <3>2. IsSequence(m.todo)
      BY <1>1 DEF Framed
    <3> QED
      BY <1>2, <3>1, <3>2, FramedDrop
  <2>13. Matches(ts, vals, B[near + 1] \o H[near + 1])
    <3>1. Matches(ts, SubSeq(m.vals, 1, Len(m.vals) - Len(h)), base)
      BY <1>1, MatchesSplit
    <3>2. Len(m.vals) - Len(h) = Len(base)
      <4>1. Len(m.vals) = Len(base \o h)
        BY <1>1 DEF Matches
      <4> QED
        BY <4>1 DEF Shapes
    <3>3. Holds(ts, Nothing, "maybe") /\ "maybe" \in Forms
      BY LeafNodes, HoldsNode DEF Forms
    <3>4. Matches(ts, SubSeq(m.vals, 1, Len(base)), base)
      BY <3>1, <3>2
    <3>5. Matches(ts, vals, base ** "maybe")
      BY <2>10, <3>3, <3>4, MatchesPush
    <3>6. base ** "maybe" = base \o <<"maybe">>
      BY <3>3, OnTop
    <3> QED
      BY <2>10, <3>5, <3>6
  <2> HIDE DEF rest, vals
  <2>14. Typed(ts, Thrown(m))
    BY <2>2, <2>11, <2>12, <2>13 DEF Typed
  <2>15. GoneOn(m, Thrown(m))
    BY <2>2, <2>6 DEF GoneOn, rest
  <2> QED
    BY <2>2, <2>14, <2>15 DEF Follows
<1> QED
  BY <1>5, <1>6

\* parse_type calls parse_type_internal under a handler
LEMMA TryFollows ==
  ASSUME NEW ts, NEW m, IsMachine(m), m.ok, m.todo # <<>>, Item(m).op = "try",
         NEW base \in Shapes, NEW h \in Shapes, Framed(m.todo, base, h),
         Matches(ts, m.vals, base \o h)
  PROVE  Follows(ts, m, Do(ts, m))
<1>14. \A f \in Forms : (base \o h) ** f = base \o (h ** f)
  BY Piling
<1>1. PICK base2 \in Shapes, h2 \in Shapes :
         Frame(Item(m), base, h, base2, h2) /\ Framed(Tail(m.todo), base2, h2)
  BY FramedTail DEF Item
<1> DEFINE call  == Call("type")
           catch == Catch(Len(m.vals))
           items == <<call, catch>>
           below == base \o h
           b     == <<below, below, base2>>
           g     == <<<<>>, <<"maybe">>, h2>>
<1>2. base2 = base /\ h2 = h ** "maybe"
  <2>1. base2 = base /\ Leads(Item(m), h, h2)
    BY <1>1 DEF Frame
  <2>2. PICK c : Fits(Item(m), h, c) /\ Widens(c, h2)
    BY <2>1 DEF Leads
  <2>3. c = h ** "maybe"
    BY <2>2 DEF Fits, Flat, Loops, Choice
  <2>4. c = h2
    <3> SUFFICES ASSUME NEW p \in Shapes, c = p ** "node" PROVE FALSE
      BY <2>2 DEF Widens
    <3>1. "node" \in Forms /\ "maybe" \in Forms
      BY DEF Forms
    <3>2. /\ Len(c) = Len(p) + 1 /\ c[Len(p) + 1] = "node"
          /\ Len(c) = Len(h) + 1 /\ c[Len(h) + 1] = "maybe"
          /\ Len(p) \in Nat /\ Len(h) \in Nat
      BY <2>3, <3>1 DEF Shapes, **
    <3> QED
      BY <3>2
  <2> QED
    BY <2>1, <2>3, <2>4
<1>3. below \in Shapes /\ <<>> \in Shapes /\ <<"maybe">> \in Shapes /\ below \o <<>> = below
  BY DEF Shapes, Forms
<1>4. base2 \o h2 = below \o <<"maybe">>
  <2>1. "maybe" \in Forms
    BY DEF Forms
  <2>2. below ** "maybe" = base \o (h ** "maybe")
    <3> QED
      BY <1>14, <2>1
  <2>3. below ** "maybe" = below \o <<"maybe">>
    BY <1>3, <2>1, OnTop
  <2> QED
    BY <1>2, <2>2, <2>3
<1> HIDE DEF below
<1>5. Frame(call, below, <<>>, below, <<"maybe">>)
  <2>1. "type" \in NodeRules
    BY DEF NodeRules
  <2>2. Fits(call, <<>>, <<>> ** "maybe")
    BY <1>3, <2>1, CallFits
  <2>3. <<>> ** "maybe" = <<"maybe">>
    BY DEF **
  <2>4. Widens(<<"maybe">>, <<"maybe">>)
    BY DEF Widens
  <2>5. Leads(call, <<>>, <<"maybe">>)
    BY <2>2, <2>3, <2>4 DEF Leads
  <2>6. call.op = "call"
    BY DEF Call
  <2> HIDE DEF call
  <2> QED
    BY <2>5, <2>6 DEF Frame
<1>6. Frame(catch, below, <<"maybe">>, base2, h2)
  <2>1. catch.op = "catch" /\ catch.height = Len(m.vals)
    BY DEF Catch
  <2>2. Len(m.vals) = Len(below)
    BY DEF Matches, below
  <2> HIDE DEF catch
  <2> QED
    BY <1>4, <2>1, <2>2 DEF Frame
<1>7. IsSequence(items) /\ Len(items) = 2 /\ items[1] = call /\ items[2] = catch
  <2> HIDE DEF call, catch
  <2>1. items \in Seq({call, catch})
    OBVIOUS
  <2> QED
    BY <2>1, Zenon DEF IsSequence
<1>8. /\ b \in [1..3 -> Shapes] /\ b[1] = below /\ b[2] = below /\ b[3] = base2
      /\ g \in [1..3 -> Shapes] /\ g[1] = <<>> /\ g[2] = <<"maybe">> /\ g[3] = h2
  BY <1>3
<1> HIDE DEF call, catch, items, b, g
<1>9. Frames(items, b, g)
  <2>1. ASSUME NEW i \in 1..2 PROVE Frame(items[i], b[i], g[i], b[i + 1], g[i + 1])
    <3>1. CASE i = 1
      <4>1. i + 1 = 2
        BY <3>1
      <4> QED
        BY <1>5, <1>7, <1>8, <3>1, <4>1
    <3>2. CASE i = 2
      <4>1. i + 1 = 3
        BY <3>2
      <4> QED
        BY <1>6, <1>7, <1>8, <3>2, <4>1
    <3> QED
      BY <3>1, <3>2
  <2>2. Len(items) + 1 = 3
    BY <1>7
  <2> QED
    BY <1>7, <1>8, <2>1, <2>2 DEF Frames
<1>10. Framed(items \o Tail(m.todo), below, <<>>)
  <2>1. Len(items) + 1 = 3
    BY <1>7
  <2> QED
    BY <1>1, <1>7, <1>8, <1>9, <2>1, FramedBefore
<1>11. Do(ts, m) = Instead(m, items)
  BY DEF Do, Enter, items, call, catch
<1>12. /\ Instead(m, items).todo = items \o Tail(m.todo) /\ Instead(m, items).vals = m.vals
       /\ Instead(m, items).ok = m.ok
  BY Members
<1>13. Typed(ts, Do(ts, m))
  BY <1>3, <1>10, <1>11, <1>12 DEF Typed, below
<1> QED
  BY <1>7, <1>11, <1>12, <1>13 DEF Follows, GoneOn

\* every item keeps the values what the rest of the items works on
LEMMA DoFollows ==
  ASSUME NEW ts, NEW m, IsMachine(m), m.ok, m.todo # <<>>, m.at \in DOMAIN ts,
         AssignersNamed(ts), Typed(ts, m)
  PROVE  Follows(ts, m, Do(ts, m))
<1> DEFINE n == Do(ts, m)
<1>1. PICK base \in Shapes, h \in Shapes :
         Framed(m.todo, base, h) /\ Matches(ts, m.vals, base \o h)
  BY DEF Typed
<1>2. PICK base2 \in Shapes, h2 \in Shapes :
         Frame(Item(m), base, h, base2, h2) /\ Framed(Tail(m.todo), base2, h2)
  BY <1>1, FramedTail DEF Item
<1>3. CASE Item(m).op = "try"
  BY <1>1, <1>3, TryFollows
<1>4. CASE Item(m).op = "catch"
  <2>1. n = Skipped(m)
    BY <1>4 DEF Do
  <2>2. Skipped(m).todo = Tail(m.todo) /\ Skipped(m).vals = m.vals /\ Skipped(m).ok = m.ok
    BY Members
  <2>3. base2 \o h2 = base \o h
    BY <1>2, <1>4 DEF Frame
  <2>4. Typed(ts, n)
    BY <1>1, <1>2, <2>1, <2>2, <2>3 DEF Typed
  <2>5. <<>> \o Tail(m.todo) = Tail(m.todo) /\ IsSequence(<<>>)
    BY <1>1 DEF Framed, IsSequence
  <2>6. GoneOn(m, n)
    BY <2>1, <2>2, <2>5 DEF GoneOn
  <2> QED
    BY <2>1, <2>2, <2>4, <2>6 DEF Follows
<1>5. CASE Item(m).op \notin {"try", "catch"}
  <2>1. base2 = base /\ Leads(Item(m), h, h2)
    BY <1>2, <1>5 DEF Frame
  <2>2. IsSequence(m.todo)
    BY <1>1 DEF Framed
  <2>3. n = Thrown(m) \/ Goes(ts, m, n, base, h2)
    BY <1>1, <1>5, <2>1, <2>2, ItemGoes
  <2> HIDE DEF n
  <2>4. CASE n = Thrown(m)
    BY <2>4, ThrownFollows DEF n
  <2>5. CASE Goes(ts, m, n, base, h2)
    <3>1. PICK items : /\ IsSequence(items)
                       /\ n.todo = items \o Tail(m.todo) /\ n.ok = m.ok
                       /\ \E g \in [1..(Len(items) + 1) -> Shapes] :
                             /\ g[Len(items) + 1] = h2
                             /\ Matches(ts, n.vals, base \o g[1])
                             /\ \A i \in 1..Len(items) : Leads(items[i], g[i], g[i + 1])
      BY <2>5 DEF Goes
    <3>2. PICK g \in [1..(Len(items) + 1) -> Shapes] :
             /\ g[Len(items) + 1] = h2
             /\ Matches(ts, n.vals, base \o g[1])
             /\ \A i \in 1..Len(items) : Leads(items[i], g[i], g[i + 1])
      BY <3>1
    <3>3. Len(items) \in Nat
      BY <3>1 DEF IsSequence
    <3> DEFINE b == [i \in 1..(Len(items) + 1) |-> base]
    <3>4. /\ b \in [1..(Len(items) + 1) -> Shapes]
          /\ \A i \in 1..(Len(items) + 1) : b[i] = base
      OBVIOUS
    <3> HIDE DEF b
    <3>5. ASSUME NEW i \in 1..Len(items) PROVE Frame(items[i], b[i], g[i], b[i + 1], g[i + 1])
      <4>1. b[i] = base /\ b[i + 1] = base
        <5>1. i \in 1..(Len(items) + 1) /\ i + 1 \in 1..(Len(items) + 1)
          BY <3>3
        <5> QED
          BY <3>4, <5>1
      <4>2. items[i].op # "catch"
        BY <3>2 DEF Leads, Fits, Flat, Loops, Choice
      <4> QED
        BY <3>2, <4>1, <4>2 DEF Frame
    <3>6. Frames(items, b, g)
      BY <3>4, <3>5 DEF Frames
    <3>7. b[Len(items) + 1] = base2 /\ b[1] = base /\ g[1] \in Shapes
      <4>1. 1 \in 1..(Len(items) + 1) /\ Len(items) + 1 \in 1..(Len(items) + 1)
        BY <3>3
      <4> QED
        BY <2>1, <3>4, <4>1
    <3>8. Framed(items \o Tail(m.todo), base, g[1])
      BY <1>2, <3>1, <3>2, <3>6, <3>7, FramedBefore
    <3>9. Typed(ts, n)
      BY <3>1, <3>2, <3>7, <3>8 DEF Typed
    <3>10. GoneOn(m, n)
      BY <3>1 DEF GoneOn
    <3> QED
      BY <3>1, <3>9, <3>10 DEF Follows, n
  <2> QED
    BY <2>3, <2>4, <2>5 DEF n
<1> QED
  BY <1>3, <1>4, <1>5

-----------------------------------------------------------------------------
(* The last item: a parse only comes to an end behind the loop of          *)
(* parse_program, at the end of the file.                                  *)

Declaring == Until({}, <<Call("declaration"), Add>>)

Bottom(ts, m) ==
    /\ m.todo = <<>> => ts[m.at].kind = "eof"
    /\ m.todo # <<>> => m.todo[Len(m.todo)] \in {Call("program"), Declaring}

\* what the last items are
LEMMA LastItems ==
  Call("program").op = "call" /\ Call("program").rule = "program"
  /\ Declaring.op = "until" /\ Declaring.kinds = {}
  /\ Declaring.do = <<Call("declaration"), Add>>
BY DEF Call, Declaring, Until

\* parse_program is its list and the loop over the declarations
LEMMA ProgramRule == Rules["program"] = <<Open, Declaring>>
<1>1. \A f, g : /\ DOMAIN (f ++ g) = DOMAIN f \cup DOMAIN g
                /\ "program" \in DOMAIN f =>
                     "program" \in DOMAIN (f ++ g) /\ (f ++ g)["program"] = f["program"]
  BY DEF ++
<1>2. "program" \in DOMAIN DeclarationRules /\ DeclarationRules["program"] = parse_program
  BY DEF DeclarationRules
<1>3. /\ "program" \in DOMAIN (DeclarationRules ++ PartRules)
      /\ (DeclarationRules ++ PartRules)["program"] = parse_program
  BY <1>1, <1>2
<1>4. /\ "program" \in DOMAIN (DeclarationRules ++ PartRules ++ ListRules)
      /\ (DeclarationRules ++ PartRules ++ ListRules)["program"] = parse_program
  BY <1>1, <1>3
<1>5. /\ "program" \in DOMAIN (DeclarationRules ++ PartRules ++ ListRules ++ StatementRules)
      /\ (DeclarationRules ++ PartRules ++ ListRules ++ StatementRules)["program"] = parse_program
  BY <1>1, <1>4
<1>6. Rules["program"] = parse_program
  BY <1>1, <1>5 DEF Rules
<1> QED
  BY <1>6 DEF parse_program, Declaring

(* What becomes of the last element of a sequence.                         *)
LEMMA LastKept ==
  ASSUME NEW S, NEW s \in Seq(S), s # <<>>
  PROVE  /\ Len(s) = 1 \/ Len(s) > 1
         /\ Len(s) = 1 => Head(s) = s[Len(s)] /\ Tail(s) = <<>>
         /\ \A i \in DOMAIN s : i # Len(s) =>
              /\ SubSeq(s, i + 1, Len(s)) # <<>>
              /\ SubSeq(s, i + 1, Len(s))[Len(SubSeq(s, i + 1, Len(s)))] = s[Len(s)]
         /\ Len(s) > 1 => \A items : IsSequence(items) =>
              /\ items \o Tail(s) # <<>>
              /\ (items \o Tail(s))[Len(items \o Tail(s))] = s[Len(s)]
<1>1. Len(s) \in Nat /\ Len(s) >= 1 /\ DOMAIN s = 1..Len(s)
  OBVIOUS
<1>2. Len(s) = 1 \/ Len(s) > 1
  BY <1>1
<1>3. ASSUME Len(s) = 1 PROVE Head(s) = s[Len(s)] /\ Tail(s) = <<>>
  <2>0. /\ Tail(s) \in Seq(S) /\ Len(Tail(s)) = Len(s) - 1 /\ 1 - 1 = 0
    OBVIOUS
  <2>1. PICK t \in Seq(S) : t = Tail(s) /\ Len(t) = 0
    BY <1>3, <2>0, Zenon
  <2>2. t = <<>>
    BY <2>1
  <2>3. Head(s) = s[1]
    OBVIOUS
  <2> QED
    BY <1>3, <2>1, <2>2, <2>3
<1>4. ASSUME NEW i \in DOMAIN s, i # Len(s)
      PROVE  /\ SubSeq(s, i + 1, Len(s)) # <<>>
             /\ SubSeq(s, i + 1, Len(s))[Len(SubSeq(s, i + 1, Len(s)))] = s[Len(s)]
  <2> DEFINE rest == SubSeq(s, i + 1, Len(s))
             k == Len(s) - i
  <2>1. k \in Nat /\ k \in 1..k /\ i + k = Len(s)
    BY <1>1, <1>4
  <2>2. rest \in Seq(S) /\ Len(rest) = k /\ \A j \in 1..k : rest[j] = s[i + j]
    BY <1>1
  <2> HIDE DEF rest, k
  <2>3. rest[k] = s[Len(s)]
    BY <2>1, <2>2
  <2>4. rest # <<>>
    BY <2>1, <2>2
  <2> QED
    BY <2>2, <2>3, <2>4 DEF rest
<1>5. ASSUME Len(s) > 1, NEW items, IsSequence(items)
      PROVE  /\ items \o Tail(s) # <<>>
             /\ (items \o Tail(s))[Len(items \o Tail(s))] = s[Len(s)]
  <2>1. PICK S2 : items \in Seq(S2)
    BY <1>5 DEF IsSequence
  <2> DEFINE T == S \cup S2
             t == Tail(s)
             k == Len(s) - 1
             new == items \o t
  <2>2. k \in Nat /\ k \in 1..k
    BY <1>1, <1>5
  <2>3. t \in Seq(T) /\ Len(t) = k /\ items \in Seq(T)
    BY <1>1, <1>5, <2>1
  <2>4. t[k] = s[Len(s)]
    BY <1>1, <1>5
  <2> HIDE DEF t, k, T
  <2>5. /\ new \in Seq(T) /\ Len(new) = Len(items) + k /\ Len(items) \in Nat
        /\ \A j \in 1..k : new[Len(items) + j] = t[j]
    BY <2>3
  <2> HIDE DEF new
  <2>6. new[Len(new)] = t[k]
    BY <2>2, <2>5
  <2>7. new # <<>>
    BY <2>2, <2>5
  <2> QED
    BY <2>4, <2>6, <2>7 DEF new, t
<1> QED
  BY <1>2, <1>3, <1>4, <1>5

\* no item is behind the loop, which only ends at the end of the file
LEMMA DoBottom ==
  ASSUME NEW ts, NEW m, IsMachine(m), m.todo # <<>>, IsSequence(m.todo), Bottom(ts, m),
         GoneOn(m, Do(ts, m))
  PROVE  Bottom(ts, Do(ts, m))
<1>1. PICK s, S : s = m.todo /\ s \in Seq(S) /\ s # <<>>
  BY DEF IsSequence
<1> DEFINE n == Do(ts, m)
           last == s[Len(s)]
<1>2. /\ Len(s) = 1 \/ Len(s) > 1
      /\ Len(s) = 1 => Head(s) = last /\ Tail(s) = <<>>
      /\ \A i \in DOMAIN s : i # Len(s) =>
           /\ SubSeq(s, i + 1, Len(s)) # <<>>
           /\ SubSeq(s, i + 1, Len(s))[Len(SubSeq(s, i + 1, Len(s)))] = last
      /\ Len(s) > 1 => \A items : IsSequence(items) =>
           /\ items \o Tail(s) # <<>>
           /\ (items \o Tail(s))[Len(items \o Tail(s))] = last
  BY <1>1, LastKept
<1>3. last \in {Call("program"), Declaring}
  BY <1>1 DEF Bottom
<1> HIDE DEF n, last
<1>4. last.op # "catch"
  BY <1>3, LastItems
<1>5. ASSUME n.todo # <<>>, n.todo[Len(n.todo)] = last PROVE Bottom(ts, n)
  BY <1>3, <1>5 DEF Bottom
<1>6. CASE \E i \in DOMAIN s : s[i].op = "catch" /\ n.todo = SubSeq(s, i + 1, Len(s))
  <2>1. PICK i \in DOMAIN s : s[i].op = "catch" /\ n.todo = SubSeq(s, i + 1, Len(s))
    BY <1>6
  <2>2. i # Len(s)
    BY <1>4, <2>1 DEF last
  <2> QED
    BY <1>2, <1>5, <2>1, <2>2 DEF n
<1>7. CASE Len(s) > 1 /\ \E items : IsSequence(items) /\ n.todo = items \o Tail(s)
  BY <1>2, <1>5, <1>7 DEF n
<1>8. CASE Len(s) = 1
  <2>1. Item(m) = last /\ Tail(m.todo) = <<>>
    BY <1>1, <1>2, <1>8 DEF Item
  <2>2. \A items : /\ Instead(m, items).todo = items \o Tail(m.todo)
                   /\ Instead(m, items).at = m.at
    BY Members, Staying
  <2>3. CASE last = Call("program")
    <3>1. Item(m).op = "call" /\ Item(m).rule = "program"
      BY <2>1, <2>3, LastItems
    <3>2. n = Instead(m, <<Open, Declaring>>)
      BY <3>1, ProgramRule DEF Do, Enter, n
    <3> DEFINE items == <<Open, Declaring>>
    <3>3. items \in Seq({Open, Declaring}) /\ Len(items) = 2 /\ items[2] = Declaring
      OBVIOUS
    <3> HIDE DEF items, n
    <3>4. items \o <<>> = items /\ items # <<>>
      BY <3>3, SMTT(20)
    <3>5. n.todo = items
      BY <2>1, <2>2, <3>2, <3>4 DEF items
    <3> QED
      BY <3>3, <3>4, <3>5 DEF Bottom, n
  <2>4. CASE last = Declaring
    <3>1. Item(m).op = "until" /\ Item(m).kinds = {} /\ Item(m).do = <<Call("declaration"), Add>>
      BY <2>1, <2>4, LastItems
    <3>2. n = Instead(m, IF ts[m.at].kind = "eof" THEN <<>> ELSE Append(Item(m).do, Item(m)))
      BY <3>1 DEF Do, Choose, n
    <3>3. CASE ts[m.at].kind = "eof"
      <4>2. <<>> \o <<>> = <<>>
        OBVIOUS
      <4>1. n.todo = <<>> /\ n.at = m.at
        BY <2>1, <2>2, <3>2, <3>3, <4>2, Zenon
      <4> HIDE DEF n
      <4> QED
        BY <3>3, <4>1 DEF Bottom, n
    <3>4. CASE ts[m.at].kind # "eof"
      <4> DEFINE do    == <<Call("declaration"), Add>>
                 items == Append(do, Declaring)
                 R     == {Call("declaration"), Add, Declaring}
      <4>1. n = Instead(m, items)
        BY <2>1, <2>4, <3>1, <3>2, <3>4
      <4>2. Declaring \in R
        OBVIOUS
      <4>3. do \in Seq(R)
        OBVIOUS
      <4> HIDE DEF R, n, do
      <4>4. ASSUME NEW d \in Seq(R), NEW e \in R
            PROVE  /\ Append(d, e) \in Seq(R) /\ Append(d, e) # <<>>
                   /\ Append(d, e)[Len(Append(d, e))] = e
        OBVIOUS
      <4>7. items \in Seq(R) /\ items # <<>> /\ items[Len(items)] = Declaring
        BY <4>2, <4>3, <4>4, Zenon
      <4> HIDE DEF items
      <4>5. items \o <<>> = items /\ items # <<>> /\ items[Len(items)] = Declaring
        BY <4>7
      <4>6. n.todo = items
        BY <2>1, <2>2, <4>1, <4>5
      <4> QED
        BY <4>5, <4>6 DEF Bottom, n
    <3> QED
      BY <3>3, <3>4
  <2> QED
    BY <1>3, <2>3, <2>4
<1> QED
  BY <1>1, <1>2, <1>6, <1>7, <1>8 DEF GoneOn, n

-----------------------------------------------------------------------------
(* Tokens.                                                                 *)

\* a token of a kind that assigns is an operator, whose kind is its text
LEMMA OperatorsNamed ==
  ASSUME NEW src, NEW from, next_token(src, from).kind \in Assigners
  PROVE  next_token(src, from).text = next_token(src, from).kind
<1> DEFINE t == next_token(src, from)
           p == Skip(src, from)
<1>1. \A kind, a, b : Token(kind, src, a, b).kind = kind
  /\ Token(kind, src, a, b).text = Text(src, a, b)
  BY DEF Token
<1>2. Assigners \cap ({"eof", "error", "int", "float", "string", "char", "id", "unknown"}
                        \cup Keywords) = {}
  BY DEF Assigners, Keywords
<1>3. t \in {EndToken(src), tokenize_number(src, p), tokenize_identifier(src, p),
             tokenize_string(src, p), tokenize_char(src, p), tokenize_operator(src, p)}
  BY DEF next_token
<1>4. t.kind \in Assigners
  OBVIOUS
<1> HIDE DEF t, p
<1>5. EndToken(src).kind = "eof"
  BY <1>1 DEF EndToken
<1>6. tokenize_number(src, p).kind \in {"int", "float"}
  <2>1. \E kind \in {"int", "float"} : \E a, b : tokenize_number(src, p) = Token(kind, src, a, b)
    BY Zenon DEF tokenize_number
  <2> QED
    BY <1>1, <2>1
<1>7. tokenize_identifier(src, p).kind \in {"id"} \cup Keywords
  BY <1>1 DEF tokenize_identifier
<1>8. tokenize_string(src, p).kind = "string"
  BY <1>1 DEF tokenize_string
<1>9. tokenize_char(src, p).kind \in {"char", "error"}
  <2>1. \E kind \in {"char", "error"} : \E a, b : tokenize_char(src, p) = Token(kind, src, a, b)
    BY DEF tokenize_char, ThrowToken
  <2> QED
    BY <1>1, <2>1
<1>10. \/ tokenize_operator(src, p).kind = "unknown"
       \/ tokenize_operator(src, p).text = tokenize_operator(src, p).kind
  <2>1. \/ tokenize_operator(src, p) = Token("unknown", src, p, p + 1)
        \/ \E size : tokenize_operator(src, p) = Token(Text(src, p, p + size), src, p, p + size)
    BY DEF tokenize_operator
  <2> QED
    BY <1>1, <2>1
<1>11. t.text = t.kind
  BY <1>2, <1>3, <1>4, <1>5, <1>6, <1>7, <1>8, <1>9, <1>10
<1> QED
  BY <1>11 DEF t

-----------------------------------------------------------------------------
(* A parse has its values in order until it fails.                         *)

InOrder(ts, m) == m.ok /\ IsMachine(m) /\ Typed(ts, m) /\ Bottom(ts, m)

VInv ==
    /\ AssignersNamed(tokens)
    /\ phase = "parse" => InOrder(tokens, machine) \/ (~machine.ok /\ machine.todo = <<>>)
    /\ phase = "parsed" =>
         /\ InOrder(tokens, machine) /\ machine.todo = <<>>
         /\ machine.at \in DOMAIN tokens

\* the machine before its first item
LEMMA StartInOrder == ASSUME NEW ts PROVE InOrder(ts, Start)
<1> DEFINE x    == Call("program")
           todo == <<x>>
           B    == <<<<>>, <<>>>>
           H    == <<<<>>, <<"list">>>>
<1>1. Start.todo = todo /\ Start.vals = <<>> /\ Start.ok /\ IsMachine(Start)
  BY DEF Start, IsMachine
<1>2. <<>> \in Shapes /\ <<"list">> \in Shapes /\ Len(<<>>) = 0 /\ <<>> \o <<>> = <<>>
  BY DEF Shapes, Forms
<1>3. Leads(x, <<>>, <<"list">>)
  <2>1. "program" \in ListNames
    BY DEF ListNames
  <2>2. Fits(x, <<>>, <<>> ** "list")
    BY <1>2, <2>1, CallFits
  <2>3. <<>> ** "list" = <<"list">>
    BY DEF **
  <2>4. Widens(<<"list">>, <<"list">>)
    BY DEF Widens
  <2> QED
    BY <2>2, <2>3, <2>4 DEF Leads
<1>4. x.op = "call"
  BY LastItems
<1> HIDE DEF x
<1>5. todo \in Seq({x}) /\ Len(todo) = 1 /\ todo[1] = x /\ todo # <<>>
  OBVIOUS
<1>6. /\ B \in [1..2 -> Shapes] /\ B[1] = <<>> /\ B[2] = <<>>
      /\ H \in [1..2 -> Shapes] /\ H[1] = <<>> /\ H[2] = <<"list">>
  BY <1>2
<1> HIDE DEF todo, B, H
<1>7. Frames(todo, B, H)
  <2>1. Frame(x, <<>>, <<>>, <<>>, <<"list">>)
    BY <1>3, <1>4 DEF Frame
  <2>2. ASSUME NEW i \in 1..1 PROVE Frame(todo[i], B[i], H[i], B[i + 1], H[i + 1])
    <3>1. i = 1 /\ i + 1 = 2
      OBVIOUS
    <3> QED
      BY <1>5, <1>6, <2>1, <3>1
  <2>3. Len(todo) + 1 = 2
    BY <1>5
  <2> QED
    BY <1>5, <1>6, <2>2, <2>3 DEF Frames
<1>8. Framed(todo, <<>>, <<>>)
  <2>1. Len(todo) + 1 = 2
    BY <1>5
  <2>2. IsSequence(todo)
    BY <1>5 DEF IsSequence
  <2> QED
    BY <1>6, <1>7, <2>1, <2>2 DEF Framed
<1>9. Matches(ts, <<>>, <<>>)
  <2>1. <<>> \in Seq({})
    OBVIOUS
  <2> QED
    BY <1>2, <2>1 DEF Matches
<1>10. Typed(ts, Start)
  BY <1>1, <1>2, <1>8, <1>9 DEF Typed
<1>11. Bottom(ts, Start)
  BY <1>1, <1>5 DEF Bottom, x
<1> QED
  BY <1>1, <1>10, <1>11 DEF InOrder

\* nothing has been read
LEMMA InitVInv == Init => VInv
<1> SUFFICES ASSUME Init PROVE VInv
  OBVIOUS
<1>1. DOMAIN tokens = {} /\ phase = "lex"
  BY DEF Init
<1> QED
  BY <1>1 DEF VInv, AssignersNamed

(* A step of the lexing phase adds a token; a step of the parsing phase is *)
(* one item, or the end of the parse.                                      *)
LEMMA NextVInv == IInv /\ VInv /\ [Next]_vars => VInv'
<1> SUFFICES ASSUME IInv, VInv, [Next]_vars PROVE VInv'
  OBVIOUS
<1>0. PICK S : tokens \in Seq(S)
  BY DEF IInv
<1>1. CASE Lex
  <2> DEFINE t   == next_token(source, read)
             new == [kind |-> t.kind, text |-> t.text, at |-> t.at]
  <2>1. machine' = Start
    BY <1>1 DEF Lex, IInv
  <2>2. tokens' = tokens \/ tokens' = Append(tokens, new)
    BY <1>1 DEF Lex
  <2>3. phase' # "parsed"
    BY <1>1 DEF Lex
  <2>4. AssignersNamed(tokens')
    <3>1. CASE tokens' = tokens
      BY <3>1 DEF VInv
    <3>2. CASE tokens' = Append(tokens, new)
      <4>1. new.kind = t.kind /\ new.text = t.text
        OBVIOUS
      <4>2. t.kind \in Assigners => t.text = t.kind
        BY OperatorsNamed
      <4> HIDE DEF new, t
      <4>3. /\ DOMAIN tokens = 1..Len(tokens) /\ Len(tokens) \in Nat
            /\ DOMAIN tokens' = 1..(Len(tokens) + 1)
            /\ tokens'[Len(tokens) + 1] = new
            /\ \A i \in DOMAIN tokens : tokens'[i] = tokens[i]
        BY <1>0, <3>2
      <4>4. \A i \in DOMAIN tokens' : i \in DOMAIN tokens \/ i = Len(tokens) + 1
        BY <4>3
      <4> QED
        BY <4>1, <4>2, <4>3, <4>4 DEF VInv, AssignersNamed
    <3> QED
      BY <2>2, <3>1, <3>2
  <2>5. InOrder(tokens', machine')
    BY <2>1, StartInOrder
  <2> QED
    BY <2>3, <2>4, <2>5 DEF VInv
<1>2. CASE Reads \/ Calls \/ Decides \/ Builds
  <2>1. /\ phase = "parse" /\ phase' = phase /\ tokens' = tokens
        /\ machine' = Do(tokens, machine) /\ machine.todo # <<>>
        /\ Item(machine).op \in {"expect", "keep", "advance", "call", "try", "switch", "while",
                                 "until", "lookahead", "wild", "build", "put", "add", "assign",
                                 "guard", "catch", "throw"}
    BY <1>2 DEF Reads, Calls, Decides, Builds, Step
  <2>2. /\ InOrder(tokens, machine) /\ AssignersNamed(tokens) /\ machine.at \in DOMAIN tokens
    BY <2>1 DEF VInv, IInv
  <2>3. /\ machine.ok /\ IsMachine(machine) /\ Typed(tokens, machine)
        /\ Bottom(tokens, machine)
    BY <2>2 DEF InOrder
  <2>4. IsMachine(machine')
    BY <2>1, <2>3, DoMoves
  <2>5. Follows(tokens, machine, machine')
    BY <2>1, <2>2, <2>3, DoFollows
  <2>6. CASE ~machine'.ok /\ machine'.todo = <<>>
    BY <2>1, <2>2, <2>6 DEF VInv
  <2>7. CASE machine'.ok /\ Typed(tokens, machine') /\ GoneOn(machine, machine')
    <3>1. IsSequence(machine.todo)
      BY <2>3 DEF Typed, Framed
    <3>2. Bottom(tokens, machine')
      BY <2>1, <2>3, <2>7, <3>1, DoBottom
    <3>3. InOrder(tokens', machine')
      BY <2>1, <2>4, <2>7, <3>2 DEF InOrder
    <3> QED
      BY <2>1, <2>2, <3>3 DEF VInv
  <2> QED
    BY <2>5, <2>6, <2>7 DEF Follows
<1>3. CASE Return
  <2>1. /\ phase = "parse" /\ machine' = machine /\ tokens' = tokens
        /\ machine.todo = <<>>
        /\ phase' \in {"parsed", "failed"} /\ (phase' = "parsed" => machine.ok)
    BY <1>3 DEF Return
  <2>2. machine.at \in DOMAIN tokens
    BY <2>1 DEF IInv
  <2> QED
    BY <2>1, <2>2 DEF VInv
<1>4. CASE UNCHANGED vars
  BY <1>4 DEF vars, VInv
<1> QED
  BY <1>1, <1>2, <1>3, <1>4 DEF Next

-----------------------------------------------------------------------------
(* The tree.                                                               *)

(* A set that holds a node and the children of its members holds the nodes *)
(* below the node.                                                         *)
LEMMA NodesInside ==
  ASSUME TreeDepth \in Nat, NEW N, NEW n \in N, \A m \in N : \A i \in DOMAIN m.c : m.c[i] \in N
  PROVE  NodesOf(n) \subseteq N
<1> DEFINE Below(X) == UNION {ToSet(m.c) : m \in X}
           Layers(d, g) == g = [e \in 0..d |-> IF e = 0 THEN {n} ELSE Below(g[e - 1])]
           layer == CHOOSE g : g = [d \in 0..TreeDepth |->
                                      IF d = 0 THEN {n} ELSE UNION {ToSet(m.c) : m \in g[d - 1]}]
           X == {d \in Nat : \E g : Layers(d, g)}
<1>1. 0 \in X
  <2> DEFINE g == [e \in 0..0 |-> {n}]
  <2>1. Layers(0, g)
    OBVIOUS
  <2> QED
    BY <2>1
<1>2. ASSUME NEW d \in Nat, d \in X PROVE d + 1 \in X
  <2>1. PICK g : Layers(d, g)
    BY <1>2
  <2> HIDE DEF Below
  <2> DEFINE h == [e \in 0..(d + 1) |-> IF e = d + 1 THEN Below(g[d]) ELSE g[e]]
  <2>2. ASSUME NEW e \in 0..(d + 1) PROVE h[e] = IF e = 0 THEN {n} ELSE Below(h[e - 1])
    <3>1. CASE e = d + 1
      <4>1. e # 0 /\ e - 1 = d /\ d \in 0..(d + 1) /\ d # d + 1
        BY <3>1
      <4>2. h[d] = g[d] /\ h[e] = Below(g[d])
        BY <3>1, <4>1
      <4> HIDE DEF h
      <4> QED
        BY <4>1, <4>2
    <3>2. CASE e # d + 1
      <4>1. e \in 0..d /\ (e # 0 => e - 1 \in 0..(d + 1) /\ e - 1 # d + 1)
        BY <3>2
      <4>2. g[e] = IF e = 0 THEN {n} ELSE Below(g[e - 1])
        BY <2>1, <4>1
      <4>3. h[e] = g[e] /\ (e # 0 => h[e - 1] = g[e - 1])
        BY <3>2, <4>1
      <4> HIDE DEF h
      <4> QED
        BY <4>2, <4>3
    <3> QED
      BY <3>1, <3>2
  <2>3. h = [e \in 0..(d + 1) |-> h[e]]
    OBVIOUS
  <2> HIDE DEF h
  <2>4. Layers(d + 1, h)
    BY <2>2, <2>3
  <2> HIDE DEF Layers
  <2> QED
    BY <2>4
<1>3. TreeDepth \in X
  <2> HIDE DEF X
  <2>1. \A d \in Nat : d \in X => d + 1 \in X
    BY <1>2
  <2>2. \A d \in Nat : d \in X
    BY <1>1, <2>1, SetInduction
  <2> QED
    BY <2>2
<1>4. Layers(TreeDepth, layer)
  BY <1>3
<1>5. NodesOf(n) = UNION {layer[d] : d \in 0..TreeDepth}
  BY DEF NodesOf
<1> HIDE DEF layer, X
<1>6. \A d \in 0..TreeDepth : layer[d] = IF d = 0 THEN {n} ELSE Below(layer[d - 1])
  <2> HIDE DEF Below
  <2> QED
    BY <1>4
<1> DEFINE Y == {d \in Nat : d \in 0..TreeDepth => layer[d] \subseteq N}
<1>7. 0 \in Y
  BY <1>6
<1>8. ASSUME NEW d \in Nat, d \in Y PROVE d + 1 \in Y
  <2> SUFFICES ASSUME d + 1 \in 0..TreeDepth PROVE layer[d + 1] \subseteq N
    OBVIOUS
  <2>1. d \in 0..TreeDepth /\ d + 1 # 0 /\ (d + 1) - 1 = d
    OBVIOUS
  <2>2. layer[d] \subseteq N
    BY <1>8, <2>1
  <2>3. layer[d + 1] = Below(layer[d])
    <3> HIDE DEF Below
    <3> QED
      BY <1>6, <2>1
  <2> QED
    BY <2>2, <2>3 DEF ToSet
<1> HIDE DEF Y
<1>9. \A d \in Nat : d \in Y
  BY <1>7, <1>8, SetInduction
<1>10. \A d \in 0..TreeDepth : layer[d] \subseteq N
  BY <1>9 DEF Y
<1> QED
  BY <1>5, <1>10

(* What a parse that succeeded has made.                                   *)
LEMMA ParsedTree ==
  ASSUME IInv, VInv, phase = "parsed"
  PROVE  /\ machine.at = Len(tokens) /\ Len(machine.vals) = 1
         /\ TreeDepth \in Nat /\ IsNode(tokens, Tree)
<1>1. /\ Typed(tokens, machine) /\ Bottom(tokens, machine) /\ machine.todo = <<>>
      /\ machine.at \in DOMAIN tokens
  BY DEF VInv, InOrder
<1>2. machine.at = Len(tokens)
  BY <1>1 DEF Bottom, IInv, EndsInEof
<1>3. PICK base \in Shapes, h \in Shapes :
         Framed(<<>>, base, h) /\ Matches(tokens, machine.vals, base \o h)
  BY <1>1 DEF Typed
<1>4. base = <<>> /\ h = <<"list">>
  <2>1. PICK B, H : /\ B[1] = base /\ H[1] = h
                    /\ B[Len(<<>>) + 1] = <<>> /\ H[Len(<<>>) + 1] = <<"list">>
    BY <1>3 DEF Framed
  <2>2. Len(<<>>) + 1 = 1
    OBVIOUS
  <2> QED
    BY <2>1, <2>2
<1>5. base \o h = <<"list">>
  <2>1. <<>> \o <<"list">> = <<"list">>
    OBVIOUS
  <2> QED
    BY <1>4, <2>1
<1>6. Matches(tokens, machine.vals, <<"list">>)
  BY <1>3, <1>5
<1>7. Len(machine.vals) = 1 /\ Holds(tokens, machine.vals[1], "list")
  <2>1. Len(<<"list">>) = 1 /\ <<"list">>[1] = "list"
    OBVIOUS
  <2> QED
    BY <1>6, <2>1 DEF Matches
<1>8. IsNode(tokens, Tree)
  BY <1>7 DEF Holds, Children, Tree
<1>9. TreeDepth \in Nat
  <2>1. PICK S : tokens \in Seq(S)
    BY DEF IInv
  <2> QED
    BY <2>1 DEF TreeDepth
<1> QED
  BY <1>2, <1>7, <1>8, <1>9

(* The nodes of the tree are sound, and nothing is below a copy but what   *)
(* may be copied.                                                          *)
LEMMA TreeNodes ==
  ASSUME IInv, VInv, phase = "parsed", NEW n \in NodesOf(Tree)
  PROVE  /\ Local(tokens, n)
         /\ n.c[1].copy /\ 1 \in DOMAIN n.c => \A m \in NodesOf(n.c[1]) : m.copy
              /\ Local(tokens, m)
<1>1. TreeDepth \in Nat /\ IsNode(tokens, Tree)
  BY ParsedTree
<1>2. PICK N : Tree \in N /\ Sound(tokens, N)
  BY <1>1 DEF IsNode
<1>3. \A m \in N : Local(tokens, m) /\ \A i \in DOMAIN m.c : m.c[i] \in N
  BY <1>2 DEF Sound
<1>4. n \in N
  <2>1. NodesOf(Tree) \subseteq N
    BY <1>1, <1>2, <1>3, NodesInside
  <2> QED
    BY <2>1
<1>5. ASSUME n.c[1].copy, 1 \in DOMAIN n.c, NEW m \in NodesOf(n.c[1])
      PROVE  m.copy /\ Local(tokens, m)
  <2> DEFINE M == {x \in N : x.copy}
  <2>1. n.c[1] \in M
    BY <1>3, <1>4, <1>5
  <2>2. ASSUME NEW x \in M, NEW i \in DOMAIN x.c PROVE x.c[i] \in M
    BY <1>3 DEF Local
  <2> HIDE DEF M
  <2>3. NodesOf(n.c[1]) \subseteq M
    BY <1>1, <2>1, <2>2, NodesInside
  <2> QED
    BY <1>3, <1>5, <2>3 DEF M
<1> QED
  BY <1>3, <1>4, <1>5

\* both invariants hold always
LEMMA Parsing == Spec => [](IInv /\ VInv)
<1>1. Init => IInv /\ VInv
  BY InitIInv, InitVInv
<1>2. (IInv /\ VInv) /\ [Next]_vars => (IInv /\ VInv)'
  BY NextIInv, NextVInv
<1> QED
  BY <1>1, <1>2, PTL DEF Spec

(* EverythingIsRead for every text: parse() has read every token when it   *)
(* returns, and the program is the only value it holds.                    *)
THEOREM ParsesReadEverything == Spec => []EverythingIsRead
<1>1. IInv /\ VInv => EverythingIsRead
  BY ParsedTree DEF EverythingIsRead
<1> QED
  BY <1>1, Parsing, PTL

(* RepeatedTargetIsPure for every text: what parse_assignment repeats in a *)
(* compound assignment is its target, and does nothing.                    *)
THEOREM RepeatedTargetsArePure == Spec => []RepeatedTargetIsPure
<1>1. IInv /\ VInv => RepeatedTargetIsPure
  <2> SUFFICES ASSUME IInv, VInv, phase = "parsed", NEW n \in NodesOf(Tree), Compound(n)
               PROVE  /\ n.c[2].c[1] = n.c[1]
                      /\ \A m \in NodesOf(n.c[1]) :
                           m.k \notin {"call", "assign", "lambda", "struct_literal"}
    BY DEF RepeatedTargetIsPure
  <2>1. 1 \in DOMAIN n.c /\ n.c[2].c[1] = n.c[1] /\ n.c[1].copy
    BY TreeNodes DEF Local, Compound
  <2>2. \A m \in NodesOf(n.c[1]) : m.copy /\ Local(tokens, m)
    BY <2>1, TreeNodes
  <2> QED
    BY <2>1, <2>2 DEF Local
<1> QED
  BY <1>1, Parsing, PTL

(* NullTypesStayLocal for every text: the null type that parse_type        *)
(* answers an error with never stands where a declared type does.          *)
THEOREM NullTypesAreLocal == Spec => []NullTypesStayLocal
<1>1. IInv /\ VInv => NullTypesStayLocal
  BY TreeNodes DEF NullTypesStayLocal, Local
<1> QED
  BY <1>1, Parsing, PTL
=============================================================================
