--------------------------- MODULE GrammarProofs ----------------------------
(***************************************************************************)
(* What the parse functions of parser_c leave behind: every rule takes the *)
(* locals it is called with to the same locals and one more, a node or a   *)
(* list, on every path through its body.                                   *)
(*                                                                         *)
(* A stack of values is described by its shape, which says of each value   *)
(* whether it is a token, a node, a node or null, or a list.  An item of a *)
(* rule takes shapes to shapes (Flat; Fits where it branches or repeats),  *)
(* a sequence of items runs from one shape to another, and each rule has a *)
(* lemma that follows its body, assuming of the rules it calls what is     *)
(* proved of all: the recursion of the grammar needs no induction here.    *)
(***************************************************************************)
EXTENDS Grammar, SequenceFacts

-----------------------------------------------------------------------------
(* What a rule does to the values.                                         *)

\* what is known of a value: a token, one that assigns, a node, a node or null, a list whose
\* members are nodes, a list whose members may be null
Forms  == {"token", "assigner", "node", "maybe", "list", "holes"}
Shapes == Seq(Forms)
p ** f == Append(p, f)
Children == {"node", "maybe", "list", "holes"}
Solid  == {"node", "list", "holes"}

Assigners == {"=", "+=", "-=", "*=", "/=", "%="}
VariadicType == Named("array", "", <<Nothing, VoidType>>)
EmptyList == Named("list", "", <<>>)

\* the rules that make a node, and those that make a list
NodeRules ==
    {"declaration", "import_decl", "cimport_decl", "shard_decl", "extern_decl",
     "fn_decl", "extern_fn_decl", "struct_decl", "extern_struct_decl", "enum_decl",
     "extern_enum_decl", "var_decl", "extern_var_decl", "const_decl", "let_decl", "lambda",
     "param", "field", "enum_value", "type_annotation", "type", "pointer_type", "array_type",
     "function_type", "tuple_type", "statement", "block", "if_stmt", "while_stmt", "for_stmt",
     "match_stmt", "return_stmt", "break_stmt", "continue_stmt", "defer_stmt",
     "expression_stmt", "expression", "assignment", "cast", "logical_or", "logical_and",
     "equality", "comparison", "bitwise_or", "bitwise_xor", "bitwise_and", "shift", "additive",
     "multiplicative", "unary", "postfix", "primary", "array_literal", "struct_literal"}
ListNames == {"program", "param_list", "field_list", "enum_value_list", "argument_list"}

\* the children that a node of a kind must have
Needs(k, f) ==
    /\ k \notin {"token", "nothing", "assign"}
    /\ k \in Literals \cup {"id"} => Len(f) = 0
    /\ k \in {"param", "field", "pointer", "map", "tuple", "var", "extern var", "const", "enum",
              "type_param"} => Len(f) >= 1 /\ f[1] \in Solid
    /\ k \in {"fn", "lambda", "array", "map"} => Len(f) >= 2 /\ f[2] \in Solid
    /\ k = "tuple" => f[1] = "list"

\* the values a node is built from: its children f and one token among them
Parts(k, u) ==
    \E i \in 1..Len(u), f \in Seq(Children) :
        /\ u[i] = "token"
        /\ Len(f) = Len(u) - 1
        /\ \A j \in 1..Len(f) : f[j] = IF j < i THEN u[j] ELSE u[j + 1]
        /\ Needs(k, f)

\* an item that does not branch, before values of shape a and after it b
Flat(x, a, b) ==
    \/ x.op \in {"expect", "advance"} /\ b = a
    \/ x.op = "guard" /\ b = a /\ (x.what = "as body" => \E p \in Shapes : a = p ** "node")
    \/ x.op = "keep" /\ b = a ** "token"
    \/ x.op = "keep" /\ x.kinds \subseteq Assigners /\ b = a ** "assigner"
    \/ x.op = "call" /\ x.rule \in NodeRules /\ b \in {a ** "node", a ** "maybe"}
    \/ x.op = "call" /\ x.rule \in ListNames /\ b = a ** "list"
    \/ x.op = "try" /\ b = a ** "maybe"
    \/ /\ x.op = "build"
       /\ \E p, u \in Shapes : /\ a = p \o u /\ Len(u) = x.n /\ Parts(x.k, u)
                               /\ b \in {p ** "node", p ** "maybe"}
    \/ x.op = "put" /\ x.node = Nothing /\ b = a ** "maybe"
    \/ x.op = "put" /\ x.node \in {VoidType, VariadicType} /\ b \in {a ** "node", a ** "maybe"}
    \/ x.op = "put" /\ x.node = EmptyList /\ b \in {a ** "list", a ** "holes"}
    \/ x.op = "add" /\ \E p \in Shapes : a = p ** "list" ** "node" /\ b = p ** "list"
    \/ x.op = "add" /\ \E p \in Shapes : a = p ** "holes" ** "maybe" /\ b = p ** "holes"
    \/ /\ x.op = "assign"
       /\ \E p \in Shapes : /\ a = p ** "node" ** "assigner" ** "node"
                            /\ b = p ** "node"
    \/ x.op = "throw"

Loops  == {"while", "until"}
Choice == {"switch", "lookahead", "wild"}

Branches(x) ==
    CASE x.op \in Loops  -> {x.do}
      [] x.op = "switch" -> {x.on[k] : k \in DOMAIN x.on} \cup {x.other}
      [] OTHER           -> {x.yes, x.no}

IsSequence(s) == \E S : s \in Seq(S)

(* A sequence of items takes the values from shape a to shape b.  Items    *)
(* contain sequences of items, and what the ones do depends on what the    *)
(* others do.  A set of claims <<s, a, b>> is closed if each follows from  *)
(* claims of the set about the sequences inside the items of s; what some  *)
(* closed set claims is so.                                                *)
FitsIn(W, x, a, b) ==
    /\ a \in Shapes /\ b \in Shapes
    /\ \/ Flat(x, a, b)
       \/ /\ x.op \in Loops \cup Choice
          /\ x.op \in Loops => a = b
          /\ \A c \in Branches(x) : <<c, a, b>> \in W

Steps(W, s, a, b) ==
    /\ IsSequence(s)
    /\ \E h \in [1..(Len(s) + 1) -> Shapes] :
          /\ h[1] = a /\ h[Len(s) + 1] = b
          /\ \A i \in 1..Len(s) : FitsIn(W, s[i], h[i], h[i + 1])

Closed(W) == \A w \in W : Steps(W, w[1], w[2], w[3])

Runs(s, a, b) == \E W : Closed(W) /\ <<s, a, b>> \in W

Fits(x, a, b) ==
    /\ a \in Shapes /\ b \in Shapes
    /\ \/ Flat(x, a, b)
       \/ /\ x.op \in Loops \cup Choice
          /\ x.op \in Loops => a = b
          /\ \A c \in Branches(x) : Runs(c, a, b)

LEMMA MoreClaims ==
  ASSUME NEW V, NEW W, V \subseteq W, NEW s, NEW a, NEW b, Steps(V, s, a, b)
  PROVE  Steps(W, s, a, b)
BY DEF Steps, FitsIn

(* What a sequence that runs does item by item.                            *)
LEMMA RunsItems ==
  ASSUME NEW s, NEW a, NEW b, Runs(s, a, b)
  PROVE  /\ IsSequence(s)
         /\ \E h \in [1..(Len(s) + 1) -> Shapes] :
               /\ h[1] = a /\ h[Len(s) + 1] = b
               /\ \A i \in 1..Len(s) : Fits(s[i], h[i], h[i + 1])
<1>1. PICK W : Closed(W) /\ <<s, a, b>> \in W
  BY DEF Runs
<1>2. Steps(W, s, a, b)
  BY <1>1 DEF Closed
<1>3. \A x, c, d : FitsIn(W, x, c, d) => Fits(x, c, d)
  BY <1>1 DEF FitsIn, Fits, Runs
<1> QED
  BY <1>2, <1>3 DEF Steps

(* Conversely, what the items do, their branches included, the sequence    *)
(* does: the claims behind the branches and the new one are closed.        *)
LEMMA ItemsRun ==
  ASSUME NEW s, IsSequence(s), NEW h \in [1..(Len(s) + 1) -> Shapes],
         \A i \in 1..Len(s) : Fits(s[i], h[i], h[i + 1])
  PROVE  Runs(s, h[1], h[Len(s) + 1])
<1> DEFINE claim == <<s, h[1], h[Len(s) + 1]>>
           Behind(c, a, b) == CHOOSE W : Closed(W) /\ <<c, a, b>> \in W
           branching == {i \in 1..Len(s) : \A c \in Branches(s[i]) : Runs(c, h[i], h[i + 1])}
           V == UNION {UNION {Behind(c, h[i], h[i + 1]) : c \in Branches(s[i])} : i \in branching}
           W == V \cup {claim}
<1>1. ASSUME NEW c, NEW a, NEW b, Runs(c, a, b)
      PROVE  Closed(Behind(c, a, b)) /\ <<c, a, b>> \in Behind(c, a, b)
  BY <1>1 DEF Runs
<1>2. ASSUME NEW i \in branching, NEW c \in Branches(s[i])
      PROVE  /\ Closed(Behind(c, h[i], h[i + 1]))
             /\ <<c, h[i], h[i + 1]>> \in Behind(c, h[i], h[i + 1])
             /\ Behind(c, h[i], h[i + 1]) \subseteq V
  <2>1. Runs(c, h[i], h[i + 1])
    OBVIOUS
  <2>2. Closed(Behind(c, h[i], h[i + 1])) /\ <<c, h[i], h[i + 1]>> \in Behind(c, h[i], h[i + 1])
    BY <1>1, <2>1
  <2>3. Behind(c, h[i], h[i + 1]) \subseteq V
    <3> HIDE DEF Behind, branching
    <3> QED
      OBVIOUS
  <2> HIDE DEF Behind, V
  <2> QED
    BY <2>2, <2>3
<1>3. ASSUME NEW w \in V PROVE Steps(W, w[1], w[2], w[3])
  <2>0. \E i \in branching : \E c \in Branches(s[i]) : w \in Behind(c, h[i], h[i + 1])
    <3> HIDE DEF Behind, branching
    <3> QED
      BY <1>3
  <2>1. PICK i \in branching : \E c \in Branches(s[i]) : w \in Behind(c, h[i], h[i + 1])
    BY <2>0
  <2>4. PICK c \in Branches(s[i]) : w \in Behind(c, h[i], h[i + 1])
    BY <2>1
  <2> DEFINE B == Behind(c, h[i], h[i + 1])
  <2>2. Closed(B) /\ B \subseteq V
    BY <1>2
  <2>3. w \in B /\ B \subseteq W
    BY <2>4, <2>2
  <2> HIDE DEF B, V, W
  <2>5. Steps(B, w[1], w[2], w[3])
    BY <2>2, <2>3 DEF Closed
  <2> QED
    BY <2>3, <2>5, MoreClaims
<1>4. Steps(W, s, h[1], h[Len(s) + 1])
  <2>1. ASSUME NEW i \in 1..Len(s) PROVE FitsIn(W, s[i], h[i], h[i + 1])
    <3>1. CASE Flat(s[i], h[i], h[i + 1])
      BY <3>1 DEF FitsIn
    <3>2. CASE ~Flat(s[i], h[i], h[i + 1])
      <4>1. /\ s[i].op \in Loops \cup Choice
            /\ s[i].op \in Loops => h[i] = h[i + 1]
            /\ \A c \in Branches(s[i]) : Runs(c, h[i], h[i + 1])
        BY <2>1, <3>2 DEF Fits
      <4>2. i \in branching
        BY <4>1
      <4>3. \A c \in Branches(s[i]) : <<c, h[i], h[i + 1]>> \in V
        <5> HIDE DEF branching, Behind, V
        <5> QED
          BY <1>2, <4>2
      <4> HIDE DEF branching, V
      <4> QED
        BY <4>1, <4>3 DEF FitsIn
    <3> QED
      BY <3>1, <3>2
  <2> HIDE DEF V, W, claim
  <2> QED
    BY <2>1 DEF Steps
<1>5. Closed(W)
  <2> SUFFICES ASSUME NEW w \in W PROVE Steps(W, w[1], w[2], w[3])
    BY DEF Closed
  <2>1. CASE w = claim
    <3>1. w[1] = s /\ w[2] = h[1] /\ w[3] = h[Len(s) + 1]
      BY <2>1
    <3> HIDE DEF W, claim
    <3> QED
      BY <1>4, <3>1
  <2>2. CASE w \in V
    BY <1>3, <2>2
  <2> QED
    BY <2>1, <2>2
<1> QED
  <2>1. claim \in W
    OBVIOUS
  <2> HIDE DEF W
  <2> QED
    BY <1>5, <2>1 DEF Runs

-----------------------------------------------------------------------------
(* Sequences of items.                                                     *)

LEMMA Runs0 == ASSUME NEW a \in Shapes PROVE Runs(<<>>, a, a)
<1>1. IsSequence(<<>>) /\ Len(<<>>) = 0
  BY DEF IsSequence
<1> DEFINE h == [i \in 1..1 |-> a]
<1>2. h \in [1..(Len(<<>>) + 1) -> Shapes] /\ h[1] = a
  BY <1>1
<1> HIDE DEF h
<1>5. \A i \in 1..Len(<<>>) : Fits(<<>>[i], h[i], h[i + 1])
  BY <1>1
<1>3. Runs(<<>>, h[1], h[Len(<<>>) + 1])
  BY <1>1, <1>2, <1>5, ItemsRun
<1>4. h[Len(<<>>) + 1] = a
  BY <1>1, <1>2
<1> QED
  BY <1>2, <1>3, <1>4

LEMMA Runs1 ==
  ASSUME NEW x, NEW a, NEW b, Fits(x, a, b)
  PROVE  Runs(<<x>>, a, b)
<1> DEFINE s == <<x>>
           h == <<a, b>>
<1>0. a \in Shapes /\ b \in Shapes
  BY DEF Fits
<1>1. s \in Seq({x}) /\ Len(s) = 1 /\ s[1] = x
  OBVIOUS
<1>2. h \in [1..(Len(s) + 1) -> Shapes] /\ h[1] = a /\ h[2] = b
  BY <1>0, <1>1
<1> HIDE DEF s, h
<1>3. \A i \in 1..Len(s) : Fits(s[i], h[i], h[i + 1])
  BY <1>1, <1>2
<1>4. IsSequence(s)
  BY <1>1 DEF IsSequence
<1>5. Runs(s, h[1], h[Len(s) + 1])
  BY <1>2, <1>3, <1>4, ItemsRun
<1> QED
  BY <1>1, <1>2, <1>5 DEF s

(* One sequence after another.                                             *)
LEMMA RunsConcat ==
  ASSUME NEW s, NEW t, NEW a, NEW b, NEW c, Runs(s, a, b), Runs(t, b, c)
  PROVE  Runs(s \o t, a, c)
<1>1. PICK h \in [1..(Len(s) + 1) -> Shapes] :
         /\ h[1] = a /\ h[Len(s) + 1] = b
         /\ \A i \in 1..Len(s) : Fits(s[i], h[i], h[i + 1])
  BY RunsItems
<1>2. PICK g \in [1..(Len(t) + 1) -> Shapes] :
         /\ g[1] = b /\ g[Len(t) + 1] = c
         /\ \A i \in 1..Len(t) : Fits(t[i], g[i], g[i + 1])
  BY RunsItems
<1>3. PICK S : s \in Seq(S)
  BY RunsItems DEF IsSequence
<1>4. PICK T : t \in Seq(T)
  BY RunsItems DEF IsSequence
<1> DEFINE u == s \o t
           f == [i \in 1..(Len(s) + Len(t) + 1) |-> IF i <= Len(s) THEN h[i] ELSE g[i - Len(s)]]
<1>5. /\ s \in Seq(S \cup T) /\ t \in Seq(S \cup T) /\ u \in Seq(S \cup T)
      /\ Len(u) = Len(s) + Len(t) /\ Len(s) \in Nat /\ Len(t) \in Nat
      /\ \A i \in 1..Len(s) : u[i] = s[i]
      /\ \A i \in 1..Len(t) : u[Len(s) + i] = t[i]
  BY <1>3, <1>4
<1>6. /\ f \in [1..(Len(u) + 1) -> Shapes]
      /\ \A i \in 1..(Len(s) + 1) : f[i] = h[i]
      /\ \A i \in 1..(Len(t) + 1) : f[Len(s) + i] = g[i]
  <2>1. ASSUME NEW i \in 1..(Len(s) + Len(t) + 1) PROVE f[i] \in Shapes
    <3>1. CASE i <= Len(s)
      <4>1. i \in 1..(Len(s) + 1) /\ f[i] = h[i]
        BY <1>5, <3>1
      <4> HIDE DEF f
      <4> QED
        BY <4>1
    <3>2. CASE ~(i <= Len(s))
      <4>1. i - Len(s) \in 1..(Len(t) + 1) /\ f[i] = g[i - Len(s)]
        BY <1>5, <3>2
      <4> HIDE DEF f
      <4> QED
        BY <4>1
    <3> QED
      BY <3>1, <3>2
  <2>2. ASSUME NEW i \in 1..(Len(s) + 1) PROVE f[i] = h[i]
    <3>1. CASE i <= Len(s)
      BY <1>5, <3>1
    <3>2. CASE ~(i <= Len(s))
      <4>1. i = Len(s) + 1 /\ i - Len(s) = 1
        BY <1>5, <3>2
      <4>2. f[i] = g[1]
        BY <1>5, <3>2, <4>1
      <4> HIDE DEF f
      <4> QED
        BY <1>1, <1>2, <4>1, <4>2
    <3> QED
      BY <3>1, <3>2
  <2>3. ASSUME NEW i \in 1..(Len(t) + 1) PROVE f[Len(s) + i] = g[i]
    <3>1. /\ Len(s) + i \in 1..(Len(s) + Len(t) + 1)
          /\ ~(Len(s) + i <= Len(s))
          /\ (Len(s) + i) - Len(s) = i
      BY <1>5
    <3> QED
      BY <3>1
  <2>4. f \in [1..(Len(s) + Len(t) + 1) -> Shapes]
    BY <2>1
  <2> HIDE DEF f
  <2> QED
    BY <1>5, <2>2, <2>3, <2>4
<1>7. \A i \in 1..Len(u) : Fits(u[i], f[i], f[i + 1])
  <2> SUFFICES ASSUME NEW i \in 1..Len(u) PROVE Fits(u[i], f[i], f[i + 1])
    OBVIOUS
  <2> HIDE DEF u, f
  <2>1. CASE i \in 1..Len(s)
    <3>0. i \in 1..(Len(s) + 1) /\ i + 1 \in 1..(Len(s) + 1)
      BY <1>5, <2>1
    <3>1. f[i] = h[i] /\ f[i + 1] = h[i + 1] /\ u[i] = s[i]
      BY <1>5, <1>6, <2>1, <3>0
    <3> QED
      BY <1>1, <2>1, <3>1
  <2>2. CASE i \notin 1..Len(s)
    <3>1. PICK j \in 1..Len(t) : i = Len(s) + j
      <4>1. i - Len(s) \in 1..Len(t) /\ i = Len(s) + (i - Len(s))
        BY <1>5, <2>2
      <4> QED
        BY <4>1
    <3>2. f[i] = g[j] /\ f[i + 1] = g[j + 1] /\ u[i] = t[j]
      <4>1. i + 1 = Len(s) + (j + 1) /\ j \in 1..(Len(t) + 1) /\ j + 1 \in 1..(Len(t) + 1)
        BY <1>5, <3>1
      <4> QED
        BY <1>5, <1>6, <3>1, <4>1
    <3> QED
      BY <1>2, <3>2
  <2> QED
    BY <2>1, <2>2
<1>8. f[1] = a /\ f[Len(u) + 1] = c
  <2> HIDE DEF f, u
  <2>1. 1 \in 1..(Len(s) + 1) /\ Len(t) + 1 \in 1..(Len(t) + 1)
        /\ Len(u) + 1 = Len(s) + (Len(t) + 1)
    BY <1>5
  <2> QED
    BY <1>1, <1>2, <1>6, <2>1
<1>9. IsSequence(u)
  BY <1>5 DEF IsSequence
<1> HIDE DEF f, u
<1>10. Runs(u, f[1], f[Len(u) + 1])
  BY <1>6, <1>7, <1>9, ItemsRun
<1> QED
  BY <1>8, <1>10 DEF u

LEMMA Runs2 ==
  ASSUME NEW x1, NEW x2, NEW a0, NEW a1, NEW a2, Fits(x1, a0, a1), Fits(x2, a1, a2)
  PROVE  Runs(<<x1, x2>>, a0, a2)
<1>1. <<x1, x2>> = <<x1>> \o <<x2>>
  <2>1. PICK S : x1 \in S /\ x2 \in S
    <3>1. x1 \in {x1, x2} /\ x2 \in {x1, x2}
      OBVIOUS
    <3> QED
      BY <3>1, Zenon
  <2>2. PICK s \in Seq(S) : s = <<x1>> /\ Len(s) = 1 /\ s[1] = x1
    <3>1. <<x1>> \in Seq(S) /\ Len(<<x1>>) = 1 /\ <<x1>>[1] = x1
      BY <2>1
    <3> QED
      BY <3>1, Zenon
  <2>3. PICK t \in Seq(S) : t = Append(s, x2)
    <3>1. Append(s, x2) \in Seq(S)
      BY <2>1
    <3> QED
      BY <3>1, Zenon
  <2>4. /\ t = s \o <<x2>> /\ Len(t) = Len(s) + 1
        /\ t[Len(s) + 1] = x2 /\ \A i \in 1..Len(s) : t[i] = s[i]
    BY <2>1, <2>3
  <2>5. Len(t) = 2 /\ t[1] = x1 /\ t[2] = x2
    BY <2>2, <2>4
  <2>6. t = <<x1, x2>>
    BY <2>5
  <2> QED
    BY <2>2, <2>4, <2>6
<1>2. Runs(<<x1>>, a0, a1) /\ Runs(<<x2>>, a1, a2)
  BY Runs1
<1> QED
  BY <1>1, <1>2, RunsConcat, Zenon

LEMMA Runs3 ==
  ASSUME NEW x1, NEW x2, NEW x3, NEW a0, NEW a1, NEW a2, NEW a3, Fits(x1, a0, a1), Fits(x2, a1,
         a2), Fits(x3, a2, a3)
  PROVE  Runs(<<x1, x2, x3>>, a0, a3)
<1>1. <<x1, x2, x3>> = <<x1, x2>> \o <<x3>>
  OBVIOUS
<1>2. Runs(<<x1, x2>>, a0, a2) /\ Runs(<<x3>>, a2, a3)
  BY Runs2, Runs1
<1> QED
  BY <1>1, <1>2, RunsConcat, Zenon

LEMMA Runs4 ==
  ASSUME NEW x1, NEW x2, NEW x3, NEW x4, NEW a0, NEW a1, NEW a2, NEW a3, NEW a4, Fits(x1, a0,
         a1), Fits(x2, a1, a2), Fits(x3, a2, a3), Fits(x4, a3, a4)
  PROVE  Runs(<<x1, x2, x3, x4>>, a0, a4)
<1>1. <<x1, x2, x3, x4>> = <<x1, x2, x3>> \o <<x4>>
  OBVIOUS
<1>2. Runs(<<x1, x2, x3>>, a0, a3) /\ Runs(<<x4>>, a3, a4)
  BY Runs3, Runs1
<1> QED
  BY <1>1, <1>2, RunsConcat, Zenon

LEMMA Runs5 ==
  ASSUME NEW x1, NEW x2, NEW x3, NEW x4, NEW x5, NEW a0, NEW a1, NEW a2, NEW a3, NEW a4, NEW a5,
         Fits(x1, a0, a1), Fits(x2, a1, a2), Fits(x3, a2, a3), Fits(x4, a3, a4),
         Fits(x5, a4, a5)
  PROVE  Runs(<<x1, x2, x3, x4, x5>>, a0, a5)
<1>1. <<x1, x2, x3, x4, x5>> = <<x1, x2, x3, x4>> \o <<x5>>
  OBVIOUS
<1>2. Runs(<<x1, x2, x3, x4>>, a0, a4) /\ Runs(<<x5>>, a4, a5)
  BY Runs4, Runs1
<1> QED
  BY <1>1, <1>2, RunsConcat, Zenon

LEMMA Runs6 ==
  ASSUME NEW x1, NEW x2, NEW x3, NEW x4, NEW x5, NEW x6, NEW a0, NEW a1, NEW a2, NEW a3, NEW a4,
         NEW a5, NEW a6, Fits(x1, a0, a1), Fits(x2, a1, a2), Fits(x3, a2, a3), Fits(x4,
         a3, a4), Fits(x5, a4, a5), Fits(x6, a5, a6)
  PROVE  Runs(<<x1, x2, x3, x4, x5, x6>>, a0, a6)
<1>1. <<x1, x2, x3, x4, x5, x6>> = <<x1, x2, x3, x4, x5>> \o <<x6>>
  OBVIOUS
<1>2. Runs(<<x1, x2, x3, x4, x5>>, a0, a5) /\ Runs(<<x6>>, a5, a6)
  BY Runs5, Runs1
<1> QED
  BY <1>1, <1>2, RunsConcat, Zenon

LEMMA Runs7 ==
  ASSUME NEW x1, NEW x2, NEW x3, NEW x4, NEW x5, NEW x6, NEW x7, NEW a0, NEW a1, NEW a2, NEW a3,
         NEW a4, NEW a5, NEW a6, NEW a7, Fits(x1, a0, a1), Fits(x2, a1, a2), Fits(x3,
         a2, a3), Fits(x4, a3, a4), Fits(x5, a4, a5), Fits(x6, a5, a6), Fits(x7, a6, a7)
  PROVE  Runs(<<x1, x2, x3, x4, x5, x6, x7>>, a0, a7)
<1>1. <<x1, x2, x3, x4, x5, x6, x7>> = <<x1, x2, x3, x4, x5, x6>> \o <<x7>>
  OBVIOUS
<1>2. Runs(<<x1, x2, x3, x4, x5, x6>>, a0, a6) /\ Runs(<<x7>>, a6, a7)
  BY Runs6, Runs1
<1> QED
  BY <1>1, <1>2, RunsConcat, Zenon

LEMMA Runs8 ==
  ASSUME NEW x1, NEW x2, NEW x3, NEW x4, NEW x5, NEW x6, NEW x7, NEW x8, NEW a0, NEW a1, NEW a2,
         NEW a3, NEW a4, NEW a5, NEW a6, NEW a7, NEW a8, Fits(x1, a0, a1), Fits(x2, a1,
         a2), Fits(x3, a2, a3), Fits(x4, a3, a4), Fits(x5, a4, a5), Fits(x6, a5, a6),
         Fits(x7, a6, a7), Fits(x8, a7, a8)
  PROVE  Runs(<<x1, x2, x3, x4, x5, x6, x7, x8>>, a0, a8)
<1>1. <<x1, x2, x3, x4, x5, x6, x7, x8>> = <<x1, x2, x3, x4, x5, x6, x7>> \o <<x8>>
  OBVIOUS
<1>2. Runs(<<x1, x2, x3, x4, x5, x6, x7>>, a0, a7) /\ Runs(<<x8>>, a7, a8)
  BY Runs7, Runs1
<1> QED
  BY <1>1, <1>2, RunsConcat, Zenon

-----------------------------------------------------------------------------
(* Single items.                                                           *)

LEMMA Longer ==
  ASSUME NEW p \in Shapes
  PROVE  /\ p ** "token" \in Shapes /\ p ** "assigner" \in Shapes /\ p ** "node" \in Shapes
         /\ p ** "maybe" \in Shapes /\ p ** "list" \in Shapes /\ p ** "holes" \in Shapes
BY DEF Shapes, Forms, **

\* what an item without branches does that uses no value
LEMMA ItemsFit ==
  ASSUME NEW p \in Shapes
  PROVE  /\ \A kind : Fits(Expect(kind), p, p)
         /\ Fits(Advance, p, p)
         /\ \A kinds : Fits(Keep(kinds), p, p ** "token")
         /\ Fits(Try, p, p ** "maybe")
         /\ \A q \in Shapes : Fits(Throw, p, q)
         /\ \A what : what # "as body" => Fits(Guard(what), p, p)
<1>1. ASSUME NEW kind PROVE Fits(Expect(kind), p, p)
  BY DEF Fits, Flat, Expect
<1>2. Fits(Advance, p, p)
  BY DEF Fits, Flat, Advance
<1>3. ASSUME NEW kinds PROVE Fits(Keep(kinds), p, p ** "token")
  BY Longer DEF Fits, Flat, Keep
<1>4. Fits(Try, p, p ** "maybe")
  BY Longer DEF Fits, Flat, Try
<1>5. ASSUME NEW q \in Shapes PROVE Fits(Throw, p, q)
  BY DEF Fits, Flat, Throw
<1>6. ASSUME NEW what, what # "as body" PROVE Fits(Guard(what), p, p)
  BY <1>6 DEF Fits, Flat, Guard
<1> QED
  BY <1>1, <1>2, <1>3, <1>4, <1>5, <1>6

LEMMA CallFits ==
  ASSUME NEW p \in Shapes
  PROVE  /\ \A r \in NodeRules : Fits(Call(r), p, p ** "node") /\ Fits(Call(r), p, p ** "maybe")
         /\ \A r \in ListNames : Fits(Call(r), p, p ** "list")
<1>1. ASSUME NEW r \in NodeRules
      PROVE  Fits(Call(r), p, p ** "node") /\ Fits(Call(r), p, p ** "maybe")
  BY Longer DEF Fits, Flat, Call
<1>2. ASSUME NEW r \in ListNames PROVE Fits(Call(r), p, p ** "list")
  BY Longer DEF Fits, Flat, Call
<1> QED
  BY <1>1, <1>2

LEMMA PutFits ==
  ASSUME NEW p \in Shapes
  PROVE  /\ Fits(Put(Nothing), p, p ** "maybe")
         /\ Fits(Put(VoidType), p, p ** "node") /\ Fits(Put(VoidType), p, p ** "maybe")
         /\ Fits(Put(VariadicType), p, p ** "node")
         /\ Fits(Open, p, p ** "list") /\ Fits(Open, p, p ** "holes")
<1>1. Fits(Put(Nothing), p, p ** "maybe")
  BY Longer DEF Fits, Flat, Put
<1>2. Fits(Put(VoidType), p, p ** "node") /\ Fits(Put(VoidType), p, p ** "maybe")
  BY Longer DEF Fits, Flat, Put
<1>3. Fits(Put(VariadicType), p, p ** "node")
  BY Longer DEF Fits, Flat, Put
<1>4. Fits(Open, p, p ** "list") /\ Fits(Open, p, p ** "holes")
  BY Longer DEF Fits, Flat, Put, Open, EmptyList
<1> QED
  BY <1>1, <1>2, <1>3, <1>4

LEMMA ListFits ==
  ASSUME NEW p \in Shapes
  PROVE  /\ Fits(Add, p ** "list" ** "node", p ** "list")
         /\ Fits(Add, p ** "holes" ** "maybe", p ** "holes")
         /\ Fits(Assign, p ** "node" ** "assigner" ** "node", p ** "node")
         /\ Fits(Guard("as body"), p ** "node", p ** "node")
         /\ \A kinds \in SUBSET Assigners : Fits(Keep(kinds), p, p ** "assigner")
<1>1. Fits(Add, p ** "list" ** "node", p ** "list")
  BY Longer DEF Fits, Flat, Add
<1>2. Fits(Add, p ** "holes" ** "maybe", p ** "holes")
  BY Longer DEF Fits, Flat, Add
<1>3. Fits(Assign, p ** "node" ** "assigner" ** "node", p ** "node")
  BY Longer DEF Fits, Flat, Assign
<1>4. Fits(Guard("as body"), p ** "node", p ** "node")
  BY Longer DEF Fits, Flat, Guard
<1>5. ASSUME NEW kinds \in SUBSET Assigners PROVE Fits(Keep(kinds), p, p ** "assigner")
  BY Longer DEF Fits, Flat, Keep
<1> QED
  BY <1>1, <1>2, <1>3, <1>4, <1>5

-----------------------------------------------------------------------------
(* Branches.                                                               *)

LEMMA RunsShapes ==
  ASSUME NEW s, NEW a, NEW b, Runs(s, a, b)
  PROVE  a \in Shapes /\ b \in Shapes
<1>1. PICK h \in [1..(Len(s) + 1) -> Shapes] : h[1] = a /\ h[Len(s) + 1] = b
  BY RunsItems
<1>2. PICK S : s \in Seq(S)
  BY RunsItems DEF IsSequence
<1>3. 1 \in 1..(Len(s) + 1) /\ Len(s) + 1 \in 1..(Len(s) + 1)
  BY <1>2
<1> QED
  BY <1>1, <1>3

\* every case of f takes shape a to b
AllRun(f, a, b) == \A k \in DOMAIN f : Runs(f[k], a, b)

LEMMA AllRunMerge ==
  ASSUME NEW f, NEW g, NEW a, NEW b, AllRun(f, a, b), AllRun(g, a, b)
  PROVE  AllRun(f ++ g, a, b)
<1> SUFFICES ASSUME NEW k \in DOMAIN (f ++ g) PROVE Runs((f ++ g)[k], a, b)
  BY DEF AllRun
<1>1. k \in DOMAIN f \cup DOMAIN g /\ (f ++ g)[k] = IF k \in DOMAIN f THEN f[k] ELSE g[k]
  BY DEF ++
<1> QED
  BY <1>1 DEF AllRun

LEMMA SwitchFits ==
  ASSUME NEW f, NEW other, NEW a, NEW b, AllRun(f, a, b), Runs(other, a, b)
  PROVE  Fits(Switch(f, other), a, b)
<1> DEFINE x == Switch(f, other)
<1>1. x.op = "switch" /\ x.on = f /\ x.other = other
  BY DEF Switch
<1> HIDE DEF x
<1>2. Branches(x) = {f[k] : k \in DOMAIN f} \cup {other}
  BY <1>1 DEF Branches, Loops
<1>3. \A c \in Branches(x) : Runs(c, a, b)
  BY <1>2 DEF AllRun
<1>4. x.op \in Loops \cup Choice /\ x.op \notin Loops
  BY <1>1 DEF Loops, Choice
<1>5. a \in Shapes /\ b \in Shapes
  BY RunsShapes
<1> QED
  BY <1>3, <1>4, <1>5 DEF Fits, x

LEMMA IfFits ==
  ASSUME NEW kinds, NEW yes, NEW no, NEW a, NEW b, Runs(yes, a, b), Runs(no, a, b)
  PROVE  Fits(If(kinds, yes, no), a, b)
<1>1. AllRun([k \in kinds |-> yes], a, b)
  BY DEF AllRun
<1> QED
  BY <1>1, SwitchFits DEF If

LEMMA LoopFits ==
  ASSUME NEW kinds, NEW do, NEW a, Runs(do, a, a)
  PROVE  Fits(While(kinds, do), a, a) /\ Fits(Until(kinds, do), a, a)
<1>1. a \in Shapes
  BY RunsShapes
<1>2. ASSUME NEW x, x.op \in {"while", "until"}, x.do = do
      PROVE  Fits(x, a, a)
  <2>1. Branches(x) = {do} /\ x.op \in Loops
    BY <1>2 DEF Branches, Loops
  <2> QED
    BY <1>1, <2>1 DEF Fits
<1>3. /\ While(kinds, do).op = "while" /\ While(kinds, do).do = do
      /\ Until(kinds, do).op = "until" /\ Until(kinds, do).do = do
  BY DEF While, Until
<1> QED
  BY <1>2, <1>3

LEMMA LookFits ==
  ASSUME NEW yes, NEW no, NEW a, NEW b, Runs(yes, a, b), Runs(no, a, b)
  PROVE  Fits(IfStruct(yes, no), a, b) /\ Fits(IfWild(yes, no), a, b)
<1>1. a \in Shapes /\ b \in Shapes
  BY RunsShapes
<1>2. ASSUME NEW x, x.op \in {"lookahead", "wild"}, x.yes = yes, x.no = no
      PROVE  Fits(x, a, b)
  <2>1. Branches(x) = {yes, no} /\ x.op \notin Loops /\ x.op \in Choice
    BY <1>2 DEF Branches, Loops, Choice
  <2> QED
    BY <1>1, <2>1 DEF Fits
<1>3. /\ IfStruct(yes, no).op = "lookahead" /\ IfStruct(yes, no).yes = yes
      /\ IfStruct(yes, no).no = no
      /\ IfWild(yes, no).op = "wild" /\ IfWild(yes, no).yes = yes /\ IfWild(yes, no).no = no
  BY DEF IfStruct, IfWild
<1> QED
  BY <1>2, <1>3

-----------------------------------------------------------------------------
(* Nodes built from the last values.                                       *)

LEMMA Pairs ==
  /\ \A a, b : Append(<<a>>, b) = <<a, b>>
  /\ \A a, b, c : Append(<<a, b>>, c) = <<a, b, c>>
  /\ \A a, b, c, d : Append(<<a, b, c>>, d) = <<a, b, c, d>>
  /\ \A a, b, c, d, e : Append(<<a, b, c, d>>, e) = <<a, b, c, d, e>>
<1>1. ASSUME NEW S, NEW s \in Seq(S), NEW x \in S
      PROVE  /\ Append(s, x) \in Seq(S) /\ Len(Append(s, x)) = Len(s) + 1
             /\ Append(s, x)[Len(s) + 1] = x
             /\ \A i \in 1..Len(s) : Append(s, x)[i] = s[i]
  OBVIOUS
<1>2. ASSUME NEW a, NEW b PROVE Append(<<a>>, b) = <<a, b>>
  <2>1. PICK S : a \in S /\ b \in S
    <3>1. a \in {a, b} /\ b \in {a, b}
      OBVIOUS
    <3> QED
      BY <3>1, Zenon
  <2>2. PICK s \in Seq(S) : s = <<a>> /\ Len(s) = 1 /\ s[1] = a
    <3>1. <<a>> \in Seq(S) /\ Len(<<a>>) = 1
      BY <2>1
    <3>2. <<a>>[1] = a
      OBVIOUS
    <3> QED
      BY <3>1, <3>2, Zenon
  <2>3. PICK t \in Seq(S) : t = Append(s, b)
    BY <1>1, <2>1, Zenon
  <2>4. Len(t) = 2 /\ t[1] = a /\ t[2] = b
    BY <1>1, <2>1, <2>2, <2>3
  <2>5. t = <<a, b>>
    BY <2>4
  <2> QED
    BY <2>2, <2>3, <2>5
<1>3. ASSUME NEW a, NEW b, NEW c PROVE Append(<<a, b>>, c) = <<a, b, c>>
  <2>1. PICK S : a \in S /\ b \in S /\ c \in S
    <3>1. a \in {a, b, c} /\ b \in {a, b, c} /\ c \in {a, b, c}
      OBVIOUS
    <3> QED
      BY <3>1, Zenon
  <2>2. PICK s \in Seq(S) : s = <<a, b>> /\ Len(s) = 2 /\ s[1] = a /\ s[2] = b
    <3>1. <<a, b>> \in Seq(S) /\ Len(<<a, b>>) = 2
      BY <2>1
    <3>2. <<a, b>>[1] = a /\ <<a, b>>[2] = b
      OBVIOUS
    <3> QED
      BY <3>1, <3>2, Zenon
  <2>3. PICK t \in Seq(S) : t = Append(s, c)
    BY <1>1, <2>1, Zenon
  <2>4. Len(t) = 3 /\ t[1] = a /\ t[2] = b /\ t[3] = c
    BY <1>1, <2>1, <2>2, <2>3
  <2>5. t = <<a, b, c>>
    BY <2>4
  <2> QED
    BY <2>2, <2>3, <2>5
<1>4. ASSUME NEW a, NEW b, NEW c, NEW d PROVE Append(<<a, b, c>>, d) = <<a, b, c, d>>
  <2>1. PICK S : a \in S /\ b \in S /\ c \in S /\ d \in S
    <3>1. a \in {a, b, c, d} /\ b \in {a, b, c, d} /\ c \in {a, b, c, d} /\ d \in {a, b, c, d}
      OBVIOUS
    <3> QED
      BY <3>1, Zenon
  <2>2. PICK s \in Seq(S) : s = <<a, b, c>> /\ Len(s) = 3 /\ s[1] = a /\ s[2] = b /\ s[3] = c
    <3>1. <<a, b, c>> \in Seq(S) /\ Len(<<a, b, c>>) = 3
      BY <2>1
    <3>2. <<a, b, c>>[1] = a /\ <<a, b, c>>[2] = b /\ <<a, b, c>>[3] = c
      OBVIOUS
    <3> QED
      BY <3>1, <3>2, Zenon
  <2>3. PICK t \in Seq(S) : t = Append(s, d)
    BY <1>1, <2>1, Zenon
  <2>4. Len(t) = 4 /\ t[1] = a /\ t[2] = b /\ t[3] = c /\ t[4] = d
    BY <1>1, <2>1, <2>2, <2>3
  <2>5. t = <<a, b, c, d>>
    BY <2>4
  <2> QED
    BY <2>2, <2>3, <2>5
<1>5. ASSUME NEW a, NEW b, NEW c, NEW d, NEW e PROVE Append(<<a, b, c, d>>, e) = <<a, b, c, d, e>>
  <2>1. PICK S : a \in S /\ b \in S /\ c \in S /\ d \in S /\ e \in S
    <3>1. a \in {a, b, c, d, e} /\ b \in {a, b, c, d, e} /\ c \in {a, b, c, d, e}
      /\ d \in {a, b, c, d, e} /\ e \in {a, b, c, d, e}
      OBVIOUS
    <3> QED
      BY <3>1, Zenon
  <2>2. PICK s \in Seq(S) : s = <<a, b, c, d>> /\ Len(s) = 4 /\ s[1] = a /\ s[2] = b /\ s[3] = c
    /\ s[4] = d
    <3>1. <<a, b, c, d>> \in Seq(S) /\ Len(<<a, b, c, d>>) = 4
      BY <2>1
    <3>2. <<a, b, c, d>>[1] = a /\ <<a, b, c, d>>[2] = b /\ <<a, b, c, d>>[3] = c
      /\ <<a, b, c, d>>[4] = d
      OBVIOUS
    <3> QED
      BY <3>1, <3>2, Zenon
  <2>3. PICK t \in Seq(S) : t = Append(s, e)
    BY <1>1, <2>1, Zenon
  <2>4. Len(t) = 5 /\ t[1] = a /\ t[2] = b /\ t[3] = c /\ t[4] = d /\ t[5] = e
    BY <1>1, <2>1, <2>2, <2>3
  <2>5. t = <<a, b, c, d, e>>
    BY <2>4
  <2> QED
    BY <2>2, <2>3, <2>5
<1> QED
  BY <1>2, <1>3, <1>4, <1>5

\* values on top of others
LEMMA OnTop ==
  ASSUME NEW p \in Shapes
  PROVE  /\ \A a \in Forms : p ** a = p \o <<a>>
         /\ \A a, b \in Forms : p ** a ** b = p \o <<a, b>>
         /\ \A a, b, c \in Forms : p ** a ** b ** c = p \o <<a, b, c>>
         /\ \A a, b, c, d \in Forms : p ** a ** b ** c ** d = p \o <<a, b, c, d>>
         /\ \A a, b, c, d, e \in Forms : p ** a ** b ** c ** d ** e = p \o <<a, b, c, d, e>>
<1>0. ASSUME NEW u \in Shapes, NEW f \in Forms PROVE (p \o u) ** f = p \o Append(u, f)
  BY DEF Shapes, **
<1>1. ASSUME NEW a \in Forms PROVE p ** a = p \o <<a>>
  BY DEF Shapes, **
<1>2. ASSUME NEW a \in Forms, NEW b \in Forms
      PROVE  p ** a ** b = p \o <<a, b>>
  <2>1. p ** a = p \o <<a>>
    BY <1>1
  <2>2. <<a>> \in Shapes
    BY DEF Shapes
  <2>3. (p \o <<a>>) ** b = p \o Append(<<a>>, b)
    BY <1>0, <2>2
  <2>4. Append(<<a>>, b) = <<a, b>>
    BY Pairs
  <2> QED
    BY <2>1, <2>3, <2>4
<1>3. ASSUME NEW a \in Forms, NEW b \in Forms, NEW c \in Forms
      PROVE  p ** a ** b ** c = p \o <<a, b, c>>
  <2>1. p ** a ** b = p \o <<a, b>>
    BY <1>2
  <2>2. <<a, b>> \in Shapes
    BY DEF Shapes
  <2>3. (p \o <<a, b>>) ** c = p \o Append(<<a, b>>, c)
    BY <1>0, <2>2
  <2>4. Append(<<a, b>>, c) = <<a, b, c>>
    BY Pairs
  <2> QED
    BY <2>1, <2>3, <2>4
<1>4. ASSUME NEW a \in Forms, NEW b \in Forms, NEW c \in Forms, NEW d \in Forms
      PROVE  p ** a ** b ** c ** d = p \o <<a, b, c, d>>
  <2>1. p ** a ** b ** c = p \o <<a, b, c>>
    BY <1>3
  <2>2. <<a, b, c>> \in Shapes
    BY DEF Shapes
  <2>3. (p \o <<a, b, c>>) ** d = p \o Append(<<a, b, c>>, d)
    BY <1>0, <2>2
  <2>4. Append(<<a, b, c>>, d) = <<a, b, c, d>>
    BY Pairs
  <2> QED
    BY <2>1, <2>3, <2>4
<1>5. ASSUME NEW a \in Forms, NEW b \in Forms, NEW c \in Forms, NEW d \in Forms, NEW e \in Forms
      PROVE  p ** a ** b ** c ** d ** e = p \o <<a, b, c, d, e>>
  <2>1. p ** a ** b ** c ** d = p \o <<a, b, c, d>>
    BY <1>4
  <2>2. <<a, b, c, d>> \in Shapes
    BY DEF Shapes
  <2>3. (p \o <<a, b, c, d>>) ** e = p \o Append(<<a, b, c, d>>, e)
    BY <1>0, <2>2
  <2>4. Append(<<a, b, c, d>>, e) = <<a, b, c, d, e>>
    BY Pairs
  <2> QED
    BY <2>1, <2>3, <2>4
<1> QED
  BY <1>1, <1>2, <1>3, <1>4, <1>5

LEMMA BuildFits ==
  ASSUME NEW p \in Shapes, NEW u \in Shapes, NEW n, Len(u) = n, NEW k, Parts(k, u)
  PROVE  Fits(Build(k, n), p \o u, p ** "node") /\ Fits(Build(k, n), p \o u, p ** "maybe")
<1>1. p \o u \in Shapes
  BY DEF Shapes
<1> QED
  BY <1>1, Longer DEF Fits, Flat, Build

\* a node of one token, and nodes of a token and one to four children
LEMMA BuildsFit ==
  ASSUME NEW p \in Shapes, NEW k
  PROVE  /\ Needs(k, <<>>) => /\ Fits(Build(k, 1), p ** "token", p ** "node")
                              /\ Fits(Build(k, 1), p ** "token", p ** "maybe")
         /\ \A a \in Children : Needs(k, <<a>>) =>
              /\ Fits(Build(k, 2), p ** "token" ** a, p ** "node")
              /\ Fits(Build(k, 2), p ** a ** "token", p ** "node")
              /\ Fits(Build(k, 2), p ** "token" ** a, p ** "maybe")
         /\ \A a, b \in Children : Needs(k, <<a, b>>) =>
              /\ Fits(Build(k, 3), p ** "token" ** a ** b, p ** "node")
              /\ Fits(Build(k, 3), p ** "token" ** a ** b, p ** "maybe")
              /\ Fits(Build(k, 3), p ** a ** "token" ** b, p ** "node")
         /\ \A a, b, c \in Children : Needs(k, <<a, b, c>>) =>
              Fits(Build(k, 4), p ** "token" ** a ** b ** c, p ** "node")
         /\ \A a, b, c, d \in Children : Needs(k, <<a, b, c, d>>) =>
              Fits(Build(k, 5), p ** "token" ** a ** b ** c ** d, p ** "node")
<1>0. Children \subseteq Forms /\ "token" \in Forms
  BY DEF Children, Forms
<1>1. ASSUME NEW u \in Shapes, NEW i \in 1..Len(u), NEW f \in Seq(Children), u[i] = "token",
             Len(f) = Len(u) - 1,
             \A j \in 1..Len(f) : f[j] = IF j < i THEN u[j] ELSE u[j + 1],
             Needs(k, f), NEW n, Len(u) = n
      PROVE  Fits(Build(k, n), p \o u, p ** "node") /\ Fits(Build(k, n), p \o u, p ** "maybe")
  <2>1. Parts(k, u)
    BY <1>1 DEF Parts
  <2> QED
    BY <1>1, <2>1, BuildFits
<1>2. ASSUME Needs(k, <<>>)
      PROVE  /\ Fits(Build(k, 1), p ** "token", p ** "node")
             /\ Fits(Build(k, 1), p ** "token", p ** "maybe")
  <2>1. /\ <<"token">> \in Shapes /\ Len(<<"token">>) = 1 /\ <<"token">>[1] = "token"
        /\ <<>> \in Seq(Children) /\ Len(<<>>) = 0
    BY <1>0 DEF Shapes
  <2>2. PICK u \in Shapes, f \in Seq(Children) :
          /\ u = <<"token">> /\ Len(u) = 1 /\ u[1] = "token" /\ f = <<>> /\ Len(f) = 0
    BY <2>1, Zenon
  <2>3. Fits(Build(k, 1), p \o u, p ** "node") /\ Fits(Build(k, 1), p \o u, p ** "maybe")
    <3>1. 1 \in 1..Len(u) /\ \A j \in 1..Len(f) : f[j] = IF j < 1 THEN u[j] ELSE u[j + 1]
      BY <2>2
    <3>2. Len(f) = Len(u) - 1 /\ Needs(k, f)
      BY <1>2, <2>2
    <3> QED
      BY <1>1, <2>2, <3>1, <3>2
  <2> QED
    BY <1>0, <2>2, <2>3, OnTop
<1>3. ASSUME NEW a \in Children, Needs(k, <<a>>)
      PROVE  /\ Fits(Build(k, 2), p ** "token" ** a, p ** "node")
             /\ Fits(Build(k, 2), p ** a ** "token", p ** "node")
             /\ Fits(Build(k, 2), p ** "token" ** a, p ** "maybe")
  <2>1. PICK f \in Seq(Children) : f = <<a>> /\ Len(f) = 1 /\ f[1] = a
    <3>1. <<a>> \in Seq(Children) /\ Len(<<a>>) = 1 /\ <<a>>[1] = a
      OBVIOUS
    <3> QED
      BY <3>1, Zenon
  <2>2. PICK u \in Shapes : u = <<"token", a>> /\ Len(u) = 2 /\ u[1] = "token" /\ u[2] = a
    <3>1. /\ <<"token", a>> \in Shapes /\ Len(<<"token", a>>) = 2
          /\ <<"token", a>>[1] = "token" /\ <<"token", a>>[2] = a
      BY <1>0 DEF Shapes
    <3> QED
      BY <3>1, Zenon
  <2>3. PICK v \in Shapes : v = <<a, "token">> /\ Len(v) = 2 /\ v[1] = a /\ v[2] = "token"
    <3>1. /\ <<a, "token">> \in Shapes /\ Len(<<a, "token">>) = 2
          /\ <<a, "token">>[1] = a /\ <<a, "token">>[2] = "token"
      BY <1>0 DEF Shapes
    <3> QED
      BY <3>1, Zenon
  <2>4. Fits(Build(k, 2), p \o u, p ** "node") /\ Fits(Build(k, 2), p \o u, p ** "maybe")
    <3>1. 1 \in 1..Len(u) /\ \A j \in 1..Len(f) : f[j] = IF j < 1 THEN u[j] ELSE u[j + 1]
      BY <2>1, <2>2
    <3>2. Len(f) = Len(u) - 1 /\ Needs(k, f)
      BY <1>3, <2>1, <2>2
    <3> QED
      BY <1>1, <2>2, <3>1, <3>2
  <2>5. Fits(Build(k, 2), p \o v, p ** "node")
    <3>1. 2 \in 1..Len(v) /\ \A j \in 1..Len(f) : f[j] = IF j < 2 THEN v[j] ELSE v[j + 1]
      BY <2>1, <2>3
    <3>2. Len(f) = Len(v) - 1 /\ Needs(k, f)
      BY <1>3, <2>1, <2>3
    <3> QED
      BY <1>1, <2>3, <3>1, <3>2
  <2>6. p \o u = p ** "token" ** a
    <3>1. "token" \in Forms /\ a \in Forms
      BY <1>0
    <3> QED
      BY <3>1, <2>2, OnTop
  <2>7. p \o v = p ** a ** "token"
    <3>1. a \in Forms /\ "token" \in Forms
      BY <1>0
    <3> QED
      BY <3>1, <2>3, OnTop
  <2> QED
    BY <2>4, <2>5, <2>6, <2>7
<1>4. ASSUME NEW a \in Children, NEW b \in Children, Needs(k, <<a, b>>)
      PROVE  /\ Fits(Build(k, 3), p ** "token" ** a ** b, p ** "node")
             /\ Fits(Build(k, 3), p ** "token" ** a ** b, p ** "maybe")
             /\ Fits(Build(k, 3), p ** a ** "token" ** b, p ** "node")
  <2>1. PICK f \in Seq(Children) : f = <<a, b>> /\ Len(f) = 2 /\ f[1] = a /\ f[2] = b
    <3>1. /\ <<a, b>> \in Seq(Children) /\ Len(<<a, b>>) = 2
          /\ <<a, b>>[1] = a /\ <<a, b>>[2] = b
      OBVIOUS
    <3> QED
      BY <3>1, Zenon
  <2>2. PICK u1 \in Shapes : u1 = <<"token", a, b>> /\ Len(u1) = 3 /\ u1[1] = "token"
    /\ u1[2] = a /\ u1[3] = b
    <3>1. <<"token", a, b>> \in Shapes /\ Len(<<"token", a, b>>) = 3
      BY <1>0 DEF Shapes
    <3>2. <<"token", a, b>>[1] = "token" /\ <<"token", a, b>>[2] = a /\ <<"token", a, b>>[3] = b
      OBVIOUS
    <3> QED
      BY <3>1, <3>2, Zenon
  <2>3. Fits(Build(k, 3), p \o u1, p ** "node") /\ Fits(Build(k, 3), p \o u1, p ** "maybe")
    <3>1. 1 \in 1..Len(u1) /\ \A j \in 1..Len(f) : f[j] = IF j < 1 THEN u1[j] ELSE u1[j + 1]
      BY <2>1, <2>2
    <3>2. Len(f) = Len(u1) - 1 /\ Needs(k, f)
      BY <1>4, <2>1, <2>2
    <3> QED
      BY <1>1, <2>2, <3>1, <3>2
  <2>4. PICK u2 \in Shapes : u2 = <<a, "token", b>> /\ Len(u2) = 3 /\ u2[1] = a
    /\ u2[2] = "token" /\ u2[3] = b
    <3>1. <<a, "token", b>> \in Shapes /\ Len(<<a, "token", b>>) = 3
      BY <1>0 DEF Shapes
    <3>2. <<a, "token", b>>[1] = a /\ <<a, "token", b>>[2] = "token" /\ <<a, "token", b>>[3] = b
      OBVIOUS
    <3> QED
      BY <3>1, <3>2, Zenon
  <2>5. Fits(Build(k, 3), p \o u2, p ** "node")
    <3>1. 2 \in 1..Len(u2) /\ \A j \in 1..Len(f) : f[j] = IF j < 2 THEN u2[j] ELSE u2[j + 1]
      BY <2>1, <2>4
    <3>2. Len(f) = Len(u2) - 1 /\ Needs(k, f)
      BY <1>4, <2>1, <2>4
    <3> QED
      BY <1>1, <2>4, <3>1, <3>2
  <2>6. p \o u1 = p ** "token" ** a ** b
    <3>1. "token" \in Forms /\ a \in Forms /\ b \in Forms
      BY <1>0
    <3> QED
      BY <3>1, <2>2, OnTop, SMTT(20)
  <2>7. p \o u2 = p ** a ** "token" ** b
    <3>1. a \in Forms /\ "token" \in Forms /\ b \in Forms
      BY <1>0
    <3> QED
      BY <3>1, <2>4, OnTop, SMTT(20)
  <2> QED
    BY <2>3, <2>5, <2>6, <2>7
<1>5. ASSUME NEW a \in Children, NEW b \in Children, NEW c \in Children, Needs(k, <<a, b, c>>)
      PROVE  Fits(Build(k, 4), p ** "token" ** a ** b ** c, p ** "node")
  <2>1. PICK f \in Seq(Children) : f = <<a, b, c>> /\ Len(f) = 3 /\ f[1] = a /\ f[2] = b
    /\ f[3] = c
    <3>1. /\ <<a, b, c>> \in Seq(Children) /\ Len(<<a, b, c>>) = 3
          /\ <<a, b, c>>[1] = a /\ <<a, b, c>>[2] = b /\ <<a, b, c>>[3] = c
      OBVIOUS
    <3> QED
      BY <3>1, Zenon
  <2>2. PICK u1 \in Shapes : u1 = <<"token", a, b, c>> /\ Len(u1) = 4 /\ u1[1] = "token"
    /\ u1[2] = a /\ u1[3] = b /\ u1[4] = c
    <3>1. <<"token", a, b, c>> \in Shapes /\ Len(<<"token", a, b, c>>) = 4
      BY <1>0 DEF Shapes
    <3>2. <<"token", a, b, c>>[1] = "token" /\ <<"token", a, b, c>>[2] = a
      /\ <<"token", a, b, c>>[3] = b /\ <<"token", a, b, c>>[4] = c
      OBVIOUS
    <3> QED
      BY <3>1, <3>2, Zenon
  <2>3. Fits(Build(k, 4), p \o u1, p ** "node")
    <3>1. 1 \in 1..Len(u1) /\ \A j \in 1..Len(f) : f[j] = IF j < 1 THEN u1[j] ELSE u1[j + 1]
      BY <2>1, <2>2
    <3>2. Len(f) = Len(u1) - 1 /\ Needs(k, f)
      BY <1>5, <2>1, <2>2
    <3> QED
      BY <1>1, <2>2, <3>1, <3>2
  <2>6. p \o u1 = p ** "token" ** a ** b ** c
    <3>1. "token" \in Forms /\ a \in Forms /\ b \in Forms /\ c \in Forms
      BY <1>0
    <3> QED
      BY <3>1, <2>2, OnTop, SMTT(20)
  <2> QED
    BY <2>3, <2>6
<1>6. ASSUME NEW a \in Children, NEW b \in Children, NEW c \in Children, NEW d \in Children,
  Needs(k, <<a, b, c, d>>)
      PROVE  Fits(Build(k, 5), p ** "token" ** a ** b ** c ** d, p ** "node")
  <2>1. PICK f \in Seq(Children) : f = <<a, b, c, d>> /\ Len(f) = 4 /\ f[1] = a /\ f[2] = b
    /\ f[3] = c /\ f[4] = d
    <3>1. /\ <<a, b, c, d>> \in Seq(Children) /\ Len(<<a, b, c, d>>) = 4
          /\ <<a, b, c, d>>[1] = a /\ <<a, b, c, d>>[2] = b /\ <<a, b, c, d>>[3] = c
               /\ <<a, b, c, d>>[4] = d
      OBVIOUS
    <3> QED
      BY <3>1, Zenon
  <2>2. PICK u1 \in Shapes : u1 = <<"token", a, b, c, d>> /\ Len(u1) = 5 /\ u1[1] = "token"
    /\ u1[2] = a /\ u1[3] = b /\ u1[4] = c /\ u1[5] = d
    <3>1. <<"token", a, b, c, d>> \in Shapes /\ Len(<<"token", a, b, c, d>>) = 5
      BY <1>0 DEF Shapes
    <3>2. <<"token", a, b, c, d>>[1] = "token" /\ <<"token", a, b, c, d>>[2] = a
      /\ <<"token", a, b, c, d>>[3] = b /\ <<"token", a, b, c, d>>[4] = c
           /\ <<"token", a, b, c, d>>[5] = d
      OBVIOUS
    <3> QED
      BY <3>1, <3>2, Zenon
  <2>3. Fits(Build(k, 5), p \o u1, p ** "node")
    <3>1. 1 \in 1..Len(u1) /\ \A j \in 1..Len(f) : f[j] = IF j < 1 THEN u1[j] ELSE u1[j + 1]
      BY <2>1, <2>2
    <3>2. Len(f) = Len(u1) - 1 /\ Needs(k, f)
      BY <1>6, <2>1, <2>2
    <3> QED
      BY <1>1, <2>2, <3>1, <3>2
  <2>6. p \o u1 = p ** "token" ** a ** b ** c ** d
    <3>1. "token" \in Forms /\ a \in Forms /\ b \in Forms /\ c \in Forms /\ d \in Forms
      BY <1>0
    <3> QED
      <4>1. p ** "token" ** a ** b ** c ** d = p \o <<"token", a, b, c, d>>
        BY <3>1, OnTop, SMTT(30)
      <4> QED
        BY <2>2, <4>1, Zenon
  <2> QED
    BY <2>3, <2>6
<1> QED
  BY <1>2, <1>3, <1>4, <1>5, <1>6

-----------------------------------------------------------------------------
(* What the rules share.                                                   *)

LEMMA OptionalFits ==
  ASSUME NEW p \in Shapes, NEW kinds, NEW yes, Runs(yes, p, p ** "maybe")
  PROVE  Fits(Optional(kinds, yes), p, p ** "maybe")
<1>1. Runs(<<Put(Nothing)>>, p, p ** "maybe")
  BY PutFits, Runs1
<1> QED
  BY <1>1, IfFits DEF Optional

LEMMA ListUnlessFits ==
  ASSUME NEW p \in Shapes, NEW close, NEW list, NEW f \in {"list", "holes"}, Runs(list, p, p ** f)
  PROVE  Fits(ListUnless(close, list), p, p ** f)
<1>1. Runs(<<Open>>, p, p ** f)
  BY PutFits, Runs1
<1> QED
  BY <1>1, IfFits DEF ListUnless

\* a list f of members g
Listing(f, g) == <<f, g>> \in {<<"list", "node">>, <<"holes", "maybe">>}

LEMMA AddFits ==
  ASSUME NEW p \in Shapes, NEW f, NEW g, Listing(f, g)
  PROVE  /\ f \in Forms /\ g \in Forms /\ f \in {"list", "holes"}
         /\ p ** f \in Shapes /\ p ** f ** g \in Shapes
         /\ Fits(Open, p, p ** f) /\ Fits(Add, p ** f ** g, p ** f)
<1>1. (f = "list" /\ g = "node") \/ (f = "holes" /\ g = "maybe")
  BY DEF Listing
<1>2. CASE f = "list" /\ g = "node"
  BY <1>2, Longer, PutFits, ListFits DEF Forms
<1>3. CASE f = "holes" /\ g = "maybe"
  BY <1>3, Longer, PutFits, ListFits DEF Forms
<1> QED
  BY <1>1, <1>2, <1>3

LEMMA CommaListRuns ==
  ASSUME NEW p \in Shapes, NEW one, NEW f, NEW g, Listing(f, g), Runs(one, p ** f, p ** f ** g)
  PROVE  Runs(CommaList(one), p, p ** f)
<1>1. Runs(<<Open>>, p, p ** f)
  BY AddFits, Runs1
<1>2. Runs(<<Add>>, p ** f ** g, p ** f)
  BY AddFits, Runs1
<1>3. Runs(<<Expect(",")>>, p ** f, p ** f)
  BY AddFits, ItemsFit, Runs1
<1>4. Runs(<<Expect(",")>> \o one \o <<Add>>, p ** f, p ** f)
  BY <1>2, <1>3, RunsConcat
<1>5. Runs(<<Add, While({","}, <<Expect(",")>> \o one \o <<Add>>)>>, p ** f ** g, p ** f)
  <2>1. Fits(While({","}, <<Expect(",")>> \o one \o <<Add>>), p ** f, p ** f)
    BY <1>4, LoopFits
  <2>2. Fits(Add, p ** f ** g, p ** f)
    BY AddFits
  <2> QED
    BY <2>1, <2>2, Runs2
<1>6. Runs(<<Open>> \o one, p, p ** f ** g)
  BY <1>1, RunsConcat
<1> QED
  BY <1>5, <1>6, RunsConcat DEF CommaList

LEMMA TrailingListRuns ==
  ASSUME NEW p \in Shapes, NEW close, NEW one, Runs(one, p ** "list", p ** "list" ** "node")
  PROVE  Runs(TrailingList(close, one), p, p ** "list")
<1> DEFINE loop == While({","}, <<Expect(","), If({close}, <<>>, one \o <<Add>>)>>)
<1>0. p ** "list" \in Shapes
  BY Longer
<1>1. Runs(<<Open>> \o one, p, p ** "list" ** "node")
  <2>1. Runs(<<Open>>, p, p ** "list")
    BY PutFits, Runs1
  <2> QED
    BY <2>1, RunsConcat
<1>2. Runs(one \o <<Add>>, p ** "list", p ** "list")
  <2>1. Runs(<<Add>>, p ** "list" ** "node", p ** "list")
    BY ListFits, Runs1
  <2> QED
    BY <2>1, RunsConcat
<1>3. Fits(If({close}, <<>>, one \o <<Add>>), p ** "list", p ** "list")
  BY <1>0, <1>2, Runs0, IfFits
<1>4. Fits(loop, p ** "list", p ** "list")
  <2>1. Fits(Expect(","), p ** "list", p ** "list")
    BY <1>0, ItemsFit
  <2>2. Runs(<<Expect(","), If({close}, <<>>, one \o <<Add>>)>>, p ** "list", p ** "list")
    BY <1>3, <2>1, Runs2
  <2> QED
    BY <2>2, LoopFits
<1> HIDE DEF loop
<1>5. Runs(<<Add, loop>>, p ** "list" ** "node", p ** "list")
  <2>1. Fits(Add, p ** "list" ** "node", p ** "list")
    BY ListFits
  <2> QED
    BY <1>4, <2>1, Runs2
<1> QED
  BY <1>1, <1>5, RunsConcat DEF TrailingList, loop

LEMMA EnclosedRuns ==
  ASSUME NEW p \in Shapes, NEW open, NEW close, NEW list, Runs(list, p, p ** "list")
  PROVE  Runs(Enclosed(open, close, list), p, p ** "list")
<1>1. /\ Fits(Expect(open), p, p)
      /\ Fits(ListUnless(close, list), p, p ** "list")
      /\ Fits(Expect(close), p ** "list", p ** "list")
  BY Longer, ItemsFit, ListUnlessFits
<1> QED
  BY <1>1, Runs3 DEF Enclosed

LEMMA NameRuns ==
  ASSUME NEW p \in Shapes, NEW k, Needs(k, <<>>)
  PROVE  Runs(Name(k), p, p ** "node")
<1>1. Fits(Keep({"id"}), p, p ** "token") /\ Fits(Build(k, 1), p ** "token", p ** "node")
  BY ItemsFit, BuildsFit
<1> QED
  BY <1>1, Runs2 DEF Name

LEMMA LeftAssociativeRuns ==
  ASSUME NEW p \in Shapes, NEW first \in NodeRules, NEW operators, NEW operand \in NodeRules
  PROVE  Runs(LeftAssociative(first, operators, operand), p, p ** "node")
<1> DEFINE q == p ** "node"
<1>0. q \in Shapes
  BY Longer
<1>1. Needs("binary", <<"node", "node">>)
  BY DEF Needs, Literals, Solid
<1>2. /\ Fits(Keep(operators), q, q ** "token")
      /\ Fits(Call(operand), q ** "token", q ** "token" ** "node")
  BY <1>0, Longer, ItemsFit, CallFits
<1>3. Fits(Build("binary", 3), q ** "token" ** "node", q)
  BY <1>1, BuildsFit DEF Children
<1>4. Fits(Call(first), p, q)
  BY CallFits
<1> HIDE DEF q
<1>5. Runs(<<Keep(operators), Call(operand), Build("binary", 3)>>, q, q)
  BY <1>2, <1>3, Runs3
<1>6. Fits(While(operators, <<Keep(operators), Call(operand), Build("binary", 3)>>), q, q)
  BY <1>5, LoopFits
<1>7. Runs(LeftAssociative(first, operators, operand), p, q)
  BY <1>4, <1>6, Runs2 DEF LeftAssociative
<1> QED
  BY <1>7 DEF q

-----------------------------------------------------------------------------
(* The rules, one lemma each, in the order of Grammar.                     *)

LEMMA SignatureRuns == ASSUME NEW p \in Shapes PROVE Runs(Signature, p, p ** "list" ** "node")
<1>1. Fits(ListUnless(")", <<Call("param_list")>>), p, p ** "list")
  <2>1. Runs(<<Call("param_list")>>, p, p ** "list")
    BY Longer, CallFits, Runs1 DEF ListNames
  <2> QED
    BY <2>1, ListUnlessFits, Longer
<1>2. Fits(If({":"}, <<Call("type_annotation")>>, <<Put(VoidType)>>), p ** "list",
           p ** "list" ** "node")
  <2>1. Runs(<<Call("type_annotation")>>, p ** "list", p ** "list" ** "node")
    BY Longer, CallFits, Runs1 DEF NodeRules
  <2>2. Runs(<<Put(VoidType)>>, p ** "list", p ** "list" ** "node")
    BY Longer, PutFits, Runs1
  <2> QED
    BY <2>1, <2>2, IfFits
<1>3. /\ Fits(Expect("("), p, p)
      /\ Fits(Expect(")"), p ** "list", p ** "list")
  BY Longer, ItemsFit
<1> QED
  BY <1>1, <1>2, <1>3, Runs4 DEF Signature

LEMMA ProgramRuns == ASSUME NEW p \in Shapes PROVE Runs(parse_program, p, p ** "list")
<1>1. Fits(Until({}, <<Call("declaration"), Add>>), p ** "list", p ** "list")
  <2>1. Runs(<<Call("declaration"), Add>>, p ** "list", p ** "list")
    <3>1. /\ Fits(Call("declaration"), p ** "list", p ** "list" ** "node")
          /\ Fits(Add, p ** "list" ** "node", p ** "list")
      BY Longer, CallFits, ListFits DEF NodeRules
    <3> QED
      BY <3>1, Runs2
  <2> QED
    BY <2>1, LoopFits
<1>2. Fits(Open, p, p ** "list")
  BY Longer, PutFits
<1> QED
  BY <1>1, <1>2, Runs2 DEF parse_program

LEMMA DeclarationRuns == ASSUME NEW p \in Shapes PROVE Runs(parse_declaration, p, p ** "node")
<1>1. ASSUME NEW k \in DOMAIN DeclarationRule PROVE DeclarationRule[k] \in NodeRules
  BY DEF DeclarationRule, NodeRules
<1>2. AllRun([k \in DOMAIN DeclarationRule |-> <<Call(DeclarationRule[k])>>], p, p ** "node")
  BY <1>1, CallFits, Runs1 DEF AllRun
<1>3. Runs(<<Throw>>, p, p ** "node")
  BY Longer, ItemsFit, Runs1
<1>4. Fits(Switch([k \in DOMAIN DeclarationRule |-> <<Call(DeclarationRule[k])>>], <<Throw>>), p,
           p ** "node")
  BY <1>2, <1>3, SwitchFits
<1> QED
  BY <1>4, Runs1 DEF parse_declaration

LEMMA ImportDeclRuns == ASSUME NEW p \in Shapes PROVE Runs(parse_import_decl, p, p ** "node")
<1>1. Needs("import", <<>>)
  BY DEF Needs, Literals, Solid
<1>2. /\ Fits(Expect("import"), p, p)
      /\ Fits(Keep({"string"}), p, p ** "token")
      /\ Fits(Expect(";"), p ** "token", p ** "token")
      /\ Fits(Build("import", 1), p ** "token", p ** "node")
  BY <1>1, Longer, ItemsFit, BuildsFit DEF Children
<1> QED
  BY <1>2, Runs4 DEF parse_import_decl

LEMMA CimportDeclRuns == ASSUME NEW p \in Shapes PROVE Runs(parse_cimport_decl, p, p ** "node")
<1>1. Fits(Switch([k \in {"<"} |-> <<Expect("<"),
                                     Until({">"}, <<If({";"}, <<Throw>>, <<Advance>>)>>),
                                     Expect(">")>>]
                  ++ [k \in {"string"} |-> <<Expect("string")>>],
                  <<Throw>>),
           p ** "token", p ** "token")
  <2>1. AllRun([k \in {"<"} |-> <<Expect("<"),
                                  Until({">"}, <<If({";"}, <<Throw>>, <<Advance>>)>>),
                                  Expect(">")>>],
               p ** "token", p ** "token")
    <3>1. Fits(Until({">"}, <<If({";"}, <<Throw>>, <<Advance>>)>>), p ** "token", p ** "token")
      <4>1. Runs(<<If({";"}, <<Throw>>, <<Advance>>)>>, p ** "token", p ** "token")
        <5>1. Fits(If({";"}, <<Throw>>, <<Advance>>), p ** "token", p ** "token")
          <6>1. Runs(<<Throw>>, p ** "token", p ** "token")
            BY Longer, ItemsFit, Runs1
          <6>2. Runs(<<Advance>>, p ** "token", p ** "token")
            BY Longer, ItemsFit, Runs1
          <6> QED
            BY <6>1, <6>2, IfFits
        <5> QED
          BY <5>1, Runs1
      <4> QED
        BY <4>1, LoopFits
    <3>2. /\ Fits(Expect("<"), p ** "token", p ** "token")
          /\ Fits(Expect(">"), p ** "token", p ** "token")
      BY Longer, ItemsFit
    <3> QED
      BY <3>1, <3>2, Runs3 DEF AllRun
  <2>2. AllRun([k \in {"string"} |-> <<Expect("string")>>], p ** "token", p ** "token")
    BY Longer, ItemsFit, Runs1 DEF AllRun
  <2>3. Runs(<<Throw>>, p ** "token", p ** "token")
    BY Longer, ItemsFit, Runs1
  <2> QED
    BY <2>1, <2>2, <2>3, AllRunMerge, SwitchFits
<1>2. Needs("cimport", <<>>)
  BY DEF Needs, Literals, Solid
<1>3. /\ Fits(Keep({"cimport"}), p, p ** "token")
      /\ Fits(Expect(";"), p ** "token", p ** "token")
      /\ Fits(Build("cimport", 1), p ** "token", p ** "node")
  BY <1>2, Longer, ItemsFit, BuildsFit DEF Children
<1> QED
  BY <1>1, <1>3, Runs4 DEF parse_cimport_decl

LEMMA ShardDeclRuns == ASSUME NEW p \in Shapes PROVE Runs(parse_shard_decl, p, p ** "node")
<1>1. Needs("shard", <<>>)
  BY DEF Needs, Literals, Solid
<1>2. /\ Fits(Expect("shard"), p, p)
      /\ Fits(Keep({"string"}), p, p ** "token")
      /\ Fits(Expect(";"), p ** "token", p ** "token")
      /\ Fits(Build("shard", 1), p ** "token", p ** "node")
  BY <1>1, Longer, ItemsFit, BuildsFit DEF Children
<1> QED
  BY <1>2, Runs4 DEF parse_shard_decl

LEMMA ExternDeclRuns == ASSUME NEW p \in Shapes PROVE Runs(parse_extern_decl, p, p ** "node")
<1>1. ASSUME NEW k \in DOMAIN ExternRule PROVE ExternRule[k] \in NodeRules
  BY DEF ExternRule, NodeRules
<1>2. AllRun([k \in DOMAIN ExternRule |-> <<Call(ExternRule[k])>>], p, p ** "node")
  BY <1>1, CallFits, Runs1 DEF AllRun
<1>3. Runs(<<Throw>>, p, p ** "node")
  BY Longer, ItemsFit, Runs1
<1>4. Fits(Switch([k \in DOMAIN ExternRule |-> <<Call(ExternRule[k])>>], <<Throw>>), p,
           p ** "node")
  BY <1>2, <1>3, SwitchFits
<1>5. Fits(Expect("extern"), p, p)
  BY ItemsFit
<1> QED
  BY <1>4, <1>5, Runs2 DEF parse_extern_decl

LEMMA FnDeclRuns == ASSUME NEW p \in Shapes PROVE Runs(parse_fn_decl(FALSE), p, p ** "node")
<1>1. Runs(<<Expect("fn"), Keep({"id"})>>, p, p ** "token")
  <2>1. /\ Fits(Expect("fn"), p, p)
        /\ Fits(Keep({"id"}), p, p ** "token")
    BY Longer, ItemsFit
  <2> QED
    BY <2>1, Runs2
<1>2. Runs(Signature, p ** "token", p ** "token" ** "list" ** "node")
  BY Longer, SignatureRuns
<1>3. Runs(<<Expect("fn"), Keep({"id"})>> \o Signature, p, p ** "token" ** "list" ** "node")
  BY <1>1, <1>2, RunsConcat
<1>4. Runs(<<Call("block")>>, p ** "token" ** "list" ** "node",
           p ** "token" ** "list" ** "node" ** "node")
  BY Longer, CallFits, Runs1 DEF NodeRules
<1>5. Runs(<<Expect("fn"), Keep({"id"})>> \o Signature \o <<Call("block")>>, p,
           p ** "token" ** "list" ** "node" ** "node")
  BY <1>3, <1>4, RunsConcat
<1>6. Runs(<<Build("fn", 4)>>, p ** "token" ** "list" ** "node" ** "node", p ** "node")
  <2>1. Needs("fn", <<"list", "node", "node">>)
    BY DEF Needs, Literals, Solid
  <2>2. Fits(Build("fn", 4), p ** "token" ** "list" ** "node" ** "node", p ** "node")
    BY <2>1, Longer, BuildsFit DEF Children
  <2> QED
    BY <2>2, Runs1
<1> QED
  BY <1>5, <1>6, RunsConcat DEF parse_fn_decl

LEMMA ExternFnDeclRuns == ASSUME NEW p \in Shapes PROVE Runs(parse_fn_decl(TRUE), p, p ** "node")
<1>1. Runs(<<Expect("fn"), Keep({"id"})>>, p, p ** "token")
  <2>1. /\ Fits(Expect("fn"), p, p)
        /\ Fits(Keep({"id"}), p, p ** "token")
    BY Longer, ItemsFit
  <2> QED
    BY <2>1, Runs2
<1>2. Runs(Signature, p ** "token", p ** "token" ** "list" ** "node")
  BY Longer, SignatureRuns
<1>3. Runs(<<Expect("fn"), Keep({"id"})>> \o Signature, p, p ** "token" ** "list" ** "node")
  BY <1>1, <1>2, RunsConcat
<1>4. Runs(<<Expect(";"), Put(Nothing)>>, p ** "token" ** "list" ** "node",
           p ** "token" ** "list" ** "node" ** "maybe")
  <2>1. /\ Fits(Expect(";"), p ** "token" ** "list" ** "node", p ** "token" ** "list" ** "node")
        /\ Fits(Put(Nothing), p ** "token" ** "list" ** "node",
                p ** "token" ** "list" ** "node" ** "maybe")
    BY Longer, ItemsFit, PutFits
  <2> QED
    BY <2>1, Runs2
<1>5. Runs(<<Expect("fn"), Keep({"id"})>> \o Signature \o <<Expect(";"), Put(Nothing)>>, p,
           p ** "token" ** "list" ** "node" ** "maybe")
  BY <1>3, <1>4, RunsConcat
<1>6. Runs(<<Build("fn", 4)>>, p ** "token" ** "list" ** "node" ** "maybe", p ** "node")
  <2>1. Needs("fn", <<"list", "node", "maybe">>)
    BY DEF Needs, Literals, Solid
  <2>2. Fits(Build("fn", 4), p ** "token" ** "list" ** "node" ** "maybe", p ** "node")
    BY <2>1, Longer, BuildsFit DEF Children
  <2> QED
    BY <2>2, Runs1
<1> QED
  BY <1>5, <1>6, RunsConcat DEF parse_fn_decl

LEMMA LambdaRuns == ASSUME NEW p \in Shapes PROVE Runs(parse_lambda, p, p ** "node")
<1>1. Runs(<<Keep({"fn"})>>, p, p ** "token")
  BY Longer, ItemsFit, Runs1
<1>2. Runs(Signature, p ** "token", p ** "token" ** "list" ** "node")
  BY Longer, SignatureRuns
<1>3. Runs(<<Keep({"fn"})>> \o Signature, p, p ** "token" ** "list" ** "node")
  BY <1>1, <1>2, RunsConcat
<1>4. Runs(<<If({"{"}, <<Call("block")>>, <<Call("expression"), Guard("as body")>>),
             Build("lambda", 4)>>,
           p ** "token" ** "list" ** "node", p ** "node")
  <2>1. Fits(If({"{"}, <<Call("block")>>, <<Call("expression"), Guard("as body")>>),
             p ** "token" ** "list" ** "node", p ** "token" ** "list" ** "node" ** "node")
    <3>1. Runs(<<Call("block")>>, p ** "token" ** "list" ** "node",
               p ** "token" ** "list" ** "node" ** "node")
      BY Longer, CallFits, Runs1 DEF NodeRules
    <3>2. Runs(<<Call("expression"), Guard("as body")>>, p ** "token" ** "list" ** "node",
               p ** "token" ** "list" ** "node" ** "node")
      <4>1. /\ Fits(Call("expression"), p ** "token" ** "list" ** "node",
                    p ** "token" ** "list" ** "node" ** "node")
            /\ Fits(Guard("as body"), p ** "token" ** "list" ** "node" ** "node",
                    p ** "token" ** "list" ** "node" ** "node")
        BY Longer, CallFits, ListFits DEF NodeRules
      <4> QED
        BY <4>1, Runs2
    <3> QED
      BY <3>1, <3>2, IfFits
  <2>2. Needs("lambda", <<"list", "node", "node">>)
    BY DEF Needs, Literals, Solid
  <2>3. Fits(Build("lambda", 4), p ** "token" ** "list" ** "node" ** "node", p ** "node")
    BY <2>2, Longer, BuildsFit DEF Children
  <2> QED
    BY <2>1, <2>3, Runs2
<1> QED
  BY <1>3, <1>4, RunsConcat DEF parse_lambda

LEMMA StructDeclRuns == ASSUME NEW p \in Shapes,
  NEW extern \in BOOLEAN PROVE Runs(parse_struct_decl(extern), p, p ** "node")
<1>1. Fits(If({";"}, <<Expect(";"), Open>>, Enclosed("{", "}", <<Call("field_list")>>)),
           p ** "token", p ** "token" ** "list")
  <2>1. Runs(<<Expect(";"), Open>>, p ** "token", p ** "token" ** "list")
    <3>1. /\ Fits(Expect(";"), p ** "token", p ** "token")
          /\ Fits(Open, p ** "token", p ** "token" ** "list")
      BY Longer, ItemsFit, PutFits
    <3> QED
      BY <3>1, Runs2
  <2>2. Runs(Enclosed("{", "}", <<Call("field_list")>>), p ** "token", p ** "token" ** "list")
    <3>1. Runs(<<Call("field_list")>>, p ** "token", p ** "token" ** "list")
      BY Longer, CallFits, Runs1 DEF ListNames
    <3> QED
      BY <3>1, Longer, EnclosedRuns
  <2> QED
    BY <2>1, <2>2, IfFits
<1>2. Needs(IF extern THEN "extern struct" ELSE "struct", <<"list">>)
  BY DEF Needs, Literals, Solid
<1>3. /\ Fits(Expect("struct"), p, p)
      /\ Fits(Keep({"id"}), p, p ** "token")
      /\ Fits(Build(IF extern THEN "extern struct" ELSE "struct", 2), p ** "token" ** "list",
              p ** "node")
  BY <1>2, Longer, ItemsFit, BuildsFit DEF Children
<1> QED
  BY <1>1, <1>3, Runs4 DEF parse_struct_decl

LEMMA EnumDeclRuns == ASSUME NEW p \in Shapes,
  NEW extern \in BOOLEAN PROVE Runs(parse_enum_decl(extern), p, p ** "node")
<1>1. Fits(If({";"}, <<Expect(";"), Open>>, Enclosed("{", "}", <<Call("enum_value_list")>>)),
           p ** "token" ** "node", p ** "token" ** "node" ** "list")
  <2>1. Runs(<<Expect(";"), Open>>, p ** "token" ** "node", p ** "token" ** "node" ** "list")
    <3>1. /\ Fits(Expect(";"), p ** "token" ** "node", p ** "token" ** "node")
          /\ Fits(Open, p ** "token" ** "node", p ** "token" ** "node" ** "list")
      BY Longer, ItemsFit, PutFits
    <3> QED
      BY <3>1, Runs2
  <2>2. Runs(Enclosed("{", "}", <<Call("enum_value_list")>>), p ** "token" ** "node",
             p ** "token" ** "node" ** "list")
    <3>1. Runs(<<Call("enum_value_list")>>, p ** "token" ** "node",
               p ** "token" ** "node" ** "list")
      BY Longer, CallFits, Runs1 DEF ListNames
    <3> QED
      BY <3>1, Longer, EnclosedRuns
  <2> QED
    BY <2>1, <2>2, IfFits
<1>2. Needs(IF extern THEN "extern enum" ELSE "enum", <<"node", "list">>)
  BY DEF Needs, Literals, Solid
<1>3. /\ Fits(Expect("enum"), p, p)
      /\ Fits(Keep({"id"}), p, p ** "token")
      /\ Fits(Expect(":"), p ** "token", p ** "token")
      /\ Fits(Call("type"), p ** "token", p ** "token" ** "node")
      /\ Fits(Build(IF extern THEN "extern enum" ELSE "enum", 3),
              p ** "token" ** "node" ** "list", p ** "node")
  BY <1>2, Longer, ItemsFit, CallFits, BuildsFit DEF NodeRules, Children
<1> QED
  BY <1>1, <1>3, Runs6 DEF parse_enum_decl

LEMMA VarDeclRuns == ASSUME NEW p \in Shapes PROVE Runs(parse_var_decl(FALSE), p, p ** "node")
<1>1. Runs(<<Expect("var"), Keep({"id"}), Call("type_annotation")>>, p, p ** "token" ** "node")
  <2>1. /\ Fits(Expect("var"), p, p)
        /\ Fits(Keep({"id"}), p, p ** "token")
        /\ Fits(Call("type_annotation"), p ** "token", p ** "token" ** "node")
    BY Longer, ItemsFit, CallFits DEF NodeRules
  <2> QED
    BY <2>1, Runs3
<1>2. Runs(<<Optional({"="}, <<Expect("="), Call("expression")>>)>>, p ** "token" ** "node",
           p ** "token" ** "node" ** "maybe")
  <2>1. Fits(Optional({"="}, <<Expect("="), Call("expression")>>), p ** "token" ** "node",
             p ** "token" ** "node" ** "maybe")
    <3>1. Runs(<<Expect("="), Call("expression")>>, p ** "token" ** "node",
               p ** "token" ** "node" ** "maybe")
      <4>1. /\ Fits(Expect("="), p ** "token" ** "node", p ** "token" ** "node")
            /\ Fits(Call("expression"), p ** "token" ** "node", p ** "token" ** "node" ** "maybe")
        BY Longer, ItemsFit, CallFits DEF NodeRules
      <4> QED
        BY <4>1, Runs2
    <3> QED
      BY <3>1, OptionalFits, Longer
  <2> QED
    BY <2>1, Runs1
<1>3. Runs(<<Expect("var"), Keep({"id"}),
             Call("type_annotation")>> \o <<Optional({"="}, <<Expect("="), Call("expression")>>)>>,
           p, p ** "token" ** "node" ** "maybe")
  BY <1>1, <1>2, RunsConcat
<1>4. Runs(<<Expect(";"), Build("var", 3)>>, p ** "token" ** "node" ** "maybe", p ** "node")
  <2>1. Needs("var", <<"node", "maybe">>)
    BY DEF Needs, Literals, Solid
  <2>2. /\ Fits(Expect(";"), p ** "token" ** "node" ** "maybe", p ** "token" ** "node" ** "maybe")
        /\ Fits(Build("var", 3), p ** "token" ** "node" ** "maybe", p ** "node")
    BY <2>1, Longer, ItemsFit, BuildsFit DEF Children
  <2> QED
    BY <2>2, Runs2
<1> QED
  BY <1>3, <1>4, RunsConcat DEF parse_var_decl

LEMMA ExternVarDeclRuns == ASSUME NEW p \in Shapes PROVE Runs(parse_var_decl(TRUE), p,
                                                              p ** "node")
<1>1. Runs(<<Expect("var"), Keep({"id"}), Call("type_annotation")>>, p, p ** "token" ** "node")
  <2>1. /\ Fits(Expect("var"), p, p)
        /\ Fits(Keep({"id"}), p, p ** "token")
        /\ Fits(Call("type_annotation"), p ** "token", p ** "token" ** "node")
    BY Longer, ItemsFit, CallFits DEF NodeRules
  <2> QED
    BY <2>1, Runs3
<1>2. Runs(<<If({"="}, <<Throw>>, <<Put(Nothing)>>)>>, p ** "token" ** "node",
           p ** "token" ** "node" ** "maybe")
  <2>1. Fits(If({"="}, <<Throw>>, <<Put(Nothing)>>), p ** "token" ** "node",
             p ** "token" ** "node" ** "maybe")
    <3>1. Runs(<<Throw>>, p ** "token" ** "node", p ** "token" ** "node" ** "maybe")
      BY Longer, ItemsFit, Runs1
    <3>2. Runs(<<Put(Nothing)>>, p ** "token" ** "node", p ** "token" ** "node" ** "maybe")
      BY Longer, PutFits, Runs1
    <3> QED
      BY <3>1, <3>2, IfFits
  <2> QED
    BY <2>1, Runs1
<1>3. Runs(<<Expect("var"), Keep({"id"}),
             Call("type_annotation")>> \o <<If({"="}, <<Throw>>, <<Put(Nothing)>>)>>,
           p, p ** "token" ** "node" ** "maybe")
  BY <1>1, <1>2, RunsConcat
<1>4. Runs(<<Expect(";"), Build("extern var", 3)>>, p ** "token" ** "node" ** "maybe",
           p ** "node")
  <2>1. Needs("extern var", <<"node", "maybe">>)
    BY DEF Needs, Literals, Solid
  <2>2. /\ Fits(Expect(";"), p ** "token" ** "node" ** "maybe", p ** "token" ** "node" ** "maybe")
        /\ Fits(Build("extern var", 3), p ** "token" ** "node" ** "maybe", p ** "node")
    BY <2>1, Longer, ItemsFit, BuildsFit DEF Children
  <2> QED
    BY <2>2, Runs2
<1> QED
  BY <1>3, <1>4, RunsConcat DEF parse_var_decl

LEMMA ConstDeclRuns == ASSUME NEW p \in Shapes PROVE Runs(parse_const_decl, p, p ** "node")
<1>1. Needs("const", <<"node", "node">>)
  BY DEF Needs, Literals, Solid
<1>2. /\ Fits(Expect("const"), p, p)
      /\ Fits(Keep({"id"}), p, p ** "token")
      /\ Fits(Call("type_annotation"), p ** "token", p ** "token" ** "node")
      /\ Fits(Expect("="), p ** "token" ** "node", p ** "token" ** "node")
      /\ Fits(Call("expression"), p ** "token" ** "node", p ** "token" ** "node" ** "node")
      /\ Fits(Expect(";"), p ** "token" ** "node" ** "node", p ** "token" ** "node" ** "node")
      /\ Fits(Build("const", 3), p ** "token" ** "node" ** "node", p ** "node")
  BY <1>1, Longer, ItemsFit, CallFits, BuildsFit DEF NodeRules, Children
<1> QED
  BY <1>2, Runs7 DEF parse_const_decl

LEMMA LetDeclRuns == ASSUME NEW p \in Shapes PROVE Runs(parse_let_decl, p, p ** "node")
<1>1. Runs(<<Keep({"let"})>>, p, p ** "token")
  BY Longer, ItemsFit, Runs1
<1>2. Runs(CommaList(Name("name")), p ** "token", p ** "token" ** "list")
  <2>1. Runs(Name("name"), p ** "token" ** "list", p ** "token" ** "list" ** "node")
    <3>1. Needs("name", <<>>)
      BY DEF Needs, Literals, Solid
    <3> QED
      BY <3>1, Longer, NameRuns
  <2> QED
    BY <2>1, Longer, CommaListRuns DEF Listing
<1>3. Runs(<<Keep({"let"})>> \o CommaList(Name("name")), p, p ** "token" ** "list")
  BY <1>1, <1>2, RunsConcat
<1>4. Runs(<<Expect("="), Call("expression"), Expect(";"), Build("let", 3)>>,
           p ** "token" ** "list", p ** "node")
  <2>1. Needs("let", <<"list", "node">>)
    BY DEF Needs, Literals, Solid
  <2>2. /\ Fits(Expect("="), p ** "token" ** "list", p ** "token" ** "list")
        /\ Fits(Call("expression"), p ** "token" ** "list", p ** "token" ** "list" ** "node")
        /\ Fits(Expect(";"), p ** "token" ** "list" ** "node", p ** "token" ** "list" ** "node")
        /\ Fits(Build("let", 3), p ** "token" ** "list" ** "node", p ** "node")
    BY <2>1, Longer, ItemsFit, CallFits, BuildsFit DEF NodeRules, Children
  <2> QED
    BY <2>2, Runs4
<1> QED
  BY <1>3, <1>4, RunsConcat DEF parse_let_decl

LEMMA ParamListRuns == ASSUME NEW p \in Shapes PROVE Runs(parse_param_list, p, p ** "list")
<1>1. Fits(While({","}, <<Expect(","), Guard("no variadic yet"), Call("param"), Add>>),
           p ** "list", p ** "list")
  <2>1. Runs(<<Expect(","), Guard("no variadic yet"), Call("param"), Add>>, p ** "list",
             p ** "list")
    <3>1. /\ Fits(Expect(","), p ** "list", p ** "list")
          /\ Fits(Guard("no variadic yet"), p ** "list", p ** "list")
          /\ Fits(Call("param"), p ** "list", p ** "list" ** "node")
          /\ Fits(Add, p ** "list" ** "node", p ** "list")
      BY Longer, ItemsFit, CallFits, ListFits DEF NodeRules
    <3> QED
      BY <3>1, Runs4
  <2> QED
    BY <2>1, LoopFits
<1>2. /\ Fits(Open, p, p ** "list")
      /\ Fits(Call("param"), p ** "list", p ** "list" ** "node")
      /\ Fits(Add, p ** "list" ** "node", p ** "list")
      /\ Fits(Guard("not only variadic"), p ** "list", p ** "list")
  BY Longer, PutFits, CallFits, ListFits, ItemsFit DEF NodeRules
<1> QED
  BY <1>1, <1>2, Runs5 DEF parse_param_list

LEMMA ParamRuns == ASSUME NEW p \in Shapes PROVE Runs(parse_param, p, p ** "node")
<1>1. Fits(If({"..."}, <<Expect("..."), Keep({"id"}), Put(VariadicType), Build("variadic", 2)>>,
              <<Keep({"id"}), Call("type_annotation"), Build("param", 2)>>),
           p, p ** "node")
  <2>1. Runs(<<Expect("..."), Keep({"id"}), Put(VariadicType), Build("variadic", 2)>>, p,
             p ** "node")
    <3>1. Needs("variadic", <<"node">>)
      BY DEF Needs, Literals, Solid
    <3>2. /\ Fits(Expect("..."), p, p)
          /\ Fits(Keep({"id"}), p, p ** "token")
          /\ Fits(Put(VariadicType), p ** "token", p ** "token" ** "node")
          /\ Fits(Build("variadic", 2), p ** "token" ** "node", p ** "node")
      BY <3>1, Longer, ItemsFit, PutFits, BuildsFit DEF Children
    <3> QED
      BY <3>2, Runs4
  <2>2. Runs(<<Keep({"id"}), Call("type_annotation"), Build("param", 2)>>, p, p ** "node")
    <3>1. Needs("param", <<"node">>)
      BY DEF Needs, Literals, Solid
    <3>2. /\ Fits(Keep({"id"}), p, p ** "token")
          /\ Fits(Call("type_annotation"), p ** "token", p ** "token" ** "node")
          /\ Fits(Build("param", 2), p ** "token" ** "node", p ** "node")
      BY <3>1, Longer, ItemsFit, CallFits, BuildsFit DEF NodeRules, Children
    <3> QED
      BY <3>2, Runs3
  <2> QED
    BY <2>1, <2>2, IfFits
<1> QED
  BY <1>1, Runs1 DEF parse_param, VariadicType

LEMMA FieldListRuns == ASSUME NEW p \in Shapes PROVE Runs(parse_field_list, p, p ** "list")
<1>1. Runs(<<Call("field")>>, p ** "list", p ** "list" ** "node")
  BY Longer, CallFits, Runs1 DEF NodeRules
<1> QED
  BY <1>1, Longer, TrailingListRuns DEF parse_field_list

LEMMA FieldRuns == ASSUME NEW p \in Shapes PROVE Runs(parse_field, p, p ** "node")
<1>1. Needs("field", <<"node">>)
  BY DEF Needs, Literals, Solid
<1>2. /\ Fits(Keep({"id"}), p, p ** "token")
      /\ Fits(Call("type_annotation"), p ** "token", p ** "token" ** "node")
      /\ Fits(Build("field", 2), p ** "token" ** "node", p ** "node")
  BY <1>1, Longer, ItemsFit, CallFits, BuildsFit DEF NodeRules, Children
<1> QED
  BY <1>2, Runs3 DEF parse_field

LEMMA EnumValueListRuns == ASSUME NEW p \in Shapes PROVE Runs(parse_enum_value_list, p,
                                                              p ** "list")
<1>1. Runs(<<Call("enum_value")>>, p ** "list", p ** "list" ** "node")
  BY Longer, CallFits, Runs1 DEF NodeRules
<1> QED
  BY <1>1, Longer, TrailingListRuns DEF parse_enum_value_list

LEMMA EnumValueRuns == ASSUME NEW p \in Shapes PROVE Runs(parse_enum_value, p, p ** "node")
<1>1. Fits(Optional({"="}, <<Expect("="), Keep({"int"}), Build("int", 1), Guard("enum value")>>),
           p ** "token", p ** "token" ** "maybe")
  <2>1. Runs(<<Expect("="), Keep({"int"}), Build("int", 1), Guard("enum value")>>, p ** "token",
             p ** "token" ** "maybe")
    <3>1. Needs("int", <<>>)
      BY DEF Needs, Literals, Solid
    <3>2. /\ Fits(Expect("="), p ** "token", p ** "token")
          /\ Fits(Keep({"int"}), p ** "token", p ** "token" ** "token")
          /\ Fits(Build("int", 1), p ** "token" ** "token", p ** "token" ** "maybe")
          /\ Fits(Guard("enum value"), p ** "token" ** "maybe", p ** "token" ** "maybe")
      BY <3>1, Longer, ItemsFit, BuildsFit DEF Children
    <3> QED
      BY <3>2, Runs4
  <2> QED
    BY <2>1, OptionalFits, Longer
<1>2. Needs("value", <<"maybe">>)
  BY DEF Needs, Literals, Solid
<1>3. /\ Fits(Keep({"id"}), p, p ** "token")
      /\ Fits(Build("value", 2), p ** "token" ** "maybe", p ** "node")
  BY <1>2, Longer, ItemsFit, BuildsFit DEF Children
<1> QED
  BY <1>1, <1>3, Runs3 DEF parse_enum_value

LEMMA TypeAnnotationRuns == ASSUME NEW p \in Shapes PROVE Runs(parse_type_annotation, p,
  p ** "node")
<1>1. /\ Fits(Expect(":"), p, p)
      /\ Fits(Call("type"), p, p ** "node")
  BY Longer, ItemsFit, CallFits DEF NodeRules
<1> QED
  BY <1>1, Runs2 DEF parse_type_annotation

LEMMA TypeRuns == ASSUME NEW p \in Shapes PROVE Runs(parse_type_internal, p, p ** "node")
<1>1. Fits(Switch([k \in {"*"} |-> <<Call("pointer_type")>>]
                  ++ [k \in {"["} |-> <<Call("array_type")>>]
                  ++ [k \in {"("} |-> <<Call("tuple_type")>>]
                  ++ [k \in {"fn"} |-> <<Call("function_type")>>]
                  ++ [k \in {"map"} |-> <<Keep({"map"}), Expect("["), Call("type"), Expect(","),
                                          Call("type"), Expect("]"), Build("map", 3)>>]
                  ++ [k \in Primitives |-> <<Keep({k}), Build("primitive", 1)>>]
                  ++ [k \in {"id"} |-> Name("named")],
                  <<Throw>>),
           p, p ** "node")
  <2>1. AllRun([k \in {"*"} |-> <<Call("pointer_type")>>], p, p ** "node")
    BY Longer, CallFits, Runs1 DEF NodeRules, AllRun
  <2>2. AllRun([k \in {"["} |-> <<Call("array_type")>>], p, p ** "node")
    BY Longer, CallFits, Runs1 DEF NodeRules, AllRun
  <2>3. AllRun([k \in {"("} |-> <<Call("tuple_type")>>], p, p ** "node")
    BY Longer, CallFits, Runs1 DEF NodeRules, AllRun
  <2>4. AllRun([k \in {"fn"} |-> <<Call("function_type")>>], p, p ** "node")
    BY Longer, CallFits, Runs1 DEF NodeRules, AllRun
  <2>5. AllRun([k \in {"map"} |-> <<Keep({"map"}), Expect("["), Call("type"), Expect(","),
                                    Call("type"), Expect("]"), Build("map", 3)>>],
               p, p ** "node")
    <3>1. Needs("map", <<"node", "node">>)
      BY DEF Needs, Literals, Solid
    <3>2. /\ Fits(Keep({"map"}), p, p ** "token")
          /\ Fits(Expect("["), p ** "token", p ** "token")
          /\ Fits(Call("type"), p ** "token", p ** "token" ** "node")
          /\ Fits(Expect(","), p ** "token" ** "node", p ** "token" ** "node")
          /\ Fits(Call("type"), p ** "token" ** "node", p ** "token" ** "node" ** "node")
          /\ Fits(Expect("]"), p ** "token" ** "node" ** "node", p ** "token" ** "node" ** "node")
          /\ Fits(Build("map", 3), p ** "token" ** "node" ** "node", p ** "node")
      BY <3>1, Longer, ItemsFit, CallFits, BuildsFit DEF NodeRules, Children
    <3> QED
      BY <3>2, Runs7 DEF AllRun
  <2>6. AllRun([k \in Primitives |-> <<Keep({k}), Build("primitive", 1)>>], p, p ** "node")
    <3>1. ASSUME NEW k \in Primitives PROVE Runs(<<Keep({k}), Build("primitive", 1)>>, p,
                                                 p ** "node")
      <4>1. Needs("primitive", <<>>)
        BY DEF Needs, Literals, Solid
      <4>2. /\ Fits(Keep({k}), p, p ** "token")
            /\ Fits(Build("primitive", 1), p ** "token", p ** "node")
        BY <4>1, Longer, ItemsFit, BuildsFit DEF Children
      <4> QED
        BY <4>2, Runs2
    <3> QED
      BY <3>1 DEF AllRun
  <2>7. AllRun([k \in {"id"} |-> Name("named")], p, p ** "node")
    <3>1. Runs(Name("named"), p, p ** "node")
      <4>1. Needs("named", <<>>)
        BY DEF Needs, Literals, Solid
      <4> QED
        BY <4>1, Longer, NameRuns
    <3> QED
      BY <3>1 DEF AllRun
  <2>8. Runs(<<Throw>>, p, p ** "node")
    BY Longer, ItemsFit, Runs1
  <2> QED
    BY <2>1, <2>2, <2>3, <2>4, <2>5, <2>6, <2>7, <2>8, AllRunMerge, SwitchFits
<1> QED
  BY <1>1, Runs1 DEF parse_type_internal

LEMMA PointerTypeRuns == ASSUME NEW p \in Shapes PROVE Runs(parse_pointer_type, p, p ** "node")
<1>1. Needs("pointer", <<"node">>)
  BY DEF Needs, Literals, Solid
<1>2. /\ Fits(Keep({"*"}), p, p ** "token")
      /\ Fits(Call("type"), p ** "token", p ** "token" ** "node")
      /\ Fits(Build("pointer", 2), p ** "token" ** "node", p ** "node")
  BY <1>1, Longer, ItemsFit, CallFits, BuildsFit DEF NodeRules, Children
<1> QED
  BY <1>2, Runs3 DEF parse_pointer_type

LEMMA ArrayTypeRuns == ASSUME NEW p \in Shapes PROVE Runs(parse_array_type, p, p ** "node")
<1>1. Fits(If({"]"}, <<Put(Nothing)>>, <<Call("expression"), Guard("array size")>>), p ** "token",
           p ** "token" ** "maybe")
  <2>1. Runs(<<Put(Nothing)>>, p ** "token", p ** "token" ** "maybe")
    BY Longer, PutFits, Runs1
  <2>2. Runs(<<Call("expression"), Guard("array size")>>, p ** "token", p ** "token" ** "maybe")
    <3>1. /\ Fits(Call("expression"), p ** "token", p ** "token" ** "maybe")
          /\ Fits(Guard("array size"), p ** "token" ** "maybe", p ** "token" ** "maybe")
      BY Longer, CallFits, ItemsFit DEF NodeRules
    <3> QED
      BY <3>1, Runs2
  <2> QED
    BY <2>1, <2>2, IfFits
<1>2. Needs("array", <<"maybe", "node">>)
  BY DEF Needs, Literals, Solid
<1>3. /\ Fits(Keep({"["}), p, p ** "token")
      /\ Fits(Expect("]"), p ** "token" ** "maybe", p ** "token" ** "maybe")
      /\ Fits(Call("type"), p ** "token" ** "maybe", p ** "token" ** "maybe" ** "node")
      /\ Fits(Build("array", 3), p ** "token" ** "maybe" ** "node", p ** "node")
  BY <1>2, Longer, ItemsFit, CallFits, BuildsFit DEF NodeRules, Children
<1> QED
  BY <1>1, <1>3, Runs5 DEF parse_array_type

LEMMA FunctionTypeRuns == ASSUME NEW p \in Shapes PROVE Runs(parse_function_type, p, p ** "node")
<1>1. Fits(ListUnless(")", CommaList(<<Try>>)), p ** "token", p ** "token" ** "holes")
  <2>1. Runs(CommaList(<<Try>>), p ** "token", p ** "token" ** "holes")
    <3>1. Runs(<<Try>>, p ** "token" ** "holes", p ** "token" ** "holes" ** "maybe")
      BY Longer, ItemsFit, Runs1
    <3> QED
      BY <3>1, Longer, CommaListRuns DEF Listing
  <2> QED
    BY <2>1, ListUnlessFits, Longer
<1>2. Fits(If({":"}, <<Expect(":"), Try>>, <<Put(VoidType)>>), p ** "token" ** "holes",
           p ** "token" ** "holes" ** "maybe")
  <2>1. Runs(<<Expect(":"), Try>>, p ** "token" ** "holes", p ** "token" ** "holes" ** "maybe")
    <3>1. /\ Fits(Expect(":"), p ** "token" ** "holes", p ** "token" ** "holes")
          /\ Fits(Try, p ** "token" ** "holes", p ** "token" ** "holes" ** "maybe")
      BY Longer, ItemsFit
    <3> QED
      BY <3>1, Runs2
  <2>2. Runs(<<Put(VoidType)>>, p ** "token" ** "holes", p ** "token" ** "holes" ** "maybe")
    BY Longer, PutFits, Runs1
  <2> QED
    BY <2>1, <2>2, IfFits
<1>3. Needs("function", <<"holes", "maybe">>)
  BY DEF Needs, Literals, Solid
<1>4. /\ Fits(Keep({"fn"}), p, p ** "token")
      /\ Fits(Expect("("), p ** "token", p ** "token")
      /\ Fits(Expect(")"), p ** "token" ** "holes", p ** "token" ** "holes")
      /\ Fits(Build("function", 3), p ** "token" ** "holes" ** "maybe", p ** "node")
  BY <1>3, Longer, ItemsFit, BuildsFit DEF Children
<1> QED
  BY <1>1, <1>2, <1>4, Runs6 DEF parse_function_type

LEMMA TupleTypeRuns == ASSUME NEW p \in Shapes PROVE Runs(parse_tuple_type, p, p ** "node")
<1>1. Fits(ListUnless(")", CommaList(<<Call("type")>>)), p ** "token", p ** "token" ** "list")
  <2>1. Runs(CommaList(<<Call("type")>>), p ** "token", p ** "token" ** "list")
    <3>1. Runs(<<Call("type")>>, p ** "token" ** "list", p ** "token" ** "list" ** "node")
      BY Longer, CallFits, Runs1 DEF NodeRules
    <3> QED
      BY <3>1, Longer, CommaListRuns DEF Listing
  <2> QED
    BY <2>1, ListUnlessFits, Longer
<1>2. Needs("tuple", <<"list">>)
  BY DEF Needs, Literals, Solid
<1>3. /\ Fits(Keep({"("}), p, p ** "token")
      /\ Fits(Expect(")"), p ** "token" ** "list", p ** "token" ** "list")
      /\ Fits(Guard("tuple size"), p ** "token" ** "list", p ** "token" ** "list")
      /\ Fits(Build("tuple", 2), p ** "token" ** "list", p ** "node")
  BY <1>2, Longer, ItemsFit, BuildsFit DEF Children
<1> QED
  BY <1>1, <1>3, Runs5 DEF parse_tuple_type

LEMMA StatementRuns == ASSUME NEW p \in Shapes PROVE Runs(parse_statement, p, p ** "node")
<1>1. ASSUME NEW k \in DOMAIN StatementRule PROVE StatementRule[k] \in NodeRules
  BY DEF StatementRule, NodeRules
<1>2. AllRun([k \in DOMAIN StatementRule |-> <<Call(StatementRule[k])>>], p, p ** "node")
  BY <1>1, CallFits, Runs1 DEF AllRun
<1>3. AllRun([k \in {"{"} |-> <<Call("block")>>], p, p ** "node")
  BY CallFits, Runs1 DEF NodeRules, AllRun
<1>4. Runs(<<Call("expression_stmt")>>, p, p ** "node")
  BY CallFits, Runs1 DEF NodeRules
<1>5. Fits(Switch([k \in DOMAIN StatementRule |-> <<Call(StatementRule[k])>>]
                  ++ [k \in {"{"} |-> <<Call("block")>>],
                  <<Call("expression_stmt")>>),
           p, p ** "node")
  BY <1>2, <1>3, <1>4, AllRunMerge, SwitchFits
<1> QED
  BY <1>5, Runs1 DEF parse_statement

LEMMA BlockRuns == ASSUME NEW p \in Shapes PROVE Runs(parse_block, p, p ** "node")
<1>1. Fits(Until({"}"}, <<Call("statement"), Add>>), p ** "token" ** "list",
           p ** "token" ** "list")
  <2>1. Runs(<<Call("statement"), Add>>, p ** "token" ** "list", p ** "token" ** "list")
    <3>1. /\ Fits(Call("statement"), p ** "token" ** "list", p ** "token" ** "list" ** "node")
          /\ Fits(Add, p ** "token" ** "list" ** "node", p ** "token" ** "list")
      BY Longer, CallFits, ListFits DEF NodeRules
    <3> QED
      BY <3>1, Runs2
  <2> QED
    BY <2>1, LoopFits
<1>2. Needs("block", <<"list">>)
  BY DEF Needs, Literals, Solid
<1>3. /\ Fits(Keep({"{"}), p, p ** "token")
      /\ Fits(Open, p ** "token", p ** "token" ** "list")
      /\ Fits(Expect("}"), p ** "token" ** "list", p ** "token" ** "list")
      /\ Fits(Build("block", 2), p ** "token" ** "list", p ** "node")
  BY <1>2, Longer, ItemsFit, PutFits, BuildsFit DEF Children
<1> QED
  BY <1>1, <1>3, Runs5 DEF parse_block

LEMMA IfStmtRuns == ASSUME NEW p \in Shapes PROVE Runs(parse_if_stmt, p, p ** "node")
<1>1. Fits(Optional({"else"},
                    <<Expect("else"), If({"if"}, <<Call("if_stmt")>>, <<Call("block")>>)>>),
           p ** "token" ** "node" ** "node", p ** "token" ** "node" ** "node" ** "maybe")
  <2>1. Runs(<<Expect("else"), If({"if"}, <<Call("if_stmt")>>, <<Call("block")>>)>>,
             p ** "token" ** "node" ** "node", p ** "token" ** "node" ** "node" ** "maybe")
    <3>1. Fits(If({"if"}, <<Call("if_stmt")>>, <<Call("block")>>),
               p ** "token" ** "node" ** "node", p ** "token" ** "node" ** "node" ** "maybe")
      <4>1. Runs(<<Call("if_stmt")>>, p ** "token" ** "node" ** "node",
                 p ** "token" ** "node" ** "node" ** "maybe")
        BY Longer, CallFits, Runs1 DEF NodeRules
      <4>2. Runs(<<Call("block")>>, p ** "token" ** "node" ** "node",
                 p ** "token" ** "node" ** "node" ** "maybe")
        BY Longer, CallFits, Runs1 DEF NodeRules
      <4> QED
        BY <4>1, <4>2, IfFits
    <3>2. Fits(Expect("else"), p ** "token" ** "node" ** "node", p ** "token" ** "node" ** "node")
      BY Longer, ItemsFit
    <3> QED
      BY <3>1, <3>2, Runs2
  <2> QED
    BY <2>1, OptionalFits, Longer
<1>2. Needs("if", <<"node", "node", "maybe">>)
  BY DEF Needs, Literals, Solid
<1>3. /\ Fits(Keep({"if"}), p, p ** "token")
      /\ Fits(Call("expression"), p ** "token", p ** "token" ** "node")
      /\ Fits(Call("block"), p ** "token" ** "node", p ** "token" ** "node" ** "node")
      /\ Fits(Build("if", 4), p ** "token" ** "node" ** "node" ** "maybe", p ** "node")
  BY <1>2, Longer, ItemsFit, CallFits, BuildsFit DEF NodeRules, Children
<1> QED
  BY <1>1, <1>3, Runs5 DEF parse_if_stmt

LEMMA WhileStmtRuns == ASSUME NEW p \in Shapes PROVE Runs(parse_while_stmt, p, p ** "node")
<1>1. Needs("while", <<"node", "node">>)
  BY DEF Needs, Literals, Solid
<1>2. /\ Fits(Keep({"while"}), p, p ** "token")
      /\ Fits(Call("expression"), p ** "token", p ** "token" ** "node")
      /\ Fits(Call("block"), p ** "token" ** "node", p ** "token" ** "node" ** "node")
      /\ Fits(Build("while", 3), p ** "token" ** "node" ** "node", p ** "node")
  BY <1>1, Longer, ItemsFit, CallFits, BuildsFit DEF NodeRules, Children
<1> QED
  BY <1>2, Runs4 DEF parse_while_stmt

LEMMA ForStmtRuns == ASSUME NEW p \in Shapes PROVE Runs(parse_for_stmt, p, p ** "node")
<1>1. Fits(Switch([k \in {";"} |-> <<Put(Nothing)>>]
                  ++ [k \in {"var"} |-> <<Expect("var"), Keep({"id"}), Call("type_annotation"),
                                          Expect("="), Call("expression"), Build("var", 3)>>],
                  <<Call("expression")>>),
           p ** "token", p ** "token" ** "maybe")
  <2>1. AllRun([k \in {";"} |-> <<Put(Nothing)>>], p ** "token", p ** "token" ** "maybe")
    BY Longer, PutFits, Runs1 DEF AllRun
  <2>2. AllRun([k \in {"var"} |-> <<Expect("var"), Keep({"id"}), Call("type_annotation"),
                                    Expect("="), Call("expression"), Build("var", 3)>>],
               p ** "token", p ** "token" ** "maybe")
    <3>1. Needs("var", <<"node", "node">>)
      BY DEF Needs, Literals, Solid
    <3>2. /\ Fits(Expect("var"), p ** "token", p ** "token")
          /\ Fits(Keep({"id"}), p ** "token", p ** "token" ** "token")
          /\ Fits(Call("type_annotation"), p ** "token" ** "token",
                  p ** "token" ** "token" ** "node")
          /\ Fits(Expect("="), p ** "token" ** "token" ** "node",
                  p ** "token" ** "token" ** "node")
          /\ Fits(Call("expression"), p ** "token" ** "token" ** "node",
                  p ** "token" ** "token" ** "node" ** "node")
          /\ Fits(Build("var", 3), p ** "token" ** "token" ** "node" ** "node",
                  p ** "token" ** "maybe")
      BY <3>1, Longer, ItemsFit, CallFits, BuildsFit DEF NodeRules, Children
    <3> QED
      BY <3>2, Runs6 DEF AllRun
  <2>3. Runs(<<Call("expression")>>, p ** "token", p ** "token" ** "maybe")
    BY Longer, CallFits, Runs1 DEF NodeRules
  <2> QED
    BY <2>1, <2>2, <2>3, AllRunMerge, SwitchFits
<1>2. Fits(If({";"}, <<Put(Nothing)>>, <<Call("expression")>>), p ** "token" ** "maybe",
           p ** "token" ** "maybe" ** "maybe")
  <2>1. Runs(<<Put(Nothing)>>, p ** "token" ** "maybe", p ** "token" ** "maybe" ** "maybe")
    BY Longer, PutFits, Runs1
  <2>2. Runs(<<Call("expression")>>, p ** "token" ** "maybe", p ** "token" ** "maybe" ** "maybe")
    BY Longer, CallFits, Runs1 DEF NodeRules
  <2> QED
    BY <2>1, <2>2, IfFits
<1>3. Fits(If({"{"}, <<Put(Nothing)>>, <<Call("expression")>>),
           p ** "token" ** "maybe" ** "maybe", p ** "token" ** "maybe" ** "maybe" ** "maybe")
  <2>1. Runs(<<Put(Nothing)>>, p ** "token" ** "maybe" ** "maybe",
             p ** "token" ** "maybe" ** "maybe" ** "maybe")
    BY Longer, PutFits, Runs1
  <2>2. Runs(<<Call("expression")>>, p ** "token" ** "maybe" ** "maybe",
             p ** "token" ** "maybe" ** "maybe" ** "maybe")
    BY Longer, CallFits, Runs1 DEF NodeRules
  <2> QED
    BY <2>1, <2>2, IfFits
<1>4. Needs("for", <<"maybe", "maybe", "maybe", "node">>)
  BY DEF Needs, Literals, Solid
<1>5. /\ Fits(Keep({"for"}), p, p ** "token")
      /\ Fits(Expect(";"), p ** "token" ** "maybe", p ** "token" ** "maybe")
      /\ Fits(Expect(";"), p ** "token" ** "maybe" ** "maybe", p ** "token" ** "maybe" ** "maybe")
      /\ Fits(Call("block"), p ** "token" ** "maybe" ** "maybe" ** "maybe",
              p ** "token" ** "maybe" ** "maybe" ** "maybe" ** "node")
      /\ Fits(Build("for", 5), p ** "token" ** "maybe" ** "maybe" ** "maybe" ** "node",
              p ** "node")
  BY <1>4, Longer, ItemsFit, CallFits, BuildsFit DEF NodeRules, Children
<1> QED
  BY <1>1, <1>2, <1>3, <1>5, Runs8 DEF parse_for_stmt

LEMMA MatchCaseRuns == ASSUME NEW p \in Shapes PROVE Runs(MatchCase, p ** "list", p ** "list")
<1>1. Fits(IfWild(<<Keep({"id"}), Guard("first wildcard"), Put(Nothing)>>,
                  <<Keep({"case"}), Call("expression")>>),
           p ** "list", p ** "list" ** "token" ** "maybe")
  <2>1. Runs(<<Keep({"id"}), Guard("first wildcard"), Put(Nothing)>>, p ** "list",
             p ** "list" ** "token" ** "maybe")
    <3>1. /\ Fits(Keep({"id"}), p ** "list", p ** "list" ** "token")
          /\ Fits(Guard("first wildcard"), p ** "list" ** "token", p ** "list" ** "token")
          /\ Fits(Put(Nothing), p ** "list" ** "token", p ** "list" ** "token" ** "maybe")
      BY Longer, ItemsFit, PutFits
    <3> QED
      BY <3>1, Runs3
  <2>2. Runs(<<Keep({"case"}), Call("expression")>>, p ** "list",
             p ** "list" ** "token" ** "maybe")
    <3>1. /\ Fits(Keep({"case"}), p ** "list", p ** "list" ** "token")
          /\ Fits(Call("expression"), p ** "list" ** "token", p ** "list" ** "token" ** "maybe")
      BY Longer, ItemsFit, CallFits DEF NodeRules
    <3> QED
      BY <3>1, Runs2
  <2> QED
    BY <2>1, <2>2, LookFits
<1>2. Fits(Switch([k \in {"{"} |-> <<Call("block")>>]
                  ++ [k \in {"return"} |-> <<Keep({"return"}), Open,
                                             If({","}, <<>>, <<Call("expression"), Add>>),
                                             Build("return", 2)>>]
                  ++ [k \in {"break", "continue"} |-> <<Keep({k}), Build(k, 1)>>],
                  <<Call("expression")>>),
           p ** "list" ** "token" ** "maybe", p ** "list" ** "token" ** "maybe" ** "node")
  <2>1. AllRun([k \in {"{"} |-> <<Call("block")>>], p ** "list" ** "token" ** "maybe",
               p ** "list" ** "token" ** "maybe" ** "node")
    BY Longer, CallFits, Runs1 DEF NodeRules, AllRun
  <2>2. AllRun([k \in {"return"} |-> <<Keep({"return"}), Open,
                                       If({","}, <<>>, <<Call("expression"), Add>>),
                                       Build("return", 2)>>],
               p ** "list" ** "token" ** "maybe", p ** "list" ** "token" ** "maybe" ** "node")
    <3>1. Fits(If({","}, <<>>, <<Call("expression"), Add>>),
               p ** "list" ** "token" ** "maybe" ** "token" ** "list",
               p ** "list" ** "token" ** "maybe" ** "token" ** "list")
      <4>1. Runs(<<>>, p ** "list" ** "token" ** "maybe" ** "token" ** "list",
                 p ** "list" ** "token" ** "maybe" ** "token" ** "list")
        BY Longer, Runs0
      <4>2. Runs(<<Call("expression"), Add>>,
                 p ** "list" ** "token" ** "maybe" ** "token" ** "list",
                 p ** "list" ** "token" ** "maybe" ** "token" ** "list")
        <5>1. /\ Fits(Call("expression"), p ** "list" ** "token" ** "maybe" ** "token" ** "list",
                      p ** "list" ** "token" ** "maybe" ** "token" ** "list" ** "node")
              /\ Fits(Add, p ** "list" ** "token" ** "maybe" ** "token" ** "list" ** "node",
                      p ** "list" ** "token" ** "maybe" ** "token" ** "list")
          BY Longer, CallFits, ListFits DEF NodeRules
        <5> QED
          BY <5>1, Runs2
      <4> QED
        BY <4>1, <4>2, IfFits
    <3>2. Needs("return", <<"list">>)
      BY DEF Needs, Literals, Solid
    <3>3. /\ Fits(Keep({"return"}), p ** "list" ** "token" ** "maybe",
                  p ** "list" ** "token" ** "maybe" ** "token")
          /\ Fits(Open, p ** "list" ** "token" ** "maybe" ** "token",
                  p ** "list" ** "token" ** "maybe" ** "token" ** "list")
          /\ Fits(Build("return", 2), p ** "list" ** "token" ** "maybe" ** "token" ** "list",
                  p ** "list" ** "token" ** "maybe" ** "node")
      BY <3>2, Longer, ItemsFit, PutFits, BuildsFit DEF Children
    <3> QED
      BY <3>1, <3>3, Runs4 DEF AllRun
  <2>3. AllRun([k \in {"break", "continue"} |-> <<Keep({k}), Build(k, 1)>>],
               p ** "list" ** "token" ** "maybe", p ** "list" ** "token" ** "maybe" ** "node")
    <3>1. ASSUME NEW k \in {"break", "continue"}
          PROVE  Runs(<<Keep({k}), Build(k, 1)>>, p ** "list" ** "token" ** "maybe",
                      p ** "list" ** "token" ** "maybe" ** "node")
      <4>1. Needs(k, <<>>)
        BY DEF Needs, Literals, Solid
      <4>2. /\ Fits(Keep({k}), p ** "list" ** "token" ** "maybe",
                    p ** "list" ** "token" ** "maybe" ** "token")
            /\ Fits(Build(k, 1), p ** "list" ** "token" ** "maybe" ** "token",
                    p ** "list" ** "token" ** "maybe" ** "node")
        BY <4>1, Longer, ItemsFit, BuildsFit DEF Children
      <4> QED
        BY <4>2, Runs2
    <3> QED
      BY <3>1 DEF AllRun
  <2>4. Runs(<<Call("expression")>>, p ** "list" ** "token" ** "maybe",
             p ** "list" ** "token" ** "maybe" ** "node")
    BY Longer, CallFits, Runs1 DEF NodeRules
  <2> QED
    BY <2>1, <2>2, <2>3, <2>4, AllRunMerge, SwitchFits
<1>3. Needs("case", <<"maybe", "node">>)
  BY DEF Needs, Literals, Solid
<1>4. /\ Fits(Expect("=>"), p ** "list" ** "token" ** "maybe", p ** "list" ** "token" ** "maybe")
      /\ Fits(Expect(","), p ** "list" ** "token" ** "maybe" ** "node",
              p ** "list" ** "token" ** "maybe" ** "node")
      /\ Fits(Build("case", 3), p ** "list" ** "token" ** "maybe" ** "node",
              p ** "list" ** "node")
      /\ Fits(Add, p ** "list" ** "node", p ** "list")
  BY <1>3, Longer, ItemsFit, BuildsFit, ListFits DEF Children
<1> QED
  BY <1>1, <1>2, <1>4, Runs6 DEF MatchCase

LEMMA MatchStmtRuns == ASSUME NEW p \in Shapes PROVE Runs(parse_match_stmt, p, p ** "node")
<1>1. Fits(Until({"}"}, MatchCase), p ** "token" ** "node" ** "list",
           p ** "token" ** "node" ** "list")
  <2>1. Runs(MatchCase, p ** "token" ** "node" ** "list", p ** "token" ** "node" ** "list")
    BY Longer, MatchCaseRuns
  <2> QED
    BY <2>1, LoopFits
<1>2. Needs("match", <<"node", "list">>)
  BY DEF Needs, Literals, Solid
<1>3. /\ Fits(Keep({"match"}), p, p ** "token")
      /\ Fits(Call("expression"), p ** "token", p ** "token" ** "node")
      /\ Fits(Expect("{"), p ** "token" ** "node", p ** "token" ** "node")
      /\ Fits(Open, p ** "token" ** "node", p ** "token" ** "node" ** "list")
      /\ Fits(Guard("has wildcard"), p ** "token" ** "node" ** "list",
              p ** "token" ** "node" ** "list")
      /\ Fits(Expect("}"), p ** "token" ** "node" ** "list", p ** "token" ** "node" ** "list")
      /\ Fits(Build("match", 3), p ** "token" ** "node" ** "list", p ** "node")
  BY <1>2, Longer, ItemsFit, CallFits, PutFits, BuildsFit DEF NodeRules, Children
<1> QED
  BY <1>1, <1>3, Runs8 DEF parse_match_stmt

LEMMA ReturnStmtRuns == ASSUME NEW p \in Shapes PROVE Runs(parse_return_stmt, p, p ** "node")
<1>1. Fits(ListUnless(";", CommaList(<<Call("expression")>>)), p ** "token",
           p ** "token" ** "list")
  <2>1. Runs(CommaList(<<Call("expression")>>), p ** "token", p ** "token" ** "list")
    <3>1. Runs(<<Call("expression")>>, p ** "token" ** "list", p ** "token" ** "list" ** "node")
      BY Longer, CallFits, Runs1 DEF NodeRules
    <3> QED
      BY <3>1, Longer, CommaListRuns DEF Listing
  <2> QED
    BY <2>1, ListUnlessFits, Longer
<1>2. Needs("return", <<"list">>)
  BY DEF Needs, Literals, Solid
<1>3. /\ Fits(Keep({"return"}), p, p ** "token")
      /\ Fits(Expect(";"), p ** "token" ** "list", p ** "token" ** "list")
      /\ Fits(Build("return", 2), p ** "token" ** "list", p ** "node")
  BY <1>2, Longer, ItemsFit, BuildsFit DEF Children
<1> QED
  BY <1>1, <1>3, Runs4 DEF parse_return_stmt

LEMMA BreakStmtRuns == ASSUME NEW p \in Shapes PROVE Runs(parse_break_stmt, p, p ** "node")
<1>1. Needs("break", <<>>)
  BY DEF Needs, Literals, Solid
<1>2. /\ Fits(Keep({"break"}), p, p ** "token")
      /\ Fits(Expect(";"), p ** "token", p ** "token")
      /\ Fits(Build("break", 1), p ** "token", p ** "node")
  BY <1>1, Longer, ItemsFit, BuildsFit DEF Children
<1> QED
  BY <1>2, Runs3 DEF parse_break_stmt

LEMMA ContinueStmtRuns == ASSUME NEW p \in Shapes PROVE Runs(parse_continue_stmt, p, p ** "node")
<1>1. Needs("continue", <<>>)
  BY DEF Needs, Literals, Solid
<1>2. /\ Fits(Keep({"continue"}), p, p ** "token")
      /\ Fits(Expect(";"), p ** "token", p ** "token")
      /\ Fits(Build("continue", 1), p ** "token", p ** "node")
  BY <1>1, Longer, ItemsFit, BuildsFit DEF Children
<1> QED
  BY <1>2, Runs3 DEF parse_continue_stmt

LEMMA DeferStmtRuns == ASSUME NEW p \in Shapes PROVE Runs(parse_defer_stmt, p, p ** "node")
<1>1. Fits(If({"{"}, <<Call("block")>>, <<Call("expression"), Expect(";")>>), p ** "token",
           p ** "token" ** "node")
  <2>1. Runs(<<Call("block")>>, p ** "token", p ** "token" ** "node")
    BY Longer, CallFits, Runs1 DEF NodeRules
  <2>2. Runs(<<Call("expression"), Expect(";")>>, p ** "token", p ** "token" ** "node")
    <3>1. /\ Fits(Call("expression"), p ** "token", p ** "token" ** "node")
          /\ Fits(Expect(";"), p ** "token" ** "node", p ** "token" ** "node")
      BY Longer, CallFits, ItemsFit DEF NodeRules
    <3> QED
      BY <3>1, Runs2
  <2> QED
    BY <2>1, <2>2, IfFits
<1>2. Needs("defer", <<"node">>)
  BY DEF Needs, Literals, Solid
<1>3. /\ Fits(Keep({"defer"}), p, p ** "token")
      /\ Fits(Build("defer", 2), p ** "token" ** "node", p ** "node")
  BY <1>2, Longer, ItemsFit, BuildsFit DEF Children
<1> QED
  BY <1>1, <1>3, Runs3 DEF parse_defer_stmt

LEMMA ExpressionStmtRuns == ASSUME NEW p \in Shapes PROVE Runs(parse_expression_stmt, p,
  p ** "node")
<1>1. /\ Fits(Call("expression"), p, p ** "node")
      /\ Fits(Expect(";"), p ** "node", p ** "node")
  BY Longer, CallFits, ItemsFit DEF NodeRules
<1> QED
  BY <1>1, Runs2 DEF parse_expression_stmt

LEMMA ExpressionRuns == ASSUME NEW p \in Shapes PROVE Runs(parse_expression, p, p ** "node")
<1>1. Fits(Call("assignment"), p, p ** "node")
  BY Longer, CallFits DEF NodeRules
<1> QED
  BY <1>1, Runs1 DEF parse_expression

LEMMA AssignmentRuns == ASSUME NEW p \in Shapes PROVE Runs(parse_assignment, p, p ** "node")
<1>1. Fits(If({"=", "+=", "-=", "*=", "/=", "%="},
              <<Keep({"=", "+=", "-=", "*=", "/=", "%="}), Call("assignment"), Assign>>, <<>>),
           p ** "node", p ** "node")
  <2>1. Runs(<<Keep({"=", "+=", "-=", "*=", "/=", "%="}), Call("assignment"), Assign>>,
             p ** "node", p ** "node")
    <3>1. /\ Fits(Keep({"=", "+=", "-=", "*=", "/=", "%="}), p ** "node",
                  p ** "node" ** "assigner")
          /\ Fits(Call("assignment"), p ** "node" ** "assigner",
                  p ** "node" ** "assigner" ** "node")
          /\ Fits(Assign, p ** "node" ** "assigner" ** "node", p ** "node")
      BY Longer, ListFits, CallFits DEF Assigners, NodeRules
    <3> QED
      BY <3>1, Runs3
  <2>2. Runs(<<>>, p ** "node", p ** "node")
    BY Longer, Runs0
  <2> QED
    BY <2>1, <2>2, IfFits
<1>2. Fits(Call("logical_or"), p, p ** "node")
  BY Longer, CallFits DEF NodeRules
<1> QED
  BY <1>1, <1>2, Runs2 DEF parse_assignment

LEMMA CastRuns == ASSUME NEW p \in Shapes PROVE Runs(parse_cast, p, p ** "node")
<1>1. Fits(While({"as"}, <<Keep({"as"}), Try, Build("cast", 3)>>), p ** "node", p ** "node")
  <2>1. Runs(<<Keep({"as"}), Try, Build("cast", 3)>>, p ** "node", p ** "node")
    <3>1. Needs("cast", <<"node", "maybe">>)
      BY DEF Needs, Literals, Solid
    <3>2. /\ Fits(Keep({"as"}), p ** "node", p ** "node" ** "token")
          /\ Fits(Try, p ** "node" ** "token", p ** "node" ** "token" ** "maybe")
          /\ Fits(Build("cast", 3), p ** "node" ** "token" ** "maybe", p ** "node")
      BY <3>1, Longer, ItemsFit, BuildsFit DEF Children
    <3> QED
      BY <3>2, Runs3
  <2> QED
    BY <2>1, LoopFits
<1>2. Fits(Call("unary"), p, p ** "node")
  BY Longer, CallFits DEF NodeRules
<1> QED
  BY <1>1, <1>2, Runs2 DEF parse_cast

LEMMA OperatorsRun ==
  ASSUME NEW p \in Shapes
  PROVE  /\ Runs(parse_logical_or, p, p ** "node") /\ Runs(parse_logical_and, p, p ** "node")
         /\ Runs(parse_equality, p, p ** "node") /\ Runs(parse_comparison, p, p ** "node")
         /\ Runs(parse_bitwise_or, p, p ** "node") /\ Runs(parse_bitwise_xor, p, p ** "node")
         /\ Runs(parse_bitwise_and, p, p ** "node") /\ Runs(parse_shift, p, p ** "node")
         /\ Runs(parse_additive, p, p ** "node") /\ Runs(parse_multiplicative, p, p ** "node")
<1>1. {"logical_and", "equality", "comparison", "bitwise_or", "bitwise_xor", "bitwise_and",
       "shift",
       "additive", "multiplicative", "cast", "unary"} \subseteq NodeRules
  BY DEF NodeRules
<1> QED
  BY <1>1, LeftAssociativeRuns DEF parse_logical_or, parse_logical_and, parse_equality,
    parse_comparison, parse_bitwise_or, parse_bitwise_xor, parse_bitwise_and, parse_shift,
    parse_additive, parse_multiplicative

LEMMA UnaryRuns == ASSUME NEW p \in Shapes PROVE Runs(parse_unary, p, p ** "node")
<1>1. Fits(If({"!", "-", "~", "&", "*"},
              <<Keep({"!", "-", "~", "&", "*"}), Call("unary"), Build("unary", 2)>>,
              <<Call("postfix")>>),
           p, p ** "node")
  <2>1. Runs(<<Keep({"!", "-", "~", "&", "*"}), Call("unary"), Build("unary", 2)>>, p,
             p ** "node")
    <3>1. Needs("unary", <<"node">>)
      BY DEF Needs, Literals, Solid
    <3>2. /\ Fits(Keep({"!", "-", "~", "&", "*"}), p, p ** "token")
          /\ Fits(Call("unary"), p ** "token", p ** "token" ** "node")
          /\ Fits(Build("unary", 2), p ** "token" ** "node", p ** "node")
      BY <3>1, Longer, ItemsFit, CallFits, BuildsFit DEF NodeRules, Children
    <3> QED
      BY <3>2, Runs3
  <2>2. Runs(<<Call("postfix")>>, p, p ** "node")
    BY Longer, CallFits, Runs1 DEF NodeRules
  <2> QED
    BY <2>1, <2>2, IfFits
<1> QED
  BY <1>1, Runs1 DEF parse_unary

LEMMA PostfixRuns == ASSUME NEW p \in Shapes PROVE Runs(parse_postfix, p, p ** "node")
<1>1. Fits(While({"(", "[", ".", "->"},
                 <<Switch([k \in {"("} |-> <<Keep({"("}),
                                             ListUnless(")", <<Call("argument_list")>>),
                                             Expect(")"), Build("call", 3)>>]
                          ++ [k \in {"["} |-> <<Keep({"["}), Call("expression"), Expect("]"),
                                                Build("index", 3)>>]
                          ++ [k \in {"."} |-> <<Expect("."), Keep({"id"}), Build("member", 2)>>]
                          ++ [k \in {"->"} |-> <<Keep({"->"}), Build("unary", 2), Keep({"id"}),
                                                 Build("member", 2)>>],
                          <<>>)>>),
           p ** "node", p ** "node")
  <2>1. Runs(<<Switch([k \in {"("} |-> <<Keep({"("}), ListUnless(")", <<Call("argument_list")>>),
                                         Expect(")"), Build("call", 3)>>]
                      ++ [k \in {"["} |-> <<Keep({"["}), Call("expression"), Expect("]"),
                                            Build("index", 3)>>]
                      ++ [k \in {"."} |-> <<Expect("."), Keep({"id"}), Build("member", 2)>>]
                      ++ [k \in {"->"} |-> <<Keep({"->"}), Build("unary", 2), Keep({"id"}),
                                             Build("member", 2)>>],
                      <<>>)>>,
             p ** "node", p ** "node")
    <3>1. Fits(Switch([k \in {"("} |-> <<Keep({"("}), ListUnless(")", <<Call("argument_list")>>),
                                         Expect(")"), Build("call", 3)>>]
                      ++ [k \in {"["} |-> <<Keep({"["}), Call("expression"), Expect("]"),
                                            Build("index", 3)>>]
                      ++ [k \in {"."} |-> <<Expect("."), Keep({"id"}), Build("member", 2)>>]
                      ++ [k \in {"->"} |-> <<Keep({"->"}), Build("unary", 2), Keep({"id"}),
                                             Build("member", 2)>>],
                      <<>>),
               p ** "node", p ** "node")
      <4>1. AllRun([k \in {"("} |-> <<Keep({"("}), ListUnless(")", <<Call("argument_list")>>),
                                      Expect(")"), Build("call", 3)>>],
                   p ** "node", p ** "node")
        <5>1. Fits(ListUnless(")", <<Call("argument_list")>>), p ** "node" ** "token",
                   p ** "node" ** "token" ** "list")
          <6>1. Runs(<<Call("argument_list")>>, p ** "node" ** "token",
                     p ** "node" ** "token" ** "list")
            BY Longer, CallFits, Runs1 DEF ListNames
          <6> QED
            BY <6>1, ListUnlessFits, Longer
        <5>2. Needs("call", <<"node", "list">>)
          BY DEF Needs, Literals, Solid
        <5>3. /\ Fits(Keep({"("}), p ** "node", p ** "node" ** "token")
              /\ Fits(Expect(")"), p ** "node" ** "token" ** "list",
                      p ** "node" ** "token" ** "list")
              /\ Fits(Build("call", 3), p ** "node" ** "token" ** "list", p ** "node")
          BY <5>2, Longer, ItemsFit, BuildsFit DEF Children
        <5> QED
          BY <5>1, <5>3, Runs4 DEF AllRun
      <4>2. AllRun([k \in {"["} |-> <<Keep({"["}), Call("expression"), Expect("]"),
                                      Build("index", 3)>>],
                   p ** "node", p ** "node")
        <5>1. Needs("index", <<"node", "node">>)
          BY DEF Needs, Literals, Solid
        <5>2. /\ Fits(Keep({"["}), p ** "node", p ** "node" ** "token")
              /\ Fits(Call("expression"), p ** "node" ** "token",
                      p ** "node" ** "token" ** "node")
              /\ Fits(Expect("]"), p ** "node" ** "token" ** "node",
                      p ** "node" ** "token" ** "node")
              /\ Fits(Build("index", 3), p ** "node" ** "token" ** "node", p ** "node")
          BY <5>1, Longer, ItemsFit, CallFits, BuildsFit DEF NodeRules, Children
        <5> QED
          BY <5>2, Runs4 DEF AllRun
      <4>3. AllRun([k \in {"."} |-> <<Expect("."), Keep({"id"}), Build("member", 2)>>],
                   p ** "node", p ** "node")
        <5>1. Needs("member", <<"node">>)
          BY DEF Needs, Literals, Solid
        <5>2. /\ Fits(Expect("."), p ** "node", p ** "node")
              /\ Fits(Keep({"id"}), p ** "node", p ** "node" ** "token")
              /\ Fits(Build("member", 2), p ** "node" ** "token", p ** "node")
          BY <5>1, Longer, ItemsFit, BuildsFit DEF Children
        <5> QED
          BY <5>2, Runs3 DEF AllRun
      <4>4. AllRun([k \in {"->"} |-> <<Keep({"->"}), Build("unary", 2), Keep({"id"}),
                                       Build("member", 2)>>],
                   p ** "node", p ** "node")
        <5>1. /\ Needs("unary", <<"node">>)
              /\ Needs("member", <<"node">>)
          BY DEF Needs, Literals, Solid
        <5>2. /\ Fits(Keep({"->"}), p ** "node", p ** "node" ** "token")
              /\ Fits(Build("unary", 2), p ** "node" ** "token", p ** "node")
              /\ Fits(Keep({"id"}), p ** "node", p ** "node" ** "token")
              /\ Fits(Build("member", 2), p ** "node" ** "token", p ** "node")
          BY <5>1, Longer, ItemsFit, BuildsFit DEF Children
        <5> QED
          BY <5>2, Runs4 DEF AllRun
      <4>5. Runs(<<>>, p ** "node", p ** "node")
        BY Longer, Runs0
      <4> QED
        BY <4>1, <4>2, <4>3, <4>4, <4>5, AllRunMerge, SwitchFits
    <3> QED
      BY <3>1, Runs1
  <2> QED
    BY <2>1, LoopFits
<1>2. Fits(Call("primary"), p, p ** "node")
  BY Longer, CallFits DEF NodeRules
<1> QED
  BY <1>1, <1>2, Runs2 DEF parse_postfix

LEMMA PrimaryRuns == ASSUME NEW p \in Shapes PROVE Runs(parse_primary, p, p ** "node")
<1>1. Fits(Switch([k \in {"int", "float", "string", "char"} |-> <<Keep({k}), Build(k, 1)>>]
                  ++ [k \in {"true", "false"} |-> <<Keep({k}), Build("bool", 1)>>]
                  ++ [k \in {"nil"} |-> <<Keep({k}), Build("nil", 1)>>]
                  ++ [k \in {"id"} |-> <<IfStruct(<<Call("struct_literal")>>, Name("id"))>>]
                  ++ [k \in {"("} |-> <<Expect("("), Call("expression"), Expect(")")>>]
                  ++ [k \in {"["} |-> <<Call("array_literal")>>]
                  ++ [k \in {"fn"} |-> <<Call("lambda")>>],
                  <<Throw>>),
           p, p ** "node")
  <2>1. AllRun([k \in {"int", "float", "string", "char"} |-> <<Keep({k}), Build(k, 1)>>], p,
               p ** "node")
    <3>1. ASSUME NEW k \in {"int", "float", "string", "char"} PROVE Runs(<<Keep({k}),
      Build(k, 1)>>, p, p ** "node")
      <4>1. Needs(k, <<>>)
        BY DEF Needs, Literals, Solid
      <4>2. /\ Fits(Keep({k}), p, p ** "token")
            /\ Fits(Build(k, 1), p ** "token", p ** "node")
        BY <4>1, Longer, ItemsFit, BuildsFit DEF Children
      <4> QED
        BY <4>2, Runs2
    <3> QED
      BY <3>1 DEF AllRun
  <2>2. AllRun([k \in {"true", "false"} |-> <<Keep({k}), Build("bool", 1)>>], p, p ** "node")
    <3>1. ASSUME NEW k \in {"true", "false"} PROVE Runs(<<Keep({k}), Build("bool", 1)>>, p,
                                                        p ** "node")
      <4>1. Needs("bool", <<>>)
        BY DEF Needs, Literals, Solid
      <4>2. /\ Fits(Keep({k}), p, p ** "token")
            /\ Fits(Build("bool", 1), p ** "token", p ** "node")
        BY <4>1, Longer, ItemsFit, BuildsFit DEF Children
      <4> QED
        BY <4>2, Runs2
    <3> QED
      BY <3>1 DEF AllRun
  <2>3. AllRun([k \in {"nil"} |-> <<Keep({k}), Build("nil", 1)>>], p, p ** "node")
    <3>1. ASSUME NEW k \in {"nil"} PROVE Runs(<<Keep({k}), Build("nil", 1)>>, p, p ** "node")
      <4>1. Needs("nil", <<>>)
        BY DEF Needs, Literals, Solid
      <4>2. /\ Fits(Keep({k}), p, p ** "token")
            /\ Fits(Build("nil", 1), p ** "token", p ** "node")
        BY <4>1, Longer, ItemsFit, BuildsFit DEF Children
      <4> QED
        BY <4>2, Runs2
    <3> QED
      BY <3>1 DEF AllRun
  <2>4. AllRun([k \in {"id"} |-> <<IfStruct(<<Call("struct_literal")>>, Name("id"))>>], p,
               p ** "node")
    <3>1. Fits(IfStruct(<<Call("struct_literal")>>, Name("id")), p, p ** "node")
      <4>1. Runs(<<Call("struct_literal")>>, p, p ** "node")
        BY Longer, CallFits, Runs1 DEF NodeRules
      <4>2. Runs(Name("id"), p, p ** "node")
        <5>1. Needs("id", <<>>)
          BY DEF Needs, Literals, Solid
        <5> QED
          BY <5>1, Longer, NameRuns
      <4> QED
        BY <4>1, <4>2, LookFits
    <3> QED
      BY <3>1, Runs1 DEF AllRun
  <2>5. AllRun([k \in {"("} |-> <<Expect("("), Call("expression"), Expect(")")>>], p, p ** "node")
    <3>1. /\ Fits(Expect("("), p, p)
          /\ Fits(Call("expression"), p, p ** "node")
          /\ Fits(Expect(")"), p ** "node", p ** "node")
      BY Longer, ItemsFit, CallFits DEF NodeRules
    <3> QED
      BY <3>1, Runs3 DEF AllRun
  <2>6. AllRun([k \in {"["} |-> <<Call("array_literal")>>], p, p ** "node")
    BY Longer, CallFits, Runs1 DEF NodeRules, AllRun
  <2>7. AllRun([k \in {"fn"} |-> <<Call("lambda")>>], p, p ** "node")
    BY Longer, CallFits, Runs1 DEF NodeRules, AllRun
  <2>8. Runs(<<Throw>>, p, p ** "node")
    BY Longer, ItemsFit, Runs1
  <2> QED
    BY <2>1, <2>2, <2>3, <2>4, <2>5, <2>6, <2>7, <2>8, AllRunMerge, SwitchFits
<1> QED
  BY <1>1, Runs1 DEF parse_primary

LEMMA ArgumentListRuns == ASSUME NEW p \in Shapes PROVE Runs(parse_argument_list, p, p ** "list")
<1>1. Runs(<<If({"@"}, <<Keep({"@"}), Call("type"), Build("type_param", 2)>>,
                <<Call("expression")>>)>>,
           p ** "list", p ** "list" ** "node")
  <2>1. Fits(If({"@"}, <<Keep({"@"}), Call("type"), Build("type_param", 2)>>,
                <<Call("expression")>>),
             p ** "list", p ** "list" ** "node")
    <3>1. Runs(<<Keep({"@"}), Call("type"), Build("type_param", 2)>>, p ** "list",
               p ** "list" ** "node")
      <4>1. Needs("type_param", <<"node">>)
        BY DEF Needs, Literals, Solid
      <4>2. /\ Fits(Keep({"@"}), p ** "list", p ** "list" ** "token")
            /\ Fits(Call("type"), p ** "list" ** "token", p ** "list" ** "token" ** "node")
            /\ Fits(Build("type_param", 2), p ** "list" ** "token" ** "node",
                    p ** "list" ** "node")
        BY <4>1, Longer, ItemsFit, CallFits, BuildsFit DEF NodeRules, Children
      <4> QED
        BY <4>2, Runs3
    <3>2. Runs(<<Call("expression")>>, p ** "list", p ** "list" ** "node")
      BY Longer, CallFits, Runs1 DEF NodeRules
    <3> QED
      BY <3>1, <3>2, IfFits
  <2> QED
    BY <2>1, Runs1
<1> QED
  BY <1>1, Longer, CommaListRuns DEF Listing, parse_argument_list

LEMMA ArrayLiteralRuns == ASSUME NEW p \in Shapes PROVE Runs(parse_array_literal, p, p ** "node")
<1>1. Fits(ListUnless("]", TrailingList("]", <<Call("expression")>>)), p ** "token",
           p ** "token" ** "list")
  <2>1. Runs(TrailingList("]", <<Call("expression")>>), p ** "token", p ** "token" ** "list")
    <3>1. Runs(<<Call("expression")>>, p ** "token" ** "list", p ** "token" ** "list" ** "node")
      BY Longer, CallFits, Runs1 DEF NodeRules
    <3> QED
      BY <3>1, Longer, TrailingListRuns
  <2> QED
    BY <2>1, ListUnlessFits, Longer
<1>2. Needs("array_literal", <<"list">>)
  BY DEF Needs, Literals, Solid
<1>3. /\ Fits(Keep({"["}), p, p ** "token")
      /\ Fits(Expect("]"), p ** "token" ** "list", p ** "token" ** "list")
      /\ Fits(Build("array_literal", 2), p ** "token" ** "list", p ** "node")
  BY <1>2, Longer, ItemsFit, BuildsFit DEF Children
<1> QED
  BY <1>1, <1>3, Runs4 DEF parse_array_literal

LEMMA FieldInitRuns == ASSUME NEW p \in Shapes PROVE Runs(FieldInit, p, p ** "node")
<1>1. Needs("init", <<"node">>)
  BY DEF Needs, Literals, Solid
<1>2. /\ Fits(Keep({"id"}), p, p ** "token")
      /\ Fits(Expect(":"), p ** "token", p ** "token")
      /\ Fits(Call("expression"), p ** "token", p ** "token" ** "node")
      /\ Fits(Build("init", 2), p ** "token" ** "node", p ** "node")
  BY <1>1, Longer, ItemsFit, CallFits, BuildsFit DEF NodeRules, Children
<1> QED
  BY <1>2, Runs4 DEF FieldInit

LEMMA StructLiteralRuns == ASSUME NEW p \in Shapes PROVE Runs(parse_struct_literal, p,
                                                              p ** "node")
<1>1. Runs(<<Keep({"id"})>>, p, p ** "token")
  BY Longer, ItemsFit, Runs1
<1>2. Runs(Enclosed("{", "}", TrailingList("}", FieldInit)), p ** "token", p ** "token" ** "list")
  <2>1. Runs(TrailingList("}", FieldInit), p ** "token", p ** "token" ** "list")
    <3>1. Runs(FieldInit, p ** "token" ** "list", p ** "token" ** "list" ** "node")
      BY Longer, FieldInitRuns
    <3> QED
      BY <3>1, Longer, TrailingListRuns
  <2> QED
    BY <2>1, Longer, EnclosedRuns
<1>3. Runs(<<Keep({"id"})>> \o Enclosed("{", "}", TrailingList("}", FieldInit)), p,
           p ** "token" ** "list")
  BY <1>1, <1>2, RunsConcat
<1>4. Runs(<<Build("struct_literal", 2)>>, p ** "token" ** "list", p ** "node")
  <2>1. Needs("struct_literal", <<"list">>)
    BY DEF Needs, Literals, Solid
  <2>2. Fits(Build("struct_literal", 2), p ** "token" ** "list", p ** "node")
    BY <2>1, Longer, BuildsFit DEF Children
  <2> QED
    BY <2>2, Runs1
<1> QED
  BY <1>3, <1>4, RunsConcat DEF parse_struct_literal

-----------------------------------------------------------------------------
(* Every rule takes the values it is called with to those and one more.    *)

KindMade(r) == IF r \in ListNames THEN "list" ELSE "node"
Promised(f) == \A r \in DOMAIN f : \A p \in Shapes : Runs(f[r], p, p ** KindMade(r))

LEMMA PromisedMerge ==
  ASSUME NEW f, NEW g, Promised(f), Promised(g)
  PROVE  Promised(f ++ g)
<1> SUFFICES ASSUME NEW r \in DOMAIN (f ++ g), NEW p \in Shapes
             PROVE  Runs((f ++ g)[r], p, p ** KindMade(r))
  BY DEF Promised
<1>1. r \in DOMAIN f \cup DOMAIN g /\ (f ++ g)[r] = IF r \in DOMAIN f THEN f[r] ELSE g[r]
  BY DEF ++
<1> QED
  BY <1>1 DEF Promised

(* Every rule of parser_c that returns leaves one value on those it was    *)
(* called with: a node, or for the list rules a list.                      *)
THEOREM RulesRun ==
  ASSUME NEW p \in Shapes
  PROVE  /\ \A r \in NodeRules : Runs(Rules[r], p, p ** "node")
         /\ \A r \in ListNames : Runs(Rules[r], p, p ** "list")
<1>1. Promised(DeclarationRules)
  <2> SUFFICES ASSUME NEW r \in DOMAIN DeclarationRules, NEW q \in Shapes
               PROVE  Runs(DeclarationRules[r], q, q ** KindMade(r))
    BY DEF Promised
  <2> DEFINE twofold == {"fn_decl", "extern_fn_decl", "struct_decl", "extern_struct_decl",
                         "enum_decl", "extern_enum_decl", "var_decl", "extern_var_decl"}
  <2>1. Runs(DeclarationRules["fn_decl"], q, q ** "node")
    <3>1. DeclarationRules["fn_decl"] = parse_fn_decl(FALSE)
      BY DEF DeclarationRules
    <3> QED
      BY <3>1, FnDeclRuns
  <2>2. Runs(DeclarationRules["extern_fn_decl"], q, q ** "node")
    <3>1. DeclarationRules["extern_fn_decl"] = parse_fn_decl(TRUE)
      BY DEF DeclarationRules
    <3> QED
      BY <3>1, ExternFnDeclRuns
  <2>3. Runs(DeclarationRules["struct_decl"], q, q ** "node")
    <3>1. DeclarationRules["struct_decl"] = parse_struct_decl(FALSE)
      BY DEF DeclarationRules
    <3> QED
      BY <3>1, StructDeclRuns
  <2>4. Runs(DeclarationRules["extern_struct_decl"], q, q ** "node")
    <3>1. DeclarationRules["extern_struct_decl"] = parse_struct_decl(TRUE)
      BY DEF DeclarationRules
    <3> QED
      BY <3>1, StructDeclRuns
  <2>5. Runs(DeclarationRules["enum_decl"], q, q ** "node")
    <3>1. DeclarationRules["enum_decl"] = parse_enum_decl(FALSE)
      BY DEF DeclarationRules
    <3> QED
      BY <3>1, EnumDeclRuns
  <2>6. Runs(DeclarationRules["extern_enum_decl"], q, q ** "node")
    <3>1. DeclarationRules["extern_enum_decl"] = parse_enum_decl(TRUE)
      BY DEF DeclarationRules
    <3> QED
      BY <3>1, EnumDeclRuns
  <2>7. Runs(DeclarationRules["var_decl"], q, q ** "node")
    <3>1. DeclarationRules["var_decl"] = parse_var_decl(FALSE)
      BY DEF DeclarationRules
    <3> QED
      BY <3>1, VarDeclRuns
  <2>8. Runs(DeclarationRules["extern_var_decl"], q, q ** "node")
    <3>1. DeclarationRules["extern_var_decl"] = parse_var_decl(TRUE)
      BY DEF DeclarationRules
    <3> QED
      BY <3>1, ExternVarDeclRuns
  <2>9. CASE r \in twofold
    <3>1. twofold \cap ListNames = {}
      BY DEF ListNames
    <3> QED
      BY <2>1, <2>2, <2>3, <2>4, <2>5, <2>6, <2>7, <2>8, <2>9, <3>1 DEF KindMade
  <2>10. CASE r \notin twofold
    BY <2>10, ProgramRuns, DeclarationRuns, ImportDeclRuns, CimportDeclRuns, ShardDeclRuns,
       ExternDeclRuns, ConstDeclRuns, LetDeclRuns
    DEF DeclarationRules, KindMade, ListNames
  <2> QED
    BY <2>9, <2>10
<1>2. Promised(PartRules)
  <2> SUFFICES ASSUME NEW r \in DOMAIN PartRules, NEW q \in Shapes
               PROVE  Runs(PartRules[r], q, q ** KindMade(r))
    BY DEF Promised
  <2> QED
    BY LambdaRuns, ParamRuns, FieldRuns, EnumValueRuns, TypeAnnotationRuns, TypeRuns,
       PointerTypeRuns, ArrayTypeRuns, FunctionTypeRuns, TupleTypeRuns
    DEF PartRules, KindMade, ListNames
<1>3. Promised(ListRules)
  <2> SUFFICES ASSUME NEW r \in DOMAIN ListRules, NEW q \in Shapes
               PROVE  Runs(ListRules[r], q, q ** KindMade(r))
    BY DEF Promised
  <2> QED
    BY ParamListRuns, FieldListRuns, EnumValueListRuns, ArgumentListRuns
    DEF ListRules, KindMade, ListNames
<1>4. Promised(StatementRules)
  <2> SUFFICES ASSUME NEW r \in DOMAIN StatementRules, NEW q \in Shapes
               PROVE  Runs(StatementRules[r], q, q ** KindMade(r))
    BY DEF Promised
  <2> QED
    BY StatementRuns, BlockRuns, IfStmtRuns, WhileStmtRuns, ForStmtRuns, MatchStmtRuns,
       ReturnStmtRuns, BreakStmtRuns, ContinueStmtRuns, DeferStmtRuns, ExpressionStmtRuns
    DEF StatementRules, KindMade, ListNames
<1>5. Promised(ExpressionRules)
  <2> SUFFICES ASSUME NEW r \in DOMAIN ExpressionRules, NEW q \in Shapes
               PROVE  Runs(ExpressionRules[r], q, q ** KindMade(r))
    BY DEF Promised
  <2> QED
    BY ExpressionRuns, AssignmentRuns, CastRuns, OperatorsRun, UnaryRuns, PostfixRuns,
       PrimaryRuns,
       ArrayLiteralRuns, StructLiteralRuns
    DEF ExpressionRules, KindMade, ListNames
<1>6. Promised(Rules)
  <2>1. Promised(DeclarationRules ++ PartRules)
    BY <1>1, <1>2, PromisedMerge
  <2>2. Promised(DeclarationRules ++ PartRules ++ ListRules)
    BY <2>1, <1>3, PromisedMerge
  <2>3. Promised(DeclarationRules ++ PartRules ++ ListRules ++ StatementRules)
    BY <2>2, <1>4, PromisedMerge
  <2> QED
    BY <2>3, <1>5, PromisedMerge DEF Rules
<1>7. DOMAIN Rules = DOMAIN DeclarationRules \cup DOMAIN PartRules \cup DOMAIN ListRules
                       \cup DOMAIN StatementRules \cup DOMAIN ExpressionRules
  <2>1. \A f, g : DOMAIN (f ++ g) = DOMAIN f \cup DOMAIN g
    BY DEF ++
  <2>2. DOMAIN (DeclarationRules ++ PartRules) = DOMAIN DeclarationRules \cup DOMAIN PartRules
    BY <2>1, Zenon
  <2>3. DOMAIN (DeclarationRules ++ PartRules ++ ListRules)
          = DOMAIN (DeclarationRules ++ PartRules) \cup DOMAIN ListRules
    BY <2>1, Zenon
  <2>4. DOMAIN (DeclarationRules ++ PartRules ++ ListRules ++ StatementRules)
          = DOMAIN (DeclarationRules ++ PartRules ++ ListRules) \cup DOMAIN StatementRules
    BY <2>1, Zenon
  <2>5. DOMAIN Rules = DOMAIN (DeclarationRules ++ PartRules ++ ListRules ++ StatementRules)
                         \cup DOMAIN ExpressionRules
    BY <2>1, Zenon DEF Rules
  <2> QED
    BY <2>2, <2>3, <2>4, <2>5, Zenon
<1>8. /\ \A r \in NodeRules : r \in DOMAIN Rules /\ r \notin ListNames
      /\ \A r \in ListNames : r \in DOMAIN Rules
  <2>1. ASSUME NEW r \in NodeRules PROVE r \in DOMAIN Rules /\ r \notin ListNames
    BY <1>7 DEF NodeRules, ListNames, DeclarationRules, PartRules, StatementRules, ExpressionRules
  <2>2. ASSUME NEW r \in ListNames PROVE r \in DOMAIN Rules
    BY <1>7 DEF ListNames, DeclarationRules, ListRules
  <2> QED
    BY <2>1, <2>2
<1> QED
  BY <1>6, <1>8 DEF Promised, KindMade
=============================================================================
