----------------------------- MODULE MCFrontEnd -----------------------------
(***************************************************************************)
(* Model checking of the front end on families of programs, each the       *)
(* product of a construct and the places it may stand in, and what must be *)
(* true of those that are accepted.                                        *)
(***************************************************************************)
EXTENDS FrontEnd

-----------------------------------------------------------------------------
(* Programs.                                                               *)

Prelude ==
    "struct S { a: i32, _b: *S, m: map[i32, i32], } enum E : i32 { A, B = 3, } var g: i32 = 1; const c: i32 = 2; "
      \o "extern fn out(f: *u8, ...r): i32; fn id(x: i32): i32 { return x; } fn two(): (i32, bool) { return 1, true; } "

One(text) == <<[name |-> "lib", text |-> Prelude], [name |-> "main", text |-> text]>>
Body(text) == One("fn f(p: i32, s: *S, q: []u8): i32 { " \o text \o " return 0; }")

\* a name and where it is used
Scoping ==
    {"{ " \o d \o " } v;" : d \in {"var v: i32 = 1;", "let v, w = two();", "const v: i32 = 1;"}}
      \cup {"var v: i32 = " \o e \o ";" : e \in {"v", "1; { var v: i32 = v; }", "g + w", "1; v += p", "f(v, s, q)", "fn(v: i32): i32 v"}}
      \cup {"for var v: i32 = 0; v < 3; v += 1 { let w = v; } " \o x \o ";" : x \in {"v", "w", "p"}}
      \cup {"let l = fn(v: i32): i32 { let w = v; return w; }; " \o x \o ";" : x \in {"v", "w", "l(p)", "l"}}
      \cup {"match p { case 1 => { let v = 1; }, case E.A => v, _ => p = 2, }", "match p { case c => id(p), case 3 => return 2, _ => g += v, }",
            "if p < 2 { let v = 1; } else { v; }", "while g < v { }", "for ; p < 3; p = v { }", "defer { v; } let v = 1;", "let _ = 1; _;"}

\* lambdas and what is around them
Capturing ==
    {d \o " let l = " \o l \o ";" :
        d \in {"var v: i32 = 1;", "const v: i32 = 1;", "let v = p;", "for var v: i32 = 0; v < 1; v += 1 {} let v = 1;", "{ var v: i32 = 2; } let w = 1;"},
        l \in {"fn(): i32 v", "fn(): i32 { let v = 2; return v; }", "fn(): i32 { v; let v = 2; return v; }", "fn(v: i32): i32 v",
               "fn(): i32 { let m = fn(): i32 v; return 1; }", "fn(v: i32): i32 { let m = fn(): i32 { v; return 1; }; return 1; }",
               "fn(): i32 { { var v: i32 = 3; v; } return v; }", "fn(): i32 g + c"}}

\* jumps and where they stand
Jumping ==
    LET jumps  == {"break;", "continue;", "return 1;"}
        places == {<<"", "">>, <<"while p < 3 { ", "}">>, <<"for ;; { match p { case 1 => { ", "}, _ => p, } }">>,
                   <<"while p < 3 { let l = fn(): i32 { ", " return 1; }; }">>,
                   <<"while p < 3 { let l = fn(): i32 { if p < 2 { return 2; } ", " return 1; }; }">>,
                   <<"while g < 3 { let l = fn(): i32 { if g < 2 { return 2; } ", " return 1; }; }">>,
                   <<"let l = fn(): i32 { if g < 2 { return 2; } ", " return 1; };">>,
                   <<"let l = fn(): i32 { while g < 2 { ", "} return 1; };">>,
                   <<"defer { ", "}">>, <<"defer { for ;; { ", "} }">>, <<"for ;; { defer { if g < 2 { ", "} } }">>,
                   <<"defer { let l = fn(): i32 { ", "return 1; }; }">>, <<"for ;; { defer { { out(\"s\"); } match g { case 1 => { ", "}, _ => g, } } }">>}
    IN  {x[1] \o j \o x[2] : x \in places, j \in jumps}

\* a value where a type is expected
Values == {"1", "1.5", "true", "nil", "p", "s", "q", "\"t\"", "&p", "*s", "s->a", "s->m[1]", "[1, 2]", "[p]", "id", "two()", "E.A", "S{ a: 1 }",
           "1 + p", "(p as f64)", "p == 2", "len(q)", "make(@i32)", "make(@i32, len(q))", "make(@map[i32, *[2]i32])", "sizeof(@S)", "fn(x: i32): i32 x", "delete(s)"}
Targets == {"i32", "u64", "f64", "bool", "*i32", "*u8", "*void", "*S", "[]u8", "[2]i32", "S", "E", "fn(i32): i32", "(i32, bool)", "map[i32, i32]"}
Assigning == {"var v: " \o t \o x \o e \o ";" : t \in Targets, x \in {" = ", "; v = "}, e \in Values}

\* a value anywhere else
Placing ==
    LET places == {<<x \o " = ", ";">> : x \in {"g", "s->a", "s->_b", "s->m", "s->m[p]", "q[0]", "*s", "id"}}
                    \cup {<<x, ";">> : x \in {"-", "!", "~", "&", "*", "p + ", "p << ", "1 == ", "s == ", "true && "}}
                    \cup {<<"S{ " \o x \o ": ", " };">> : x \in {"a", "_b", "m", "z"}}
                    \cup {<<"s->m[", "] = 2;">>, <<"s->m[", "];">>, <<"q[", "];">>, <<"[p, ", "];">>, <<"let l = [s, ", "];">>,
                          <<"if ", " { p; }">>, <<"while ", " { p; }">>, <<"for ; ", "; p = 1 { }">>,
                          <<"match ", " { case 1 => g, }">>, <<"match p { case ", " => g, }">>, <<"match s { case ", " => g, _ => p, }">>}
    IN  {x[1] \o e \o x[2] : x \in places, e \in Values}

\* functions whose lambdas return something else
Returning == {"fn h(s: *S): " \o t \o " { let l = fn(): " \o u \o " { return " \o e \o "; }; return " \o x \o "; }" :
                 t \in {"i32", "bool", "(i32, bool)"}, u \in {"bool", "f64"}, e \in {"true", "1"}, x \in {"1", "true", "1, true", "l()"}}

Single == {"p + true;", "!p;", "-true;", "~1.5;", "&id;", "*p;", "p << 1 + 2;", "1 + 2.5;", "1.5 | 2.5;", "p == s;", "s == nil;", "true && p == 1;", "1.5 % p;",
           "id();", "id(1, 2);", "id(true);", "out();", "out(\"a\", 1, true);", "p(1);", "id(@i32);", "two() == two();", "s->b;", "s->_b->a = 2;", "p.a;",
           "s->m[1] = 2; s->m[true] = 2; s->m[1] = nil;", "s->m[1] += 1;", "q[0] = 'c'; q[p] = p; q[true];", "q[1.5];", "s[1].a;", "p[0];", "E.C;", "E.A + 1;",
           "(E.A as i32) + 1;", "1 as E;", "v as i32;", "p as S2;", "let a, b = two(); a + 1; b && true;", "let a, b, d = two();", "let a = out(\"s\"); a + 1;", "let a = s; let b = [p]; let d = make(@map[i32, bool]); let e = &id; let h = fn(x: i32): i32 x;",
           "let a = &s; let b = make(@*S, len(q)); let d = &b; let e = S{ a: 1 }; let h = E.A; let i = 2; let l = 2 < i;", "let a = 1.5; let b = \"s\"; let d = nil; let e = [nil];", "let a, _ = two(); let b = s->m[1]; let d = &q;", "let a = make(@map[i32, bool]); let b = s->m;", "S; E;",
           "[];", "[1, true];", "[v];", "[v, v];", "[delete(s)];", "S{ a: true };", "S{ z: 1 };", "S2{ };", "make();", "make(1);", "make(@i32, 3);", "make(@V);",
           "make(@map[i32, [2]i32]);", "make(@map[S, i32]);", "delete(p);", "delete(q); delete(s);", "len(s);", "len(q, q);", "panic(q);", "panic(\"s\");", "sizeof(p);",
           "each(s->m, s, fn(k: i32, v: *i32, x: *S): bool { return k == *v; });", "each(q, nil, fn(e: *u8, x: *void): bool true);", "each(q, p, fn(e: u8, x: i32): bool true);",
           "each(p, p, id);", "each(q, p);", "each(q, nil, id);", "each(&q[0], nil, fn(e: *u8, x: *void): bool { return false; });", "__TRUK_VA_ARG_I32() + 1;",
           "if p { v; } else { w; }", "if p == 1 { g = 2; } else if true { g = true; } else { g = id(1); }", "match 1.5 { case nil => p, _ => v, }",
           "match s { case nil => p, case &p => g, _ => 1, }", "match q { _ => 1, }", "match v { _ => 1, }"}

Declaring == {"struct T { a: U, b: i32, } fn h(t: T): i32 { return t.b; }", "enum F : f32 { X, }", "enum F : u8 { X, X, } fn h(): F { return F.X; }", "var h: fn(i32): i32 = id; var k: i32 = h(1);",
             "fn h(a: V, b: i32): i32 { return b; } fn k(): i32 { return h(1); }", "fn h(): V { }", "fn h() { } fn k() { return h(); }", "var x: i32 = x as i32;", "const y: i32 = y;",
             "fn k() { h(); } fn h() { }", "var __type__Q: i32 = 1; var q: Q = 1;", "extern var e: i32; extern struct O; var o: *O = nil; fn h() { e = 2; }",
             "var x: bool = true; var y: i32 = v;", "var x: i32 = 1; var a: [1]i32 = [v];", "struct N { n: *N, v: i32, } fn h(n: *N): i32 { return n->n->v; }", "const y: i32 = true;",
             "var x: u8 = 1; var n: *i32 = nil; var m: bool = fn(): i32 1;", "fn len(x: i32): i32 { return x; } fn h() { len(3); }"}

\* two files, with or without a shard in common, and a third that declares names of the first again
Shared ==
    LET owner(shard) == [name |-> "a", text |-> shard \o "struct T { _x: i32, y: i32, } fn _h(): i32 { return 1; } var _v: i32 = 1; fn mk(): T { return T{ y: _h() + _v }; }"]
        user(shard, use) == [name |-> "b", text |-> shard \o "fn f(t: *T): i32 { return " \o use \o "; }"]
    IN  {<<owner(x), user(y, u)>> : x \in {"", "shard \"s\"; ", "shard \"s\"; shard \"t\"; "}, y \in {"", "shard \"t\"; "},
            u \in {"t->_x", "t->y", "_h()", "_v", "mk()._x", "mk().y", "fn(_v: i32): i32 { return _v; }(1)", "fn(): i32 { return _h() + t->y; }()"}}
          \cup {<<owner("shard \"s\"; "), [name |-> "c", text |-> x \o "fn _h(): i32 { return 2; } var _v: i32 = 2; "], user(y, u)>> :
                   x \in {"", "shard \"t\"; "}, y \in {"", "shard \"s\"; ", "shard \"t\"; "}, u \in {"_h()", "_v", "mk().y", "fn(): i32 { return _h() + t->y; }()"}}

MCPrograms ==
    {Body(x) : x \in Scoping \cup Capturing \cup Jumping \cup Assigning \cup Placing \cup Single} \cup {One(x) : x \in Returning \cup Declaring}
      \cup Shared \cup {One("fn f( {"), <<[name |-> "a", text |-> "$"], [name |-> "b", text |-> ""]>>}

-----------------------------------------------------------------------------
(* What a program says: each node with what is around it, found by a walk  *)
(* that knows nothing of the checker.                                      *)
(*    at.file                  its file                                    *)
(*    at.level, at.lambda      how many lambdas it is in, the innermost    *)
(*    at.late                  what the scopes between it and that lambda  *)
(*                             declare anywhere                            *)
(*    at.loop, at.outer        is it in a loop of its function or lambda,  *)
(*                             is that lambda in one                       *)
(*    at.deferred              is it deferred by its function or lambda    *)
(*    at.result                the type its function or lambda returns     *)
(*    env                      the names it may use and what they are      *)

\* E.A names an enum, not an object
IsEnumName(n) == n.k = "id" /\ lookup_type(checker, n.v).kind = "ENUM"

Locals(list) == {x.v : x \in {y \in Range(list) : y.k = "var"}}
                  \cup UNION {Names(x.c[1]) : x \in {y \in Range(list) : y.k = "let"}}

RECURSIVE Walk(_, _, _)
Walk(n, at, r) ==
    LET in(list, around, q) == InOrder(LAMBDA a, child : Walk(child, around, a), q, list)
        here                == [r EXCEPT !.sites = @ \cup {[n |-> n, at |-> at, env |-> r.env]}]
        closed(q)           == [q EXCEPT !.env = r.env]
        bind(q, names, kind, level) ==
            [q EXCEPT !.env = [x \in names |-> [kind |-> kind, level |-> level, file |-> at.file]] @@ @]
        local(kind)         == IF at.top THEN "global" ELSE kind
    IN  CASE n.k \in TypeNodes \cup {"struct", "enum", "extern struct", "extern enum"} -> r
          [] n.k = "fn" ->
               LET f == bind(here, {n.v}, "function", 0)
               IN  [in(<<n.c[3]>>, [at EXCEPT !.top = FALSE, !.result = n.c[2]], bind(f, Names(n.c[1]), "local", 0))
                      EXCEPT !.env = f.env]
          [] n.k = "lambda" ->
               closed(in(<<n.c[3]>>,
                         [at EXCEPT !.top = FALSE, !.level = @ + 1, !.lambda = n, !.late = Names(n.c[1]),
                                    !.outer = at.loop \/ at.outer, !.loop = FALSE, !.deferred = FALSE, !.result = n.c[2]],
                         bind(here, Names(n.c[1]), "local", at.level + 1)))
          [] n.k = "block" -> closed(in(n.c[1].c, [at EXCEPT !.late = @ \cup Locals(n.c[1].c)], here))
          [] n.k = "while" -> in(<<n.c[2]>>, [at EXCEPT !.loop = TRUE], in(<<n.c[1]>>, at, here))
          [] n.k = "for" ->
               LET inside == [at EXCEPT !.late = @ \cup Locals(<<n.c[1]>>)]
               IN  closed(in(<<n.c[3], n.c[4]>>, [inside EXCEPT !.loop = TRUE], in(<<n.c[1], n.c[2]>>, inside, here)))
          [] n.k = "defer" -> in(n.c, [at EXCEPT !.deferred = TRUE], here)
          \* a global may be used in its own initializer
          [] n.k \in {"var", "extern var"} ->
               LET own(q) == bind(q, {n.v}, local("local"), at.level)
               IN  own(in(<<n.c[2]>>, at, IF at.top THEN own(here) ELSE here))
          [] n.k = "const" -> bind(in(<<n.c[2]>>, at, here), {n.v}, "const", at.level)
          [] n.k = "let"   -> bind(in(<<n.c[2]>>, at, here), Names(n.c[1]) \ {"_"}, "local", at.level)
          [] n.k = "member" /\ IsEnumName(n.c[1]) -> here
          [] OTHER -> in(n.c, at, here)

NoResult == Named("primitive", "void", <<>>)

Sites ==
    InOrder(LAMBDA r, x : Walk(x.d, [file |-> x.file, top |-> TRUE, level |-> 0, lambda |-> Nothing, late |-> {}, loop |-> FALSE,
                                     outer |-> FALSE, deferred |-> FALSE, result |-> NoResult], r),
            [env |-> [x \in Builtins |-> [kind |-> "builtin", level |-> 0, file |-> ""]], sites |-> {}], decls).sites

Accepted == verdict = "accepted"

\* the type an expression had in the end, and the type of a type node
TypeAt(x, n) == checker.types[<<x.at.file, n.p, n.k>>]
TypeHere(n)  == resolve_type(n, checker).now

RECURSIVE NodesOf(_)
NodesOf(n) == {n} \cup UNION {NodesOf(n.c[i]) : i \in DOMAIN n.c}

-----------------------------------------------------------------------------
(* Properties.                                                             *)

\* Between two declarations nothing of the one before is left: every scope that was opened for a
\* function, lambda, block or loop has been closed, whatever errors were met in it, and the one
\* that remains has the builtins and the names declared so far and no local name.
ScopesAreClosed ==
    /\ parsed \in 0..Len(program) /\ checked \in 0..Len(decls)
    /\ verdict \in {"", "parse error", "crashed", "rejected", "accepted"}
    /\ ~checker.lost =>
         /\ Len(checker.memory) = 1 /\ checker.returns = NoType /\ ~checker.in_loop
         /\ LET names == {decls[i].d.v : i \in 1..checked}
            IN  DOMAIN checker.memory[1] \subseteq DOMAIN register_builtins \cup names \cup {TypeKey(x) : x \in names}

\* Every name an accepted program uses is declared before it in a scope around it, or is a builtin.
NamesAreDeclared ==
    Accepted => \A x \in Sites : x.n.k = "id" => x.n.v \in DOMAIN x.env

\* No lambda of an accepted program uses a variable or parameter of the code around it, which it
\* could not reach when it runs.  Not seen are constants, which the collector does not know, and
\* uses before a declaration of the same name inside the lambda, which it knows too early.
CapturesAreRejected ==
    Accepted => \A x \in Sites :
        x.n.k = "id" /\ x.n.v \in DOMAIN x.env /\ x.env[x.n.v].kind = "local" /\ x.env[x.n.v].level < x.at.level
          => x.n.v \in x.at.late

\* returns, breaks and continues of the code itself, first to last
RECURSIVE Controls(_)
Controls(n) ==
    CASE n.k \in {"return", "break", "continue"} -> <<n>>
      [] n.k \in TypeNodes \cup {"lambda"}       -> <<>>
      [] OTHER -> FlattenSeq([i \in DOMAIN n.c |-> Controls(n.c[i])])

\* In an accepted program a break or continue is in a loop of its own function or lambda, and
\* deferred code does not jump or return.  A lambda that is written inside a loop is not seen to
\* leave that loop if another return, break or continue comes first in it.
JumpsStayHome ==
    Accepted => \A x \in Sites :
        /\ x.n.k \in {"break", "continue"} =>
             \/ x.at.loop
             \/ x.at.outer /\ Controls(x.at.lambda.c[3])[1] # x.n
        /\ x.n.k \in {"return", "break", "continue"} => ~x.at.deferred

\* No expression of an accepted program is left unchecked: each has been visited, in whatever
\* statement, branch, case or argument it stands.  The entry of a map that is assigned is checked
\* in parts, the type argument of a builtin by the builtin.
NothingIsSkipped ==
    Accepted =>
        LET sites   == Sites
            entries == {x.n.c[1] : x \in {y \in sites : y.n.k = "assign"}}
        IN  \A x \in sites :
               x.n.k \in Expression \ {"type_param"} =>
                 \/ <<x.at.file, x.n.p, x.n.k>> \in DOMAIN checker.types
                 \/ x.n.k = "index" /\ x.n \in entries /\ TypeAt(x, x.n.c[1]).kind = "MAP"

\* an entry all the way down, for a reader who does not ask which function it is: the pointer of a
\* string or nil is one to its name
RECURSIVE Whole(_)
Whole(t) ==
    LET Each(ts) == [i \in DOMAIN ts |-> Whole(ts[i])]
        pointee  == IF t.kind = "POINTER" /\ t.pointee = NoType THEN Primitive(t.name) ELSE t.pointee
    IN  IF t = NoType THEN t
        ELSE [Entry(t.kind, IF t.kind = "FUNCTION" THEN "" ELSE t.name) EXCEPT
                !.pointer_depth = t.pointer_depth, !.array_size = t.array_size, !.variadic = t.variadic,
                !.pointee = Whole(pointee), !.element = Whole(t.element), !.key = Whole(t.key), !.value = Whole(t.value),
                !.elements = Each(t.elements), !.params = Each(t.params), !.return = Whole(t.return)]

\* a type whose node says the same.  Not so: a literal that is no integer, which is made an i32; a
\* string or nil, and all that has such a pointer in it, which has no node; and what a pointer is
\* indexed to, which is still called a pointer
RECURSIVE IsPlain(_)
IsPlain(t) ==
    /\ t.kind # "UNTYPED_FLOAT"
    /\ t.kind = "POINTER" => t.pointee # NoType /\ t.pointer_depth = t.pointee.pointer_depth + 1
    /\ \A x \in {t.pointee, t.element, t.key, t.value, t.return} \cup Range(t.elements) \cup Range(t.params) :
          x # NoType => IsPlain(x)

\* the types that the declarations of a struct give a field
FieldTypes(name, field) ==
    {TypeHere(f.c[1]) : f \in {g \in UNION {Range(decls[i].d.c[1].c) : i \in {j \in DOMAIN decls : decls[j].d.k \in {"struct", "extern struct"} /\ decls[j].d.v = name}} :
                                 g.v = field}}

\* In an accepted program what is returned, passed, stored, tested, matched and computed with has a
\* type that fits the place: the visits in between, of lambdas with other results and of nested
\* expressions, have not put another type in its way.  Not looked at are the targets of casts, the
\* members that are read, the arguments of builtins and, but for assignments and operators, values
\* without a type.
TypesFit ==
    Accepted => \A x \in Sites :
        LET Fits(v, t) == \/ TypeAt(x, v) = NoType
                          \/ is_compatible_for_assignment(t, resolve_untyped_literal(TypeAt(x, v), t))
            IsTest(n)  == Absent(n) \/ TypeAt(x, n) \in {NoType, Primitive("bool")}
            values     == x.n.c[1].c
            result     == TypeHere(x.at.result)
            callee     == TypeAt(x, x.n.c[1])
            args       == x.n.c[2].c
            op         == TypeAt(x, x.n)
            operand(i) == resolve_untyped_literal(TypeAt(x, x.n.c[i]), IF x.n.k = "binary" THEN TypeAt(x, x.n.c[3 - i]) ELSE NoType)
        IN  CASE x.n.k = "return" ->
                   CASE Len(values) = 0 -> result.kind = "VOID_TYPE"
                     [] Len(values) = 1 -> Fits(values[1], result)
                     [] OTHER -> /\ result.kind = "TUPLE" /\ Len(result.elements) = Len(values)
                                 /\ \A i \in DOMAIN values : Fits(values[i], result.elements[i])
              [] x.n.k = "call" ->
                   /\ callee.kind = "FUNCTION"
                   /\ ~callee.builtin =>
                        /\ Len(args) = Len(callee.params) \/ (Len(args) > Len(callee.params) /\ callee.variadic)
                        /\ \A i \in DOMAIN callee.params : Fits(args[i], callee.params[i])
              \* the emitter takes the type of a let from its node
              [] x.n.k = "let" ->
                   LET nodes == checker.inferred[<<x.at.file, x.n.p>>]
                       ts    == IF Len(x.n.c[1].c) = 1 THEN <<TypeAt(x, x.n.c[2])>> ELSE TypeAt(x, x.n.c[2]).elements
                   IN  (\A i \in DOMAIN ts : IsPlain(ts[i])) =>
                         /\ Len(nodes) = Len(x.n.c[1].c)
                         /\ \A i \in DOMAIN ts : Whole(nodes[i]) = Whole(resolve_untyped_literal(ts[i], NoType))
              [] x.n.k \in {"var", "const"} -> Absent(x.n.c[2]) \/ Fits(x.n.c[2], TypeHere(x.n.c[1]))
              \* the entry of a map has the type of its values, any other target the type it is read with
              [] x.n.k = "assign" ->
                   LET target == x.n.c[1]
                       entry  == target.k = "index" /\ TypeAt(x, target.c[1]).kind = "MAP"
                       place  == IF entry THEN TypeAt(x, target.c[1]).value ELSE TypeAt(x, target)
                   IN  NoType \notin {place, TypeAt(x, x.n.c[2])} /\ Fits(x.n.c[2], place)
              [] x.n.k = "struct_literal" ->
                   \A f \in Range(values) : \E t \in FieldTypes(x.n.v, f.v) : Fits(f.c[1], t)
              [] x.n.k = "array_literal" ->
                   /\ op.kind = "ARRAY" /\ op.array_size = Len(values)
                   /\ \A v \in Range(values) : types_equal(op.element, resolve_untyped_literal(TypeAt(x, v), op.element))
              [] x.n.k = "index" ->
                   LET at == TypeAt(x, x.n.c[2])
                   IN  IF callee.kind = "MAP" THEN KeyFits(KeyType(at, callee.key), callee.key)
                       ELSE at.kind = "UNTYPED_INTEGER" \/ is_integer_type(at)
              [] x.n.k \in {"if", "while"} -> IsTest(x.n.c[1])
              [] x.n.k = "for"             -> IsTest(x.n.c[2])
              [] x.n.k = "match" ->
                   \A arm \in {a \in Range(args) : ~Absent(a.c[1])} :
                       LET pattern == TypeAt(x, arm.c[1])
                       IN  \/ pattern = NoType
                           \/ types_equal(callee, resolve_untyped_literal(pattern, callee))
                           \/ /\ callee.kind = "POINTER" /\ pattern.kind = "POINTER"
                              /\ "void" \in {callee.name, pattern.name}
              [] x.n.k = "unary" ->
                   CASE x.n.v = "-" -> is_numeric_type(operand(1)) /\ op = operand(1)
                     [] x.n.v = "~" -> is_integer_type(operand(1)) /\ op = operand(1)
                     [] x.n.v = "!" -> {operand(1), op} = {Primitive("bool")}
                     [] x.n.v = "&" -> operand(1).kind # "FUNCTION" /\ op = PointerTo(operand(1))
                     [] OTHER       -> op.pointer_depth = operand(1).pointer_depth - 1
              [] x.n.k = "binary" ->
                   CASE x.n.v \in Comparing -> /\ op = Primitive("bool") /\ ComparableWith(operand(1), operand(2))
                                               /\ \A i \in 1..2 : is_comparable_type(operand(i))
                     [] x.n.v \in Logical   -> \A i \in 1..2 : types_equal(op, TypeAt(x, x.n.c[i]))
                     [] OTHER -> /\ IF x.n.v \in Arithmetic THEN is_numeric_type(op) ELSE is_integer_type(op)
                                 /\ \A i \in 1..2 : types_equal(op, resolve_untyped_literal(TypeAt(x, x.n.c[i]), op))
              [] OTHER -> TRUE

\* What starts with an underscore stays in its file and in the files that share a shard with it:
\* an accepted program uses no private variable, calls no private function by its name and takes
\* no private field of a struct from anywhere else.
PrivateStaysPrivate ==
    Accepted => \A x \in Sites :
        LET Reaches(file) == \/ file = x.at.file
                             \/ /\ {file, x.at.file} \subseteq DOMAIN checker.shards
                                /\ checker.shards[file] \cap checker.shards[x.at.file] # {}
            Own(kinds, n) == x.env[n.v].kind \in kinds => Reaches(x.env[n.v].file)
            DeclaredIn(t) == {decls[i].file : i \in {j \in DOMAIN decls : decls[j].d.k = "struct" /\ decls[j].d.v = t.name}}
        IN  /\ x.n.k = "id" /\ Char(x.n.v, 1) = "_" => Own({"global"}, x.n)
            /\ x.n.k = "call" /\ x.n.c[1].k = "id" /\ Char(x.n.c[1].v, 1) = "_" => Own({"function"}, x.n.c[1])
            /\ x.n.k = "member" /\ Char(x.n.v, 1) = "_" /\ ~IsEnumName(x.n.c[1]) =>
                 \E file \in DeclaredIn(TypeAt(x, x.n.c[1])) : Reaches(file)

\* The checker never follows a null type and never takes a type for a symbol, but for an array
\* literal whose only element has no type and for names that begin like its keys for types.
OnlyKnownCrashes ==
    verdict = "crashed" =>
        \E i \in DOMAIN decls : \E n \in NodesOf(decls[i].d) :
            \/ n.k = "array_literal" /\ Len(n.c[1].c) = 1
            \/ Len(n.v) >= 8 /\ SubSeq(n.v, 1, 8) = "__type__"

\* Whether a declaration is accepted, and the types its expressions get if it is, does not depend
\* on the type that the declaration before has left in _current_expression_type.  How it is
\* refused does: an array of an undefined name is an error or a crash.
Agree(before, a, b) ==
    LET Accepts(s) == ~s.lost /\ s.errors = before.errors
    IN  (Accepts(a) <=> Accepts(b)) /\ (Accepts(b) => a.types = b.types)

StaleTypesDoNotDecide ==
    [][CheckDeclaration =>
         LET next == decls[checked + 1]
         IN  Agree(checker, checker', check(next.d, next.file, [checker EXCEPT !.now = NoType]))]_vars
=============================================================================
