------------------------------ MODULE MCParser ------------------------------
(***************************************************************************)
(* Model checking of Parser on families of texts: every pair of operators  *)
(* of different levels, every statement and declaration, types that are    *)
(* right, wrong and cut short, and texts at the limits of the tokenizer.   *)
(***************************************************************************)
EXTENDS Parser

-----------------------------------------------------------------------------
(* Texts.                                                                  *)

\* an operator of each level, two of the levels that have more than one spelling
Infix == {"=", "+=", "||", "&&", "==", "<", "|", "^", "&", "<<", "+", "-", "*"}

Expressions ==
    {"a " \o x \o " b " \o y \o " c" : x, y \in Infix}
      \cup {"a as i32 " \o x \o " b" : x \in Infix}
      \cup {x \o "a" \o y \o " * b" : x \in {"!", "*", "&", "-"},
                                    y \in {".b", "->b", "[1]", "(b)", " as u8"}}
      \cup {"a * b as i32", "a - (b - c) - d", "(a + b) * c", "(a + b) += c", "f(a) += 1",
            "a[f(b)] = 1", "a[b + 1]->c *= d += 2", "a[f(b)] += 1", "(a + f()) *= b", "f() = 3", "*p += q", "a.b[c].d -= 1",
            "f(a, b + c)(d)[e]", "g(@i32, a)", "g(@*void)", "g(a,)", "[1, 2 + 3,]", "[,]", "[]",
            "S{a: 1, b: x + 1,}", "S{}", "S{a}", "S {", "-!~*&a", "a.1", "nil == true",
            "fn(x: i32): i32 x + 1", "fn() {} + 1", "a * fn(): i32 b + c", "fn(...r) 1", "", "a b",
            "a +", "(a", "a as", "a as fn(*)", "a as fn(i32, *): u8", "a[b as [3]]", "a as [c]",
            "a as (i32)", "(a as (u8, *)) + 1", "a as u8 as i32"}

Types ==
    {"i32", "**bool", "[]u8", "[4][]f32", "[0x1F]i32", "[0b]i32", "[0b1]i32", "[0o9]i32", "[a]i32", "[3", "(i32, *u8)",
     "(i32)", "()", "fn()", "fn(i32, S): []S", "fn(*)", "fn(,)", "map[i32, map[*i8, S]]", "map[i32]", "5"}

Statements ==
    {"if a { } else if b { c(); } else { }", "if a { b }", "if S { } }", "while a < 2 { break; }", "while S {}",
     "for var i: i32 = 0; i < 2; i += 1 { continue; }", "for ;; { }", "for i = 0; ; i { }", "for i { }",
     "match a { case 1 => b, case 'c' => { }, case \"s\" => return, _ => break, }",
     "match a { case 1 => return b, case 2 => continue, }", "match a { _ => b, _ => c, }",
     "match S { _ => b, case 1 => c, }", "match a { _ => b }", "return;", "return a, b + 1;", "return ,",
     "defer f(a);", "defer { f(); }", "break", "let a, b = f();", "let a = 1, 2;", "{ { } }", "a; b", "}"}

TopLevel ==
    {"struct S { a: i32, b: *S, }", "struct S;", "struct S { a }", "extern struct T;", "extern struct T { a: i32 }",
     "enum E : i32 { A, B = 0x1F, C = 2, }", "enum E : u8;", "enum E { A }", "enum E : i32 { A = 0x }",
     "enum E : i32 { A = B }", "extern enum E : i32 { A }", "extern fn f(a: i32, ...r): i32;", "extern fn f() {}",
     "extern var v: i32;", "extern var v: i32 = 1;", "extern const c: i32 = 1;", "fn f(...a);", "fn f(a: i32, ...b, c: i32) {}",
     "fn f(a: i32, b: S): (i32, u8) { return a, b; }", "import \"a.truk\"; shard \"s\"; cimport <a.h>; cimport \"b.h\";",
     "cimport <a.h;", "cimport <", "cimport a;", "import a;", "shard;", "x", "var a;", "const c: i32;"}

Edges ==
    {"", "  // a", "a", "/* a", "/**/ /*/ a", "/* a */ // b */", "const a: i32 = 1 /* + */ - // 2", "\"a", "\"a\\\"b\" c", "\"a\\",
     "'a'", "''", "'a", "'\\n''\\q'", "'\\x4f'", "'\\x4g'", "'\\", "0x 0b2 0o8 1.e 1.5e+ 1e3 1..2", "$ a#b", "...->=>>=<<===!==&&&|||",
     "+++=*/=%%=--=->", "a1_ _1a 1a fn1 fn mapfn"}

MCSources ==
    {"const x: i32 = " \o e \o ";" : e \in Expressions}
      \cup {"var x: " \o t \o ";" : t \in Types}
      \cup {"fn f() { " \o s \o " }" : s \in Statements}
      \cup TopLevel \cup Edges

-----------------------------------------------------------------------------
(* The tokens.                                                             *)

Done == phase \in {"parsed", "failed"}

\* blanks and whole comments; at the end of the file also one that is never closed
RECURSIVE IsGap(_, _)
IsGap(text, final) ==
    \/ text = ""
    \/ \E i \in 1..Len(text) :
         /\ IsGap(SubSeq(text, i + 1, Len(text)), final)
         /\ LET one == SubSeq(text, 1, i)
            IN  \/ one \in Blanks
                \/ /\ Prefix(one) = "//"
                   /\ \A j \in 1..i : Char(one, j) = "\n" => j = i
                \/ /\ Prefix(one) = "/*" /\ i >= 4
                   /\ SubSeq(one, i - 1, i) = "*/"
                   /\ \A j \in 3..(i - 2) : SubSeq(one, j, j + 1) # "*/"
                \/ Prefix(one) = "/*" /\ i = Len(text) /\ final

\* The tokens lie one behind the other in the text, each with the characters it was cut from,
\* and what is between two of them is blanks and comments only: nothing is lost and nothing is
\* read twice, whatever mix of comments, strings and operators the text has.
TokensTileTheText ==
    Done => \A i \in DOMAIN tokens :
        LET t    == tokens[i]
            from == IF i = 1 THEN 1 ELSE tokens[i - 1].at + Len(tokens[i - 1].text)
        IN  /\ from <= t.at
            /\ Text(source, t.at, t.at + Len(t.text)) = t.text
            /\ IsGap(Text(source, from, t.at), t.kind = "eof")

\* A word, a number or an operator is never cut short: no operator that starts at the token is
\* longer than it, no letter or digit follows a word and no digit a number.
TokensAreLongest ==
    Done => \A i \in DOMAIN tokens :
        LET t     == tokens[i]
            after == Char(source, t.at + Len(t.text))
        IN  /\ t.kind \in Operators =>
                 \A o \in Operators :
                     (\A j \in 1..Len(o) : Char(source, t.at + j - 1) = Char(o, j)) => Len(o) <= Len(t.text)
            /\ t.kind \in Keywords \cup {"id"} => after \notin Letters \cup Digits
            /\ t.kind = "int" /\ Prefix(t.text) \notin {"0b", "0B", "0o", "0O"} => after \notin Digits

-----------------------------------------------------------------------------
(* The tree.                                                               *)

Nodes == NodesOf(Tree)

Levels == <<{"||"}, {"&&"}, {"==", "!="}, {"<", "<=", ">", ">="}, {"|"}, {"^"}, {"&"},
            {"<<", ">>"}, {"+", "-"}, {"*", "/", "%"}>>

Level(op) == CHOOSE l \in DOMAIN Levels : op \in Levels[l]

\* brackets that are open at a token
Depth(p) ==
    LET count(kinds) == Cardinality({i \in 1..(p - 1) : tokens[i].kind \in kinds})
    IN  count({"(", "[", "{"}) - count({")", "]", "}"})

\* the binary operators that were written at the top of an operand, brackets around it apart
RECURSIVE Loose(_, _)
Loose(n, depth) ==
    IF n.k \notin {"binary", "unary", "cast", "member", "call", "index"} THEN {}
    ELSE (IF n.k = "binary" /\ Depth(n.p) = depth THEN {n} ELSE {})
           \cup UNION {Loose(n.c[i], depth) : i \in DOMAIN n.c}

\* In an accepted program every operator has taken operands that bind tighter than it does, on
\* its left also ones of its own level, and brackets, casts and prefix operators hold together
\* what they were put around.
OperatorsBind ==
    phase = "parsed" =>
        \A n \in Nodes :
            /\ n.k = "binary" /\ tokens[n.p].kind = n.v =>
                 /\ \A m \in Loose(n.c[1], Depth(n.p)) : Level(m.v) >= Level(n.v)
                 /\ \A m \in Loose(n.c[2], Depth(n.p)) : Level(m.v) > Level(n.v)
            /\ n.k \in {"unary", "cast", "member", "call", "index"} /\ n.p # 0 =>
                 Loose(n.c[1], Depth(n.p)) = {}

\* the positions of the tokens in a tree, as they were written; the copy of a compound target apart
RECURSIVE Written(_)
Written(n) ==
    LET kids(from) == FlattenSeq([i \in 1..(Len(n.c) - from + 1) |-> Written(n.c[from + i - 1])])
        own        == IF n.p = 0 THEN <<>> ELSE <<n.p>>
    IN  CASE Compound(n) -> Written(n.c[1]) \o own \o Written(n.c[2].c[2])
          [] n.k \in {"binary", "assign", "cast", "member", "call", "index"}
               \/ (n.k = "unary" /\ tokens[n.p].kind = "->") -> Written(n.c[1]) \o own \o kids(2)
          [] OTHER -> own \o kids(1)

\* where a null type that parse_type has returned instead of an error stands
Holes == {n \in Nodes : \/ n.k = "cast" /\ n.c[2].k = "nothing"
                        \/ n.k = "function" /\ \/ n.c[2].k = "nothing"
                                               \/ \E i \in DOMAIN n.c[1].c : n.c[1].c[i].k = "nothing"}

\* Every name and every literal of an accepted program is in its tree, once and in its place,
\* unless parse_type has swallowed an error, whose tokens are gone, or it is part of a cimport.
EveryNameIsKept ==
    phase = "parsed" /\ Holes = {} /\ Cimports = <<>> =>
        LET leaf(p) == tokens[p].kind \in Literals \cup {"id", "true", "false"}
        IN  SelectSeq(Written(Tree), leaf) = SelectSeq([p \in DOMAIN tokens |-> p], leaf)

\* Every text is read to an end: a program or an error.
ParseEnds == <>Done
=============================================================================
