--------------------------- MODULE SymbolCollector ---------------------------
(***************************************************************************)
(* The passes over a declaration that need no types: symbol_collector_c    *)
(* and lambda_capture_validator_c (typecheck.cpp), and                     *)
(* control_flow_checker_c (control_flow_checker.cpp).                      *)
(*                                                                         *)
(* A node is the record of module Parser, c its children in the order in   *)
(* which all three visit them; their visit functions for types do nothing. *)
(* The two first walk the same tree in the same order, so the number under *)
(* which the collector has made a scope finds the scope of a node again,   *)
(* as scope_map does.                                                      *)
(***************************************************************************)
EXTENDS TypeEntries

TypeNodes == {"primitive", "named", "pointer", "array", "function", "map", "tuple", "type_param"}

\* parameters that are registered: the variadic one is not
Names(list) == {list.c[i].v : i \in {j \in DOMAIN list.c : list.c[j].k # "variadic"}}

-----------------------------------------------------------------------------
(* symbol_collector_c: the scopes of a declaration, each with the names    *)
(* that are declared anywhere in it.  here is _current_scope; scope 1 is   *)
(* the global one.                                                         *)

Scope(kind, parent) == [kind |-> kind, parent |-> parent, names |-> {}]

NoSymbols == [scopes |-> <<Scope("GLOBAL", 0)>>, here |-> 1]

Opened(r, kind) == [scopes |-> Append(r.scopes, Scope(kind, r.here)), here |-> Len(r.scopes) + 1]
Declared(r, names) == [r EXCEPT !.scopes[r.here].names = @ \cup names]

RECURSIVE collect(_, _)
collect(n, r) ==
    LET all(acc)       == InOrder(LAMBDA a, child : collect(child, a), acc, n.c)
        in(kind, names) == [all(Declared(Opened(r, kind), names)) EXCEPT !.here = r.here]
    IN  CASE n.k \in TypeNodes -> r
          [] n.k = "fn"     -> LET f == Declared(r, {n.v})
                               IN  [all(Declared(Opened(f, "FUNCTION"), Names(n.c[1]))) EXCEPT !.here = r.here]
          [] n.k = "lambda" -> in("LAMBDA", Names(n.c[1]))
          [] n.k \in {"for", "block"}      -> in("BLOCK", {})
          [] n.k \in {"var", "extern var"} -> Declared(all(r), {n.v})
          [] n.k = "let"    -> Declared(all(r), Names(n.c[1]) \ {"_"})
          [] OTHER          -> all(r)

\* what a declaration leaves in the global context of _memory: a symbol without its real type
Placeholders(d) ==
    CASE d.k = "fn" -> d.v :> Entry("FUNCTION", d.v)
      [] d.k \in {"var", "extern var"} -> d.v :> Entry("PRIMITIVE", "var")
      [] OTHER -> <<>>

-----------------------------------------------------------------------------
(* lambda_capture_validator_c: made is how many scopes have been found     *)
(* again, lambda the scope of _current_lambda or 0, captured the errors.   *)

RECURSIVE IsWithin(_, _, _)
IsWithin(scopes, s, outer) ==
    s # 0 /\ (s = outer \/ (scopes[s].kind # "GLOBAL" /\ IsWithin(scopes, scopes[s].parent, outer)))

\* the innermost scope around s that declares the name, anywhere in it
RECURSIVE FoundIn(_, _, _)
FoundIn(scopes, s, name) ==
    IF s = 0 \/ name \in scopes[s].names THEN s ELSE FoundIn(scopes, scopes[s].parent, name)

\* bug: only the parameters of the function are captured
Captures_Parameters(scopes, s, lambda, name) ==
    LET found == FoundIn(scopes, s, name)
    IN  lambda # 0 /\ found # 0 /\ scopes[found].kind = "FUNCTION" /\ ~IsWithin(scopes, found, lambda)

Captures(scopes, s, lambda, name) ==
    LET found == FoundIn(scopes, s, name)
    IN  /\ lambda # 0 /\ found # 0
        /\ scopes[found].kind # "GLOBAL"
        /\ ~IsWithin(scopes, found, lambda)

RECURSIVE captures(_, _, _)
captures(n, scopes, r) ==
    LET all(acc) == InOrder(LAMBDA a, child : captures(child, scopes, a), acc, n.c)
        enter    == [r EXCEPT !.made = @ + 1, !.here = r.made + 1]
        leave(q) == [q EXCEPT !.here = r.here, !.lambda = r.lambda]
    IN  CASE n.k \in TypeNodes            -> r
          [] n.k \in {"fn", "for", "block"} -> leave(all(enter))
          [] n.k = "lambda"               -> leave(all([enter EXCEPT !.lambda = r.made + 1]))
          [] n.k = "id" /\ Captures(scopes, r.here, r.lambda, n.v) -> [r EXCEPT !.captured = Append(@, n.v)]
          [] OTHER                        -> all(r)

validate_lambda_captures(d, scopes) ==
    captures(d, scopes, [made |-> 1, here |-> 1, lambda |-> 0, captured |-> <<>>]).captured

-----------------------------------------------------------------------------
(* control_flow_checker_c: the first return, break or continue it meets,   *)
(* after which it looks no further; a jump is a break or continue of no    *)
(* loop of the code it was given.                                          *)

RECURSIVE ControlFlow(_, _)
ControlFlow(n, loop) ==
    LET Among(c, in_loop) ==
          FoldLeft(LAMBDA found, child : IF found = "none" THEN ControlFlow(child, in_loop) ELSE found,
                   "none", c)
        Then(found, other) == IF found = "none" THEN other ELSE found
        body == n.c[Len(n.c)]
    IN  CASE n.k \in TypeNodes \cup {"fn", "lambda", "struct", "enum"} -> "none"
          [] n.k = "return" -> "return"
          [] n.k \in {"break", "continue"} -> IF loop THEN "inner" ELSE "jump"
          [] n.k \in {"while", "for"} ->
               Then(Among(SubSeq(n.c, 1, Len(n.c) - 1), loop), ControlFlow(body, TRUE))
          [] OTHER -> Among(n.c, loop)

check_no_control_flow(n) == ControlFlow(n, FALSE) = "none"
check_no_break_or_continue(n) == ControlFlow(n, FALSE) # "jump"
=============================================================================
