----------------------------- MODULE TypeChecker -----------------------------
(***************************************************************************)
(* The visit functions of type_checker_c (typecheck.cpp).                  *)
(*                                                                         *)
(* visit(n, s) is the state in which the visit of node n leaves the        *)
(* checker.  A state s has the members of type_checker_c:                  *)
(*    memory     _memory: a function of names per context, innermost last  *)
(*    now        _current_expression_type                                  *)
(*    returns    _current_function_return_type                             *)
(*    in_loop    _in_loop                                                  *)
(*    errors     _detailed_errors, a word for each message                 *)
(*    file       _current_file                                             *)
(*    struct_file, function_file, global_file    the _to_file maps         *)
(*    shards     _file_to_shards                                           *)
(*    inferred   the types set_inferred_types gives the let nodes          *)
(* and two that the code has not: lost, set where the code follows a null  *)
(* pointer or takes a type for a symbol, after which nothing is known; and *)
(* types, the type each expression had when its visit ended.               *)
(***************************************************************************)
EXTENDS SymbolCollector

\* the node of an absent part, of module Parser
Absent(n) == n.k = "nothing"

TypeKey_Plain(name) == name         \* bug: one namespace for types and symbols
TypeKey(name) == "__type__" \o name

Error(s, word) == [s EXCEPT !.errors = Append(@, word)]
Now(s, t)      == [s EXCEPT !.now = t]
Lost(s)        == [s EXCEPT !.lost = TRUE]
Require(s, ok, word) == IF ok THEN s ELSE Error(s, word)

-----------------------------------------------------------------------------
(* Contexts and names.                                                     *)

push_scope(s) == [s EXCEPT !.memory = Append(@, <<>>)]
pop_scope(s)  == [s EXCEPT !.memory = Front(@)]

Set(s, key, entry) == [s EXCEPT !.memory[Len(s.memory)] = key :> entry @@ @]

TypeOf(t)   == [what |-> "type", type |-> t]
SymbolOf(t) == [what |-> "symbol", type |-> t]

register_type(s, name, t)   == Set(s, TypeKey(name), TypeOf(t))
register_symbol(s, name, t) == Set(s, name, SymbolOf(t))

Contexts(s, key) == {i \in DOMAIN s.memory : key \in DOMAIN s.memory[i]}
Found(s, key) == LET cs == Contexts(s, key)
                 IN  s.memory[CHOOSE i \in cs : \A j \in cs : j <= i][key]

\* memory_c keeps types and symbols under one kind of key and the casts of lookup_type and
\* lookup_symbol trust it
Mistaken(s, key, what) == Contexts(s, key) # {} /\ Found(s, key).what # what

lookup_type(s, name) == IF Contexts(s, TypeKey(name)) = {} THEN NoType ELSE Found(s, TypeKey(name)).type

register_builtins ==
    LET typed == {[name |-> TypeKey(x), entry |-> TypeOf(Primitive(x))]
                    : x \in NumericNames \cup {"bool", "void"}}
        known == {[name |-> x, entry |-> SymbolOf([Entry("FUNCTION", x) EXCEPT !.builtin = TRUE])]
                    : x \in Builtins}
    IN  [k \in {e.name : e \in typed \cup known} |-> (CHOOSE e \in typed \cup known : e.name = k).entry]

\* the constructor
Fresh ==
    [memory |-> <<register_builtins>>, now |-> NoType, returns |-> NoType, in_loop |-> FALSE,
     errors |-> <<>>, file |-> "", struct_file |-> <<>>, function_file |-> <<>>, global_file |-> <<>>,
     shards |-> <<>>, inferred |-> <<>>, lost |-> FALSE, types |-> <<>>]

-----------------------------------------------------------------------------
(* resolve_type: the type of a type node, NoType if a name is not known.   *)
(* It returns the type in now; a bad map key is an error at once.          *)

RECURSIVE resolve_type(_, _)
resolve_type(n, s) ==
    LET
        \* the types of a list, up to the first that is not known
        AllOf(list) ==
            InOrder(LAMBDA r, child : IF ~r.ok THEN r
                                       ELSE LET q == resolve_type(child, r.s)
                                            IN  [s |-> q, ok |-> q.now # NoType, ts |-> Append(r.ts, q.now)],
                     [s |-> s, ok |-> TRUE, ts |-> <<>>], list.c)
        named == TypeKey(n.v)
    IN
    CASE n.k \in {"primitive", "named"} ->
           IF Mistaken(s, named, "type") THEN Lost(s) ELSE Now(s, lookup_type(s, n.v))
      [] n.k = "pointer" ->
           LET q == resolve_type(n.c[1], s)
           IN  IF q.now = NoType THEN q ELSE Now(q, PointerTo(q.now))
      [] n.k = "array" ->
           LET q    == resolve_type(n.c[2], s)
               size == IF Absent(n.c[1]) THEN Unsized ELSE ArraySize(n.c[1].v)
           IN  IF q.now = NoType THEN q ELSE Now(q, ArrayOf(q.now, size))
      [] n.k = "function" ->
           LET ps == AllOf(n.c[1])
               q  == resolve_type(n.c[2], ps.s)
           IN  IF ~ps.ok THEN ps.s ELSE IF q.now = NoType THEN q
               ELSE Now(q, [Entry("FUNCTION", "function") EXCEPT !.params = ps.ts, !.return = q.now])
      [] n.k = "map" ->
           LET k == resolve_type(n.c[1], s)
               v == resolve_type(n.c[2], k)
           IN  IF NoType \in {k.now, v.now} THEN Now(v, NoType)
               ELSE IF ~is_valid_map_key_type(k.now) THEN Now(Error(v, "map key"), NoType)
               ELSE Now(v, [Entry("MAP", "map") EXCEPT !.key = k.now, !.value = v.now])
      [] n.k = "tuple" ->
           LET es == AllOf(n.c[1])
           IN  IF ~es.ok THEN es.s ELSE Now(es.s, [Entry("TUPLE", "tuple") EXCEPT !.elements = es.ts])
      [] OTHER -> Now(s, NoType)

\* resolve_type leaves _current_expression_type alone: the type, and the state it leaves
Returned(q, now) == [type |-> q.now, s |-> Now(q, now)]
Resolved(n, s)   == Returned(resolve_type(n, s), s.now)

-----------------------------------------------------------------------------
(* Recurring checks.                                                       *)

\* a literal is adapted to the target and must be assignable to it; without a type nothing is checked
Fit(s, target, word) ==
    LET t == resolve_untyped_literal(s.now, target)
    IN  IF s.now = NoType THEN s
        ELSE Require(Now(s, t), is_compatible_for_assignment(target, t), word)

Condition(s, word) == Require(s, s.now = NoType \/ is_boolean_type(s.now), word)

is_private_identifier(name) == Char(name, 1) = "_"

\* bug: any shards will do
files_share_shard_Any(s, a, b) == {a, b} \subseteq DOMAIN s.shards
files_share_shard(s, a, b) ==
    a \in DOMAIN s.shards /\ b \in DOMAIN s.shards /\ s.shards[a] \cap s.shards[b] # {}

\* is a private name, declared in the file that map has for owner, out of reach?
OutOfReach(s, name, map, owner) ==
    /\ is_private_identifier(name)
    /\ owner \in DOMAIN map
    /\ map[owner] # s.file /\ ~files_share_shard(s, map[owner], s.file)

\* parameters as a function type takes them, and as the body sees them
Params(list, s) ==
    InOrder(LAMBDA r, p :
                IF p.k = "variadic" THEN [r EXCEPT !.variadic = TRUE]
                ELSE LET q == Resolved(p.c[1], r.s)
                     IN  IF q.type = NoType THEN [r EXCEPT !.s = Error(q.s, "parameter type")]
                         ELSE [r EXCEPT !.s = q.s, !.ts = Append(@, q.type)],
             [s |-> s, ts |-> <<>>, variadic |-> FALSE], list.c)

RegisterParams(list, s) ==
    InOrder(LAMBDA r, p : LET q == Resolved(p.c[1], r)
                           IN  IF q.type = NoType THEN q.s ELSE register_symbol(q.s, p.v, q.type),
             s, list.c)

RECURSIVE visit(_, _)

VisitAll(list, s) == InOrder(LAMBDA r, n : visit(n, r), s, list)
VisitOptional(n, s) == IF Absent(n) THEN s ELSE visit(n, s)

-----------------------------------------------------------------------------
(* Declarations.                                                           *)

\* r is the return type of a function or lambda, resolved
FunctionTypeOf(name, r, p) ==
    [s |-> p.s, type |-> [Entry("FUNCTION", name) EXCEPT !.return = r.type, !.params = p.ts, !.variadic = p.variadic]]
FunctionType(n, name, r) == FunctionTypeOf(name, r, Params(n.c[1], r.s))

FnBody(n, returns, f) ==
    VisitOptional(n.c[3], RegisterParams(n.c[1], [push_scope(register_symbol(f.s, n.v, f.type)) EXCEPT !.returns = returns]))

visit_fn(n, s) ==
    LET r == Resolved(n.c[2], s)
    IN  IF r.type = NoType THEN Error(r.s, "return type")
        ELSE [pop_scope(FnBody(n, r.type, FunctionType(n, n.v, r))) EXCEPT !.returns = NoType]

LambdaBody(n, returns, s) ==
    visit(n.c[3], Require(RegisterParams(n.c[1], [push_scope(s) EXCEPT !.returns = returns]),
                          check_no_break_or_continue(n.c[3]), "jump in lambda"))

\* bug: the function around the lambda goes on with the result of the lambda
visit_lambda_Keeps(n, s) ==
    LET r == Resolved(n.c[2], s)
        f == FunctionType(n, "<lambda>", r)
    IN  IF r.type = NoType THEN Error(r.s, "return type") ELSE Now(pop_scope(LambdaBody(n, r.type, f.s)), f.type)

visit_lambda(n, s) ==
    LET r == Resolved(n.c[2], s)
        f == FunctionType(n, "<lambda>", r)
    IN  IF r.type = NoType THEN Error(r.s, "return type")
        ELSE Now([pop_scope(LambdaBody(n, r.type, f.s)) EXCEPT !.returns = s.returns], f.type)

\* the name is a type before its fields are; hoisting out of the global context does nothing
WithField(name, field, q) ==
    IF q.type = NoType THEN Error(q.s, "field type")
    ELSE register_type(q.s, name, [lookup_type(q.s, name) EXCEPT !.fields = field :> q.type @@ @])

visit_struct(n, s) ==
    InOrder(LAMBDA r, f : WithField(n.v, f.v, Resolved(f.c[1], r)), register_type(s, n.v, Entry("STRUCT", n.v)), n.c[1].c)

\* the numbers of the values are left out, their names are what programs refer to
EnumOf(n, b) ==
    LET AddValue(r, v) == IF v.v \in r.names THEN [r EXCEPT !.s = Error(@, "enum value")]
                          ELSE [r EXCEPT !.names = @ \cup {v.v}]
        all            == InOrder(AddValue, [s |-> b.s, names |-> {}], n.c[2].c)
    IN  IF b.type = NoType \/ b.type.name \notin IntegerNames \/ ~is_integer_type(b.type)
        THEN Error(b.s, "backing type")
        ELSE register_type(all.s, n.v, [Entry("ENUM", n.v) EXCEPT !.backing = b.type, !.values = all.names])

visit_enum(n, s) == EnumOf(n, Resolved(n.c[1], s))

\* a name of the type t, with its initializer or without one
Typed(n, t, word) ==
    IF t.type = NoType THEN Error(t.s, word)
    ELSE register_symbol(IF Absent(n.c[2]) THEN t.s ELSE Fit(visit(n.c[2], t.s), t.type, "initializer"), n.v, t.type)

visit_var(n, s)   == Typed(n, Resolved(n.c[1], s), "variable type")
visit_const(n, s) == Typed(n, Resolved(n.c[1], s), "constant type")

\* "_" is not registered; a name that is bound to a literal keeps the untyped type.  The emitter
\* gets a node for every type that has one
visit_let(n, s) ==
    LET q     == visit(n.c[2], s)
        names == n.c[1].c
        Bind(r, name, t) == IF name = "_" THEN r ELSE register_symbol(r, name, t)
        Inferred(r, ts)  ==
            LET nodes == [i \in DOMAIN ts |-> create_type_node_from_entry(ts[i])]
            IN  [r EXCEPT !.inferred = <<r.file, n.p>> :> SelectSeq(nodes, LAMBDA t : t # NoType) @@ @]
    IN  CASE q.now = NoType -> Error(q, "nothing to infer")
          [] Len(names) = 1 -> IF q.now.kind = "VOID_TYPE" THEN Error(q, "void variable")
                               ELSE Bind(Inferred(q, <<q.now>>), names[1].v, q.now)
          [] q.now.kind # "TUPLE" -> Error(q, "destructuring")
          [] Len(names) # Len(q.now.elements) -> Error(q, "destructuring")
          [] OTHER -> InOrder(LAMBDA r, i : Bind(r, names[i].v, q.now.elements[i]), Inferred(q, q.now.elements),
                               [i \in DOMAIN names |-> i])

-----------------------------------------------------------------------------
(* Statements.                                                             *)

\* bug: the else branch is forgotten
visit_if_Then(n, s) == visit(n.c[2], Condition(visit(n.c[1], s), "condition"))

visit_if(n, s) ==
    VisitOptional(n.c[3], visit(n.c[2], Condition(visit(n.c[1], s), "condition")))

visit_while(n, s) ==
    LET c == Condition(visit(n.c[1], s), "condition")
    IN  [visit(n.c[2], [c EXCEPT !.in_loop = TRUE]) EXCEPT !.in_loop = s.in_loop]

\* bug: the loop has no scope of its own
visit_for_Open(n, s) ==
    LET i == VisitOptional(n.c[1], s)
        c == IF Absent(n.c[2]) THEN i ELSE Condition(visit(n.c[2], i), "condition")
        b == visit(n.c[4], [c EXCEPT !.in_loop = TRUE])
    IN  [VisitOptional(n.c[3], b) EXCEPT !.in_loop = s.in_loop]

visit_for(n, s) ==
    LET i == VisitOptional(n.c[1], push_scope(s))
        c == IF Absent(n.c[2]) THEN i ELSE Condition(visit(n.c[2], i), "condition")
        b == visit(n.c[4], [c EXCEPT !.in_loop = TRUE])
    IN  pop_scope([VisitOptional(n.c[3], b) EXCEPT !.in_loop = s.in_loop])

visit_return(n, s) ==
    LET values == n.c[1].c
    IN  CASE s.returns = NoType -> Error(s, "return outside")
          [] Len(values) = 0 -> Require(s, s.returns.kind = "VOID_TYPE", "return value")
          [] Len(values) = 1 -> Fit(visit(values[1], s), s.returns, "return value")
          [] s.returns.kind # "TUPLE" -> Error(s, "return value")
          [] Len(values) # Len(s.returns.elements) -> Error(s, "return value")
          [] OTHER -> InOrder(LAMBDA r, i : Fit(visit(values[i], r), s.returns.elements[i], "return value"),
                               s, [i \in DOMAIN values |-> i])

visit_break(n, s) == Require(s, s.in_loop, "outside of loop")       \* and visit(continue_c)

\* bug: deferred code may return
visit_defer_Returns(n, s) == visit(n.c[1], Require(s, check_no_break_or_continue(n.c[1]), "deferred control flow"))
visit_defer(n, s) == visit(n.c[1], Require(s, check_no_control_flow(n.c[1]), "deferred control flow"))

\* what a pattern is compared with does not change while the cases are visited
visit_match(n, s) ==
    LET q == visit(n.c[1], s)
        Matches(pattern) ==
            LET t == resolve_untyped_literal(pattern, q.now)
            IN  \/ types_equal(q.now, t)
                \/ /\ q.now.kind = "POINTER" /\ t.kind = "POINTER"
                   /\ IsVoidPointer(t) \/ IsVoidPointer(q.now)
        Case(r, arm) ==
            IF Absent(arm.c[1]) THEN visit(arm.c[2], r)
            ELSE LET p == visit(arm.c[1], r)
                 IN  visit(arm.c[2], Require(Now(p, NoType), p.now = NoType \/ Matches(p.now), "pattern"))
    IN  IF q.now = NoType THEN Error(q, "scrutinee")
        ELSE InOrder(Case, Require(Now(q, NoType), is_matchable_type(q.now), "scrutinee"), n.c[2].c)

\* bug: the scope stays open after an error
visit_block_Error(n, s) ==
    LET q == VisitAll(n.c[1].c, push_scope(s))
    IN  IF q.errors = s.errors THEN pop_scope(q) ELSE q

visit_block(n, s) == pop_scope(VisitAll(n.c[1].c, push_scope(s)))

-----------------------------------------------------------------------------
(* Operators.                                                              *)

Logical    == {"&&", "||"}
Comparing  == {"==", "!=", "<", "<=", ">", ">="}
Arithmetic == {"+", "-", "*", "/", "%"}

ComparableWith(a, b) ==
    \/ types_equal(a, b)
    \/ is_numeric_type(a) /\ is_numeric_type(b)
    \/ a.kind = "POINTER" /\ b.kind = "POINTER" /\ "void" \in {a.name, b.name}

visit_binary_op(n, s) ==
    LET q  == visit(n.c[1], s)
        r  == visit(n.c[2], Now(q, NoType))
        z  == Now(r, NoType)
        \* the left operand is adapted first, the right one to the result
        a  == resolve_untyped_literal(q.now, r.now)
        b  == resolve_untyped_literal(r.now, a)
        \* a type of the operands, or an error that leaves no type
        Result(first, second, result) ==
            IF first /\ second THEN Now(z, result) ELSE Error(z, "operands")
    IN  CASE NoType \in {q.now, r.now} -> Error(z, "operands")
          [] n.v \in Arithmetic -> Result(is_numeric_type(a) /\ is_numeric_type(b), types_equal(a, b), a)
          [] n.v \in Comparing  -> Result(is_comparable_type(a) /\ is_comparable_type(b), ComparableWith(a, b),
                                          Primitive("bool"))
          [] n.v \in Logical    -> Result(is_boolean_type(a), is_boolean_type(b), Primitive("bool"))
          [] OTHER              -> Result(is_integer_type(a) /\ is_integer_type(b), types_equal(a, b), a)

\* without the entry it points to a pointer is taken apart by its depth and its name
Pointee(t, s) ==
    IF t.pointee # NoType THEN t.pointee
    ELSE LET base == lookup_type(s, t.name)
         IN  [t EXCEPT !.pointer_depth = @ - 1,
                       !.kind = IF t.pointer_depth > 1 THEN @ ELSE IF base = NoType THEN "PRIMITIVE" ELSE base.kind]

visit_unary_op(n, s) ==
    LET q == visit(n.c[1], s)
        t == resolve_untyped_literal(q.now, NoType)
        r == Now(q, t)
    IN  CASE q.now = NoType -> Error(q, "operand")
          [] n.v = "-" -> Require(r, is_numeric_type(t), "operand")
          [] n.v = "!" -> Require(r, is_boolean_type(t), "operand")
          [] n.v = "~" -> Require(r, is_integer_type(t), "operand")
          [] n.v = "&" -> IF t.kind = "FUNCTION" THEN Error(r, "address of function") ELSE Now(r, PointerTo(t))
          [] n.v = "*" -> IF t.pointer_depth = 0 THEN Error(r, "operand")
                          ELSE IF t.pointee = NoType /\ Mistaken(r, TypeKey(t.name), "type") THEN Lost(r)
                          ELSE Now(r, Pointee(t, r))

Cast(q, t) ==
    CASE q.now = NoType       -> Error(q, "cast")
      [] t.type = NoType      -> Error(t.s, "cast")
      [] t.type.kind = "ENUM" -> Error(t.s, "cast")
      [] q.now.kind = "ENUM"  -> IF types_equal(t.type, q.now.backing) THEN Now(t.s, t.type) ELSE Error(t.s, "cast")
      [] OTHER                -> Now(t.s, t.type)

visit_cast(n, s) ==
    LET q == visit(n.c[1], s)
    IN  Cast(q, Resolved(n.c[2], q))

-----------------------------------------------------------------------------
(* Builtin functions: s has lost the type of the callee.                   *)

\* what the callback of each must take before the context
CallbackFits(collection, ps) ==
    LET pointed(i, t) == ps[i].kind = "POINTER" /\ types_equal(ps[i], t)
        v             == collection.value
    IN  CASE collection.kind = "MAP" ->
               /\ Len(ps) = 3
               /\ types_equal(ps[1], collection.key)
               /\ pointed(2, IF v.kind = "POINTER" THEN [v EXCEPT !.pointer_depth = @ + 1] ELSE PointerTo(v))
          [] collection.kind = "ARRAY" ->
               /\ Len(ps) = 2
               /\ pointed(1, [collection.element EXCEPT !.pointer_depth = 1, !.kind = "POINTER"])
          [] OTHER -> Len(ps) = 2 /\ pointed(1, collection)

CanBeWalked(t) ==
    \/ t.kind = "MAP"
    \/ t.kind = "ARRAY" /\ t.array_size = Unsized
    \/ t.kind = "POINTER" /\ t.pointee.kind = "PRIMITIVE" /\ t.pointee.name \in {"u8", "i8"}

validate_each(args, s) ==
    LET one      == visit(args[1], s)
        two      == visit(args[2], Now(one, NoType))
        three    == visit(args[3], Now(two, NoType))
        z        == Now(three, NoType)
        callback == three.now
    IN  CASE Len(args) # 3            -> Error(s, "builtin")
          [] ~CanBeWalked(one.now)    -> Error(Now(one, NoType), "builtin")
          [] callback.kind = "FUNCTION" /\ callback.return # NoType /\ is_boolean_type(callback.return)
             /\ CallbackFits(one.now, callback.params)
             /\ types_equal(Last(callback.params), two.now) -> Now(z, Entry("PRIMITIVE", "void"))
          [] OTHER                    -> Error(z, "builtin")

\* the arguments of a builtin that has a signature; one without a type is not compared, and any
\* array will do where the signature has one of void
BuiltinArguments(args, name, typed, s) ==
    LET ps          == BuiltinParams(name)
        Takes(t, a) == types_equal(a, t) \/ (t.element.name = "void" /\ a.kind = "ARRAY" /\ a.array_size = t.array_size)
        Arg(r, i)   == LET a == visit(args[typed + i], r)
                       IN  Require(a, a.now = NoType \/ Takes(ps[i], a.now), "builtin")
    IN  IF Len(args) # typed + Len(ps) THEN Error(s, "builtin")
        ELSE Now(InOrder(Arg, s, [i \in DOMAIN ps |-> i]), BuiltinResult(name))

\* make of a type, and of a type and a count
MadeOne(t) ==
    CASE t.type = NoType      -> Error(t.s, "builtin")
      [] t.type.kind # "MAP"  -> Now(t.s, PointerTo(t.type))
      [] SizedArrayValue(t.type.value) \/ PointsToSizedArray(t.type.value) -> Error(t.s, "builtin")
      [] OTHER                -> Now(t.s, t.type)

MadeMany(t) == IF t.type = NoType THEN Error(t.s, "builtin") ELSE Now(t.s, ArrayOf(t.type, Unsized))

\* the count of make and the collection of delete are checked after they have been visited
validate_builtin_call(n, name, s) ==
    LET args  == n.c[2].c
        bad   == Error(s, "builtin")
        T     == args[1].c[1]
        first == visit(args[1], s)
        count == visit(args[2], s)
        typed == IF name \in TakesType THEN 1 ELSE 0
    IN  CASE typed = 1 /\ (args = <<>> \/ args[1].k # "type_param") -> bad
          [] name = "make" /\ Len(args) = 1 -> MadeOne(Resolved(T, s))
          [] name = "make" /\ Len(args) = 2 ->
               IF count.now = NoType \/ count.now.name # "u64" THEN Error(Now(count, NoType), "builtin")
               ELSE MadeMany(Resolved(T, Now(count, NoType)))
          [] name = "delete" /\ Len(args) = 1 ->
               Require(Now(first, NoType), first.now.kind \in {"POINTER", "ARRAY", "MAP"}, "builtin")
          [] name = "each" -> validate_each(args, s)
          [] name \in {"make", "delete"} -> bad
          [] OTHER -> BuiltinArguments(args, name, typed, s)

\* a name that is private to a file may be called from that file and from those it shares a shard with
visit_call(n, s) ==
    LET q      == visit(n.c[1], s)
        f      == q.now
        taken  == Now(q, NoType)
        args   == n.c[2].c
        Arg(r, i) == LET a == visit(args[i], r)
                     IN  IF i > Len(f.params) THEN a ELSE Fit(a, f.params[i], "argument")
    IN  CASE f = NoType \/ f.kind # "FUNCTION" -> Error(q, "call")
          [] n.c[1].k = "id" /\ OutOfReach(s, n.c[1].v, s.function_file, n.c[1].v) -> Error(taken, "private")
          [] f.builtin -> validate_builtin_call(n, f.name, taken)
          [] Len(args) < Len(f.params) \/ (Len(args) > Len(f.params) /\ ~f.variadic) -> Error(taken, "arguments")
          [] OTHER -> Now(InOrder(Arg, taken, [i \in DOMAIN args |-> i]), f.return)

visit_index(n, s) ==
    LET o   == visit(n.c[1], s)
        i   == visit(n.c[2], Now(o, NoType))
        z   == Now(i, NoType)
        t   == o.now
        at  == IF i.now.kind = "UNTYPED_INTEGER" THEN Primitive("u64") ELSE i.now
        bad == Error(z, "index")
    IN  IF t = NoType \/ i.now = NoType THEN bad
        ELSE IF t.kind = "MAP"
        THEN IF KeyFits(KeyType(i.now, t.key), t.key) THEN Now(z, PointerTo(t.value)) ELSE bad
        ELSE IF ~is_integer_type(at) THEN bad
        ELSE CASE t.kind = "ARRAY" -> IF t.element = NoType THEN bad ELSE Now(z, t.element)
               \* the pointer that is left keeps its kind and what it points to
               [] t.kind = "POINTER" /\ t.pointer_depth > 0 -> Now(z, [t EXCEPT !.pointer_depth = @ - 1])
               [] OTHER -> bad

visit_member_access(n, s) ==
    LET o     == n.c[1]
        named == IF o.k = "id" THEN lookup_type(s, o.v) ELSE NoType
        q     == visit(o, s)
        t     == q.now
        z     == Now(q, NoType)
    IN  CASE o.k = "id" /\ Mistaken(s, TypeKey(o.v), "type") -> Lost(s)
          [] named.kind = "ENUM" -> IF n.v \in named.values THEN Now(s, named) ELSE Error(s, "enum value")
          [] t = NoType \/ t.kind # "STRUCT"   -> Error(q, "member")
          [] n.v \notin DOMAIN t.fields -> Error(z, "member")
          [] OutOfReach(s, n.v, s.struct_file, t.name) -> Error(z, "private")
          [] OTHER -> Now(z, t.fields[n.v])

-----------------------------------------------------------------------------
(* Names, literals, assignments.                                           *)

LiteralType(kind) ==
    CASE kind = "int"    -> Entry("UNTYPED_INTEGER", "untyped_int")
      [] kind = "float"  -> Entry("UNTYPED_FLOAT", "untyped_float")
      [] kind = "string" -> BarePointer("u8")
      [] kind = "char"   -> Primitive("i8")
      [] kind = "bool"   -> Primitive("bool")
      [] kind = "nil"    -> BarePointer("void")

\* bug: nil takes the type that happens to be there
visit_literal_Nil(n, s) == IF n.k = "nil" THEN s ELSE Now(s, LiteralType(n.k))
visit_literal(n, s) == Now(s, LiteralType(n.k))

\* an unknown name leaves the type of the expression before it behind
visit_identifier(n, s) ==
    CASE Contexts(s, n.v) = {} -> Error(s, "undefined")
      [] Mistaken(s, n.v, "symbol") -> Lost(s)
      [] OutOfReach(s, n.v, s.global_file, n.v) -> Error(s, "private")
      [] OTHER -> Now(s, Found(s, n.v).type)

\* bug: a variable takes any value
Assigned_Any(r, to, from) == r
Assigned(r, to, from) ==
    Require(r, is_compatible_for_assignment(to, resolve_untyped_literal(from, to)), "assignment")

\* the value of a map entry is assigned through the map, any other target is an expression
visit_assignment(n, s) ==
    LET target == n.c[1]
        o      == visit(target.c[1], s)
        isMap  == target.k = "index" /\ o.now # NoType /\ o.now.kind = "MAP"
        i      == visit(target.c[2], Now(o, NoType))
        mv     == visit(n.c[2], Now(i, NoType))
        \* the object of an index that is no map has been visited once already
        t      == visit(target, IF target.k = "index" THEN Now(o, NoType) ELSE s)
        v      == visit(n.c[2], Now(t, NoType))
    IN  IF isMap
        THEN CASE i.now = NoType -> Error(i, "index")
               [] ~KeyFits(KeyType(i.now, o.now.key), o.now.key) -> Error(Now(i, NoType), "index")
               [] mv.now = NoType -> Error(mv, "assignment")
               [] OTHER -> Assigned(Now(mv, NoType), o.now.value, mv.now)
        ELSE IF NoType \in {t.now, v.now} THEN Error(Now(v, NoType), "assignment")
        ELSE Now(Assigned(v, t.now, v.now), t.now)

\* a single element without a type is followed as if it had one
visit_array_literal(n, s) ==
    LET es    == n.c[1].c
        first == visit(es[1], s)
        t     == resolve_untyped_literal(first.now, NoType)
        Element(r, e) ==
            LET q == visit(e, r.s)
                a == resolve_untyped_literal(q.now, t)
            IN  IF ~r.ok THEN r ELSE [s |-> Now(q, a), ok |-> types_equal(t, a)]
        all   == InOrder(Element, [s |-> first, ok |-> TRUE], Tail(es))
    IN  CASE es = <<>> -> Error(s, "empty array")
          [] ~all.ok   -> Error(all.s, "elements")
          [] t = NoType -> Lost(all.s)
          [] OTHER     -> Now(all.s, ArrayOf(t, Len(es)))

visit_struct_literal(n, s) ==
    LET t == lookup_type(s, n.v)
        Init(r, f) == IF f.v \notin DOMAIN t.fields THEN Error(r, "member")
                      ELSE Fit(visit(f.c[1], r), t.fields[f.v], "initializer")
    IN  CASE Mistaken(s, TypeKey(n.v), "type") -> Lost(s)
          [] t = NoType \/ t.kind # "STRUCT"   -> Error(s, "struct")
          [] OTHER -> Now(InOrder(Init, s, n.c[1].c), t)

\* for a type argument, where a builtin has not taken it
visit_type_param(n, s) == Now(s, NoType)

-----------------------------------------------------------------------------
(* The dispatch, and check().                                              *)

LiteralKinds == {"int", "float", "string", "char", "bool", "nil"}
Expression == LiteralKinds \cup {"id", "lambda", "binary", "unary", "cast", "call", "index", "member", "assign",
                             "array_literal", "struct_literal", "type_param"}

\* where an expression stands in the program
Place(n, s) == <<s.file, n.p, n.k>>

visit_kind(n, s) ==
    CASE n.k = "fn"                           -> visit_fn(n, s)
      [] n.k = "lambda"                       -> visit_lambda(n, s)
      [] n.k \in {"struct", "extern struct"}  -> visit_struct(n, s)
      [] n.k \in {"enum", "extern enum"}      -> visit_enum(n, s)
      [] n.k \in {"var", "extern var"}        -> visit_var(n, s)
      [] n.k = "const"                        -> visit_const(n, s)
      [] n.k = "let"                          -> visit_let(n, s)
      [] n.k = "if"                           -> visit_if(n, s)
      [] n.k = "while"                        -> visit_while(n, s)
      [] n.k = "for"                          -> visit_for(n, s)
      [] n.k = "return"                       -> visit_return(n, s)
      [] n.k \in {"break", "continue"}        -> visit_break(n, s)
      [] n.k = "defer"                        -> visit_defer(n, s)
      [] n.k = "match"                        -> visit_match(n, s)
      [] n.k = "block"                        -> visit_block(n, s)
      [] n.k = "binary"                       -> visit_binary_op(n, s)
      [] n.k = "unary"                        -> visit_unary_op(n, s)
      [] n.k = "cast"                         -> visit_cast(n, s)
      [] n.k = "call"                         -> visit_call(n, s)
      [] n.k = "index"                        -> visit_index(n, s)
      [] n.k = "member"                       -> visit_member_access(n, s)
      [] n.k \in LiteralKinds                   -> visit_literal(n, s)
      [] n.k = "id"                           -> visit_identifier(n, s)
      [] n.k = "assign"                       -> visit_assignment(n, s)
      [] n.k = "array_literal"                -> visit_array_literal(n, s)
      [] n.k = "struct_literal"               -> visit_struct_literal(n, s)
      [] n.k = "type_param"                   -> visit_type_param(n, s)
      [] n.k \in {"import", "cimport", "shard"} -> s

\* the type of an expression is noted as it is when its visit returns
Noted(n, q) == IF n.k \in Expression THEN [q EXCEPT !.types = Place(n, q) :> q.now @@ @] ELSE q

visit(n, s) == IF s.lost THEN s ELSE Noted(n, visit_kind(n, s))

\* check() up to the visit: the file of the declaration, the symbols of the collector, and the
\* captures it found.  visit_fn, visit_struct and visit_var note the file as well; they do it
\* before anything else
EnterDeclaration(d, file, s) ==
    LET owned(map, kinds) == IF d.k \in kinds THEN d.v :> file @@ map ELSE map
        scopes            == collect(d, NoSymbols).scopes
        symbols           == Placeholders(d)
    IN  [s EXCEPT !.file          = file,
                  !.function_file = owned(@, {"fn"}),
                  !.struct_file   = owned(@, {"struct", "extern struct"}),
                  !.global_file   = owned(@, {"var", "extern var"}),
                  !.memory[1]     = [x \in DOMAIN symbols |-> SymbolOf(symbols[x])] @@ @,
                  !.errors        = @ \o [i \in DOMAIN validate_lambda_captures(d, scopes) |-> "capture"]]

check(d, file, s) == visit(d, EnterDeclaration(d, file, s))
=============================================================================
