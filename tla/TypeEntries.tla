----------------------------- MODULE TypeEntries -----------------------------
(***************************************************************************)
(* type_entry_s (libs/validation/include/truk/validation/typecheck.hpp)    *)
(* and what type_checker_c asks of two of them (typecheck.cpp).            *)
(*                                                                         *)
(* An entry owns the entries it is made of and is copied with them, so it  *)
(* is a value here; NoType is the null pointer.                            *)
(***************************************************************************)
EXTENDS Tokenizer, SequencesExt

\* FoldLeft whose accumulator is a value before the next element is looked at, which keeps the
\* depth of TLC's evaluation within one element
InOrder(op(_, _), base, seq) ==
    FoldLeft(LAMBDA acc, x : CHOOSE r \in {op(a, x) : a \in {acc}} : TRUE, base, seq)

NoType == [kind |-> "null"]
Unsized == -1           \* array_size without a value

Entry(kind, name) ==
    [kind |-> kind, name |-> name, pointer_depth |-> 0, array_size |-> Unsized,
     pointee |-> NoType, element |-> NoType, key |-> NoType, value |-> NoType, elements |-> <<>>,
     params |-> <<>>, return |-> NoType, variadic |-> FALSE, builtin |-> FALSE,
     fields |-> <<>>, values |-> {}, backing |-> NoType]

Primitive(name) == Entry(IF name = "void" THEN "VOID_TYPE" ELSE "PRIMITIVE", name)

PointerTo(t) ==
    [Entry("POINTER", t.name) EXCEPT !.pointer_depth = t.pointer_depth + 1, !.pointee = t]

\* a pointer entry without the entry it points to
BarePointer(name) == [Entry("POINTER", name) EXCEPT !.pointer_depth = 1]

ArrayOf(t, size) == [Entry("ARRAY", t.name) EXCEPT !.element = t, !.array_size = size]

Untyped == {"UNTYPED_INTEGER", "UNTYPED_FLOAT"}

-----------------------------------------------------------------------------

IntegerNames == {"i8", "i16", "i32", "i64", "u8", "u16", "u32", "u64"}
NumericNames == IntegerNames \cup {"f32", "f64"}

is_numeric_type(t) == t.kind = "PRIMITIVE" /\ t.name \in NumericNames
is_integer_type(t) == t.kind = "PRIMITIVE" /\ t.name \in IntegerNames
is_boolean_type(t) == t.kind = "PRIMITIVE" /\ t.name = "bool"

is_comparable_type(t) ==
    is_numeric_type(t) \/ is_boolean_type(t) \/ t.kind \in {"POINTER", "ENUM"}

is_matchable_type(t) == t.kind \in {"PRIMITIVE", "ENUM", "POINTER"}

is_valid_map_key_type(t) ==
    \/ t.kind = "PRIMITIVE" /\ t.name \in NumericNames \cup {"bool"}
    \/ t.kind = "POINTER" /\ t.pointer_depth = 1 /\ t.name \in {"u8", "i8"}

\* what a pointer points to, what a function takes and what a tuple is made of are not compared
RECURSIVE types_equal(_, _)
types_equal(a, b) ==
    /\ NoType \notin {a, b}
    /\ {a.kind, b.kind} \cap Untyped = {}
    /\ a.kind = b.kind
    /\ a.pointer_depth = b.pointer_depth
    /\ a.name = b.name
    /\ a.array_size = b.array_size
    /\ (a.kind = "ARRAY" /\ NoType \notin {a.element, b.element}) => types_equal(a.element, b.element)
    /\ a.kind = "MAP" => types_equal(a.key, b.key) /\ types_equal(a.value, b.value)

is_compatible_for_assignment(target, source) ==
    \/ types_equal(target, source)
    \/ is_numeric_type(target) /\ is_numeric_type(source)
    \/ /\ target.kind = "POINTER" /\ source.kind = "POINTER"
       /\ "void" \in {target.name, source.name} \/ {target.name, source.name} = {"i8", "u8"}
    \/ /\ target.kind = "FUNCTION" /\ source.kind = "FUNCTION"
       /\ Len(target.params) = Len(source.params)
       /\ \A i \in DOMAIN target.params : types_equal(target.params[i], source.params[i])
       /\ types_equal(target.return, source.return)
       /\ target.variadic = source.variadic

\* a literal takes the type it meets if that is a number, and its own default otherwise
resolve_untyped_literal(literal, target) ==
    CASE literal.kind \notin Untyped -> literal
      [] is_numeric_type(target)     -> target
      [] OTHER -> Primitive(IF literal.kind = "UNTYPED_INTEGER" THEN "i32" ELSE "f64")

\* a null pointer and a pointer may meet in a match or a comparison
IsVoidPointer(t) == t.kind = "POINTER" /\ t.name = "void" /\ t.pointer_depth = 1

\* the key a map is indexed with: a slice of bytes counts as a string
KeyType(index, key) ==
    IF index.kind = "ARRAY" /\ index.array_size = Unsized /\ index.element # NoType
         /\ index.element.name \in {"i8", "u8"}
    THEN BarePointer("u8") ELSE resolve_untyped_literal(index, key)

KeyFits(index, key) ==
    \/ types_equal(index, key)
    \/ /\ index.kind = "POINTER" /\ key.kind = "POINTER"
       /\ index.pointer_depth = 1 /\ key.pointer_depth = 1
       /\ {index.name, key.name} = {"i8", "u8"}

\* values a map cannot hold
SizedArrayValue(t) == t.kind = "ARRAY" /\ t.array_size # Unsized
PointsToSizedArray(t) == t.kind = "POINTER" /\ t.pointee # NoType /\ SizedArrayValue(t.pointee)

\* the type that the node made by create_type_node_from_entry stands for, NoType where it makes
\* none: a pointer must know what it points to, any literal is an i32, a function loses its name,
\* and a primitive that is no keyword becomes the unknown keyword
RECURSIVE create_type_node_from_entry(_)
create_type_node_from_entry(t) ==
    LET Made(x)  == create_type_node_from_entry(x)
        Each(ts) == [i \in DOMAIN ts |-> Made(ts[i])]
        needed   == CASE t.kind = "POINTER"  -> {t.pointee}
                      [] t.kind = "ARRAY"    -> {t.element}
                      [] t.kind = "MAP"      -> {t.key, t.value}
                      [] t.kind = "TUPLE"    -> Range(t.elements)
                      [] t.kind = "FUNCTION" -> Range(t.params) \cup {t.return}
                      [] OTHER -> {}
    IN  CASE t = NoType \/ \E x \in needed : Made(x) = NoType -> NoType
          [] t.kind = "POINTER"   -> PointerTo(Made(t.pointee))
          [] t.kind = "ARRAY"     -> ArrayOf(Made(t.element), t.array_size)
          [] t.kind = "MAP"       -> [t EXCEPT !.key = Made(@), !.value = Made(@)]
          [] t.kind = "TUPLE"     -> [t EXCEPT !.elements = Each(@)]
          [] t.kind = "FUNCTION"  -> [Entry("FUNCTION", "function") EXCEPT !.params = Each(t.params), !.return = Made(t.return),
                                                                           !.variadic = t.variadic]
          [] t.kind = "PRIMITIVE" -> Primitive(IF t.name \in NumericNames \cup {"bool", "void"} THEN t.name ELSE "unknown")
          [] t.kind \in Untyped   -> Primitive("i32")
          [] OTHER -> t

-----------------------------------------------------------------------------
(* The size of an array, as parse_array_type reads it: the C conventions   *)
(* for 0x and a leading 0, up to the first character that is no digit.     *)

DigitValue(c) ==
    CHOOSE v \in 0..15 : c \in {Char("0123456789abcdef", v + 1), Char("0123456789ABCDEF", v + 1)}

ValueOf(text, n) ==
    LET upto == PastRun(text, n.from, n.digits)
        value[i \in (n.from - 1)..(upto - 1)] ==
            IF i < n.from THEN 0 ELSE value[i - 1] * n.base + DigitValue(Char(text, i))
    IN  value[upto - 1]

Notation(text) ==
    LET mark == Char(text, 2)
    IN  CASE Char(text, 1) # "0"   -> [from |-> 1, base |-> 10, digits |-> Digits]
          [] mark \in {"b", "B"}   -> [from |-> 3, base |-> 2,  digits |-> BinDigits]
          [] mark \in {"o", "O"}   -> [from |-> 3, base |-> 8,  digits |-> OctDigits]
          [] mark \in {"x", "X"}   -> [from |-> 3, base |-> 16, digits |-> HexDigits]
          [] OTHER                 -> [from |-> 1, base |-> 8,  digits |-> OctDigits]

ArraySize(text) == ValueOf(text, Notation(text))

-----------------------------------------------------------------------------
(* The builtin functions: libs/language/src/builtins.cpp.                  *)

TakesType == {"make", "sizeof"}
Builtins == TakesType \cup {"delete", "len", "panic", "each", "__TRUK_VA_ARG_I32",
                            "__TRUK_VA_ARG_I64", "__TRUK_VA_ARG_F64", "__TRUK_VA_ARG_PTR"}

\* parameters and result of the builtins that are checked by their signature
BuiltinParams(name) ==
    CASE name = "len"   -> <<ArrayOf(Primitive("void"), Unsized)>>
      [] name = "panic" -> <<ArrayOf(Primitive("u8"), Unsized)>>
      [] OTHER          -> <<>>

BuiltinResult(name) ==
    CASE name \in {"len", "sizeof"}    -> Primitive("u64")
      [] name = "panic"                -> Primitive("void")
      [] name = "__TRUK_VA_ARG_I32"    -> Primitive("i32")
      [] name = "__TRUK_VA_ARG_I64"    -> Primitive("i64")
      [] name = "__TRUK_VA_ARG_F64"    -> Primitive("f64")
      [] name = "__TRUK_VA_ARG_PTR"    -> PointerTo(Primitive("void"))
=============================================================================
