------------------------------- MODULE Parser -------------------------------
(***************************************************************************)
(* parser_c::parse (libs/ingestion/src/parser.cpp) as a process: the text  *)
(* is cut into tokens, one at a time, then the machine of module Grammar   *)
(* takes one step at a time.                                               *)
(***************************************************************************)
EXTENDS Grammar

CONSTANT Sources        \* the texts the parser is given

VARIABLES
    source,     \* _data
    read,       \* _pos of the tokenizer
    tokens,     \* _tokens
    machine,    \* _current, the call stack and its locals
    phase       \* "lex", "parse", "parsed" or "failed"

vars == <<source, read, tokens, machine, phase>>

Init ==
    /\ source \in Sources
    /\ read = 1
    /\ tokens = <<>>
    /\ machine = Start
    /\ phase = "lex"

\* bug: the end of the file is not pushed
Lex_NoEnd ==
    /\ phase = "lex"
    /\ LET t == next_token(source, read)
       IN  /\ read' = t.next
           /\ tokens' = IF t.kind \in {"error", "eof"} THEN tokens
                        ELSE Append(tokens, [kind |-> t.kind, text |-> t.text, at |-> t.at])
           /\ phase' = CASE t.kind = "error" -> "failed"
                         [] t.kind = "eof"   -> "parse"
                         [] OTHER            -> "lex"
    /\ UNCHANGED <<source, machine>>

\* tokenize(): up to the end of the text, or to the exception of a malformed character
Lex ==
    /\ phase = "lex"
    /\ LET t == next_token(source, read)
       IN  /\ read' = t.next
           /\ tokens' = IF t.kind = "error" THEN tokens
                        ELSE Append(tokens, [kind |-> t.kind, text |-> t.text, at |-> t.at])
           /\ phase' = CASE t.kind = "error" -> "failed"
                         [] t.kind = "eof"   -> "parse"
                         [] OTHER            -> "lex"
    /\ UNCHANGED <<source, machine>>

Step(ops) ==
    /\ phase = "parse"
    /\ machine.todo # <<>>
    /\ Item(machine).op \in ops
    /\ machine' = Do(tokens, machine)
    /\ UNCHANGED <<source, read, tokens, phase>>

Reads   == Step({"expect", "keep", "advance"})
Calls   == Step({"call", "try", "catch"})
Decides == Step({"switch", "while", "until", "lookahead", "wild", "guard", "throw"})
Builds  == Step({"build", "put", "add", "assign"})

\* parse() returns, with the declarations or with an error
Return ==
    /\ phase = "parse"
    /\ machine.todo = <<>>
    /\ phase' = IF machine.ok THEN "parsed" ELSE "failed"
    /\ UNCHANGED <<source, read, tokens, machine>>

Next == Lex \/ Reads \/ Calls \/ Decides \/ Builds \/ Return

Spec == Init /\ [][Next]_vars /\ WF_vars(Next)

\* what parse() hands on: cimports apart from the other declarations
Program == machine.vals[1].c
Declarations == SelectSeq(Program, LAMBDA d : d.k # "cimport")
Cimports == SelectSeq(Program, LAMBDA d : d.k = "cimport")

-----------------------------------------------------------------------------
(* The tree of an accepted program.                                        *)

Tree == machine.vals[1]

\* No branch of a tree has more than two nodes for each token: those that make another one, a
\* list or the parts of a wrapped expression body, also read a token of their own.
TreeDepth == 2 * Len(tokens)

\* a node and what is below it
NodesOf(n) ==
    LET layer[d \in 0..TreeDepth] ==
          IF d = 0 THEN {n} ELSE UNION {ToSet(m.c) : m \in layer[d - 1]}
    IN  UNION {layer[d] : d \in 0..TreeDepth}

Compound(n) == n.k = "assign" /\ tokens[n.p].kind # "="

-----------------------------------------------------------------------------
(* Types.                                                                  *)

\* The tokens end in the only end of file, and the cursor of a parse stays on one of them:
\* current(), peek() and advance() never leave _tokens.
TypeOK ==
    /\ phase \in {"lex", "parse", "parsed", "failed"}
    /\ phase \in {"parse", "parsed"} =>
         /\ tokens # <<>>
         /\ \A i \in DOMAIN tokens : tokens[i].kind = "eof" <=> i = Len(tokens)
    /\ phase = "parse" => machine.at \in DOMAIN tokens

\* A parse that succeeds has read every token and returns one value, the program: nothing
\* that a rule or a handler left half built is in its way.
EverythingIsRead ==
    phase = "parsed" => machine.at = Len(tokens) /\ Len(machine.vals) = 1

\* A compound assignment repeats its target, and the repetition does nothing: it is the target
\* itself, and neither it nor any part of it calls, assigns or makes a lambda.
RepeatedTargetIsPure ==
    phase = "parsed" =>
        \A n \in NodesOf(Tree) : Compound(n) =>
            /\ n.c[2].c[1] = n.c[1]
            /\ \A m \in NodesOf(n.c[1]) : m.k \notin {"call", "assign", "lambda", "struct_literal"}

\* The null type of a swallowed error only ever stands for the target of a cast or for a part
\* of a function type: every declared type, element, field and parameter is a type.
NullTypesStayLocal ==
    phase = "parsed" =>
        \A n \in NodesOf(Tree) :
            /\ n.k \in {"param", "field", "pointer", "map", "tuple", "var", "extern var", "const",
                       "enum", "type_param"} => n.c[1].k # "nothing"
            /\ n.k \in {"fn", "lambda", "array", "map"} => n.c[2].k # "nothing"
            /\ n.k = "tuple" => \A i \in DOMAIN n.c[1].c : n.c[1].c[i].k # "nothing"
=============================================================================
