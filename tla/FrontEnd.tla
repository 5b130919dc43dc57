------------------------------- MODULE FrontEnd -------------------------------
(***************************************************************************)
(* What the commands do with a program before they emit it                 *)
(* (apps/truk/commands/compile.cpp): every file is parsed, then one        *)
(* type_checker_c checks the declarations of all files in their order.     *)
(*                                                                         *)
(* A program is a sequence of files, [name, text] each, in the order in    *)
(* which the import resolver finishes them; the resolver itself is module  *)
(* ImportResolver.  A file is parsed in one step, the process of module    *)
(* Parser run to its end, and a declaration is checked in one step,        *)
(* check() of module TypeChecker.                                          *)
(***************************************************************************)
EXTENDS Grammar, TypeChecker

CONSTANT Programs

VARIABLES
    program,    \* the files
    parsed,     \* how many of them have been parsed
    decls,      \* all_declarations with decl_to_file: [d, file]
    checked,    \* how many of them have been checked
    checker,    \* the type_checker_c
    verdict     \* "" until compile() goes on to the emitter or returns

vars == <<program, parsed, decls, checked, checker, verdict>>

-----------------------------------------------------------------------------
(* A file from its text to its declarations.                               *)

\* 2^k steps of Lex of module Parser, and of the machine of module Grammar, or fewer if they stop before
RECURSIVE Lexed(_, _, _), Run(_, _, _)
With(l, t) == [read |-> t.next, last |-> t.kind,
               tokens |-> Append(l.tokens, [kind |-> t.kind, text |-> t.text, at |-> t.at])]

Lexed(text, l, k) ==
    CASE l.last \in {"eof", "error"} -> l
      [] k = 0                       -> With(l, next_token(text, l.read))
      [] OTHER                       -> Lexed(text, Lexed(text, l, k - 1), k - 1)

Run(ts, m, k) ==
    CASE m.todo = <<>> -> m
      [] k = 0         -> Do(ts, m)
      [] OTHER         -> Run(ts, Run(ts, m, k - 1), k - 1)

MaxTokens == 10     \* no text of a run has more than 2^10 tokens
MaxSteps  == 15     \* and none takes more than 2^15 steps

Outcome(m) == IF m.ok THEN [ok |-> TRUE, decls |-> SelectSeq(m.vals[1].c, LAMBDA d : d.k # "cimport")]
              ELSE [ok |-> FALSE, decls |-> <<>>]
Built(l)   == Outcome(IF l.last = "error" THEN [ok |-> FALSE] ELSE Run(l.tokens, Start, MaxSteps))
Parse(text) == Built(Lexed(text, [read |-> 1, last |-> "", tokens |-> <<>>], MaxTokens))

\* every text of the programs, parsed once
Parses == {[text |-> t, result |-> Parse(t)] : t \in {f.text : f \in UNION {Range(files) : files \in Programs}}}
Parsed(text) == (CHOOSE r \in Parses : r.text = text).result

-----------------------------------------------------------------------------
Init ==
    /\ program \in Programs
    /\ parsed = 0
    /\ decls = <<>>
    /\ checked = 0
    /\ checker = Fresh
    /\ verdict = ""

\* extract_imports_and_declarations: shards are noted for the file, imports have been followed, any
\* other declaration goes to all_declarations.  An error ends the compilation; what the resolver
\* still parses after it changes nothing of that
Extract(name, result) ==
    LET kept   == SelectSeq(result.decls, LAMBDA d : d.k \notin {"import", "shard"})
        shards == {d.v : d \in {x \in Range(result.decls) : x.k = "shard"}}
    IN  IF result.ok
        THEN /\ decls' = decls \o [i \in DOMAIN kept |-> [d |-> kept[i], file |-> name]]
             /\ parsed' = parsed + 1
             /\ checker' = IF shards = {} THEN checker ELSE [checker EXCEPT !.shards = name :> shards @@ @]
             /\ UNCHANGED verdict
        ELSE /\ verdict' = "parse error"
             /\ UNCHANGED <<decls, parsed, checker>>

ParseFile ==
    /\ verdict = "" /\ parsed < Len(program)
    /\ Extract(program[parsed + 1].name, Parsed(program[parsed + 1].text))
    /\ UNCHANGED <<program, checked>>

\* errors do not keep the checker from the declarations behind them; where it follows a null
\* pointer the process is gone
CheckDeclaration ==
    /\ verdict = "" /\ parsed = Len(program) /\ checked < Len(decls)
    /\ checker' = check(decls[checked + 1].d, decls[checked + 1].file, checker)
    /\ checked' = checked + 1
    /\ verdict' = IF checker'.lost THEN "crashed" ELSE verdict
    /\ UNCHANGED <<program, parsed, decls>>

Decide ==
    /\ verdict = "" /\ parsed = Len(program) /\ checked = Len(decls)
    /\ verdict' = IF checker.errors = <<>> THEN "accepted" ELSE "rejected"
    /\ UNCHANGED <<program, parsed, decls, checked, checker>>

Next == ParseFile \/ CheckDeclaration \/ Decide

Spec == Init /\ [][Next]_vars /\ WF_vars(Next)
=============================================================================
