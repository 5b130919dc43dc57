--------------------------- MODULE ImportResolver ---------------------------
(***************************************************************************)
(* import_resolver_c: the depth-first walk from the entry file through its *)
(* imports that yields the declarations of the program in the order in     *)
(* which they are type checked and emitted.  A declaration that comes      *)
(* before what it uses does not compile, so the order is what matters.     *)
(*                                                                         *)
(* The recursion process_file -> extract_imports_and_declarations ->       *)
(* process_file is a stack of files, each with the rest of its text: the   *)
(* imports and declarations still to be visited.  The file system does not *)
(* change during the walk; the text of a file is chosen when it is parsed. *)
(***************************************************************************)
EXTENDS Naturals, Sequences, SequencesExt, FiniteSets

CONSTANTS
  Places,     \* canonical paths
  Names,      \* the paths written in import statements
  Entry,      \* the file given on the command line
  Beside,     \* Beside[f][x]: what x denotes relative to the directory of f
  Included,   \* Included[x]: what it denotes in each include directory
  LibOf,      \* LibOf[p]: the place of lib.truk in p
  Systems,    \* the file systems: what there is at each place
  TextsOf,    \* the texts a source file may have
  Unread,     \* the file has not been parsed
  None        \* no place

Decl == "decl"
Item == Names \cup {Decl}
Kinds == {"source", "broken", "directory", "absent"}

ASSUME ImportAssumption ==
  /\ IsFiniteSet(Places) /\ Entry \in Places
  /\ Beside \in [Places -> [Names -> Places]]
  /\ Included \in [Names -> Seq(Places)]
  /\ LibOf \in [Places -> Places \cup {None}]
  /\ Systems \subseteq [Places -> Kinds]
  /\ \A system \in Systems : system[Entry] # "directory"
  /\ TextsOf \subseteq Seq(Item)
  /\ Decl \notin Names /\ None \notin Places /\ Unread \notin Seq(Item)

VARIABLES
  kind,       \* the file system
  text,       \* the items of each parsed file, or Unread
  call,       \* the argument process_file was just called with, or None
  stack,      \* _import_stack: [file, todo]
  processed,  \* _processed_files
  decls,      \* _all_declarations: the file and the position of each
  headers,    \* _c_imports, per file that has them
  errors      \* _errors: [what, file]

output == <<decls, headers, errors>>
vars == <<kind, text, call, stack, processed, decls, headers, errors>>

Exists(p) == kind[p] # "absent"

(* A directory stands for its lib.truk.                                    *)
FileAt(p) ==
  IF kind[p] = "directory" /\ LibOf[p] # None /\ Exists(LibOf[p])
  THEN LibOf[p] ELSE p

(* resolve_import_path: beside the importing file, or else in the first    *)
(* include directory that has it; if there is none, the relative path.     *)
Resolve(x, f) ==
  LET paths == <<Beside[f][x]>> \o Included[x]
      found == {i \in DOMAIN paths : Exists(paths[i])}
  IN IF found = {} THEN Beside[f][x] ELSE FileAt(paths[Min(found)])

OnTop(f) ==   \* mutant: only a file that imports itself is seen
  stack # << >> /\ stack[Len(stack)].file = f
Met(f) == text[f] # Unread   \* mutant: any file met before is a cycle
OnStack(f) == \E n \in DOMAIN stack : stack[n].file = f

Fail(what, f) == errors' = Append(errors, [what |-> what, file |-> f])

-----------------------------------------------------------------------------
Init ==
  /\ kind \in Systems
  /\ text = [p \in Places |-> Unread]
  /\ call = Entry
  /\ stack = << >>
  /\ processed = {}
  /\ decls = << >> /\ headers = << >> /\ errors = << >>

(* process_file, up to the call of extract_imports_and_declarations.       *)
(* Where it returns early, the file is neither on the stack nor processed. *)
CircularImport ==
  /\ call # None
  /\ OnStack(call)
  /\ Fail("circular", call)
  /\ call' = None
  /\ UNCHANGED <<kind, text, stack, processed, decls, headers>>

AlreadyProcessed ==
  /\ call # None
  /\ ~OnStack(call) /\ call \in processed
  /\ call' = None
  /\ UNCHANGED <<kind, text, stack, processed, output>>

Entering == call # None /\ ~OnStack(call) /\ call \notin processed

ReadFails ==
  /\ Entering /\ kind[call] = "absent"
  /\ Fail("read", call)
  /\ call' = None
  /\ UNCHANGED <<kind, text, stack, processed, decls, headers>>

ParseFails ==
  /\ Entering /\ kind[call] = "broken"
  /\ Fail("parse", call)
  /\ call' = None
  /\ UNCHANGED <<kind, text, stack, processed, decls, headers>>

Parse ==
  /\ Entering /\ kind[call] = "source"
  /\ \E t \in TextsOf :
       /\ text' = [text EXCEPT ![call] = t]
       /\ stack' = Append(stack, [file |-> call, todo |-> t])
  /\ headers' = Append(headers, call)
  /\ call' = None
  /\ UNCHANGED <<kind, processed, decls, errors>>

(* extract_imports_and_declarations, one item at a time.                   *)
Visiting == call = None /\ stack # << >>
Top == stack[Len(stack)]
LastItem ==   \* mutant: items are taken off the wrong end
  stack' = [stack EXCEPT ![Len(stack)].todo = Front(@)]
NextItem == stack' = [stack EXCEPT ![Len(stack)].todo = Tail(@)]

Declare ==
  /\ Visiting /\ Top.todo # << >> /\ Head(Top.todo) = Decl
  /\ decls' = Append(decls, [file |-> Top.file,
                             at |-> Len(text[Top.file]) - Len(Top.todo) + 1])
  /\ NextItem
  /\ UNCHANGED <<kind, text, call, processed, headers, errors>>

Import ==
  /\ Visiting /\ Top.todo # << >> /\ Head(Top.todo) \in Names
  /\ LET p == Resolve(Head(Top.todo), Top.file)
     IN IF kind[p] = "directory"
        THEN Fail("directory", Top.file) /\ UNCHANGED call
        ELSE call' = p /\ UNCHANGED errors
  /\ NextItem
  /\ UNCHANGED <<kind, text, processed, decls, headers>>

(* The end of process_file: the file is popped and counts as processed.    *)
Kept(s) == s   \* mutant: the file stays on the stack
Popped(s) == Front(s)

Unmarked(f) == processed   \* mutant: the file is not marked
Marked(f) == processed \cup {f}

Complete ==
  /\ Visiting /\ Top.todo = << >>
  /\ processed' = Marked(Top.file)
  /\ stack' = Popped(stack)
  /\ UNCHANGED <<kind, text, call, output>>

Next ==
  \/ CircularImport \/ AlreadyProcessed \/ ReadFails \/ ParseFails \/ Parse
  \/ Declare \/ Import \/ Complete

Spec == Init /\ [][Next]_vars
FairSpec == Spec /\ WF_vars(Next)

-----------------------------------------------------------------------------
TypeOK ==
  /\ kind \in [Places -> Kinds]
  /\ \A p \in Places : text[p] \in TextsOf \cup {Unread}
  /\ call \in Places \cup {None}
  /\ \A n \in DOMAIN stack : IsSuffix(stack[n].todo, text[stack[n].file])
  /\ processed \subseteq Places
  /\ \A n \in DOMAIN decls : decls[n] \in [file : Places, at : Nat \ {0}]

(* The walk is depth first: each file on the stack has just imported the   *)
(* next one, no file is on it twice, and none of them is processed yet.    *)
StackIsAChain ==
  /\ \A m, n \in DOMAIN stack : stack[m].file = stack[n].file => m = n
  /\ \A n \in DOMAIN stack : stack[n].file \notin processed
  /\ \A n \in 2 .. Len(stack) :
       LET above == stack[n - 1]
           done == Len(text[above.file]) - Len(above.todo)
       IN stack[n].file = Resolve(text[above.file][done], above.file)

Done == call = None /\ stack = << >>

(* What the walk should find, from the texts alone.                        *)
ImportsOf(f) ==
  IF text[f] = Unread THEN {}
  ELSE {Resolve(x, f) : x \in ToSet(text[f]) \cap Names}

(* The places that importing f leads to, in one step or more.              *)
Leads(f) ==
  LET reach[n \in 1 .. Cardinality(Places)] ==
        IF n = 1 THEN ImportsOf(f)
        ELSE LET nearer == reach[n - 1]
             IN nearer \cup UNION {ImportsOf(g) : g \in nearer}
  IN reach[Cardinality(Places)]

Program == {Entry} \cup Leads(Entry)

WellFormed == \A p \in Program : kind[p] = "source" /\ p \notin Leads(p)

(* The walk succeeds exactly when every file of the program can be parsed  *)
(* and no file imports itself, directly or not: a file that is imported    *)
(* along several paths is not taken for a cycle, and no cycle is missed.   *)
VerdictIsRight == Done => (errors = << >> <=> WellFormed)

(* Every declaration of the program is there, once; and whatever a file    *)
(* has imported before a declaration is declared before it, imports of     *)
(* imports included.                                                       *)
Declared(f) == {n \in DOMAIN decls : decls[n].file = f}
DeclarationsOf(f) ==
  {[file |-> f, at |-> i] : i \in {j \in DOMAIN text[f] : text[f][j] = Decl}}

DeclarationsInOrder ==
  Done /\ errors = << >> =>
    /\ IsInjective(decls)
    /\ ToSet(decls) = UNION {DeclarationsOf(f) : f \in Program}
    /\ \A n \in DOMAIN decls :
         LET f == decls[n].file
             before == ToSet(SubSeq(text[f], 1, decls[n].at - 1))
         IN \A x \in before \cap Names :
              LET p == Resolve(x, f)
              IN \A g \in {p} \cup Leads(p) : \A m \in Declared(g) : m < n

(* The walk ends, whatever the files import.                               *)
WalkEnds == <>Done

(* imports.md: "each file is processed once, even if imported multiple     *)
(* times".  In particular its errors are reported once.                    *)
ProcessedOnce ==
  \A m, n \in DOMAIN errors :
    errors[m] = errors[n] /\ errors[m].what \in {"read", "parse"} => m = n
=============================================================================
