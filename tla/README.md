# Specifications of truk

truk is a compiler. `truk compile` walks the imports of an entry file, type
checks the declarations it collected, emits C and, for `run` and `test`, has TCC
compile and run that C in the same process together with a small C runtime. This
directory holds TLA+ specifications of the parts of truk whose state is hard to
get right, TLC configurations that check them on small instances, and TLAPS
proofs for all instances.

Paths below are relative to the repository (`src/` in `PROJECT.json`).

## The system

| part | state it keeps | operations | used by |
|---|---|---|---|
| tokenizer, `libs/ingestion/src/tokenize.cpp` | a cursor in the text | `next_token` and a scanning function per kind of token | parser |
| parser, `parser.cpp` | the tokens, a cursor in them, the call stack of its rules | one function per grammar rule, an exception for an error, a handler in `parse_type` | import resolver |
| import resolver, `import_resolver.cpp` | import stack, processed files, declarations, C headers, shard names, errors | `resolve`, `process_file`, `extract_imports_and_declarations`, `resolve_import_path` | compile, run, test, toc |
| memory, `libs/core/.../memory.hpp` | a fixed array of contexts, each a map of owned items and a queue of keys to hoist | `push_ctx` `pop_ctx` `set` `get` `is_set` `drop` `defer_hoist` | type checker, symbol collector, environment |
| environment, `environment.hpp/.cpp` | one memory, a mutex, a validity flag shared with its handles | the memory's operations under the mutex; destruction | embedders, one handle per thread |
| symbol collector and capture validator, `libs/validation/src/typecheck.cpp` | a tree of scopes with names, a cursor in it | one visit per node | type checker, before each declaration |
| control flow checker, `control_flow_checker.cpp` | two flags and `_in_loop` | one visit per node | type checker, on defer and lambda bodies |
| type checker, `typecheck.cpp` | a memory with symbols and types, the type of the last expression, the expected return type, `_in_loop`, tables from names to files and from files to shards, errors | `check`, one visit per node, `resolve_type` | compile, test |
| emitter, `libs/emitc` | phase, output buffers, the stack of defer scopes, flat variable and type tables | one visit per node; builtin handlers | compile |
| runtime, `runtime/sxs` | the map; the context of a test | map operations, `panic`, bounds check, assertions | emitted programs |
| commands, `apps/truk/commands` | the declarations and what the phases return; in `test` failures so far | one phase after the other, one file after the other | command line |

They work in sequence and hand over finished data (tokens, declarations, symbols,
a string of C). State is shared in four places: the checker's visits leave their
result in one member (`_current_expression_type`) that the next visit reads or
overwrites; the memory of the checker outlives the scopes that refer to its
items; the emitter's scope stack is read by every statement that leaves a scope;
and threads share an environment. Callbacks occur in emitted programs, where
`each` calls a lambda while it holds an iterator.

What is hard, and what makes each part correct:

* *tokenizer and parser*: about sixty rules that move one cursor, with lookahead,
  a handler that swallows errors wherever it stands, and operators whose order is
  the order in which rules call each other. Correct when no character and no name
  is lost, operands nest as the levels say, a malformed type is never an accepted
  one, the cursor stays on the tokens, and every text has an end.
* *imports*: a recursive walk over a graph with cycles, diamonds and files that
  fail. Correct when its verdict is that of the graph, and when declarations come
  before their uses (nothing sorts them afterwards).
* *memory*: ownership moves between contexts at a pop. Correct when pointers and
  living objects correspond one to one, and a pop promotes exactly the keys that
  were scheduled.
* *environment*: threads and a destructor race. Correct when the memory behaves
  as if one thread used it, and when nobody uses it after its destruction.
* *type checker*: visits that fail half way must leave the scopes, the expected
  return type and `_in_loop` as they were; results travel through one member; a
  lambda replaces what the function around it is in the middle of. Correct when
  what it accepts has every name declared, every value of a type that fits its
  place, every jump at home and nothing private taken.
* *defer*: one deferred statement is copied to every exit of its scope. Correct
  when each path through the program runs each registered defer exactly once, at
  the exit of its scope, last registered first.
* *map*: chains are rebuilt while the table grows, allocations fail, iterators
  and string keys are pointers into memory that others change. Correct when
  lookup and iteration agree with the contents whatever the table looks like.
* *test command*: failures are counted over files and processes. Correct when the
  exit status tells whether there were any.

## Modules

| module | models | how |
|---|---|---|
| `Tokenizer` | `tokenizer_c`, the keyword table | pure operators on a text and a position; `next_token` returns a token and the position behind it |
| `Grammar` | the parse functions of `parser_c` | each function is the sequence of *items* its body performs (expect a token, call a rule, choose by the next token, repeat, build a node from the values on top, ...); `Do` is the machine that takes one item, with exceptions and the handler of `parse_type` |
| `Parser` | `parser_c::parse` | a process: one token a step, then one item a step |
| `TypeEntries` | `type_entry_s` and the questions asked of two of them; array sizes; the signatures of builtins | entries are records that contain the entries they own |
| `SymbolCollector` | `symbol_collector_c`, `lambda_capture_validator_c`, `control_flow_checker_c` | folds over the tree, in the order of the visits |
| `TypeChecker` | `type_checker_c` | each visit is an operator from the state before to the state after; the state is a record of the members |
| `FrontEnd` | `compile` up to the emitter | parse the files one after the other, check the declarations one after the other, decide |
| `ImportResolver` | `import_resolver_c` | the recursion is a stack of files with the items left to visit |
| `Memory` | `memory_c` | the whole memory is one value `mem` (contexts, depth, living items) and each operation a function of it, so that `Environment` can apply the same functions; `MayDefer` bounds the queue; `Drain` is the loop of `pop_ctx`, `Hoisted` its closed form |
| `ScopedStore` | what `memory_c` promises | items have places; closing a scope moves the promised ones |
| `Environment` | `environment_c`, handles, destructor | check, lock, work, unlock; `seen` is the memory as the thread read it under the lock, and the effect is computed from it |
| `DeferScopes` | the defer part of `emitter_c` | `stack` is the emitter's; `skip` and `ran` follow one path through the code emitted |
| `DeferContract` | what `docs/language/defer.md` promises | the scopes a running program is in and what each owes |
| `RuntimeMap` | `map.c` and the loop `each` emits | heap nodes, chains per bucket, and the iterator |
| `MapClient` | the assignments and deletes the emitter writes around `map.c` | each operation of `RuntimeMap` next to what the statement asked for (`asked`) and whether it was in vain (`lost`) |
| `ParserProofs`, `ImportResolverProofs`, `MemoryProofs`, `EnvironmentProofs`, `DeferScopesProofs`, `RuntimeMapProofs` | | theorems about the module of that name |
| `GrammarProofs` | | what each rule of `Grammar` leaves behind; `MemoryProofs` also holds that `Memory` implements `ScopedStore`, `RuntimeMapProofs` what a `MapClient` sees |
| `SequenceFacts` | | lemmas on sequences, and the induction they rest on |

`Parser` and `FrontEnd` are built on the same `Tokenizer` and `Grammar`: `Parser`
takes their steps one at a time, `FrontEnd` runs them to the end of a file and
hands the trees to `TypeChecker`. `Environment` instantiates `Memory` on its own
variable `mem`; `Memory` and `DeferScopes` instantiate their abstract
specifications with refinement mappings. `MC...` modules add the values of
constants for TLC and the properties that need a definition of their own of what
a text or a program means. Operators marked `mutant:` or `bug:` are deliberate
mistakes next to the definition they would replace; no specification uses them.
They document which mistake each property catches.

Some choices that are easy to miss:

* `Grammar` has no variable. A machine is a record with the cursor (`at`), the
  items still to be done (`todo`, the call stack of the parser written out), the
  values built so far (`vals`, its locals) and `ok`. An exception drops the items
  up to the handler; what the rules in between have built goes with them. A node
  is `[k, v, p, c]`: kind, name or operator, the number of the token it was made
  from, and its children.
* The text of a token is kept, its line and column are not.
* A state of `TypeChecker` has two members the code has not: `lost`, set where
  the code follows a null pointer or takes a type for a symbol, after which the
  model claims nothing but that the process is gone; and `types`, the type of
  each expression at the end of its visit, which properties read and no visit
  does. An error is a word for its message: the checker never looks at its
  errors, compile asks whether there are any.
* `TypeChecker` keeps names in a stack of functions where the code has a
  `memory_c`: it uses `set`, `get` and the contexts. Its `defer_hoist` of a local
  struct does nothing, since declarations are global; hoisting itself is in
  `Memory`.
* `visit_let` notes the type the inferred node stands for, since the emitter
  reads the node and not the type.
* `Memory` has two empty slots: `Absent` (the key is not in the map) and `Null`
  (it is, with an emptied `unique_ptr`). The difference decides what a repeated
  hoist does, and `is_set` and `get` see it.
* `DeferScopes` walks the *text* once, as the emitter does, and at every branch
  chooses whether the path goes there. After a `return` the emitter goes on with
  the same stack while the path is elsewhere; `skip` is the scope at whose end
  they meet again. One iteration of a loop is followed, so `continue` leaves it
  as `break` does. A lambda is called where it is written, or not at all.
  Deferred code is opaque: what it contains is not walked.
* `RuntimeMap` keeps for each node the hash it had when it was stored, while its
  text is looked up through the key pointer when it is compared: that is how
  string keys work in `map.c`. For other keys nothing ever changes the "text".
  `realloc` and `malloc` may fail at any call. `Advance` takes the key and the
  value from the iterator's node; the emitted loop looks the key up once more
  for the value (`builtin_handlers.cpp:234-236`), which by `LookupFindsContents`
  finds that node, and which is one more reader of a key that has been freed.
  `Recreate` is `delete(m)` and the next `make` in one step: what is between them
  is a header that dangles, listed as a hazard.
* A set that fails returns -1 and leaves the map as it was (`SetFails`). That the
  emitted assignment drops the -1 and the program goes on is in `MapClient`
  (`AssignInVain`), where `LookupIsLastAssigned` says what the program then sees.
* In `ImportResolver` the text of a file is chosen when it is first parsed. An
  error names the file the code names. Shards are noted in `FrontEnd`.

## Runs

| run | bounds | shows |
|---|---|---|
| `parser` | the 339 texts of `MCSources` | see below |
| `front_end` | the 2075 programs of `MCPrograms`, of up to three files | see below |
| `imports` | 6 places, 3 names, up to 2 imports a file, 42 file systems | verdict = graph, declarations in order, stack is a chain, termination |
| `imports_twice` | the same | *violation* of imports.md: a broken file is processed once per import |
| `memory` | 3 contexts, 2 keys, 3 items, queues of 2 | typing, one-to-one ownership, `Hoisted` = the loop for all queues up to 3 (repeats included), refinement of `ScopedStore` |
| `memory_repeat` | 2 contexts, 1 key | *violation* of the comment on `pop_ctx`: a key scheduled twice is lost |
| `environment` | 2 threads, 1 key, 2 items, 2 contexts | exclusion, no lost update (refinement of `Memory`), the destructor ends |
| `environment_destroy` | the same | *violation* of the comment on handles: use after destruction |
| `defer` | 4 nested scopes, 4 defers | each defer once, at the exit of its scope, in order, on all paths (refinement of `DeferContract`), if lambdas do not return |
| `defer_lambda` | 4 scopes, 2 defers, lambdas may return | *violation* of defer.md: the return of a lambda runs the defers of the function around it |
| `map` | 4 keys with 3 texts, 2 of them with one hash, 3 nodes, up to 4 buckets | the chains own the nodes, lookup = contents, edits change one key, a program sees what it assigned last or null if that failed, `each` visits all |
| `map_freed_key` | the same, keys may be freed while stored | *violation* of the example in maps.md: a lookup reads a freed key |

### `parser`

Its texts are products: every ordered pair of thirteen infix operators, one or two
of each level; every prefix operator with every postfix form; every form of type,
statement and declaration, right, wrong and cut short; and the limits of the
tokenizer (comments and strings that do not end, escapes, numbers without digits,
runs of operator characters).

* `TypeOK`: tokens end in their only end of file and the cursor stays on them.
* `EverythingIsRead`: a parse that succeeds has used every token and every value.
* `TokensTileTheText`: between two tokens are only blanks and comments, by a
  definition of those that does not use the tokenizer's.
* `TokensAreLongest`: no token could have gone on.
* `OperatorsBind`: for each operator, what stands unbracketed in its operands
  binds tighter; on the left also equally tight.
* `EveryNameIsKept`: names and literals in the tree, in order, are those of the
  text; the copied target of a compound assignment counts once.
* `RepeatedTargetIsPure`: that copy contains nothing with an effect.
* `NullTypesStayLocal`: the null type of a swallowed error stands under a cast or
  in a function type and nowhere else.
* `ParseEnds`: every text is a program or an error in the end.

`NodesOf` looks as deep as there are twice as many nodes on a branch as tokens in the
text (`TreeDepth`), since no token adds more than two levels; in these texts no branch
has more nodes than there are tokens.

Pairs of operators suffice since each rule of a level sees only the level below
and its own operators; three levels deep nothing new happens. A text without the
other kinds of mistakes around it takes the same path through a rule.

### `front_end`

The programs are products of a construct and the places it may stand in:
declarations and uses in and out of scopes; lambdas and what is around them;
jumps in loops, lambdas, matches and defers; 28 values for 15 types, given at once
or assigned later, and the same values in 33 other places (targets that are
entries, elements, fields or no variables, keys and indices, fields and elements
of literals, conditions, operands, patterns); functions whose lambdas return
something else; single statements with each operator, builtin and member;
declarations with types that are not there; and two files with and without shards
in common, one using the private names of the other, with or without a third that
declares these names again. All
properties but the first and last speak of *accepted* programs and are evaluated
with `Sites`, a second walk of the trees that knows scopes, loops and lambdas
from the text alone.

* `ScopesAreClosed`: after each declaration, in error or not, one scope is left,
  with global names only.
* `NamesAreDeclared`, `CapturesAreRejected`, `JumpsStayHome`,
  `PrivateStaysPrivate`: what the names say.
* `NothingIsSkipped`: each expression has been visited.
* `TypesFit`: what is returned, passed, initialized, assigned to a variable, an
  element or an entry, put in a literal, inferred, tested, matched, used as an index
  or key and computed with has a type for its place. It says nothing of the targets
  of casts, the members that are read and the arguments of builtins.
* `OnlyKnownCrashes`: the checker follows a null type only for `[undefined]`, and
  takes a type for a symbol only for a name like `__type__x`.
* `StaleTypesDoNotDecide`: with another type left over from the declaration
  before, the same programs are accepted with the same types.

They name what they leave out, since the code leaves it out: constants captured by
a lambda; a name that is declared later in the lambda; a jump in a lambda behind an
earlier return or jump (both flags of the control flow checker stop its walk);
values without a type, which only assignments and operators refuse; the type of a
`let` that has no node, or of a float; the crash on `[undefined]`. Where a document
of the repository says otherwise, "What the checks found" does too. Three files
suffice: the tables of the checker are keyed by one name and compare one pair of
files, and the third can overwrite an entry of the first. `MaxTokens` and `MaxSteps` bound the
length of a text (2^10 tokens, 2^15 items); the longest text of the run has 95
tokens and takes fewer than 2^13 items.

### The other bounds

Three contexts are the root, a parent that is not the root, and a child, all a
pop can tell apart; two keys and three items let two hoists overwrite each
other's targets. One key and two items are enough for lost updates, since
conflicts are per key, and two contexts for the limit of `push_ctx`. Four scopes
nest a loop in a lambda in a loop in a function; with four defers every one of
these scopes can owe one, or one scope several. Three texts make the table grow
0, 1, 2, 4 and make chains of three before the last growth splits them, and the
pair with equal hashes is never split; a fourth pointer to a stored text tests
comparison by text. Two imports per file give cycles of every length over the
four files, diamonds, repeats and shadowing by directory and include path.

`CHECK_DEADLOCK FALSE` is set for the environment (once it is destroyed all its
threads may have stopped), for the imports (the walk ends), for the parser (it
returns) and for the front end (it has its verdict).

Fairness. `Environment`: a thread that is inside an operation is scheduled and
the destructor, once begun, as well; nothing obliges a thread to begin an
operation, and the mutex hands itself to anyone (weak fairness on its users, no
strong fairness). `DestructionCompletes` holds since the cleared flag turns new
operations away. `Parser` and `ImportResolver` are sequential functions, so they
take steps as long as they can: weak fairness of `Next`. The other
specifications are checked for safety only.

## What the checks found

1. `memory.hpp:81-88`. The drain loop leaves an emptied pointer under a moved key;
   a second entry in the queue moves that over the item just hoisted.
2. `environment.hpp:101-105`. The validity check and the lock are two steps; the
   destructor fits in between.
3. `emitter.cpp:2049-2061`. `emit_all_remaining_defers` does not stop at the
   lambda scope.
4. `map.c:108-122` keeps the pointer of a slice key; the documentation deletes the
   slice right after storing it.
5. `import_resolver.cpp:399-419`. A file that cannot be read or parsed is not
   marked as processed.

The models also do, as the code does, what the documentation rules out in the
following places. The properties of the passing runs are worded so that they do
not claim otherwise; these divergences have no run of their own.

* A failed allocation does not end the program. `emitter.cpp:1659-1678` drops the
  result of `__truk_map_set_`, and the allocator behind it is `malloc`
  (`runtime.h:22`), so an assignment that finds no memory is skipped in silence
  and a later look-up of its key gives null, where `builtins.md:550` promises a
  panic that cannot be handled. `AssignInVain` is that step. The run `map`
  reaches it at every size of the table: nothing else is lost, and no older value
  comes back (`LookupIsLastAssigned`).
* `types_equal` does not look at what pointers point to (`typecheck.cpp:328-376`), so
  `each` passes a `*[]u8` as context, or a `*[]i32` as element, to a callback that
  takes a `*u8` or a `*i32`. `builtins.md:289-291` has the parameters be `*T` and "same
  as `context` parameter". For a slice of pointers the element must even be
  declared with one star too few: the check sets its depth to 1 (`typecheck.cpp:815`).
* A `break` behind an earlier `return` of a lambda leaves the lambda for the loop
  around it: `control_flow_checker.cpp:8` stops at the first control flow it meets,
  and `_in_loop` is still that of the loop. `typechecker.md:310` has lambda bodies
  checked to contain none. `JumpsStayHome` exempts exactly this case.
* `fn f() { [v]; }` with no `v` dereferences null (`typecheck.cpp:2370`), where
  `typechecker.md:286` has all errors collected. `OnlyKnownCrashes` exempts exactly
  this crash and the one of names like `__type__x`.
* `let x = 1.5;` gets the node of an i32 (`typecheck.cpp:3368`), where `grammar.md:19`
  has float literals default to `f64`. `TypesFit` does not look at such a `let`
  (`IsPlain`).

Smaller things found while modelling the front end, built into the model as they
are; only the last contradicts a document:

* `let s = "abc";` and `let n = nil;` are accepted, but have no type node, because
  their pointer does not know what it points to (`typecheck.cpp:2187`, `:3317`);
  the emitter reads the first element of an empty list (`emitter.cpp:1159`).
* `1 + 2.5` has the type i32.
* What a pointer is indexed to is still a pointer, of depth 0 (`typecheck.cpp:2109`).
* `[undefined]` has the type some earlier expression has left, if there is one.
* `f(@i32)` and any other value without a type is accepted for every parameter;
  so is `x as fn(i32, *): u8`, whose type was swallowed with its error.
* Pointers are compared by name, depth and size only, everywhere: `*[4]i32` is `*i32`.
* Assigning to a constant, a function that does not return on all paths, and a
  global that uses itself are accepted; a call of a function that is declared
  later is not.
* Private functions as values, private fields in struct literals and private
  constants are not checked; a local with the name of a private global of another
  file is refused.
* The text ends where an unterminated comment begins; a string that does not end
  is a string; `0x` and `1e` are numbers. `[010]i32` has eight elements, while the
  enum value `010` is ten, and `0X1F` zero.
* `while S { }` reads a struct literal and fails. `a * b as T` is a parse error: the
  right operand of `*` is read by `parse_unary` (`parser.cpp:1264`), while
  `docs/language/grammar.md:154` has a cast on both sides.

## Proofs

All theorems hold for every value of the constants that satisfies the named
assumptions of the modules.

`MemoryProofs` (assumption: `MemoryAssumption`): `Spec => []TypeOK`, `Spec =>
[]Ownership` and `Spec => []HoistedIsTheLoop`, for clients that may repeat a
hoist, too. The inductive invariant is the conjunction of the two. Ownership needs
all of its three parts at once: that a pop destroys the right items follows from
what was shared, dangling or leaked before, and typing gives the shape of the
array that a pop changes in two places. `PopShape` says where every pointer is
after a pop; the three parts are then proved from it, with `Origin` naming the
slot each pointer came from. All of this is about the closed form `Hoisted`;
`DrainIsHoisted` says that it is what the loop of `pop_ctx` leaves in the parent,
for queues of any length. `FoldLeft` recurs over sets of positions: `MovesExist`
shows that there is a function with that recursion, `DrainByStep` that it is one
move after the other, and `MoveOneAfter` what a move does to the state described
by the keys seen so far and those seen twice.

The same module, last part: `Spec => ImplementsStore` and `Spec => HoistReachesParent`,
both under the hypothesis `~RepeatHoist`, that clients schedule a key at most once
per context. The run `memory_repeat` shows that without it the second is false, so
the hypothesis is the exact border of the promise in `memory.hpp`. `Ownership` makes
the refinement mapping a function (an item is in one slot, `PlaceOf`). It is not
enough for a pop: an emptied pointer in the child would displace an item of the
parent without anything being promoted. `Single` excludes it, and is inductive:
no queue of a context has a key twice, and no scope holds an emptied pointer. Then
each operation is the step of `ScopedStore` with its name, one lemma each.

`EnvironmentProofs` (assumption: `EnvironmentAssumption`): `Spec => []TypeOK`, `Spec
=> []MutualExclusion` and `Spec => ImplementsMemory`, for any number of threads. The
inductive invariant `EInv` says that who is between lock and unlock holds the
mutex (`Holder`), that such a thread's copy of the memory is current (`Current`,
the reason no update is lost), that items on their way into the memory are fresh
(`FreshItems`, the guard of `Memory`'s `SetItem`), and that the memory exists as
long as the mutex does (`Alive`). The refinement then carries over what is proved
of a `Memory` used by one thread: `EnvironmentOwnership` and
`EnvironmentImplementsStore` (`Environment` uses `Memory` with `RepeatHoist` false).
`Alone` is that memory as the proofs see it; `SameMemory` and `SameStore` say that
the two instances are the same.

`DeferScopesProofs` (assumption: `DeferAssumption`): `Spec => []TypeOK`, and, under
the hypothesis `~LambdaReturns`, `Spec => []RunsOnceOnExit` and `Spec =>
ImplementsContract`, for any depth of scopes and number of defers. The run
`defer_lambda` shows that the hypothesis cannot be dropped. `RunsOnceOnExit` speaks of
what has run and of the scopes on the path, while a `return` runs everything the
stack owes; the invariant adds that no two scopes of the stack owe the same
(`Distinct`) and that all that is owed or has run was met before (`count`). For the
refinement, `Path` is the part of the stack the path is in: the stack, or what is
below the scope at whose end control comes back. The code emitted by one `return`
is a concatenation of reversed lists, of as many as there are scopes, so its facts
need an induction; see below.

`RuntimeMapProofs` (assumption: `RuntimeMapAssumption`): all six properties of the
run `map`, for all keys, texts, hash functions and numbers of nodes. Four hold also
when keys that are stored are freed. `EditsAreExact` and `LookupIsLastAssigned` have
the hypothesis `~KeysChange`: freeing a stored key takes its entry out of what the
map holds although no operation of the map has run. A set that fails is a step of the
map like the others, and the first of the two says that it loses nothing. The second
is about the program that goes on after it (`ClientSpec`): what the map holds is
what the statements asked for, but for what they asked for in vain (`Agreed`), which
each step keeps because its edit is exact and because a set fails only where the
look-up before it has found nothing. The inductive
invariant has four parts besides the types. `Table`: the chains hold the allocated
nodes, each once, in the bucket of its hash, so that lookup in one bucket is enough;
the same operator is used of the array before and after a resize. `Keyed`: two
nodes never have the same text as long as it can be read. `Counted`: the counter is
right and no larger than the table, so that a table with a node has a bucket. `Loop`:
what `each` has visited are the keys of the nodes up to the iterator in the order of
the table (`Passed`), and a `next` passes exactly one more.

`SequenceFacts`: the provers cannot use a theorem whose parameter is an operator, so
induction is done over a *set*: `SetInduction` (a set of numbers that contains 0 and
with each number the next contains all numbers) comes from the well-foundedness of
the naturals, and `FlattenInduction` and the lemmas after it say what a
concatenation of sequences contains and when it repeats nothing. `RuntimeMap` keeps
chains with `Kept`, a concatenation, rather than `SelectSeq`, whose recursive
definition nothing can be proved about.

`ImportResolverProofs` (assumption: `ImportAssumption`): all four invariants of the run
`imports`, for every finite set of places, every file system, every text of its
files and every list of include directories.

`StackIsAChain` speaks of two neighbours on the stack, but at the time a file is
called it is not on the stack yet, and when it is pushed the text of the caller
must still be the one it was found in. Hence the first invariant, `IInv`, has the
file in `call` as the last import of the file on top (`Calls`), for each file of the
stack its text and the position in it (`Frames`), and the types, without which an
import need not denote a place. `Pushing`, `Advancing` and `Popping` are the three
things that happen to a stack; `NextChain` puts their results together, since the
file system does not change.

`VerdictIsRight` and `DeclarationsInOrder` compare the end of the walk with a graph
that is known only then, since the text of a file is chosen when it is parsed. The
second invariant, `Account`, therefore says things that stay true when texts are
added. Most are about *closed* sets, which with a file contain all it imports: the
processed files are one; around each import that comes before a declaration there
is one whose declarations all come earlier (`Settled`); each processed file has one
that holds its imports and not itself (`Acyclic`); an error names a file that every
closed set around the entry contains, and that is unreadable or in every closed set
around its own imports (`Blamed`). A closed set of processed files stays closed
because their texts have been read (`StepKeeps`), and a file that is complete has all
its imports processed because each frame of the stack waits for nothing but the file
above it (`Followed`). That a file called while it is on the stack imports itself is
an induction up the stack (`CycleFound`). At the end `LeadsFacts` turns closed sets
into `Leads`: the recursion in it reaches every place in as many steps as there are
places, because a set that is not closed yet has grown. This is the only use of the
assumption that there are finitely many.

`GrammarProofs` (no assumption): what the sixty rules leave on the stack of values.
The *shape* of a stack says of each value whether it is a token, a token that
assigns, a node, a node or null, a list, or a list with nulls in it. An item takes
one shape to another: `Flat` where it does not branch, `Fits` where it chooses or
repeats, and a loop must give back the shape it was entered with. `Runs` is that
relation for a sequence of items. Items contain sequences of items, so `Runs` would
be a recursive definition; it is written as membership in a set of claims that is
closed, which needs no recursion and no induction (`MoreClaims` and what follows it).
A `Build` fits only if its kind may have these children (`Needs`): a field has a type
that is not null, a tuple type has types only. Each rule has a lemma that follows its
body item by item. Where it calls a rule, `Flat` takes the result of that rule for
granted; `RulesRun` collects the lemmas, and with it the assumption is discharged for
all rules at once. The recursion of the grammar is thereby cut at the calls: each
step of the machine unfolds at most one of them.

`ParserProofs` (no assumption), for every text. `Spec => []TypeOK` rests on `IInv`.
`TypeOK` is not inductive: that the end of file is the last token *and no other*
needs to be known before the last token is there, so `IInv` says of the lexing
phase that no token is an end of file yet and that the machine is untouched; and
a step preserves the cursor only if the machine keeps the shape of its record.
The argument for a step of the machine is one lemma (`DoMoves`, a case per item),
which says where the cursor may be afterwards: where it was, or one further if it
was not at the end of the file. Nothing is used of the sixty rules, so that this
theorem holds for any grammar written with these items.

`EverythingIsRead`, `RepeatedTargetIsPure` and `NullTypesStayLocal` speak of the end
of a parse, and nothing about its end is kept by a step unless the items still to be
done are known to fit the values already built. The second invariant, `VInv`, says so
until the parse fails:

* `Typed`: there are shapes for the values before each item of `todo`, such that each
  item takes one to the next and the last leaves the list of a program (`Framed`).
  A handler complicates this: it has a height, below which the values must stay
  what they are whatever is thrown above it. Hence a shape has two parts, the base
  that lies below the nearest handler and what is on top of it, and the item `catch`
  is where one base gives way to the next (`Frame`). `ThrownFollows` finds the first
  handler and the base there: what the failed rules had built is gone, nothing below
  it is, and the null type takes its place.
* `Matches`: each value is what its form says. For a node that means that it and all
  nodes below it are `Local`: a copy contains nothing with an effect, the value of a
  compound assignment begins with its target, a declared type is not null. "All nodes
  below" is again membership in a set closed under children (`Sound`), so that a new
  node only has to be looked at together with its children (`NodeOfParts`).
* `Bottom`: the last item of `todo` is the loop of `parse_program`, which leaves only
  at the end of the file. Without it a parse could be finished anywhere.
* `AssignersNamed`: a token that assigns has its kind as its text. `parse_assignment`
  decides by the text of the token whether it repeats the target, the property by the
  kind, so that this fact about the tokenizer (`OperatorsNamed`) is needed too.

`DoFollows` is the step: an item whose values fit leaves values that fit what is then
to be done, or nothing is left to be done and the parse has failed. At the end `todo`
is empty, so the shape is one list and the cursor is at the end of the file
(`ParsedTree`); and the nodes of the tree are in the closed set of sound ones
(`NodesInside`, for whatever depth one looks to), from which the two properties of
trees follow.

Only model-checked, and why:

* `TokensTileTheText` and `TokensAreLongest` compare texts character by character,
  with the prover's strings opaque and `IsGap` recursive; `OperatorsBind` and
  `EveryNameIsKept` follow trees by recursion.
* All properties of `FrontEnd`: the collector, the checker and `Sites` are recursions
  over trees from end to end.
* Liveness under fairness (`ParseEnds`, `DestructionCompletes`, `WalkEnds`).

## Not modelled

* Of the emitter everything but defer: it writes C text, and what goes wrong in it
  (a wildcard case that is emitted as a leading `else`, the flat table that says
  what kind of variable a name is) shows when C reads that text, which would take
  a model of C.
* What deferred code contains. Two hazards hang on it: a lambda with a `return`
  inside a deferred block makes the emitter emit the same defers without end, and a
  nested `defer` there grows the list being walked.
* Callbacks of `each` that insert or remove. Removing the current key frees the
  node under the iterator, inserting may resize the table under it.
* The raw pointers that `get` and map reads return.
* Integer width of hashes, bucket counts and array sizes.
* The wording, line and column of errors; `error_display`, `error_reporter`.
* Code that nothing calls or that does nothing: `topological_sort`,
  `analyze_dependencies` and `dependency_visitor_c`; the checker's visits of type
  nodes (`typecheck.cpp:975-1132`), `visit(enum_value_access_c)`, `resolve_types`,
  `final_validation` and the result of `analyze_control_flow`, `is_type_identifier`,
  and the `is_mutable` of symbols, which is written and never read.
* The test command: a sequential loop that adds up counters. That its exit status
  keeps eight bits and that a panic ends it are listed as hazards.
* `run` and `toc`, writing files, TCC, the runtime's start, `panic` and bounds
  checks: forwarding to other code. Vendored code (RLL), prototypes, sample
  programs, tools.
