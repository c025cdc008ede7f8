# A verification project for lbc

lbc is a compiler for a BASIC dialect: C++23, LLVM as the back end, one thread.
This directory models its parts in TLA+, checks the models with TLC on small
instances, and proves the results that matter most with TLAPS for every value
of the constants. Sources are named relative to the repository (`src/Driver/Driver.cpp`).

## The system

```
main.cpp -> CompileOptions::finalize -> Driver::run
   for every source:
     CompileTask = Lexer -> Parser -> SemanticAnalyser -> IrGenerator -> gen::Generator
     then EmitLlvmTask, or WriteBitcodeTask -> OptimizeTask (opt) -> EmitNativeTask (llc)
   EmitBinaryTask (cc) links the objects and the pre-built ones
```

Everything hangs on a `Context` (arena, interned strings, source manager,
diagnostics, type factory). Components call one another directly; there are no
threads, messages or callbacks. Failure is a `DiagResult`: an error is logged
when it is noticed, its index travels up through `TRY`, and destructors clean up
on the way. The outside world is the file system and three tools run as
processes, any of which may fail at any time.

| Component | State | Operations | What is hard about it | Correct when | Modelled in |
|---|---|---|---|---|---|
| Artefact (`src/Driver/Artefact.*`) | a path and the flag that it is owned | constructors, two moves, destructor | ownership over any sequence of moves | every temporary has one owner, goes with it, and nothing else is ever deleted | `Artefact`, `TempOwnership` |
| Driver and stages (`src/Driver`) | options, inputs, the artefacts on the stack, the disk | `run`, `validate`, `compileSource`, six tasks | partial failure at any step, which stage owns what, an output without a name or with an input's | a run cleans up, says why it failed, delivers what was asked, deletes no input | `Driver` |
| CompileOptions, `main.cpp`, target | typed option fields, file buckets, the triple | setters, `addFile`, `finalize`, `toCommandLine`, `buildTriple` | derived settings, paths resolved in several places against different directories | defaults resolved once; the dump is a command line that gives the same options | `Options` |
| Context | arena, string set, LLVM context, source manager | `allocate`, `retain`, `create`, `createTempFile`, `replace*` | lifetimes | interned strings compare by content; nothing outlives the arena | partly |
| Diagnostics (`src/Diag`) | append-only log | `log`, `get`, `print`, counters | an index must stay valid; every failure has an entry | indices name the diagnostic they were given for | partly: where one is made |
| Lexer (`src/Lexer`) | two cursors, `m_hasStatement` | `next`, `peek` | end-of-statement tokens, comments, continuations, ends of file in the middle of anything | statements are separated by exactly one EndOfStmt, nothing is lost, it terminates | `Lexer` |
| Parser (`src/Parser`) | one token of look-ahead, a deferred lexer error, scope kind, the end of the last token | `advance`, `accept`, `expect`, `consume`, one method per rule | the deferred error, precedence, blocks and their ENDs, places | the tree has the grammar's shape and places; the first wrong token is the one refused | `ExprParser`, `Parser`, `Grammar` |
| AST and its printer (`src/Ast`) | nodes, set once by sema | generated classes, visitor, printer | the printer's rules against the parser's | printing and parsing again gives the same tree | `Program`, `CodePrinter` |
| Symbols (`src/Symbol`) | a map per scope, parent pointers | `insert`, `find`, `contains` | shadowing | a name resolves to the innermost declaration | `Scopes` |
| Types (`src/Type`) | canonical type objects, caches | `TypeFactory::get*`, `convertible`, `common` | identity by address; conversions compose | one object per type; implicit conversions lose nothing | `TypeFactory`, `TypeRules` |
| Sema: expressions | explicit/suggested/implicit type | one `accept` per node, `expression` | the same expression is analysed twice | every expression ends with a type its context takes | `Expressions` |
| Sema: declarations, statements | scope, return type, linkage kind | `declare`, `define`, one `accept` per statement | order of declaration, definition and body; members restored on every exit | exactly the well-scoped programs are accepted | `Scopes` |
| IR library, IR generator (`src/IR`) | module, functions, blocks, instructions | builder, lowering of each node | nested functions, terminators, values used in the right function | the instructions do what the statements say, in order | `Lowering`, `Compile` |
| LLVM generator (`src/Gen`) | values memoised on the IR | lowering of types, globals, functions, instructions | implicit reads, signedness, const, the global initialiser | values belong to their function and mean the same | `Lowering`, `Compile`, `Conversions` |
| Utilities (`src/Utilities`) | - | Sequencer, ValueRestorer, TRY macros, Flags | - | restoring happens on every exit | in the handlers that use them |
| IR printer, tblgen (`tools/tblgen`), tests | - | - | - | - | no |

## Plan

The modelling is done; the order was that of what a mistake costs: deleting files,
wrong code for right programs, right programs refused.

1. `TempOwnership` (abstract), `Artefact` (implements it), `ArtefactProofs`.
2. `Driver`, a whole run with every failure, also shown to implement `TempOwnership`.
3. `TypeFactory` and `TypeFactoryProofs`: canonical types.
4. `TypeRules`, `Conversions` and `ConversionsProofs`: the rules and their lowering.
5. `Lexer` and `LexerProofs`.
6. `Expressions`, the two-pass typing of expressions on top of `TypeRules`.
7. `Program` and `Scopes`: declaration, definition and use across nested functions and
   EXTERN blocks.
8. `ExprParser`, `Parser`, `CodePrinter` and `Grammar`: the whole parser, and back.
9. `Lowering` and `Compile`, on top of `Scopes`: from the analysed tree to LLVM.
10. `Options`: what the driver is told.

Proved so far: the refinements of `TempOwnership`, the driver's promises, the type
factory, the conversions and what they do to values, how scopes nest, where linkage
goes, that names resolve innermost, that the analyser accepts exactly the well-scoped
programs, that every block ends in its only terminator, that texts are words and layout, the
options. Left is a proof of `ValuesStayHome`, for programs whose expressions are complete. After
that, the ranges of kinds that tblgen derives from its tree of node classes.

## Modules and the code

A definition keeps the name of what it stands for where TLA+ allows. An operator
that stands right before the definition it resembles, and is used nowhere, is that
definition with a plausible bug: swapping it in makes a property fail, which shows
that the property says something.

### Artefact, TempOwnership, ArtefactProofs

`TempOwnership` is the promise: a temporary file appears together with its one
owner, ownership is handed on and never shared, the file goes when its owner does.
`Artefact` is the C++ value: storage locations (`Handles`), which of them hold a
constructed value (`live`), the values (`art`) and the files. One action per
constructor, move and destructor, in any order, plus the tools that write a file
under its owner. `ImplementsOwnership` maps a file's owner to the handle whose value
would delete it. That `createTemporaryFile` does not draw the name of a file that a
tool removed under a live owner is assumed (`FreshName`).

### Driver, DriverProofs

`Driver::run` as a program counter `<<stage, step>>` over the disk's contents, the
`Artefact` values of the call stack and the counter of error diagnostics. A stage is
`start` (is it skipped? is its tool there?), `open` (the output exists before
anything can fail), `write` (the module or the tool), `drop` (the consumed input is
destroyed), `return`. Every TRY is a `Fail` that leads to `unwind`, where one value
after the other is destroyed. `cause` remembers whether anything but the driver is to
blame for a failure. `opt`, `llc`, `cc` and the file system are external: a tool fails
whenever it likes and leaves its output in any state. Outputs are named as the code names
them, by an output stem and an extension (`ArtifactPath`), so that one can have the name of a
source or of an object; the stem may be empty (`Nameless`), which makes every output a
temporary. One failure does not unwind: LLVM ends the process when a stream that it destroys
has seen a write error (`outcome` is "aborted"), and temporaries stay.

### TypeFactory, TypeFactoryProofs

The heap of type objects, the caches of pointers, references and consts, and the
function types in buckets of one hash value. The actions are what drives them:
the analysis of a type expression qualifier by qualifier, variable, parameter and
function declarations, address-of. `denoted` remembers which object each type, as
it was written, was given.

### TypeRules, Conversions, ConversionsProofs

`TypeRules` is `Type::convertible` and `Type::common`, shared by `Conversions` and
`Expressions`. `Conversions` sends a stored value - bit patterns, so that sign and
zero extension differ - through chains of assignments and `AS` casts as `lowerCast`
emits them, and compares it. A byte has `ByteValues` values, any even number of them (four
in the runs), and the wider types that number squared, to the fourth and to the eighth;
floating-point numbers are counted in halves.

### Lexer, LexerProofs

`Lexer::next` over texts of character classes; one action per branch of its loop, so
that a loop that fails to advance is a behaviour that never ends. A token is its kind
and extent, `reports` are the diagnostics. `Layout` is what the properties compare
with: a grammar of blanks, comments and continuations that knows nothing of the loop.

### ExprParser, Parser, CodePrinter, Grammar

A text is a sequence of token kinds; the parser's state is where it is, the token it
holds, the end of the last one (`m_lastLoc`), the flags and the tree. Each method is an
operator from state to state, so one step parses one text. `ExprParser` has expressions -
`climb`'s two loops, calls with and without parentheses, casts, the flag that stops at
`=`, the deferred lexer error - and types. `Parser` has everything else: lists,
declarations, blocks, EXTERN. `CodePrinter` is `AstCodePrinter` as tokens, and
`PrinterSpec` prints a parsed program and parses it again. The tree's nodes have the
first and last token of their range; parentheses, which the AST drops, are kept as
nodes so that shapes can be compared.

`Grammar` is what the parser is compared with, none of it translated from the parser: the
language read with a stack of open blocks and parentheses, which says where the first
wrong token is; the shapes precedence allows; nesting of places; and what of a tree
survives printing (`Survives` lists the forms that do not). `Reread` is what the lexer makes of literals printed raw.

### Expressions

`SemanticAnalyser::expression` and the visits of the nodes, on trees that the
analysis rewrites. `m_explicitType` and `m_suggestedType` are passed and returned
instead of being saved and restored. The first examination of an unconstrained
expression suggests a type, which a second examination imposes; each operand goes
through the same, so a node is visited many times and must find its own result
acceptable. `WellFormed` is the typing judgement the outcome is compared with, and
`Keeps` the relation between the program's tree and the rewritten one.

### Program, Scopes, ScopesProofs

`Program` is the tree: statement lists by number, list 1 the module's, expressions in
postfix order, which is the order their visits end in. It also has the reference:
`Meaning` of a name at a place, read off the program text. `Scopes` is the analyser as a
call stack of list visits; one action visits one declaration, node or statement. The
restorers of `accept(AstStmtList&)` are in the frames, which an error unwinds one after the
other (`Refuse`, then the pops).

### Lowering, Compile, CompileProofs

`Lowering` continues where `Scopes` ends: the IR generator walks the same lists and appends
instructions to functions, to the global-init body and to the declarations; then the LLVM
generator walks those in its own order - globals, function heads, bodies, `main` - and
memoises a value for each IR value. A value is a constant, a global, a function, or the
argument or result number so-and-so of function so-and-so, so that use in another
function shows; names are left out. `Compile` reads the effects a program should have (stores, calls, the return,
with the terms of their operands and the number of effects before each read) off the
text, reads the same off the LLVM code, and compares.

### Options, OptionsProofs

The arguments, the fields they set, `finalize()`, the triple, and the paths `Driver`
starts from; then the dumped command line, which a second run of the same actions reads.
A path is a directory, a stem and an extension. LLVM's parser and the shell are external. The
shell splits at spaces outside quotes (`Spaced`), at other characters there (`Fragile`), and
takes some for what they are not even within quotes (`Special`).

## Runs

| Run | What it asks | Bounds, and why they are enough |
|---|---|---|
| `artefact` | do moves and destructors lose, share or leak a file? | three values (an owner can be assigned to while a third lives), two temporaries (a name can be reused while another is held), one named file |
| `driver` | does a run that returns clean up, report, deliver, and spare its inputs? | two sources (one fails after another succeeded), at most one of two pre-built objects, three output stems (empty; that of a source without extension; one whose object and LLVM assembly have the names of inputs), three temporary names, all `--emit` values, `-O` on or off |
| `driver_native` | does `--emit=obj` deliver? **No** | one source |
| `type_factory` | one object per type? | seven types, two qualifiers, one parameter, a hash that makes function types collide |
| `conversions` | do implicit conversions keep values, compose, and compare as numbers? | all kinds, three pointees, the ends and the middle of every integer range |
| `conversions_const` | is const erased? **No**, in comparisons of floating-point values | as `conversions` |
| `lexer` | are statements and words those of the layout grammar, and does it end? | all texts of five characters over four alphabets, one for each kind of thing that can be cut off or run together; comments to seven, for `/' /' '/` |
| `parser` | is what is read the language, with the right shape, places and declarations, and does it survive printing? | expressions: all of four tokens over twelve kinds, all chains of four operands of six forms with four operators; types: all of four words; programs: all of three out of fifteen lines, alone and in a SUB; each line with any one token wrong, or cut short; any two literals in a declaration, a call, an operator |
| `expressions` | is what the analysis accepts well typed, the program's, and placed where places are needed? | trees of two operators over nine variables whose types differ in a rule, five literals, three functions, four kinds of statement |
| `compile` | are exactly the well-scoped programs accepted, with names bound innermost, and does the LLVM code do what they say? | 33,600 programs: up to three statements of a menu of nine around and in a function (use before, after, shadowed, redeclared, EXTERN); two functions, nested or in sequence; every expression node in every kind of statement, in the module and in a function |
| `compile_places` | does a store through a pointer reach its place? **No** | one pointer, one store and one read |
| `options` | does the dump read back as the same session, is the target the one asked for, which directory is each path relative to? | up to three inputs of each kind and place, with `-o`, `--working-dir`, `--emit` and `-I`; four kinds of name in every argument that takes a path; one input with every target, on two hosts |

The runs in bold refute a sentence of the repository; PROJECT.json quotes it, with
the line of code:

- `Driver.cpp:87` names the object only for an executable, against the comment above
  it: `--emit=obj` and `--emit=asm` succeed and leave nothing.
- `GenInstr.cpp:78` asks a const-qualified type whether it is floating-point, and
  emits an integer comparison.
- `GenExpr.cpp:77` lowers `*p` to the value it loads also as the target of an assignment
  and under `@`, while `Gen.cpp:144` takes temporaries for pointers.

What these take out of the other properties is named in their definitions and nowhere
else: `NoIntermediatesLeft` and `OutcomeIsTrue` speak of runs that return, not of a process that
LLVM ends; `OutcomeIsTrue` of what is delivered only for one source, `--emit` exe or llvm and
an output with a name, and of failures only where the object does not replace one that was given
(`Clash`); `InputsKept` has inputs overwritten by outputs of the same name;
`ReadsText` says where the parser's behaviour is undefined (`Unforeseen`) and `PrintsBack` what does not
survive printing (`Survives`); `FollowsSource` of lists in which no place is reached through a pointer
(`direct`) and no operand waits while a call runs (`calm`); `OneTerminator` of lists with
nothing to lower after a RETURN; `ValuesStayHome` of functions that capture no local;
`EquivalentLine` has the names that do not survive the shell; `PathBases` the paths to which
`--working-dir` does not apply.

Deadlock is checked in all runs but one: a finished program stutters explicitly
(`Exited`, `Finished`, `Over`). `type_factory` has no end of its own, only the bound on
types.

### Fairness

`Lexer` has `WF_vars(Next)`, and only there is liveness claimed: a sequential program with a
step to take takes it. No action is favoured over another. That a run of the driver ends is not
claimed: its loops run over the sources and over the values on its stack, and how long a tool
takes is not the driver's to say.

## Proofs

For every value of the constants that satisfies the named assumptions:

- **Artefact** (`PathsAssumption`: temporary and named files differ). `InvHolds`,
  `ExclusiveOwnershipHolds`, `NamedFilesStayHolds`, `ImplementsOwnershipHolds`. Exclusive
  ownership alone is not inductive: constructing a value in dead storage would keep it
  only if dead storage owns nothing, which is `OwnersAreLive`; `Inv` joins the two with
  the types. The proof works on `Owning(h, f)`, said of the value, and `OwningIsOwners`
  relates it to the sets of owners the property is about. For the refinement, the owner a
  file is mapped to is the one that `Exclusive` says there is, so that a move is a
  transfer or a stutter (`StepImplements`, one step per operation).
- **Driver** (`DriverAssumption`; any number of sources, stages failing anywhere).
  `InvHolds`, `NoIntermediatesLeftHolds`, `ImplementsOwnershipHolds`, `InputsKeptHolds`,
  `OutcomeIsTrueHolds`. Of names only this is assumed: an input's extension tells what it is, so
  that no source is an object or ends in `.o` or `.s`; one stem gives four different outputs; and
  temporary names are nobody else's. That every temporary on disk has an owner
  (`Kept`) is what leaves none behind, as all values are empty at the end (`Placed`). It
  needs to know at each point which storage holds what, as `In`, `Out` and the vector are
  assigned to without looking: hence `Placed`, `Controlled` (which stages a pipeline has, how
  many sources were collected) and `Filled` (what a stage is given is a file).
  `OutcomeIsTrue` needs in addition what the files hold at each point (`Traced`, for the
  runs it speaks of) and that a failed run has somebody to blame (`Blamed`).
- **TypeFactory** (`FactoryAssumption`; the hash is any operator). `CanonicalInvHolds`,
  `CanonicalHolds`, `ReferencesOutermostHolds`, `OneTypePerWritingHolds`. `Canonical` (no two
  objects with the same parts) needs to know that the caches and buckets know *every*
  object made through them, at the address they hold (`CachesKnowTheirTypes`,
  `BucketsKnowTheirTypes`), and that the singletons come first and are not made again.
  `OutermostInv` adds where the singletons are, for the base of `ANY PTR`. `WritingsInv` says
  that what was written describes the object it was given - its kind, its parts, or its
  last qualifier and a base that was itself written - and that `denoted` is one to one:
  with `Canonical`, one more qualifier on equal bases gives equal objects and only then.
- **Conversions** (`TypesAssumption`: 4 or 8 bytes, `ANY` is a pointee; bytes of any even
  number of values). `DetoursAllowNothingHolds`, `CommonIsMutualHolds`,
  `InsertedCastsAreCasts`, `ImplicitKeepsValueHolds`, and, if no floating-point type is
  const-qualified (`NoConstFloats`: what `conversions_const` refutes), `ComparesAsNumbersHolds`.
  Three lemmas on `TypeRules`: implicit conversion is transitive, antisymmetric, and a
  cast. `ChainInv` says of a state that its type came from its origin's by allowed steps;
  `ValueInv` adds that the stored value is one its type can hold (`HeldIn`), without which
  neither extension keeps the number. `WiderSpans` (a wider type has at least twice the
  values) is why an unsigned value keeps its number in a wider signed type,
  `RoundedIsExact` why a SINGLE does in a DOUBLE, `ComparisonOrders` why a bitwise
  comparison with the sign flipped is one of numbers.
- **Lexer** (any texts). `StatementsEndOnceHolds`. `StatementInv` adds what `m_hasStatement`
  means: the last token is a word exactly when the flag is set. Each action either
  returns one token (`ReturnKeeps`), ends a statement or the file (`EndKeeps`), or
  returns none (`QuietKeeps`).
- **Layout** (texts without a NUL, which is where `Cursor` takes every buffer to end).
  `LayoutInvHolds`, `NothingLostHolds`, `LinesAreStatementsHolds`. `LayoutInv` says what was
  passed over since the last word: layout (`SinceWord`), with a line end exactly if there is no
  statement. The lexer goes forward and the grammar of layout is read from its left, so what
  matters is that the grammar leaves no choice (`SkippedIsOne`): then what was read can be
  extended at its right end (`ReadJoins`). A block comment is counted by the code and nested by
  the grammar; by induction from the end of the text, counting down one level is reading one
  rest of a comment (`DepthIsRest`). String literals, words and numbers need no more than that
  they end within the text (`ScanStringFacts`, `AfterFacts`). First of all, the four recursive
  functions exist (`RestExists`, `DepthsExist`, `LayoutsExist`, `ScansExist`).
- **Options** (any command line, directory and host). `OptionsInvHolds`,
  `TargetIsAskedHolds`, `PathBasesHolds`. `OptionsInv` says what the fields keep of the
  arguments before and after `finalize()` (`Kept`), as a path is resolved against
  directories that were set at different times, and that a session is made of final
  options, which nothing touches while it lasts (`SessionIs`).
- **Scopes** (`ScopesAssumption`: the programs are trees whose names are in `Names`, and a
  call's callee is a variable that comes before the call), as part of a whole compilation.
  `ScopesInvHolds`, `ScopesNestHolds`, `LinkageStaysInsideHolds`. That the scope is the
  innermost list's is kept by entering and leaving; what is hard is that a body *has* a table,
  in the right one, when it is entered: `BodiesHaveTables` says so of functions that are
  defined, `DeclaredOnce` that their declaration has one symbol whose status tells, and `Staged`
  that nothing is half defined between visits. Frames are those of ever later lists (`Nested`),
  so that defining a function never replaces the table of a list that is being visited. `Staged`
  also gives the default linkage wherever declarations wait.
- **Resolution** (the same, on top of it). `ResolutionInvHolds`, `ResolvesInnermostHolds`. The
  analyser looks a name up in tables that are still being filled; the meaning of a name is
  read off the finished text. `ResolutionInv` says, until the first error, why they agree:
  a list's table has the symbols of its declarations so far and no other (`Sound`,
  `Complete`), and is no other list's (`TablesApart`); every frame but the last has all its
  declarations and stands at the function whose body comes next (`FramesLinked`); EXTERN blocks
  are linked exactly as far as a frame has come, and bodies entered in order
  (`VisitedInOrder`, `SymbolsPlaced`). So what the text makes visible at the current place of a
  frame is what its table holds (`VisibleIsHeld`), and `Find` along the parents and `Meaning` along
  the enclosing functions take the same steps outward (`MeaningIsFound`). The first lemmas
  say that a walk outward is well defined at all: a recursive function over
  tables or lists exists (`WalkExists`), which TLC takes for granted.
- **Acceptance** (the same, on top of it). `AcceptanceInvHolds`, `AcceptsExactlyHolds`: an analysis
  that ends has found an error exactly when the text breaks a rule. Refused rightly: every
  diagnostic names a rule the text breaks (`SemaRefuses`, a lemma for each), which takes knowing
  that `m_returnType` is that of the function around (`ReturnTypes`), that a symbol's role is what
  its declaration is (`SymbolsTold`), and that a symbol which is not defined yet belongs to
  something the text does not let be used there (`StatusesTold`, `BlockTells`). Nothing let through:
  without an error, every node visited fits (`NodesFit`), and so does every place before a
  frame's and every place of the lists left behind, bodies included (`PlacesPassed`); in the
  end these are all lists, by induction over where their functions stand (`AllLeft`).
- **Terminators** (`CompileProofs`, on top of `ScopesProofs`). `TerminatorInvHolds`,
  `OneTerminatorHolds`: a finished LLVM function has one block and one `ret`, its last
  instruction, when nothing follows a RETURN of its list. Nothing in the generator checks this:
  it is so because each list but the module's fills a function of its own (`StackFills`),
  because only the end of a list adds a `ret` that no RETURN did, and only after looking at the
  last instruction, and because RETURN is refused at module level. `WalkInv` says how far each
  function is: without a `ret` before its list, with one after a RETURN and only there
  (`Partly`), with exactly one afterwards (`Wholly`). `CodeInv` says the same of the second
  walk: LLVM's functions are the IR's in their order, and each is empty, a prefix that is being
  copied or a whole copy, as `lowered` and the cursor tell (`Converted`). Both walk the tree the
  analysis accepted (`SemaOver`, `OverFacts`), which is why they need `AcceptanceInv`.

`Inv`, `CanonicalInv`, `ValueInv`, `StatementInv`, `OptionsInv`, `ScopesInv`, `ResolutionInv`,
`AcceptanceInv`, `TerminatorInv` and `LayoutInv` are in no run's list: a run learns no more from
them than from the properties they imply.

Recursion is in reach where it is a recursive function over numbers: a least counterexample
(`LeastHandle`, `LeastExists`, `FirstIsOne`) does for induction, or induction said of the set of
numbers a fact holds for (`NumbersInSet`). RECURSIVE operators are not. Only model-checked are
therefore

- liveness: `Terminates` of `Lexer`;
- everything about `ExprParser`, `Parser`, `CodePrinter`, `Grammar` and `Expressions`, whose
  operators are recursive over trees;
- `EquivalentLine`, which follows every option through two runs;
- `FollowsSource` and `ValuesStayHome`: what the operands of the code are, for every
  program, needs invariants of its own over both walks of `Lowering`. It also needs more of
  the programs than is assumed: that every expression is a complete postfix one, and that
  no function's name stands where no call is; that one `value()` would lower to null (see
  below). The programs of the runs are all of this kind.


## Seen in the code

What a reader of the models should know of the program. Some of it is in a model, as an
exception its property names; the rest a model would only restate.

- Driver: an empty output stem (`-o .hidden`, `lbc .bas`; `CompileOptions.cpp:127`, `:134`) makes
  even the requested output a temporary (`Task.hpp:21`): the run succeeds and leaves nothing. A
  write error after the output was opened (`WriteBitcodeTask.cpp:24`, `EmitLlvmTask.cpp:28`) is
  found by the stream's destructor, which ends the process: no diagnostic, and temporaries stay.
  The link does not look whether its temporary could be made (`EmitBinaryTask.cpp`) and hands the
  linker an empty path. For an executable `<stem>.o` stays in the build path; `lbc a.bas a.o`
  overwrites `a.o`, and then links it twice; pre-built objects are neither looked for nor resolved against
  `--working-dir`; whether inputs exist is asked long before they are read
  (`Driver.cpp:133`). Two sources never link: their objects have one path
  (`Driver.cpp:87`) and each has a `main` (`Gen.cpp:109`), though `Driver.hpp:20` speaks
  of several.
- Options: `--working-dir` is to "Resolve relative paths against <dir>" (`main.cpp:37`), but `-o`
  (`CompileOptions.cpp:126`), the objects and `--toolchain` (`Toolchain.cpp:33`) are relative to where
  the compiler runs. `quote()`, to be used when a token "contains whitespace"
  (`CompileOptions.cpp:36`), looks for spaces only and escapes nothing: a dumped name with a tab
  or a quotation mark does not read back. `lbc prog`, a source without extension, is overwritten by
  its executable (`CompileOptions.cpp:127`); `--arch` without `--bits` takes the family's
  width, though `CompileOptions.hpp:68` says the host's.
- Lexer: `invalid()` reports at the start of the token before (`Lexer.cpp:158`).
- Parser: `a * b.c = d` is a comparison, as an operand is extended past `=`
  (`ParseExpr.cpp:217`); `f()` and `f(a, b)` are no statements; a prefix `AS` is accepted;
  `a NOT b` reaches `std::unreachable` (`ParseExpr.cpp:160`), so that what the parser does is undefined; `expected()` does not look at the deferred lexer
  error, so that one error gives two diagnostics; on an empty source `m_lastLoc` is null, and
  before an unreadable token it stays behind by a token
  (`Parser.cpp:39`).
- AST printer: strings are printed without escapes for quotation marks, backslashes and control
  characters but for line ends and NUL (`AstCodePrinter.cpp:228`), floating-point numbers with six
  decimals (`:216`), so that neither need read back the same; `...` is dropped, `NOT` and `AS` are glued to their operand, member accesses get
  no parentheses, before the analysis pointer types lose their PTR. A CONST is written
  first whatever it qualifies (`Compound.cpp:16`), so a constant pointer and a pointer to a
  constant have one name.
- Expressions: `5 AS INTEGER` is accepted for a `LONG`, as the cast is dropped before
  the literal is re-typed; integer literals do not adapt to floating-point types,
  though `type_system.md` says so; `DIM b AS BYTE = -1` and `= 1 + 2` are refused, as
  the type is not passed to operands; a `REF` parameter or result refuses everything
  but its own type; arithmetic on strings, BOOLs and pointers is accepted; `->` gets no type;
  ranges of literals are not checked; time doubles with each level of nesting.
- Declarations: `DECLARE SUB foo` and then `SUB foo` is a redefinition; `DIM x = f` is
  accepted for a function `f`; the diagnostic for circular dependencies is unreachable.
- Lowering: statements after `RETURN` follow the terminator; a nested function uses the outer
  one's local by its `alloca`; `x + f()` reads `x` after the call; `AND` and `OR` evaluate both
  operands; variables of reference type have no lowering of their own; a name of EXTERN "C" that
  collides with another or is `main` is renamed by LLVM (`Gen.cpp:109`). A function's name that
  is used as a value (an argument of a variadic call, under `@`) is accepted
  (`SemaExpr.cpp:191`), but `value()` lowers no function: it is null until a call or a body has
  made it (`Gen.cpp:140`). `IF` is lowered, never parsed, and refused by the analyser; its
  lowering does not keep its then-block and would fail at module level.

## Not modelled

- The arena, the interned strings, the source manager and the LLVM context: they never
  free and hand out fresh objects, which the models take as given.
- Diagnostics but for where one is made: wording, sorting, printing.
- The IR printer, whose text nothing reads back, and tblgen, whose output is what the
  models are translated from.
- `IF`, `IS`, member access and `->`: never parsed, refused as not implemented, or
  undefined, so that no program reaches what follows them. The blocks and jumps that only
  `IF` would make are left out of `Lowering` with it.
- Arithmetic: which LLVM operator a type selects is in `Conversions` for casts and
  comparisons; in `Lowering` operators that differ only in that are one.
- Text is abstracted to classes of characters (`Lexer`), token kinds (the parser) and trees
  (the rest); paths to names that differ (`Driver`) or to parts (`Options`). The modules of
  the pipeline are checked one by one; `Scopes` and `Lowering` are the two that are composed,
  as the second walks what the first wrote.
