# Balu: a TLA+ development of the compiler's passes

Balu is a compiler in C++ for a gradually typed language. It is one process and
one thread; a source file goes through a fixed sequence of passes and every
pass works on data the pass before it has made:

    main.cpp -> Lexer -> Parser -> AST optimizer -> precompiler -> IR converter -> (assembler)
                tokens   AST       AST, rewritten   AST, with      list of
                                   in place         destroys       instructions

What makes it hard is not concurrency. It is pointer surgery on shared
structures (the AST and the list of IR nodes are rewritten, spliced and deleted
in place, during walks over them), state that is global to a recursion (scope and
label counters, the variable registry, the token cursor), the order of a
first-match table, and what goes on after an error when `--no-panic` asks to
ignore it.

## The parts of the system

| part | state | operations | interacts through |
|---|---|---|---|
| **Lexer** `src/src/lexer` | text, cursor, line, column, tokens, errors | `Tokenize`, 15 handlers, 69 patterns | hands `vector<Token>` to the parser; may `exit` on an error |
| **Parser** `src/src/parser` | token cursor, errors, lookup tables of binding powers | `parse_stmt`, `parse_expr`, `parse_type` and what they dispatch to, recovery (`advanceUntil`, `advanceDepth`) | builds the AST, calls the optimizer at its end |
| **AST optimizer** `src/src/ast/optimizer` | the AST | `Optimize` on statements and expressions, deletes and replaces nodes through references | leaves null branches and merged blocks for the later passes |
| **Precompiler** `src/src/ast/precompiler` | the AST, `VariableRegistry`, current scope | `PreCompile`, `PreCompileBlockStmt` | deletes declarations, inserts `UnusedStmt`s |
| **IR converter** `src/src/IR` | list of nodes, `_IRGlobals` (label counters, scope) | `MConvert`, `ConvertASTToIR`, `OptimizeLabels` | its list is written out by `main.cpp` |
| AST nodes, decompiler | none of their own | `Clone`, `GetValue`, `Dump`, `Decompile` | used by all |
| Helpers | none | strings, digit strings | used by all |
| Driver `main.cpp`, `init.hpp` | options | reads flags, runs the passes | options are read by every pass |
| Assembler `src/src/compiler` | none | stubs | not called |

What makes each part correct:

* Lexer: the text is consumed without gap or overlap, to its end; a token has
  the position where it stands; the table's order never splits an operator.
* Parser: what is accepted is in the tree, in the shape its operators give it;
  after an error it reads nothing an earlier function did not produce; it comes to an end.
* AST optimizer: a rewritten tree means what the tree did, every node has one
  owner, and nothing deleted is used or reachable.
* Precompiler: a variable is destroyed once and not before its last use; a
  declaration is removed only if it is not used; the registry holds what the
  open blocks declare; nothing deleted is left in the tree.
* IR converter: the program does what its source says; labels are unique and
  jumps find them; scopes are selected and restored as the blocks nest.

## The modules

The passes are modelled one by one, each on every input of a bounded set, which
includes what the pass before it makes. All of them are recursive functions over trees. In
each module the call stack of the code is a variable, so one step is one stretch of
code between two calls, and what a stretch reads is what the steps before it left.

### IRConvert, IRMeaning, Translation

The recursion of `ConvertASTToIR` is an explicit `stack`. A frame is one
activation on a compound statement: the kids still to convert (`todo`), the chains
of those converted (`slots`; an if has two), the local `id` or `scope`, and
`cur`, the node `OptimizeLabels` is looking at. `idmap` and `currentScope` are
the fields of `_IRGlobals`. A linked list of nodes is the sequence of its
instructions, the null pointer the empty one, so `getLast()->next = x` is a
concatenation; which statements contribute a null pointer is kept, since the
converter decides by it.

| action | code |
|---|---|
| `ConvertLeaf`, `ThrowUnsupported` | `convert.hpp` on statements without kids, `ConvertAssignmentToIR` |
| `EnterBlock`, `LinkBlock` | `GetNewScope` and the loop; `RemoveScope`, the two `SET_SCOPE` nodes, the call of `OptimizeLabels(head)` |
| `EnterIf`, `LeaveIf` | `ConvertIfToIR` before and after its recursive calls |
| `EnterWhile`, `LinkWhile` | `ConvertWhileToIR` before and after its recursive call |
| `MergeLabel`, `NextInstruction`, `Return` | the inner and outer loop of `OptimizeLabels`, and its end |
| `FinishFile` | `SOF` and `EOF` in `MConvert` |

The step from one node to the next is an action, because what
`OptimizeLabels` renames depends on how much of the program is linked when it runs
and on where its root is.

A while has two kids as in the AST, its body and its else branch or a null pointer. `EnterWhile`
puts only the body on `todo`, as the code does; the semantics and the abstract translation look at both.

`IRMeaning` has two reference semantics: what a statement does (`RunAST`) and
what a finished program does (`RunIR`). The converter emits no code for
conditions yet, so both ask an oracle, a sequence of truth values, and have to
produce the same leaf instructions in the same scopes. A negated if is tested on
`JUMP_IF_TRUE`; the semantics takes the truth value as that of the condition with
its negation.

`Translation` is the abstract specification of the back half: a list of
statements yet to visit, a visit puts the statements below in their place, one without a
translation ends it without output, and when nothing is pending any output that
means what the tree means is allowed. `ImplementsTranslation` says that
`IRConvert` implements it under the mapping *pending* = `NotVisited` (the kids
still to convert of all open activations, the innermost first) and *output* =
`prog`. Leaving, linking and scanning are stutters; so a statement that is converted twice,
dropped, or taken out of order by the splices of an activation shows as a step
`Translation` does not have, also where it emits nothing. The else branch of a while is dropped
without a trace: `MeaningPreserved` says that a program with such a branch in its source does something
else and every other does the same, and the refinement is stated for sources without one.

### Parser, ParserProperties

The call stack is `todo`, a list of tasks, the next first: a task is a function that
is called or the rest of one that waits for a result, with its locals. Results are pushed on
`vals`. `pos` is the cursor, `failed` whether a message was printed or recorded, `phase` how it ended
(`exited` an error under panic; `crashed` a null pointer read; `threw` out of `stoll`). A
token is its kind; kinds that no branch tells apart are one kind. Nodes keep
the place of the token they were made of (`at`), so that the properties compare a tree with the text.

| action | code |
|---|---|
| `ExpectToken`, `ExpectName`, `Discard` | `Parser::expect`, `expectError`, `advance` |
| `ParseExpr`, `ParseLed` | the nud part and the loop of `parse_expr` with the binding powers |
| `ParsePrimary` … `ParseVolatile`, `BuildNode`, `CollectNode` | the nud and led handlers of `expr.hpp` and the nodes they return |
| `ParseType`, `ParseTypeLed` | `types.hpp` |
| `ParseStmt`, `ParseBlock`, `ParseStatements`, `ParseExprStmt` | `parse_stmt`, `parse_block_stmt`, the loop of `Parse` |
| `ParseVarDecl` … `ParseImport` | one function of `stmt.hpp` each, its parts named for what they decide (`ParseMember`, `ParseParam`, `ParseElse`, …) |
| `Report`, `ReportOnly` (in these) | an error: `exit` under panic, otherwise recovery and what the function returns then |

`ParserProperties` states what the caller is owed. `NothingLost` and
`ParsedAsWritten` compare the tree with the tokens; the latter has a reference grammar of its
own (`Written`: the root of an expression is its weakest operator outside
parentheses), with no binding power in it.

### ASTOptimizer, ASTMeaning

The tree is a heap: `heap[a]` is a node, `freed` the deleted addresses, whose contents
stay. A `Stmt*&` or `Expr*&` is a place `<<a, i>>`, the i-th pointer of node a; node 1 holds the local
pointers that are passed by reference, which is what tells the local `blockStmt` of `Optimize` from
the caller's pointer. Every action goes through `Touch`: if it reads or deletes a deleted
node, or deletes the root, which is not on the program's heap, the process ends or goes on with the old contents.

| action | code |
|---|---|
| `OptimizeNull` … `OptimizeOther` | the dispatch of `Optimize` in `optimizer.hpp` |
| `KeepStatements`, `DeleteInner` | `OptimizeBlockStmt`, `_OptimizeBlockStmt` |
| `EnterIf` … `SwapBranches` | `OptimizeIfStmt` |
| `EnterWhile` … `MergeWhiles` | `OptimizeWhileStmt` |
| `EnterVarDecl`, `CheckType` | `OptimizeVarDeclStmt` |
| `FoldBinary`, `FoldPrefix`, `DropPlus` | `OptimizePrefixExpr` |
| `OptimizeBinary`, `FastMath`, `MergeLiterals` | `OptimizeBinaryExpr` and the two it calls |

`ASTMeaning` gives a heap its meaning: the sequence of its events (assignments, declarations,
calls, ends of variables) in an environment that gives the symbol `x` and the call `f`
a new truth value after every event. `MeaningKept` compares the tree before and
after in all environments, up to `MaxEvents` events; a loop that does nothing for ever is an event.

### PreCompiler

A statement is its address in `heap`; `freed` are the deleted ones. The stack has
a frame per block, if, while and function being walked. The program is not given
in advance: `Reveal` and `RevealNothing` decide what stands at the place the walk
has come to, so the runs cover every program up to `MaxStmts` statements and a
behaviour is one program with its precompilation.

The expressions of a statement are the names in them, in two sets. `uses` are those at the places `PreCompile`
goes into (operands, assigned values, conditions, returned values), whose uses it records; `hidden` those where it does not look:
arguments of calls, array and struct literals, aliased values. A *known* use of a variable (`Refers`) is a statement with its name in
`uses`; a *mention* (`Mentions`) one with its name in either. What the code promises about the place of a destroy
can only be about known uses, and `DestroyedOnceAfterLastUse` says no more. That a removed
declaration is not needed is a statement about mentions, and `RemovedOnlyIfUnused` is stated with them.

| action | code |
|---|---|
| `VisitDecl`, `ThrowRedeclaration`, `VisitRedeclaration` | the `VarDeclStmt` case of `PreCompile` |
| `VisitUnused`, `VisitAlias`, `VisitExpr`, `VisitNull` | its other cases without kids |
| `EnterBranches`, `LeaveBranches` | if, while and function |
| `EnterBlock`, `EndOfStatements` | `AddScope`, the loop, `AdjustDeclarationIndices`, `GetVariablesInScope` |
| `RemoveDeclaration`, `InsertDestroy` | one turn of the loop over `remainingVars` |
| `LeaveBlock` | `Fix`, `RemoveScope` |

Undefined behaviour is a choice. A redeclaration inserts into the vector a
range-for is running over: if the vector had capacity, the loop meets the inserted
statement and its old end leaves the last one out (`skip`); if not, it goes on over
the freed array (`detached`), whose old contents are there or not ("crashed").
Reading a deleted statement likewise goes on with its old contents or crashes
(`Touching`). Every allocation has a new address; reuse of an address is not modelled.

### Lexer

`source` is a sequence of characters from an alphabet with a member for each
character class of the patterns. `PatternLength` says how much of the text a
pattern of the table matches at a place and `PatternOrder` is the table's order;
`Next` takes the handler of the first pattern that matches. The actions are the
handlers, with the exact number of characters each advances by and its error
paths under `panic` and `allowLexerErrors`. A token has its kind, where it was
matched, how much was matched, and the line and column it was given.

### MC modules and proofs

`MCIRConvert`, `MCParser`, `MCASTOptimizer`, `MCPreCompiler` and `MCLexer` define the finite sets
the runs use. The `_proofs` modules hold the theorems; `PreLifetime_proofs` rests on `PreCompiler_proofs`.

## The runs

| run | what it asks | bounds |
|---|---|---|
| `ir_convert` | eleven properties of the converter, among them meaning, the refinement of `Translation`, termination | all ifs, whiles and blocks nested three deep, alone or beside another statement, and in any place of them one while with an else branch; every pair of leaf kinds; up to four tests |
| `ir_null_then` | does every jump resolve when an if has no then node? no | one statement of the same shapes |
| `precompile` | eight properties of the lifetime analysis | all programs of five statements (the outermost block counts) over two names that stand only where the walk looks, default options |
| `precompile_hidden_use` | is every variable marked `used` that the program mentions destroyed at the end of its block? no | four statements, of which some mention a name where the walk does not look |
| `precompile_errors` | registry and termination under all options and every illegal program | five statements with redeclarations, aliases, unknown names, bare declarations, both outcomes of the insertion |
| `precompile_bare_decl` | is every declaration in the block of its scope? no | four statements |
| `lexer` | five properties of the lexer | texts of two to four characters over several alphabets, all four option settings, plus number literals |
| `parser` | five properties of the parser | 21 programs that between them have every statement kind; each with any one token removed, replaced by one of 16 or preceded by one of 13; expression statements of three to four operators; panic on and off |
| `parser_hang` | does the parser end without panic? no | one function with a number for a parameter |
| `optimizer` | five properties of the optimizer | expressions of up to three operators; ifs, whiles, blocks and declarations nested two deep with constant, symbolic, negated and calling conditions, and every way a branch can vanish, the five kinds of node whose rewriting changes the meaning among them; runs of up to three events |
| `optimizer_meaning` | does a program always do after optimization what it did before? no | one program with a node of each of the five kinds |
| `optimizer_merged_block` | is nothing used after it was deleted? no | blocks in blocks of which one gets empty |

The bounds are enough for the cases in question. Depth three has a merged label at
every kind of seam (end of an if at the end of an if, of a while, of a block,
before a while, after a while's end) inside a frame that is scanned again by its caller.
Five statements are enough for a declaration, a use nested in a statement of
the block, a second declaration and a use of the one in the other. Four characters
reach the longest operators and every way two patterns compete for a prefix. One
changed token takes every function of the parser through each of its error paths, and without
panic the rest of the program is what its callers do with what it returned; three
operators of six strengths with parentheses, signs and calls between them have every comparison of
binding powers. In the optimizer branches are rewritten before the node above them, so
two levels take every branch of each rewriting on what the others have left.

Deadlock is not checked: every pass ends, and what ends is stated in `Terminates`
and `EndsOutsideParameters`.

**Fairness.** The process is one thread that nothing suspends and no pass waits for
anything, so `WF_vars(Next)` says that it runs until it returns, throws or exits. In
`PreCompiler` it also says that the source has an end, which the bound on
statements makes true. Termination then is a statement about loops: `OptimizeLabels`, the
walk over a vector that grows, `Tokenize`, the rewritings that call `Optimize` on their own
result, the parser's loops that rely on a callee to move the cursor.

**Each property is shown to depend on the code.** Next to the definitions stand
variants named for a plausible mistake ("Mutant: ..."), such as a label
renaming that starts behind the root or a destroy placed before the last use;
`PROJECT.json` pairs every property of a passing run with one that violates it.

### What the violating runs show

1. `ir_null_then`: `ConvertIfToIR` links the else branch only if there is a
   then node. `if (x) if (y) {} else {} else foo();` reaches it in that form,
   because the optimizer turns the inner if into a null pointer.
2. `precompile_hidden_use`: `used let x = 5; f(x);` loses its declaration and keeps the call, since the walk
   does not go into the arguments of a call, and a declaration without a known use is removed before anything asks
   whether it is marked `used`. So is `let x` there, and a variable marked `used` that nothing mentions
   (`examples/precompiler/unused.balu:31`), while `technical/why.md:5` has the undeleted ones destroyed at the end of their scope.
3. `precompile_bare_decl`: a declaration as a branch of its own throws the
   `logic_error` of `blockstmt.hpp:25`.
4. `parser_hang`: a parameter without a name is reported for ever without panic: the recovery
   stops before a comma that the loop does not consume.
5. `optimizer_merged_block`: a block whose only statement is a block that becomes empty is
   deleted while the caller's pointer still is its address.
6. `optimizer_meaning`: the program of the run has one of each of the five kinds of node that are rewritten into something
   else (`Altered`), and the tree it ends with shows them all. `-(a - b)` becomes `a + b`, because the table for two prefix operators
   in a row is used for a prefix before a binary operator too. `while (x) while (f()) s` becomes `while (x && f()) s`,
   which ends when `f()` fails for the first time, and loses an else branch of the inner while. `if (f()) {}` is removed,
   and `f` is not called. The block of `else { any d = 1; }` is taken away and its variable lives on in the block around the if.
   Under fast math `f() == f()` becomes `true` without a call (and `f() && false` becomes `false`, which is in the run `optimizer`).

Two properties of passing runs are stated as equivalences, so that they too say where the code does something else: `MeaningKept`
(the meaning is kept if and only if no node of the tree is `Altered`) and `MeaningPreserved` (if and only if no while has an else
branch, as in `examples/while.lang:36`). `NothingLost` does the same for the one thing the parser drops: what
stands before the name of a method without `fn`, also when it is the type, as in `examples/struct.lang:20`. If the code is changed there, these
properties fail and have to be changed with it.

### What the passing runs leave out

The passing runs leave out the inputs for which the code does something else than
the property says, each by a named constant, set or definition. They are listed
here so that a reader knows what a passing run does not show. Where a run is named, it shows what happens.

* Converter: an if with a null then and an else branch (`WithNullThen`, `ir_null_then`); a while with a null body,
  which gets no jump back (`WhilesOver`). Of sources with a while that has an else branch, all properties but `ImplementsTranslation` are
  checked.
* Precompiler: in `precompile`, redeclarations, whose destroy comes after the new declaration
  (`Redeclare`), bare declarations (`BareDecl`), `unused` and uses of unknown names, whose
  statement stays in its block deleted when the error is ignored (`UnknownUnused`);
  `precompile_errors` has them all. Also names that stand only where the walk does not look (`HiddenUseShapes`, `precompile_hidden_use`): a variable used as an argument after its last known use is destroyed before that
  statement, and *use* in `DestroyedOnceAfterLastUse` is a known use. `DestroyedOnceAfterLastUse` speaks of
  declarations that are still there; `UndeletableDestroyedAtEnd` of variables marked `used` that have a known use or whose declaration is still there
  (`precompile_hidden_use` shows one that has neither).
* Lexer: byte literals with underscores, of which too little is consumed; integer literals of
  unknown width without panic, on which the lexer stays; small precise literals with a
  fraction and an exponent (`MCNumberSources`).
* Parser: parameters without panic (`InParameters`); two fields of one name, of which the first
  is lost.
* Optimizer: an if that becomes an empty block as the only statement of a block (`Emptied`, `optimizer_merged_block`); a while with
  nothing to do (`EmptyLoop`), which is deleted and used further; `!!` before a number, which the code skips on purpose
  (`expressions.hpp:8`) although it makes a truth value of a number; declarations whose accepted type contradicts the comment of the
  table of types (`statements.hpp:4-8`), which no property is about; the empty program. `Altered` is exact for the programs of the run; in
  others the same rewriting may happen to change nothing, as that of an else block with a declaration that nothing follows.

## What is proved

For all sets of names, statements and programs that satisfy `StmtsAssumption`,
`ProgramAssumption` and `OptionAssumption` (statements are records of the stated
shape, closed under taking kids), with any depth and size. `IRConvert_proofs` has
the lemmas about chains, what the code-making operators return (`IfCodeOK`,
`WhileCodeOK`, `BracketOK`, `ChangeAllOK`, `UnlinkOK`), and how pushing, delivering to
and rewriting a frame change the stack; the other modules rest on them. Each
inductive invariant has one lemma for the initial states and one for the steps.

* `TypeCorrect`: `Spec => []TypeOK`. `TypeOK` is not inductive: `Deliver` takes
  the head of the caller's `todo`. `TypeInv` adds `Shape`: the frame of `MConvert` is
  the outermost and the only one of its kind, every other caller is waiting for a kid, and
  `OptimizeLabels` runs only in a block or a while whose kids are all converted.
* `LabelsAreUnique`: `Spec => []LabelsUnique`. `LabelsUnique` says nothing of
  the labels still to come. `UniqueInv` adds that every label in a chain has been
  issued by its counter, that an open if or while owns its number, which is in no chain
  and owned by no other frame, and that two chains of the stack have no label in
  common. Entering a statement issues a number; leaving one moves its number into its
  own chain; delivering joins chains that are disjoint; `MergeLabel` only takes labels away.
* `RootIsKept` (`IRScan_proofs`): `Spec => RootKept`. `ScanInv` says that the code of a
  statement never begins with two labels, and that behind `current` there are none side by side.
* `AllLabelsMerged` (`IRScan_proofs`): `Spec => []LabelsMerged` if every program is a block,
  which `Parse` makes it (`ProgramsAreBlocks`). The last scan is that of the outermost block; `FileOK`
  adds to `ScanInv` that what `MConvert` has received has been scanned. A merge can make no
  pair behind `current`: what comes before the merged label was no label.
* `ScopesNest` (`IRKeep_proofs`): `Spec => []ScopeIsNesting`. `ScopeInv` adds that the
  count holds after a throw too and that `MConvert`'s frame is alone at the end; entering adds the new frame to the
  open blocks, linking removes the innermost, and no other step changes them.
* `StatementsClosed` and `EveryJumpResolves` (`IRJumps_proofs`): `Spec => []ChainsClosed` and
  `Spec => []JumpsResolve` if no if has an else node without a then node (`ElseHasThen`;
  `ir_null_then` shows that it is needed). `JumpInv` follows the branches through the conversion, since
  `ConvertIfToIR` decides by whether a chain is empty: only the null pointer yields no node
  (`LeafJumps`, and no activation is started for one), so with an empty then chain the else chain is empty
  (`BranchesOK`). A merge redirects every jump to the deleted label because none stands before the root.

* `JumpsStayInScope` (`IRKeep_proofs`): `Spec => []JumpsKeepScope`, for every program, those with an else
  node only included. `Leads(c, u, v, at)` says that code `c`, read from scope `u` on, ends in `v` and that its jumps and
  labels lie where `at`, a map from labels to scopes, says. `KeepInv` has one `at` for all issued
  labels and a scope for each frame: the code in a frame leads from the frame's scope back to it. A
  new number extends `at` by its own labels; a block's code leads from the outer scope to the outer scope
  because its first and last node select the inner and the outer one; two labels side by side have
  the same scope, so a merge moves no jump to another.

The four theorems of `Lexer_proofs` hold for every text and every setting of the options, the last one with a
hypothesis about the texts:

* `LexerTypes`: `Spec => []TypeOK`, and `PositionsOfTokens`: `Spec => []TokenPositions`. `LexInv` adds
  that line and column are those of the cursor's place, counted from the start of the text.
  `advanceN` starts from the line and column it has, so the lemma that carries the
  proof (`AfterMore`) says that counting on from a place gives what counting from the start
  does, with or without a line break in between. Every handler advances by some natural number
  of characters (the lengths of the matches are least elements of sets of
  numbers, which exist by well-foundedness), so each keeps `LexInv`, and a token takes line and column before
  its handler advances.
* `OperatorsAreLongest`: `Spec => []LongestOperator`. The handler takes the first entry of the table that
  matches. A longer match would be a later entry and begin with the same character; `NothingShadowed` says of all
  pairs of the fifty entries that there is no such one. No other handler makes an operator token (`OtherTokens`).
* `CursorFollowsLexemes`: `Spec => AdvanceByLexeme` for texts without an underscore in a byte literal (`PlainBytes`;
  `byteHandler` erases underscores before it counts, and TLC finds the texts on which that goes wrong).
  `advanceN` stops at the end of the text, so it goes as far as it is told only if every match ends in the text. The lemmas
  `RunFits`, `WordFits`, `BlocksFit` and `LengthFits` say so of the repetitions and of every pattern of the table;
  then each handler counts what it pushes, the operator and radix handlers from their own lengths.

The theorem of `Parser_proofs` holds for every list of tokens, of any length and with any kinds; `InputAssumption` is its only hypothesis.

* `NullNeverRead`: `Spec => []NothingReadAfterError`. A function of the parser takes its results from `vals` long after
  the task that leaves them was put on `todo`, so the invariant has to know, for every task waiting there, how many results it will find and what
  they are. A `Shape` says that: a number of results, for each a class (`S` is a node that is there and whose `GetValue` reads no
  null pointer, `N` may be null but reads none, `A` is anything that can be printed), `open` if any number more may follow (a list
  that is being read), `live` if the last result has just been read by `parse_expr`. `Ok(t, a, b)` says what task `t` needs (`a`) and
  what it leaves (`b`), one line for each kind of function; `Runs(ts, a, b)` that the tasks of a list do so one after the
  other; and the inductive invariant `Safe`, that `todo` runs from the results there are to the one `Parse` returns (`Typed`).
  A step replaces the first task by those it calls, so there is a lemma for each function that these do together what `Ok` says of the first,
  and `RunsJoin`, `FitLeq` and their like put the rest of the list behind them. Under panic an error ends the
  process, with one exception: `parse_primary_expr` returns a null pointer at `auto` and `any`, which have an entry in the table of nuds but no
  primary expression. It leaves the cursor there. That is what `live` says: the result is whole, or the cursor is at
  `auto` or `any`. Each function that reads such a result first expects a token that is neither, or runs because `parse_expr` has found
  an operator, which they are not; so the error comes before the read.

The seven theorems about the precompiler hold for all names, shapes of statements, bounds
and option sets that satisfy the assumptions of `PreCompiler` (`ShapesAssumption`: statements
have a kind, a name, and the names in their expressions, `uses` and `hidden`; blocks and `unused` have no expression and
aliases none the walk looks at; `NamesAssumption`: there is a name). Programs are of any size up to
the bound, which is any number, and nest in any way.

* `WalkTypes`: `Spec => []TypeOK`, and `ScopesAreOpenBlocks`: `Spec =>
  []RegistryOfOpenBlocks` (`PreCompiler_proofs`), with redeclarations, unknown names, insertions with or
  without capacity and ignored errors. `TypeOK` says that `remainingVars` stay inside the registry
  while declarations are removed; this needs that they are entries of the block that is left
  (`PendInv`) and that nothing but `RemoveDeclaration` of that block touches them.
  `BlockInv` adds the tree: a parent is before its kids (`TreeOK`), what is in a list has its owner as parent (`KidsOK`), each
  activation but the first is on a statement whose parent is that of the one below (`WellStacked`), and an entry is `Housed` in the open block its scope stands for, counted from below (`Rank`).
  `BlockOf` and `Enclosing` are defined by going up the tree; the lemmas `EnclosingStep`, `BlockInStep`
  and `EnclosingStable` say what they are one step up and that a growing tree does not change them.
* `DeclarationsAreFound` (`PreLifetime_proofs`): `Spec => []DeclarationInItsBlock` unless declarations are branches of
  their own (`BareDecl`; `precompile_bare_decl` shows that this is needed). `LifeInv` says that a statement
  is in one list, once (`Once`), that a declaration has one entry (`RegOnce`), that an entry's declaration has the entry's
  name and is in its parent's list (`EntriesOK`), and that whatever has been registered, entered or given kids is behind every
  activation (`MetInv`), so the walk, also one that goes on over the old array after an insertion, comes to
  no statement twice.
* `NothingFreedStays`: `Spec => []NoFreedStatement` if no error is ignored (`NoErrorIgnored`: errors end the process,
  or programs have none). What has been deleted is in no list (`Unlisted`): removing nulls the only place.
* `RemovedAreUnused`: `Spec => []RemovedOnlyIfUnused` if no statement has a name where the walk does not look (`NothingHidden`;
  `precompile_hidden_use` shows that this is needed), no error is ignored and no iterator is left behind
  by an insertion (`Skipless`; a statement that is skipped is never visited, so what it uses is not recorded).
  The proof is about known uses (`NoKnownUse`), for which the first hypothesis is not needed; `AllMentionsKnown`
  makes mentions of them where nothing is hidden.
  `UsageInv` relates the registry, which knows names and scopes, to what the text says: of the entries with one
  name at most one is left (`NameOnce`); if a name in a statement the walk has visited
  refers to the declaration of an entry, the statement is among the entry's usages (`Known`), the statement just revealed
  excepted (`Waiting`); and a deleted declaration is referred to by nothing and lies in a
  block that is being left or has been (`Unused`, `Gone`), so the statements still to come cannot see it.

* `DestroyedAfterUse` and `UndeletableAtEnd`: `Spec => []DestroyedOnceAfterLastUse` and `Spec =>
  []UndeletableDestroyedAtEnd` if no name is declared again while it is registered (`Redeclare`), declarations
  stand in blocks and no error is ignored, whatever is hidden: both speak of known uses, and the second of variables marked
  `used` that have one or whose declaration stays. `UsageInv` says which usages an entry has; these say where they stand, so their
  invariant is about the lists of the tree. A list keeps the source's order of what is left of it (`InOrder`), a destroy is
  inserted behind the last usage the entry knows, and the walk comes back to no list it has left. Every declaration is
  `Cared` for: it is deleted, or still to be visited, or undone by an `unused`, or held by an entry of an open block, or `Settled`:
  with one destroy, in its own block, behind all that refers to it. Leaving a block moves its
  entries from held to settled; every other step keeps what is settled, because an insertion only moves statements
  back together and a removal takes no destroy. At the end no block is open and so no entry is left. A
  redeclaration inserts its destroy behind the new declaration of the name, which breaks both
  properties, so they need `Redeclare` to be false.

Four of these hold where no passing run checks them: `DeclarationInItsBlock` with redeclarations and skipped
statements, `NoFreedStatement` and `RemovedOnlyIfUnused` with redeclarations under panic, and
`DestroyedOnceAfterLastUse` with `unused` of names nobody declared under panic.

Only model-checked are:

* `MeaningPreserved` and `ImplementsTranslation` of the converter, `NothingLost` and `ParsedAsWritten` of the parser and the
  properties of the optimizer. Each compares a tree or a list with what a recursive function makes of it (the reference
  semantics, the abstract translation, all nodes of a tree, the grammar as a relation on
  positions, the meaning of a tree and who owns its nodes): induction over data.
* The parser's `TypeOK`: which kinds of subnodes a node may have is said of all nodes of the tree that is returned, and `Nodes` is
  recursive.
* All liveness: `Terminates` and `EndsOutsideParameters`.

## What is left

* `Passes`: optimizer, precompiler and converter composed, so that the inputs of
  `IRConvert` are what the optimizer leaves. `ir_null_then` is the case known to cross them.
* `Numbers`: the digit-string arithmetic of `wstring.hpp`, with the widths of the literals.
* `IRList`: the doubly linked list with `next`, `prev` and `delete`, shown to
  implement the sequences of `IRConvert`.
* Decompiler: that parentheses it leaves out are not needed.

## Not modelled

The values of tokens and literals and the digit strings they are kept in, the operands of
instructions other than labels, scopes and variables, and formatting (no property tells
them apart); the decompiler and `Dump`; files, flags and consoles in `main.cpp`; the
assembler stubs, which nothing calls; allocation failure and the reuse of an address.
