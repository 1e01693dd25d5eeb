----------------------------- MODULE PreCompiler -----------------------------
(***************************************************************************)
(* The precompiler, src/src/ast/precompiler: the walk over the AST that    *)
(* records where variables are used (VariableRegistry) and, at the end of  *)
(* each block, removes the declarations nobody uses and inserts an         *)
(* UnusedStmt, which destroys its variable, for the others.                *)
(*                                                                         *)
(* A statement is identified by its index in heap, as by its address in    *)
(* the code; the recursion of PreCompile is an explicit stack.  The AST is *)
(* not chosen in advance: a block's next statement is revealed when the    *)
(* walk reaches it, so one behaviour is one program and its precompilation.*)
(***************************************************************************)
EXTENDS Naturals, Sequences, FiniteSets

CONSTANTS
  Names,               \* identifiers
  Shapes,              \* what a revealed statement may be (ShapeOK)
  MaxStmts,            \* bound on the statements of the source program
  Redeclare,           \* programs may declare a name that is still registered
  BareDecl,            \* programs may have declarations as a branch of their own
  UnknownUnused,       \* programs may have "unused x" with x not registered
  Slack,               \* a block's vector may have spare capacity
  OptionSets           \* the compiler options the walk may run under

StmtKinds == {"block", "decl", "alias", "unused", "expr", "if", "while", "func"}

\* The names in the statement's own expression: uses are those at positions
\* the walk visits, hidden those it never looks at (in call arguments, array
\* and struct literals, aliased values, the target of a type change).  auto is
\* mayAutoDelete of a declaration, FALSE for one marked used.
ShapeOK(s) ==
  /\ s.kind \in StmtKinds
  /\ s.name \in Names
  /\ s.auto \in BOOLEAN
  /\ s.uses \subseteq Names /\ s.hidden \subseteq Names
  /\ s.kind \in {"block", "alias", "unused"} => s.uses = {}
  /\ s.kind \in {"block", "unused"} => s.hidden = {}

ASSUME NamesAssumption  == Names # {}
ASSUME ShapesAssumption == \A s \in Shapes : ShapeOK(s)
ASSUME BoundAssumption  == MaxStmts \in Nat \ {0}
ASSUME FlagsAssumption  == {Redeclare, BareDecl, UnknownUnused, Slack} \subseteq BOOLEAN
ASSUME OptionAssumption ==
  OptionSets \subseteq [allowRedeclaration : BOOLEAN, panic : BOOLEAN]

VARIABLES
  options,       \* CompilerOptions.Language.allowRedeclaration and CompilerOptions.panic
  heap,          \* statements by address: shape, kids, parent and whether the source has it
  freed,         \* addresses of deleted statements
  registry,      \* the VariableRegistry
  currentScope,  \* VariableRegistry::currentScope
  stack,         \* open activations of PreCompile on compound statements
  phase          \* "walk", "done", or how the process ended

vars == <<options, heap, freed, registry, currentScope, stack, phase>>

Null == 0     \* the null pointer

(***************************************************************************)
(* A frame walks the kids of statement id; i of them are visited.  A block *)
(* is closed when no statement follows the revealed ones.  Inserting into  *)
(* the vector a range-for runs over leaves its iterators behind: skip is   *)
(* the number of elements its end iterator misses, and detached says that  *)
(* it runs over the freed array the vector had before.  pending are the registry   *)
(* positions of remainingVars, once those are being handled.               *)
(***************************************************************************)
Frame(id, scope) ==
  [id |-> id, i |-> 0, closed |-> FALSE, skip |-> 0, detached |-> FALSE, scope |-> scope,
   leaving |-> FALSE, pending |-> << >>]

Top   == stack[Len(stack)]
Under == SubSeq(stack, 1, Len(stack) - 1)
Kids  == heap[Top.id].kids
Here  == heap[Top.id].kind

Node(shape, parent, written) ==
  [kind |-> shape.kind, name |-> shape.name, auto |-> shape.auto, uses |-> shape.uses,
   hidden |-> shape.hidden, kids |-> << >>, parent |-> parent, written |-> written]

Shape(kind, name) == [kind |-> kind, name |-> name, auto |-> FALSE, uses |-> {}, hidden |-> {}]

Init ==
  /\ options \in OptionSets
  /\ heap = <<Node(Shape("block", CHOOSE x \in Names : TRUE), Null, TRUE)>>
  /\ freed = {}
  /\ registry = << >>
  /\ currentScope = 1
  /\ stack = <<Frame(1, 1)>>
  /\ phase = "walk"

-----------------------------------------------------------------------------
(* VariableRegistry.                                                       *)

\* The elements of a list at the places in keep, in their order.
Keep(list, keep) ==
  [k \in 1 .. Cardinality(keep) |->
     list[CHOOSE p \in keep : Cardinality({q \in keep : q <= p}) = k]]

Entry(name, id, auto) ==
  [name |-> name, declaration |-> id, usage |-> << >>, scope |-> currentScope, auto |-> auto]

\* GetVariable and HasVariable: the first entry of that name wins.
Registered(r, x) == {k \in DOMAIN r : r[k].declaration # Null /\ r[k].name = x}
First(r, x)      == CHOOSE k \in Registered(r, x) : \A j \in Registered(r, x) : k <= j

\* RemoveVariable(name): entries of every scope go.
RemoveVariable(r, x) == Keep(r, {k \in DOMAIN r : r[k].name # x})

\* UsedVariable for every name an expression of statement id mentions.
UsedVariables(r, names, id) ==
  [k \in DOMAIN r |->
     IF \E x \in names : Registered(r, x) # {} /\ k = First(r, x)
     THEN [r[k] EXCEPT !.usage = Append(@, id)] ELSE r[k]]

GetVariablesInScope(r, scope) == Keep([k \in DOMAIN r |-> k], {k \in DOMAIN r : r[k].scope = scope})

RemoveScope(r, scope) == Keep(r, {k \in DOMAIN r : r[k].scope # scope})

\* BlockStmt::IndexOf, 0 for "not found".
IndexOf(list, id) ==
  IF \E k \in DOMAIN list : list[k] = id
  THEN CHOOSE k \in DOMAIN list : list[k] = id /\ \A j \in 1 .. k - 1 : list[j] # id
  ELSE 0

InsertAt(list, k, id) == SubSeq(list, 1, k - 1) \o <<id>> \o SubSeq(list, k, Len(list))

-----------------------------------------------------------------------------
(* The program.                                                            *)

Arity(kind) == CASE kind = "if" -> 2 [] kind = "while" -> 2 [] kind = "func" -> 1 [] OTHER -> 0

Written == {n \in DOMAIN heap : heap[n].written}

\* Which statements the programs of this instance may have here.
Expected(s) ==
  /\ s.kind \in {"decl", "alias"} => Redeclare \/ Registered(registry, s.name) = {}
  /\ s.kind = "unused" => UnknownUnused \/ Registered(registry, s.name) # {}
  /\ Here # "block" /\ s.kind \in {"decl", "alias"} => BareDecl
  /\ Here = "func" => s.kind = "block"

\* The source has another statement where the walk is.
Reveal(s) ==
  /\ phase = "walk"
  /\ Cardinality(Written) < MaxStmts
  /\ Expected(s)
  /\ \/ Here = "block" /\ ~Top.closed /\ ~Top.leaving /\ Len(Kids) <= Top.i + Top.skip
     \/ Here # "block" /\ Len(Kids) = Top.i /\ Top.i < Arity(Here)
  /\ heap' = Append([heap EXCEPT ![Top.id].kids = Append(@, Len(heap) + 1)], Node(s, Top.id, TRUE))
  /\ UNCHANGED <<options, freed, registry, currentScope, stack, phase>>

\* The source has no (further) statement: a block ends, a branch is null.
RevealNothing ==
  /\ phase = "walk"
  /\ \/ /\ Here = "block" /\ ~Top.closed /\ ~Top.leaving /\ Len(Kids) <= Top.i + Top.skip
        /\ stack' = [stack EXCEPT ![Len(stack)].closed = TRUE]
        /\ UNCHANGED heap
     \/ /\ Here # "block" /\ Len(Kids) = Top.i /\ Top.i < Arity(Here)
        /\ heap' = [heap EXCEPT ![Top.id].kids = Append(@, Null)]
        /\ UNCHANGED stack
  /\ UNCHANGED <<options, freed, registry, currentScope, phase>>

-----------------------------------------------------------------------------
(* PreCompile on one statement.                                            *)

\* The walk is about to call PreCompile on a kid of this kind.
Visiting(kinds) ==
  /\ phase = "walk"
  /\ ~Top.leaving
  /\ Top.i + Top.skip < Len(Kids)
  /\ Kids[Top.i + 1] # Null
  /\ heap[Kids[Top.i + 1]].kind \in kinds

\* Memory the code has deleted is read (or deleted again): the old contents
\* are still there, or the process crashes.
Touching(deleted) == phase' \in (IF deleted THEN {phase, "crashed"} ELSE {phase})

Visited == Kids[Top.i + 1]
Step(frames) == [frames EXCEPT ![Len(frames)].i = @ + 1]

VisitNull ==
  /\ phase = "walk" /\ ~Top.leaving
  /\ Top.i + Top.skip < Len(Kids)
  /\ Kids[Top.i + 1] = Null
  /\ stack' = Step(stack)
  /\ UNCHANGED <<options, heap, freed, registry, currentScope, phase>>

\* AddVariable, then the initialiser, in which the new name is visible.
Declare(r, id) ==
  UsedVariables(Append(r, Entry(heap[id].name, id, heap[id].auto)), heap[id].uses, id)

VisitDecl ==
  /\ Visiting({"decl"})
  /\ Registered(registry, heap[Visited].name) = {}
  /\ registry' = Declare(registry, Visited)
  /\ stack' = Step(stack)
  /\ UNCHANGED <<options, heap, freed, currentScope, phase>>

(***************************************************************************)
(* A registered name is declared again.  Every entry of the name goes, an  *)
(* UnusedStmt is inserted after the new declaration, and the range-for of  *)
(* the enclosing block goes on over                                        *)
(*   - the same array, if there was capacity: it meets the inserted        *)
(*     statement and its old end leaves out the last one;                  *)
(*   - or the freed old array: still its old contents, without the         *)
(*     inserted statement, or overwritten, when the process crashes.       *)
(***************************************************************************)
Redeclaring ==
  /\ Visiting({"decl"})
  /\ Registered(registry, heap[Visited].name) # {}

ThrowRedeclaration ==
  /\ Redeclaring
  /\ ~options.allowRedeclaration /\ options.panic
  /\ phase' = "threw"
  /\ UNCHANGED <<options, heap, freed, registry, currentScope, stack>>

VisitRedeclaration ==
  /\ Redeclaring
  /\ options.allowRedeclaration \/ ~options.panic
  /\ LET x   == heap[Visited].name
         new == Len(heap) + 1
         ix  == IndexOf(Kids, Visited)
     IN  /\ registry' = Declare(RemoveVariable(registry, x), Visited)
         /\ IF Here = "block"
            THEN /\ heap' = Append([heap EXCEPT ![Top.id].kids = InsertAt(@, ix + 1, new)],
                                   Node(Shape("unused", x), Top.id, FALSE))
                 /\ \/ /\ Slack /\ ~Top.detached
                       /\ stack' = [stack EXCEPT ![Len(stack)].i = @ + 1,
                                                 ![Len(stack)].skip = @ + 1]
                       /\ phase' = phase
                    \/ /\ stack' = [stack EXCEPT ![Len(stack)].i = @ + 2,
                                                 ![Len(stack)].detached = TRUE]
                       /\ phase' \in {"walk", "crashed"}
            ELSE /\ stack' = Step(stack)
                 /\ UNCHANGED <<heap, phase>>
  /\ UNCHANGED <<options, freed, currentScope>>

\* An UnusedStmt of an unknown name is an error; without panic it is deleted,
\* read once more, and stays in its block.
VisitUnused ==
  /\ Visiting({"unused"})
  /\ LET x == heap[Visited].name
         known == Registered(registry, x) # {}
     IN  /\ IF ~known /\ options.panic THEN phase' = "threw" ELSE Touching(~known)
         /\ freed' = IF ~known /\ ~options.panic THEN freed \cup {Visited} ELSE freed
         /\ registry' = RemoveVariable(registry, x)
  /\ stack' = Step(stack)
  /\ UNCHANGED <<options, heap, currentScope>>

\* The same for an alias of a registered name: deleted, then added.
\* The names in the aliased value are hidden: not recorded.
VisitAlias ==
  /\ Visiting({"alias"})
  /\ LET x == heap[Visited].name
         dup == Registered(registry, x) # {}
     IN  /\ IF dup /\ options.panic THEN phase' = "threw" ELSE Touching(dup)
         /\ freed' = IF dup /\ ~options.panic THEN freed \cup {Visited} ELSE freed
         /\ registry' = IF dup /\ options.panic THEN registry
                        ELSE Append(registry, Entry(x, Visited, FALSE))
  /\ stack' = Step(stack)
  /\ UNCHANGED <<options, heap, currentScope>>

\* ExpressionStmt and TypeChangeStmt.
VisitExpr ==
  /\ Visiting({"expr"})
  /\ registry' = UsedVariables(registry, heap[Visited].uses, Visited)
  /\ stack' = Step(stack)
  /\ UNCHANGED <<options, heap, freed, currentScope, phase>>

\* Mutant: conditions are not recorded.
EnterBranchesUnrecorded ==
  /\ Visiting({"if", "while", "func"})
  /\ stack' = Append(Step(stack), Frame(Visited, currentScope))
  /\ UNCHANGED <<options, heap, freed, registry, currentScope, phase>>

\* If and while record their condition before their branches.
EnterBranches ==
  /\ Visiting({"if", "while", "func"})
  /\ registry' = UsedVariables(registry, heap[Visited].uses, Visited)
  /\ stack' = Append(Step(stack), Frame(Visited, currentScope))
  /\ UNCHANGED <<options, heap, freed, currentScope, phase>>

LeaveBranches ==
  /\ phase = "walk"
  /\ Here # "block"
  /\ Top.i = Arity(Here)
  /\ stack' = Under
  /\ UNCHANGED <<options, heap, freed, registry, currentScope, phase>>

\* Mutant: no AddScope.
EnterBlockSameScope ==
  /\ Visiting({"block"})
  /\ stack' = Append(Step(stack), Frame(Visited, currentScope))
  /\ UNCHANGED <<options, heap, freed, registry, currentScope, phase>>

EnterBlock ==
  /\ Visiting({"block"})
  /\ currentScope' = currentScope + 1
  /\ stack' = Append(Step(stack), Frame(Visited, currentScope + 1))
  /\ UNCHANGED <<options, heap, freed, registry, phase>>

-----------------------------------------------------------------------------
(* The end of PreCompileBlockStmt.                                         *)

\* AdjustDeclarationIndices looks at every statement of the block.
EndOfStatements ==
  /\ phase = "walk"
  /\ Here = "block" /\ Top.closed /\ ~Top.leaving
  /\ Len(Kids) <= Top.i + Top.skip
  /\ stack' = [stack EXCEPT ![Len(stack)].leaving = TRUE,
                            ![Len(stack)].pending = GetVariablesInScope(registry, Top.scope)]
  /\ Touching(\E k \in DOMAIN Kids : Kids[k] \in freed)
  /\ UNCHANGED <<options, heap, freed, registry, currentScope>>

Handling == phase = "walk" /\ Top.leaving /\ Top.pending # << >>
Remaining == registry[Head(Top.pending)]

\* Mutant: the entry is erased from the registry, which moves the others.
RemoveDeclarationAndEntry ==
  /\ Handling
  /\ Remaining.usage = << >>
  /\ LET ix == IndexOf(Kids, Remaining.declaration)
         k  == Head(Top.pending)
     IN  /\ ix # 0
         /\ heap' = [heap EXCEPT ![Top.id].kids[ix] = Null]
         /\ freed' = freed \cup {Remaining.declaration}
         /\ registry' = SubSeq(registry, 1, k - 1) \o SubSeq(registry, k + 1, Len(registry))
         /\ stack' = [stack EXCEPT ![Len(stack)].pending = Tail(@)]
  /\ UNCHANGED <<options, currentScope, phase>>

\* Mutant: the declaration is deleted and stays in its block.
RemoveDeclarationInPlace ==
  /\ Handling
  /\ Remaining.usage = << >>
  /\ freed' = freed \cup {Remaining.declaration}
  /\ registry' = [registry EXCEPT ![Head(Top.pending)].declaration = Null]
  /\ stack' = [stack EXCEPT ![Len(stack)].pending = Tail(@)]
  /\ UNCHANGED <<options, heap, currentScope, phase>>

\* Mutant: the loop does not go on to the next variable.
RemoveDeclarationAgain ==
  /\ Handling
  /\ Remaining.usage = << >>
  /\ LET ix == IndexOf(Kids, Remaining.declaration)
     IN  /\ ix # 0
         /\ heap' = [heap EXCEPT ![Top.id].kids[ix] = Null]
         /\ freed' = freed \cup {Remaining.declaration}
         /\ registry' = [registry EXCEPT ![Head(Top.pending)].declaration = Null]
  /\ UNCHANGED <<options, currentScope, stack, phase>>

\* Nobody used the variable: its declaration is nulled and deleted.
RemoveDeclaration ==
  /\ Handling
  /\ Remaining.usage = << >>
  /\ LET ix == IndexOf(Kids, Remaining.declaration)
     IN  IF ix = 0
         THEN /\ phase' = "logic_error"
              /\ UNCHANGED <<heap, freed, registry, stack>>
         ELSE /\ heap' = [heap EXCEPT ![Top.id].kids[ix] = Null]
              /\ freed' = freed \cup {Remaining.declaration}
              /\ registry' = [registry EXCEPT ![Head(Top.pending)].declaration = Null]
              /\ stack' = [stack EXCEPT ![Len(stack)].pending = Tail(@)]
              /\ Touching(Remaining.declaration \in freed)
  /\ UNCHANGED <<options, currentScope>>

\* Mutant: the destroy goes before the last usage.
DestroyIndexBefore(list, e) ==
  LET last == IndexOf(list, e.usage[Len(e.usage)])
  IN  IF e.auto /\ last # 0 THEN last ELSE Len(list) + 1

\* Mutant: undeletable variables are treated like the others.
DestroyIndexAnyway(list, e) ==
  LET last == IndexOf(list, e.usage[Len(e.usage)])
  IN  IF last # 0 THEN last + 1 ELSE Len(list) + 1

\* Where the UnusedStmt goes: at the end of the block, or after the last
\* recorded usage if that is a statement of this very block.
DestroyIndex(list, e) ==
  LET last == IndexOf(list, e.usage[Len(e.usage)])
  IN  IF e.auto /\ last # 0 THEN last + 1 ELSE Len(list) + 1

InsertDestroy ==
  /\ Handling
  /\ Remaining.usage # << >>
  /\ heap' = Append([heap EXCEPT ![Top.id].kids =
                       InsertAt(@, DestroyIndex(@, Remaining), Len(heap) + 1)],
                    Node(Shape("unused", Remaining.name), Top.id, FALSE))
  /\ stack' = [stack EXCEPT ![Len(stack)].pending = Tail(@)]
  /\ UNCHANGED <<options, freed, registry, currentScope, phase>>

\* Mutant: the scope is not left.
LeaveBlockKeepsScope ==
  /\ phase = "walk"
  /\ Top.leaving /\ Top.pending = << >>
  /\ heap' = [heap EXCEPT ![Top.id].kids = Keep(@, {k \in DOMAIN @ : @[k] # Null})]
  /\ registry' = RemoveScope(registry, Top.scope)
  /\ stack' = Under
  /\ phase' = IF Len(stack) = 1 THEN "done" ELSE "walk"
  /\ UNCHANGED <<options, freed, currentScope>>

\* Fix drops the nulled statements; the scope and its variables go.
LeaveBlock ==
  /\ phase = "walk"
  /\ Top.leaving /\ Top.pending = << >>
  /\ heap' = [heap EXCEPT ![Top.id].kids = Keep(@, {k \in DOMAIN @ : @[k] # Null})]
  /\ registry' = RemoveScope(registry, Top.scope)
  /\ currentScope' = IF currentScope = Top.scope THEN currentScope - 1 ELSE currentScope
  /\ stack' = Under
  /\ phase' = IF Len(stack) = 1 THEN "done" ELSE "walk"
  /\ UNCHANGED <<options, freed>>

Next ==
  \/ \E s \in Shapes : Reveal(s)
  \/ RevealNothing
  \/ VisitNull \/ VisitDecl \/ ThrowRedeclaration \/ VisitRedeclaration
  \/ VisitUnused \/ VisitAlias \/ VisitExpr
  \/ EnterBranches \/ LeaveBranches \/ EnterBlock
  \/ EndOfStatements \/ RemoveDeclaration \/ InsertDestroy \/ LeaveBlock

Spec     == Init /\ [][Next]_vars
\* One thread; it reads on or stops reading, then runs to its end.
FairSpec == Spec /\ WF_vars(Next)

-----------------------------------------------------------------------------
(* Properties.                                                             *)

FrameType ==
  [id : Nat \ {0}, i : Nat, closed : BOOLEAN, skip : Nat, detached : BOOLEAN, scope : Nat,
   leaving : BOOLEAN, pending : Seq(DOMAIN registry)]

\* Statements, registry entries and frames have the shape of the code's, and
\* remainingVars, pointers into the registry's vector, stay inside it while
\* the loop over them removes declarations (blockstmt.hpp).
TypeOK ==
  /\ options \in OptionSets
  /\ heap \in Seq([kind : StmtKinds, name : Names, auto : BOOLEAN, uses : SUBSET Names,
                   hidden : SUBSET Names, kids : Seq(0 .. Len(heap)), parent : 0 .. Len(heap), written : BOOLEAN])
  /\ freed \subseteq DOMAIN heap
  /\ registry \in Seq([name : Names, declaration : 0 .. Len(heap), usage : Seq(DOMAIN heap),
                       scope : Nat, auto : BOOLEAN])
  /\ currentScope \in Nat
  /\ stack \in Seq(FrameType)
  /\ phase \in {"walk", "done", "threw", "crashed", "logic_error"}

\* A statement with all that enclose it; a parent is allocated before its kids.
Enclosing ==
  LET A[n \in 0 .. Len(heap)] == IF n = Null THEN {} ELSE {n} \cup A[heap[n].parent] IN A

\* The innermost block around statement n.
BlockOf(n) ==
  LET blocks == {b \in Enclosing[n] \ {n} : heap[b].kind = "block"}
  IN  CHOOSE b \in blocks : \A c \in blocks : c <= b

Decls == {n \in Written : heap[n].kind = "decl"}

\* The name of declaration d, where statement u is, means d: the latest one
\* before u, or u itself, in a block around u.  This is scoping by the text
\* alone.
Means(u, d) ==
  LET visible == {n \in Decls : n <= u /\ heap[n].name = heap[d].name /\ BlockOf(n) \in Enclosing[u]}
  IN  /\ d \in visible
      /\ \A n \in visible : n <= d

\* Statement u uses d where the walk looks, and where it looks or does not.
Refers(u, d)   == heap[u].written /\ heap[d].name \in heap[u].uses /\ Means(u, d)
Mentions(u, d) == heap[u].written /\ heap[d].name \in heap[u].uses \cup heap[u].hidden /\ Means(u, d)

\* The known uses of d and all of them.
UsesOf(d)     == {u \in Written \ freed : Refers(u, d)}
MentionsOf(d) == {u \in Written \ freed : Mentions(u, d)}

\* Declarations the source leaves to the precompiler to destroy.
Managed ==
  {d \in Decls : ~\E n \in Written : /\ heap[n].kind = "unused" /\ heap[n].name = heap[d].name
                                    /\ n > d /\ BlockOf(d) \in Enclosing[n]}

\* Where in block b statement u is, and where the destroys of d are.
Position(b, u) ==
  CHOOSE k \in DOMAIN heap[b].kids : heap[b].kids[k] # Null /\ heap[b].kids[k] \in Enclosing[u]

Destroys(d) ==
  LET list == heap[BlockOf(d)].kids
  IN  {k \in DOMAIN list : /\ heap[list[k]].kind = "unused" /\ heap[list[k]].name = heap[d].name
                           /\ k > IndexOf(list, d)}

\* A variable the source does not destroy itself is destroyed once in its
\* block, after the last statement that is known to use it (that has the name
\* where the walk looks), however deep the use is nested, in a condition, a
\* loop, a function body or the initialiser of a declaration that goes away
\* (blockstmt.hpp, the insertion after usage.back()).
DestroyedOnceAfterLastUse ==
  phase = "done" =>
    \A d \in Managed \ freed :
       \E k \in Destroys(d) :
          /\ Destroys(d) = {k}
          /\ \A u \in UsesOf(d) : Position(BlockOf(d), u) < k

\* A declaration is removed only if no statement of the resulting program
\* mentions its variable at all.  blockstmt.hpp removes it when no use was
\* recorded, so this holds of programs whose every mention is at a position
\* the walk visits.
RemovedOnlyIfUnused ==
  phase = "done" => \A d \in Decls \cap freed : MentionsOf(d) = {}

\* d has a destroy behind every statement the source has in its block.
ClosedByDestroy(d) ==
  LET list == heap[BlockOf(d)].kids
  IN  \E k \in Destroys(d) : \A j \in DOMAIN list : heap[list[j]].written => j < k

\* technical/why.md: a variable marked used and left undeleted is destroyed at
\* the end of its scope, not after its last known use.  So it is for those that
\* have a known use or whose declaration stays; one without a known use loses
\* its declaration as any other variable, and that is not what the text says.
UndeletableDestroyedAtEnd ==
  phase = "done" =>
    \A d \in Managed : ~heap[d].auto /\ (d \notin freed \/ UsesOf(d) # {}) => ClosedByDestroy(d)

\* The same for every variable marked used that the program mentions, whether
\* the walk looks there or not: the user "probably" has "a good reason for it",
\* as technical/why.md says.
MentionedUndeletableDestroyedAtEnd ==
  phase = "done" => \A d \in Managed : ~heap[d].auto /\ MentionsOf(d) # {} => ClosedByDestroy(d)

BlockFrames == {f \in DOMAIN stack : heap[stack[f].id].kind = "block"}

\* currentScope counts the open blocks, each open block has the scope of its
\* depth, and every registry entry was declared in the open block its scope
\* stands for: leaving a block takes its entries and no others, although the
\* redeclaration of a name removes entries of any scope in between.
RegistryOfOpenBlocks ==
  /\ phase \in {"walk", "done"} => currentScope = Cardinality(BlockFrames)
  /\ \A f \in BlockFrames : stack[f].scope = Cardinality({g \in BlockFrames : g <= f})
  /\ \A k \in DOMAIN registry :
       registry[k].declaration # Null =>
         \E f \in BlockFrames : /\ stack[f].scope = registry[k].scope
                               /\ stack[f].id = BlockOf(registry[k].declaration)

\* No statement of the finished program has been deleted: IR::MConvert walks
\* it next.
NoFreedStatement ==
  phase = "done" => \A n \in DOMAIN heap \ freed : \A k \in DOMAIN heap[n].kids : heap[n].kids[k] \notin freed

\* blockstmt.hpp throws a logic_error when "Variable declaration is missing
\* from its block.", which nothing catches.
DeclarationInItsBlock == phase # "logic_error"

\* The walk ends: no insertion into the vector being walked keeps it going.
Terminates == <>(phase # "walk")
=============================================================================
