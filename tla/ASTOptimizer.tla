----------------------------- MODULE ASTOptimizer -----------------------------
(***************************************************************************)
(* The AST optimizer, src/src/ast/optimizer: Optimize on statements and    *)
(* expressions, called by Parse on the root of the tree.                   *)
(*                                                                         *)
(* The tree is a heap: node a is heap[a], its pointers are addresses in    *)
(* kids, 0 is the null pointer, and freed are the deleted nodes, whose old *)
(* contents stay.  A reference (Stmt*&, Expr*&) is a place <<a, i>>: kid i *)
(* of node a.  Node 1 holds the local pointer variables that are passed by *)
(* reference, the first of them root in Parse; node 2 is the block root    *)
(* points at, which is not on the heap of the program.                     *)
(*                                                                         *)
(* kids: block its statements; if and while the condition, the branch or   *)
(* body, the else branch; decl the value; exprstmt the expression; prefix, *)
(* binary and assign their operands.  text is an operator, a name, a type  *)
(* or the value of a bool; num the value of a number, or which variable is *)
(* declared.  Statements and expressions that Optimize leaves alone        *)
(* (functions, structs, calls, volatile, ...) have a kind of their own     *)
(* where the properties need one.                                          *)
(***************************************************************************)
EXTENDS Integers, Sequences, FiniteSets, SequencesExt

CONSTANT Inputs   \* the trees, each with the options it is optimized under

VARIABLES
  input,    \* the tree before, finiteMathOnly and panic
  heap,     \* the nodes
  freed,    \* addresses of the deleted nodes
  todo,     \* what is still to be done, the next first
  phase     \* "run", "done", "exited", "crashed"

vars == <<input, heap, freed, todo, phase>>

Node(is, text, num, kids) == [is |-> is, text |-> text, num |-> num, kids |-> kids]

Root == 2

-----------------------------------------------------------------------------
(* Reading the tree.                                                       *)

At(ref)     == heap[ref[1]].kids[ref[2]]
Is(a, kind) == a # 0 /\ heap[a].is = kind
Kids(a)     == heap[a].kids

\* The node a points at and everything it owns.
Tree(h, a) ==
  LET tree[b \in 0 .. Len(h)] ==
        IF b = 0 THEN << >> ELSE <<b>> \o FlattenSeq([i \in DOMAIN h[b].kids |-> tree[h[b].kids[i]]])
  IN  tree[a]

Owned(h, a) == ToSet(Tree(h, a))

isEmptyBranch(a) == a = 0 \/ (Is(a, "block") /\ Kids(a) = << >>)

Literals       == {"number", "bool", "null", "string", "byte"}
isLiteral(a)   == heap[a].is \in Literals
IsBool(a, val) == Is(a, "bool") /\ heap[a].text = val

\* The nodes of Clone, to be put behind the heap.
Clone(a) ==
  LET old    == Tree(heap, a)
      new(k) == IF k = 0 THEN 0 ELSE Len(heap) + (CHOOSE i \in DOMAIN old : old[i] = k)
  IN  [i \in DOMAIN old |-> [heap[old[i]] EXCEPT !.kids = [j \in DOMAIN @ |-> new(@[j])]]]

\* The address of the next node that is allocated.
Fresh == Len(heap) + 1

\* What a reference points at after a node was cloned.
CloneOf(a) == IF a = 0 THEN 0 ELSE Fresh

-----------------------------------------------------------------------------
(* Tasks.                                                                  *)

T(do, ref, node) == [do |-> do, ref |-> ref, node |-> node]
Stmt(ref) == T("stmt", ref, 0)
Expr(ref) == T("expr", ref, 0)

Top      == Head(todo)
It       == At(Top.ref)     \* what the reference points at
Doing(d) == phase = "run" /\ todo # << >> /\ Top.do = d

Put(h, a) == [h EXCEPT ![Top.ref[1]].kids[Top.ref[2]] = a]

\* Makes h the heap, deletes the nodes of f, and goes on with next.  Touching
\* what is deleted, deleting it again and deleting the root, which was never
\* allocated, end the process or have no effect.
Touch(reads, h, f, next) ==
  \/ /\ heap' = h
     /\ freed' = freed \cup f
     /\ todo' = next \o Tail(todo)
     /\ UNCHANGED <<input, phase>>
  \/ /\ (reads \cup {Top.ref[1], It, Top.node} \cup f) \cap freed # {} \/ Root \in f
     /\ phase' = "crashed"
     /\ UNCHANGED <<input, heap, freed, todo>>

Step(h, f, next) == Touch({}, h, f, next)

Init ==
  /\ input \in Inputs
  /\ heap = input.heap
  /\ freed = {}
  /\ todo = <<Stmt(<<1, 1>>)>>
  /\ phase = "run"

-----------------------------------------------------------------------------
(* Optimize.                                                               *)

OptimizeNull == (Doing("stmt") \/ Doing("expr")) /\ It = 0 /\ Step(heap, {}, << >>)

DeleteEmptyBlock == Doing("stmt") /\ Is(It, "block") /\ Kids(It) = << >> /\ Step(Put(heap, 0), {It}, << >>)

\* The local blockStmt is a new variable.
OptimizeBlock ==
  /\ Doing("stmt") /\ Is(It, "block") /\ Kids(It) # << >>
  /\ LET local == <<1, Len(heap[1].kids) + 1>>
     IN  Step([heap EXCEPT ![1].kids = Append(@, It)], {},
              [i \in DOMAIN Kids(It) |-> Stmt(<<It, i>>)] \o <<T("keep", local, It)>>)

OptimizeExpressionStmt == Doing("stmt") /\ Is(It, "exprstmt") /\ Step(heap, {}, <<Expr(<<It, 1>>)>>)

OptimizeOther ==
  \/ Doing("stmt") /\ Is(It, "other") /\ Step(heap, {}, << >>)
  \/ Doing("expr") /\ It # 0 /\ heap[It].is \notin {"prefix", "binary", "assign"} /\ Step(heap, {}, << >>)

OptimizeBinary ==
  /\ Doing("expr") /\ Is(It, "binary")
  /\ LET fast == IF input.fast THEN <<T("fast", Top.ref, 0)>> ELSE << >>
     IN  Step(heap, {}, <<Expr(<<It, 1>>), Expr(<<It, 2>>)>> \o fast \o <<T("literals", Top.ref, 0)>>)

OptimizeAssignment == Doing("expr") /\ Is(It, "assign") /\ Step(heap, {}, <<Expr(<<It, 1>>), Expr(<<It, 2>>)>>)

\* Mutant: null statements stay in the block.
KeepAllStatements ==
  /\ Doing("keep")
  /\ Step(heap, {}, << >>)

\* The null statements go; _OptimizeBlockStmt merges a block that is the only
\* statement.
KeepStatements ==
  /\ Doing("keep")
  /\ LET block == Top.node
         kept  == SelectSeq(Kids(block), LAMBDA a : a # 0)
         inner == Head(kept)
     IN  IF Len(kept) = 1 /\ Is(inner, "block")
         THEN Touch({inner}, [heap EXCEPT ![block].kids = Kids(inner), ![inner].kids = << >>], {},
                    <<Stmt(Top.ref), T("delete", Top.ref, inner)>>)
         ELSE Touch(IF Len(kept) = 1 THEN {inner} ELSE {}, [heap EXCEPT ![block].kids = kept], {}, << >>)

DeleteInner == Doing("delete") /\ Step(heap, {Top.node}, << >>)

-----------------------------------------------------------------------------
(* OptimizeIfStmt.                                                         *)

EnterIf == Doing("stmt") /\ Is(It, "if") /\ Step(heap, {}, <<Expr(<<It, 1>>), T("if", Top.ref, It)>>)

ConstantIf ==
  /\ Doing("if")
  /\ LET stmt   == Top.node
         cond   == Kids(stmt)[1]
         branch == IF IsBool(cond, "true") THEN Kids(stmt)[2] ELSE Kids(stmt)[3]
     IN  /\ Is(cond, "bool")
         /\ Step(Put(heap, CloneOf(branch)) \o Clone(branch), Owned(heap, stmt), <<Stmt(Top.ref)>>)

EmptyIf ==
  /\ Doing("if")
  /\ LET stmt == Top.node
     IN  /\ ~Is(Kids(stmt)[1], "bool") /\ isEmptyBranch(Kids(stmt)[2]) /\ isEmptyBranch(Kids(stmt)[3])
         /\ Step(Put(heap, 0), Owned(heap, stmt), << >>)

OptimizeBranches ==
  /\ Doing("if")
  /\ LET stmt == Top.node
         then == IF isEmptyBranch(Kids(stmt)[2]) THEN << >> ELSE <<Stmt(<<stmt, 2>>)>>
         else == IF Kids(stmt)[3] = 0 THEN << >> ELSE <<Stmt(<<stmt, 3>>), T("else", Top.ref, stmt)>>
     IN  /\ ~Is(Kids(stmt)[1], "bool")
         /\ ~(isEmptyBranch(Kids(stmt)[2]) /\ isEmptyBranch(Kids(stmt)[3]))
         /\ Step(heap, {}, then \o else)

\* Mutant: the block of a single statement is deleted with it.
UnwrapElseDeleted ==
  /\ Doing("else")
  /\ LET stmt == Top.node
         else == Kids(stmt)[3]
         swap == T("swap", Top.ref, stmt)
     IN  CASE Is(else, "block") /\ Kids(else) = << >> ->
                Touch({else}, [heap EXCEPT ![stmt].kids[3] = 0], {}, <<swap>>)
           [] Is(else, "block") /\ Len(Kids(else)) = 1 ->
                Touch({else}, [heap EXCEPT ![stmt].kids[3] = Kids(else)[1]], Owned(heap, else),
                      <<Stmt(<<stmt, 3>>), swap>>)
           [] OTHER -> Touch({else}, heap, {}, <<swap>>)

\* An else block that is empty goes, one of a single statement is unwrapped;
\* neither block is deleted.
UnwrapElse ==
  /\ Doing("else")
  /\ LET stmt == Top.node
         else == Kids(stmt)[3]
         swap == T("swap", Top.ref, stmt)
     IN  CASE Is(else, "block") /\ Kids(else) = << >> ->
                Touch({else}, [heap EXCEPT ![stmt].kids[3] = 0], {}, <<swap>>)
           [] Is(else, "block") /\ Len(Kids(else)) = 1 ->
                Touch({else}, [heap EXCEPT ![stmt].kids[3] = Kids(else)[1]], {}, <<Stmt(<<stmt, 3>>), swap>>)
           [] OTHER -> Touch({else}, heap, {}, <<swap>>)

\* Mutant: the else branch is still there after it became the then branch.
SwapBranchesKept ==
  /\ Doing("swap")
  /\ LET stmt == Top.node
         then == Kids(stmt)[2]
         else == Kids(stmt)[3]
     IN  IF Is(then, "block") /\ Kids(then) = << >>
         THEN Touch({then}, Append([heap EXCEPT ![stmt].kids = <<Fresh, else, else>>],
                                   Node("prefix", "!", 0, <<Kids(stmt)[1]>>)),
                    {then}, <<Expr(<<stmt, 1>>)>>)
         ELSE Touch({then}, heap, {}, << >>)

\* An empty then block gives way to the else branch, the condition is negated.
SwapBranches ==
  /\ Doing("swap")
  /\ LET stmt == Top.node
         then == Kids(stmt)[2]
         else == Kids(stmt)[3]
     IN  IF Is(then, "block") /\ Kids(then) = << >>
         THEN Touch({then}, Append([heap EXCEPT ![stmt].kids = <<Fresh, else, 0>>],
                                   Node("prefix", "!", 0, <<Kids(stmt)[1]>>)),
                    {then}, <<Expr(<<stmt, 1>>)>>)
         ELSE Touch({then}, heap, {}, << >>)

-----------------------------------------------------------------------------
(* OptimizeWhileStmt.                                                      *)

EnterWhile ==
  /\ Doing("stmt") /\ Is(It, "while")
  /\ LET stmt == It
         cond == Kids(stmt)[1]
         body == Kids(stmt)[2]
         else == Kids(stmt)[3]
         next == <<Expr(<<stmt, 1>>), T("while", Top.ref, stmt)>>
     IN  CASE ~isEmptyBranch(else) -> Step(heap, {}, <<Stmt(<<stmt, 3>>)>> \o next)
           [] isEmptyBranch(else) /\ ~isEmptyBranch(body) ->
                Step([heap EXCEPT ![stmt].kids[3] = 0], Owned(heap, else), next)
           \* The condition becomes a statement; the deleted while is used further.
           [] isEmptyBranch(else) /\ isEmptyBranch(body) ->
                Step(Append(Put([heap EXCEPT ![stmt].kids = <<0, body, 0>>], Fresh), Node("exprstmt", "", 0, <<cond>>)),
                     {stmt} \cup Owned(heap, body) \cup Owned(heap, else),
                     <<Stmt(Top.ref), T("literal", Top.ref, Fresh)>> \o next)

DropLiteral ==
  /\ Doing("literal")
  /\ IF isLiteral(Kids(Top.node)[1]) THEN Step(Put(heap, 0), Owned(heap, It), << >>) ELSE Step(heap, {}, << >>)

FalseWhile ==
  /\ Doing("while")
  /\ LET stmt  == Top.node
         after == [heap EXCEPT ![stmt].kids[3] = 0]
     IN  /\ IsBool(Kids(stmt)[1], "false")
         /\ Step(Put(after, Kids(stmt)[3]), Owned(after, stmt), <<Stmt(Top.ref)>>)

\* Only a body that is a while is optimized.
LeaveWhile ==
  /\ Doing("while")
  /\ LET stmt == Top.node
     IN  /\ ~IsBool(Kids(stmt)[1], "false")
         /\ Touch({Kids(stmt)[2]}, heap, {},
                  IF Is(Kids(stmt)[2], "while") THEN <<Stmt(<<stmt, 2>>), T("merge", Top.ref, stmt)>> ELSE << >>)

MergeWhiles ==
  /\ Doing("merge")
  /\ LET stmt  == Top.node
         inner == Kids(stmt)[2]
         after == [heap EXCEPT ![inner].kids = <<0, 0, Kids(inner)[3]>>,
                               ![stmt].kids = <<Fresh, Kids(inner)[2], Kids(stmt)[3]>>]
     IN  IF Is(inner, "while")
         THEN Step(Append(after, Node("binary", "&&", 0, <<Kids(stmt)[1], Kids(inner)[1]>>)), Owned(after, inner), << >>)
         ELSE Step(heap, {}, << >>)

-----------------------------------------------------------------------------
(* OptimizeVarDeclStmt.                                                    *)

\* TokenTypeCompatibility, of the types literals have.  A byte is a uint8.
TokenTypeCompatibility ==
  [number |-> {"byte", "char32", "char16", "char8", "bool"}, string32 |-> {"bool"},
   bool |-> {"number", "byte"}, null |-> {"void"}, uint8 |-> {}]

ExpressionToType(a) ==
  CASE heap[a].is = "string" -> "string32"
    [] heap[a].is = "byte"   -> "uint8"
    [] OTHER                 -> heap[a].is

isCompatible(type, valueType) == valueType = "null" \/ type \in {valueType, "any"} \cup TokenTypeCompatibility[valueType]

EnterVarDecl == Doing("stmt") /\ Is(It, "decl") /\ Step(heap, {}, <<Expr(<<It, 1>>), T("decl", Top.ref, It)>>)

\* A literal gives an auto variable its type, and one it does not fit too.
CheckType ==
  /\ Doing("decl")
  /\ LET stmt  == Top.node
         value == Kids(stmt)[1]
         fits  == isLiteral(value) => heap[stmt].text # "auto" /\ isCompatible(heap[stmt].text, ExpressionToType(value))
         typed == [heap EXCEPT ![stmt].text = ExpressionToType(value)]
     IN  \/ fits /\ Step(heap, {}, << >>)
         \/ ~fits /\ (heap[stmt].text = "auto" \/ ~input.panic) /\ Step(typed, {}, << >>)
         \/ /\ ~fits /\ heap[stmt].text # "auto" /\ input.panic
            /\ phase' = "exited" /\ UNCHANGED <<input, heap, freed, todo>>

-----------------------------------------------------------------------------
(* OptimizePrefixExpr.                                                     *)

\* OperatorLookup; "" where it has no entry.
OperatorLookup(op, inner) ==
  CASE <<op, inner>> \in {<<"-", "-">>, <<"+", "+">>, <<"!", "!">>} -> "+"
    [] <<op, inner>> \in {<<"-", "+">>, <<"+", "-">>} -> "-"
    [] <<op, inner>> = <<"!", "!=">> -> "=="
    [] <<op, inner>> = <<"!", "==">> -> "!="
    [] OTHER -> ""

\* What the operator of It and the one under it make together.
Folded ==
  LET right == Kids(It)[1]
  IN  IF right # 0 /\ heap[right].is \in {"prefix", "binary"} THEN OperatorLookup(heap[It].text, heap[right].text) ELSE ""

\* The prefix operator goes, the binary one changes.
FoldBinary ==
  /\ Doing("expr") /\ Is(It, "prefix") /\ Folded # "" /\ Is(Kids(It)[1], "binary")
  /\ LET right == Kids(It)[1]
     IN  Step(Put([heap EXCEPT ![It].kids[1] = 0, ![right].text = Folded], right), {It}, <<Expr(Top.ref)>>)

FoldPrefix ==
  /\ Doing("expr") /\ Is(It, "prefix") /\ Folded # "" /\ Is(Kids(It)[1], "prefix")
  /\ LET inner == Kids(It)[1]
         right == Kids(inner)[1]
         after == [heap EXCEPT ![It].text = Folded, ![It].kids[1] = right, ![inner].kids[1] = 0]
     IN  IF Folded = "+"
         THEN Step(Put([after EXCEPT ![It].kids[1] = 0], right), {It, inner}, <<Expr(Top.ref)>>)
         ELSE Step(after, {inner}, <<Expr(Top.ref)>>)

\* Mutant: the expression is optimized again though nothing changed.
DropPlusAgain ==
  /\ Doing("expr") /\ Is(It, "prefix") /\ Folded = ""
  /\ IF heap[It].text = "+"
     THEN Step(Put([heap EXCEPT ![It].kids[1] = 0], Kids(It)[1]), {It}, <<Expr(Top.ref)>>)
     ELSE Step(heap, {}, <<Expr(Top.ref)>>)

\* +x is x.
DropPlus ==
  /\ Doing("expr") /\ Is(It, "prefix") /\ Folded = ""
  /\ IF heap[It].text = "+"
     THEN Step(Put([heap EXCEPT ![It].kids[1] = 0], Kids(It)[1]), {It}, <<Expr(Top.ref)>>)
     ELSE Step(heap, {}, << >>)

-----------------------------------------------------------------------------
(* FastMathOptimization and MergeLiterals.                                 *)

\* GetValue, as far as two expressions differ by it.
GetValue(a) ==
  LET value[b \in DOMAIN heap] ==
        LET n == heap[b]
        IN  <<IF n.is = "string" THEN "symbol" ELSE n.is, n.text, n.num, [i \in DOMAIN n.kids |-> value[n.kids[i]]]>>
  IN  value[a]

BoolNode(val) == Node("bool", IF val THEN "true" ELSE "false", 0, << >>)

ReplaceBy(nodes, next) == Step(Put(heap, Fresh) \o nodes, Owned(heap, It), next)

FastMath ==
  /\ Doing("fast")
  /\ LET op    == heap[It].text
         left  == Kids(It)[1]
         right == Kids(It)[2]
     IN  CASE op \in {"==", "!="} /\ GetValue(left) = GetValue(right) -> ReplaceBy(<<BoolNode(op = "==")>>, << >>)
           [] op = "&&" /\ (IsBool(left, "false") \/ IsBool(right, "false")) -> ReplaceBy(<<BoolNode(FALSE)>>, << >>)
           [] op = "&&" /\ IsBool(left, "true") /\ ~IsBool(right, "false") -> ReplaceBy(Clone(right), <<Expr(Top.ref)>>)
           [] op = "&&" /\ IsBool(right, "true") /\ ~Is(left, "bool") -> ReplaceBy(Clone(left), <<Expr(Top.ref)>>)
           [] OTHER -> Step(heap, {}, << >>)

\* Mutant: the second number is subtracted from, not the first.
FoldNumbersSwapped(op, m, n) == IF op = "+" THEN m + n ELSE IF op = "*" THEN m * n ELSE n - m

\* Add, Multiply and Minus of NumberExpr.
FoldNumbers(op, m, n) == IF op = "+" THEN m + n ELSE IF op = "*" THEN m * n ELSE m - n

\* Equals, isLessthan and the other comparisons.
CompareNumbers(op, m, n) ==
  CASE op = "==" -> m = n
    [] op = "!=" -> m # n
    [] op = "<"  -> m < n
    [] op = ">"  -> m > n
    [] op = "<=" -> m <= n
    [] op = ">=" -> m >= n

\* The bitwise operators, which fold likewise, are not among the operators.
MergeLiterals ==
  /\ Doing("literals")
  /\ LET op    == heap[It].text
         left  == Kids(It)[1]
         right == Kids(It)[2]
         m     == heap[left].num
         n     == heap[right].num
         folds == Is(It, "binary") /\ Is(left, "number") /\ Is(right, "number")
     IN  IF folds /\ op \in {"+", "-", "*"}
         THEN Step(Put([heap EXCEPT ![left].num = FoldNumbers(op, m, n), ![It].kids = <<0, 0>>], left), {It, right}, << >>)
         ELSE IF folds /\ op \in {"==", "!=", "<", ">", "<=", ">="}
         THEN ReplaceBy(<<BoolNode(CompareNumbers(op, m, n))>>, << >>)
         ELSE Step(heap, {}, << >>)

-----------------------------------------------------------------------------

Finish == phase = "run" /\ todo = << >> /\ phase' = "done" /\ UNCHANGED <<input, heap, freed, todo>>

Blocks      == OptimizeNull \/ DeleteEmptyBlock \/ OptimizeBlock \/ KeepStatements \/ DeleteInner
Simple      == OptimizeExpressionStmt \/ OptimizeOther \/ EnterVarDecl \/ CheckType
Ifs         == EnterIf \/ ConstantIf \/ EmptyIf \/ OptimizeBranches \/ UnwrapElse \/ SwapBranches
Whiles      == EnterWhile \/ DropLiteral \/ FalseWhile \/ LeaveWhile \/ MergeWhiles
Expressions == OptimizeBinary \/ OptimizeAssignment \/ FoldBinary \/ FoldPrefix \/ DropPlus \/ FastMath \/ MergeLiterals

Next     == Blocks \/ Simple \/ Ifs \/ Whiles \/ Expressions \/ Finish
Spec     == Init /\ [][Next]_vars
FairSpec == Spec /\ WF_vars(Next)
=============================================================================
