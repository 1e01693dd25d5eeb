------------------------------ MODULE IRConvert ------------------------------
(***************************************************************************)
(* The IR converter of the compiler, src/src/IR: MConvert, ConvertASTToIR, *)
(* ConvertIfToIR, ConvertWhileToIR, ConvertAssignmentToIR, OptimizeLabels  *)
(* and the counters of _IRGlobals.                                         *)
(*                                                                         *)
(* The recursion of the code is an explicit stack: a frame is one          *)
(* activation of ConvertASTToIR on a compound statement.  A linked list of *)
(* Nodes is the sequence of its instructions, so the null pointer is the   *)
(* empty chain and the pointer splices of the code are concatenations.     *)
(***************************************************************************)
EXTENDS Naturals, Sequences, FiniteSets

CONSTANTS
  Names,           \* variable names (and the texts of NOP placeholders)
  Stmts,           \* statements of the AST, closed under taking kids
  Programs,        \* the statements MConvert is called on
  OptimizeLabels   \* OptimizationOptions.IR.optimizeLabels

LeafKinds     == {"null", "decl", "unused", "assign", "other"}
CompoundKinds == {"block", "if", "while"}
\* "badassign" is an assignment whose operator the converter has no opcode for.
Kinds         == LeafKinds \cup CompoundKinds \cup {"badassign"}

(***************************************************************************)
(* A statement has a kind, a name, the statements below it and one flag:   *)
(* of an "if" that its condition is a prefix NOT, of a "decl" that its     *)
(* initialiser is a literal, of an "assign" that its operator is compound. *)
(* The kids of an "if" are its ThenBranch and ElseBranch, "null" when the  *)
(* pointer is, and those of a "while" its Body and ElseBranch.             *)
(***************************************************************************)
StmtOK(s) ==
  /\ s.kind \in Kinds
  /\ s.name \in Names
  /\ s.flag \in BOOLEAN
  /\ s.kids \in Seq(Stmts)
  /\ s.kind \in {"if", "while"} => Len(s.kids) = 2

ASSUME StmtsAssumption   == \A s \in Stmts : StmtOK(s)
ASSUME ProgramAssumption == Programs \subseteq Stmts
ASSUME OptionAssumption  == OptimizeLabels \in BOOLEAN

-----------------------------------------------------------------------------
(* Instructions and chains of them.                                        *)

JumpOps == {"JUMP", "JUMP_IF_TRUE", "JUMP_IF_FALSE"}
VarOps  == {"CREATE_VAR", "STORE_VAR", "LOAD_VAR", "ADD", "DESTROY_VAR", "NOP"}

\* A label name is its prefix and the unique number GetUniqueID gave it.
Labels == {"ifelse", "ifend", "while_start", "while_end"} \X Nat

Instructions ==
       [op : JumpOps \cup {"LABEL"}, label : Labels]
  \cup [op : VarOps, var : Names]
  \cup [op : {"SET_SCOPE"}, scope : Nat]
  \cup [op : {"SOF", "EOF"}]

Jump(op, l)    == [op |-> op, label |-> l]
Label(l)       == [op |-> "LABEL", label |-> l]
OnVar(op, x)   == [op |-> op, var |-> x]
SetScope(n)    == [op |-> "SET_SCOPE", scope |-> n]

IsLabel(i) == i.op = "LABEL"
IsJump(i)  == i.op \in JumpOps

LabelsOf(c)  == {c[i].label : i \in {j \in DOMAIN c : IsLabel(c[j])}}
TargetsOf(c) == {c[i].label : i \in {j \in DOMAIN c : IsJump(c[j])}}

\* ConvertAssignmentToIR; ADD stands for the opcode of any compound operator.
AssignCode(compound, x) ==
  IF compound THEN <<OnVar("LOAD_VAR", x), OnVar("ADD", x), OnVar("STORE_VAR", x)>>
  ELSE <<OnVar("STORE_VAR", x)>>

\* Statements converted without recursion.  A declaration stores its value
\* only when the initialiser is a literal.
LeafCode(s) ==
  CASE s.kind = "null"   -> << >>
    [] s.kind = "decl"   -> IF s.flag
                            THEN <<OnVar("CREATE_VAR", s.name), OnVar("STORE_VAR", s.name)>>
                            ELSE <<OnVar("CREATE_VAR", s.name)>>
    [] s.kind = "unused" -> <<OnVar("DESTROY_VAR", s.name)>>
    [] s.kind = "assign" -> AssignCode(s.flag, s.name)
    [] OTHER             -> <<OnVar("NOP", s.name)>>

\* Mutant: the else label is misspelt where it is jumped to.
IfCodeMisspelt(negated, id, then, else) ==
  <<Jump("JUMP_IF_FALSE", <<"else", id>>)>> \o then \o <<Label(<<"ifelse", id>>)>>
    \o else \o <<Label(<<"ifend", id>>)>>

\* Mutant: the jump of an empty if is not redirected to the end label.
IfCodeNotRedirected(negated, id, then, else) ==
  <<Jump("JUMP_IF_FALSE", IF then # << >> /\ else = << >> THEN <<"ifend", id>> ELSE <<"ifelse", id>>)>>
    \o then
    \o (IF then # << >> /\ else # << >> THEN <<Jump("JUMP", <<"ifend", id>>), Label(<<"ifelse", id>>)>>
        ELSE << >>)
    \o else \o <<Label(<<"ifend", id>>)>>

\* ConvertIfToIR once both branches are converted.  With no then node the
\* code of the else branch is never linked.
IfCode(negated, id, then, else) ==
  LET jump   == IF negated THEN "JUMP_IF_TRUE" ELSE "JUMP_IF_FALSE"
      toElse == <<"ifelse", id>>
      toEnd  == <<"ifend", id>>
  IN  IF then = << >>
      THEN IF else = << >>
           THEN <<Jump(jump, toEnd)>> \o <<Label(toEnd)>>
           ELSE <<Jump(jump, toElse)>> \o <<Label(toEnd)>>
      ELSE IF else = << >>
           THEN (<<Jump(jump, toEnd)>> \o then) \o <<Label(toEnd)>>
           ELSE (((<<Jump(jump, toElse)>> \o then)
                   \o <<Jump("JUMP", toEnd), Label(toElse)>>) \o else) \o <<Label(toEnd)>>

\* Mutant: a body is not followed by the jump back.
WhileCodeOnce(id, body) ==
  <<Label(<<"while_start", id>>), Jump("JUMP_IF_FALSE", <<"while_end", id>>)>>
    \o body \o <<Label(<<"while_end", id>>)>>

\* Mutant: the test comes after the body.
WhileCodeTestLast(id, body) ==
  <<Label(<<"while_start", id>>)>> \o body
    \o <<Jump("JUMP_IF_FALSE", <<"while_end", id>>), Jump("JUMP", <<"while_start", id>>),
         Label(<<"while_end", id>>)>>

\* ConvertWhileToIR up to its call of OptimizeLabels.  Only a body that
\* yields a node is followed by the jump back.
WhileCode(id, body) ==
  LET start == <<"while_start", id>>
      end   == <<"while_end", id>>
      test  == <<Label(start), Jump("JUMP_IF_FALSE", end)>>
  IN  IF body = << >>
      THEN test \o <<Label(end)>>
      ELSE (test \o body) \o <<Jump("JUMP", start), Label(end)>>

\* Mutant: the outer scope is not selected again.
BlockCodeUnclosed(scope, outer, body) == <<SetScope(scope)>> \o body

BlockCode(scope, outer, body) == (<<SetScope(scope)>> \o body) \o <<SetScope(outer)>>

\* Mutant: the walk starts behind root.
ChangeLabelReferencesBehind(c, root, old, new) ==
  [i \in DOMAIN c |->
     IF i > root /\ IsJump(c[i]) /\ c[i].label = old THEN Jump(c[i].op, new) ELSE c[i]]

\* ChangeAllLabelReferences: jumps from position root on are redirected.
ChangeAllLabelReferences(c, root, old, new) ==
  [i \in DOMAIN c |->
     IF i >= root /\ IsJump(c[i]) /\ c[i].label = old THEN Jump(c[i].op, new) ELSE c[i]]

\* Unlinking and deleting the node at position k.
Unlink(c, k) == [i \in 1 .. Len(c) - 1 |-> IF i < k THEN c[i] ELSE c[i + 1]]

-----------------------------------------------------------------------------
VARIABLES
  source,         \* the statement MConvert was called on
  stack,          \* open activations, the innermost last
  idmap,          \* _IRGlobals.idmap: the next number of each name
  currentScope,   \* _IRGlobals.currentScope
  prog,           \* the chain MConvert returns
  phase           \* "convert", "done", or "threw" out of the converter

vars == <<source, stack, idmap, currentScope, prog, phase>>

(***************************************************************************)
(* A frame holds the kids still to convert, the chains of the converted    *)
(* ones (then and else of an "if" in slots 1 and 2, everything else in     *)
(* slot 1), the local id and scope, and cur, the position of current in    *)
(* OptimizeLabels once that runs (0 before).                               *)
(***************************************************************************)
Frame(kind, flag, kids, id, scope) ==
  [kind |-> kind, flag |-> flag, todo |-> kids, id |-> id, scope |-> scope,
   slots |-> [i \in {1, 2} |-> << >>], cur |-> 0]

Top   == stack[Len(stack)]
Under == SubSeq(stack, 1, Len(stack) - 1)

SlotOf(f) == IF f.kind = "if" /\ Len(f.todo) = 1 THEN 2 ELSE 1

\* Frame f once it has chain c for its next kid.
Received(f, c) ==
  [f EXCEPT !.todo = Tail(@), !.slots = [f.slots EXCEPT ![SlotOf(f)] = @ \o c]]

\* The caller, the last of frames, receives chain c.
Deliver(frames, c) ==
  [frames EXCEPT ![Len(frames)] = Received(frames[Len(frames)], c)]

\* The two names GetUniqueID is called with; "default" is its default
\* argument, the empty string.
Counters == {"default", "while"}

\* OptimizeLabels starts at the first node of a block's body, but at the
\* start label of a while.
Root(f) == IF f.kind = "block" THEN 2 ELSE 1

Init ==
  /\ source \in Programs
  /\ stack = <<Frame("file", FALSE, <<source>>, 0, 0)>>
  /\ idmap = [name \in Counters |-> 0]
  /\ currentScope = 0
  /\ prog = << >>
  /\ phase = "convert"

\* The next statement to convert is one of these kinds.
Pending(kinds) ==
  /\ phase = "convert"
  /\ Top.todo # << >>
  /\ Head(Top.todo).kind \in kinds

ConvertLeaf ==
  /\ Pending(LeafKinds)
  /\ stack' = Deliver(stack, LeafCode(Head(Top.todo)))
  /\ UNCHANGED <<source, idmap, currentScope, prog, phase>>

\* Mutant: an assignment without opcode is left out.
SkipUnsupported ==
  /\ Pending({"badassign"})
  /\ stack' = Deliver(stack, << >>)
  /\ UNCHANGED <<source, idmap, currentScope, prog, phase>>

\* ConvertAssignmentToIR throws on an operator without opcode; nothing
\* between it and main catches.
ThrowUnsupported ==
  /\ Pending({"badassign"})
  /\ phase' = "threw"
  /\ UNCHANGED <<source, stack, idmap, currentScope, prog>>

EnterBlock ==
  /\ Pending({"block"})
  /\ currentScope' = currentScope + 1
  /\ stack' = Append(stack, Frame("block", FALSE, Head(Top.todo).kids, 0, currentScope + 1))
  /\ UNCHANGED <<source, idmap, prog, phase>>

\* Mutant: the number of an if is not used up.
EnterIfSameNumber ==
  /\ Pending({"if"})
  /\ LET s == Head(Top.todo)
     IN  stack' = Append(stack, Frame("if", s.flag, s.kids, idmap["default"], 0))
  /\ UNCHANGED <<source, idmap, currentScope, prog, phase>>

EnterIf ==
  /\ Pending({"if"})
  /\ LET s == Head(Top.todo)
     IN  stack' = Append(stack, Frame("if", s.flag, s.kids, idmap["default"], 0))
  /\ idmap' = [idmap EXCEPT !["default"] = @ + 1]
  /\ UNCHANGED <<source, currentScope, prog, phase>>

\* ConvertWhileToIR converts Body and never looks at ElseBranch.
EnterWhile ==
  /\ Pending({"while"})
  /\ stack' = Append(stack, Frame("while", FALSE, <<Head(Top.todo).kids[1]>>, idmap["while"], 0))
  /\ idmap' = [idmap EXCEPT !["while"] = @ + 1]
  /\ UNCHANGED <<source, currentScope, prog, phase>>

\* All kids of the innermost activation, of this kind, are converted.
Converted(kind) ==
  /\ phase = "convert"
  /\ Top.kind = kind
  /\ Top.todo = << >>
  /\ Top.cur = 0

LeaveIf ==
  /\ Converted("if")
  /\ stack' = Deliver(Under, IfCode(Top.flag, Top.id, Top.slots[1], Top.slots[2]))
  /\ UNCHANGED <<source, idmap, currentScope, prog, phase>>

\* Chain c replaces the code of the innermost frame and current points at k.
Rewritten(f, c, k) == [f EXCEPT !.slots = [f.slots EXCEPT ![1] = c], !.cur = k]
Rewrite(c, k) ==
  stack' = [stack EXCEPT ![Len(stack)] = Rewritten(Top, c, k)]

\* Mutant: no RemoveScope.
LinkBlockKeepsScope ==
  /\ Converted("block")
  /\ LET code == BlockCode(Top.scope, currentScope, Top.slots[1])
     IN  Rewrite(code, Len(code))
  /\ UNCHANGED <<source, idmap, currentScope, prog, phase>>

\* RemoveScope, the two SET_SCOPE nodes, then OptimizeLabels(head) unless
\* the block is empty.
LinkBlock ==
  /\ Converted("block")
  /\ LET body  == Top.slots[1]
         outer == IF currentScope > 0 THEN currentScope - 1 ELSE 0
         code  == BlockCode(Top.scope, outer, body)
     IN  /\ currentScope' = outer
         /\ Rewrite(code, IF OptimizeLabels /\ body # << >> THEN 2 ELSE Len(code))
  /\ UNCHANGED <<source, idmap, prog, phase>>

LinkWhile ==
  /\ Converted("while")
  /\ LET code == WhileCode(Top.id, Top.slots[1])
     IN  Rewrite(code, IF OptimizeLabels THEN 1 ELSE Len(code))
  /\ UNCHANGED <<source, idmap, currentScope, prog, phase>>

\* OptimizeLabels is at current with a node after it.
Scanning ==
  /\ phase = "convert"
  /\ Top.cur > 0
  /\ Top.cur < Len(Top.slots[1])

TwoLabels == LET c == Top.slots[1] IN IsLabel(c[Top.cur]) /\ IsLabel(c[Top.cur + 1])

\* Mutant: the scan moves on after a deletion.
MergeLabelMovesOn ==
  /\ Scanning
  /\ TwoLabels
  /\ LET c == Top.slots[1]
         k == Top.cur
     IN  Rewrite(Unlink(ChangeAllLabelReferences(c, Root(Top), c[k].label, c[k + 1].label), k), k + 1)
  /\ UNCHANGED <<source, idmap, currentScope, prog, phase>>

MergeLabel ==
  /\ Scanning
  /\ TwoLabels
  /\ LET c == Top.slots[1]
         k == Top.cur
     IN  Rewrite(Unlink(ChangeAllLabelReferences(c, Root(Top), c[k].label, c[k + 1].label), k), k)
  /\ UNCHANGED <<source, idmap, currentScope, prog, phase>>

\* Mutant: current is not advanced.
NextInstructionStays ==
  /\ Scanning
  /\ ~TwoLabels
  /\ Rewrite(Top.slots[1], Top.cur)
  /\ UNCHANGED <<source, idmap, currentScope, prog, phase>>

NextInstruction ==
  /\ Scanning
  /\ ~TwoLabels
  /\ Rewrite(Top.slots[1], Top.cur + 1)
  /\ UNCHANGED <<source, idmap, currentScope, prog, phase>>

\* The block or the while returns its chain to the caller.
Return ==
  /\ phase = "convert"
  /\ Top.cur > 0
  /\ Top.cur >= Len(Top.slots[1])
  /\ stack' = Deliver(Under, Top.slots[1])
  /\ UNCHANGED <<source, idmap, currentScope, prog, phase>>

\* MConvert adds SOF and EOF.
FinishFile ==
  /\ Converted("file")
  /\ prog' = (<<[op |-> "SOF"]>> \o Top.slots[1]) \o <<[op |-> "EOF"]>>
  /\ phase' = "done"
  /\ UNCHANGED <<source, stack, idmap, currentScope>>

Next ==
  \/ ConvertLeaf \/ ThrowUnsupported
  \/ EnterBlock \/ EnterIf \/ EnterWhile
  \/ LeaveIf \/ LinkBlock \/ LinkWhile
  \/ MergeLabel \/ NextInstruction \/ Return
  \/ FinishFile

Spec     == Init /\ [][Next]_vars
\* The converter is one thread that runs until it returns or throws.
FairSpec == Spec /\ WF_vars(Next)
-----------------------------------------------------------------------------
(* Properties.                                                             *)

Chains == Seq(Instructions)

FrameType ==
  [kind : CompoundKinds \cup {"file"}, flag : BOOLEAN, todo : Seq(Stmts), id : Nat,
   scope : Nat, slots : [{1, 2} -> Chains], cur : Nat]

\* Every chain under construction is a chain of well-formed instructions and
\* every frame has the locals of one activation.
TypeOK ==
  /\ source \in Programs
  /\ stack \in Seq(FrameType)
  /\ idmap \in [Counters -> Nat]
  /\ currentScope \in Nat
  /\ prog \in Chains
  /\ phase \in {"convert", "done", "threw"}

\* No label is defined at two places of a chain.
Distinct(c) ==
  \A i, j \in DOMAIN c : IsLabel(c[i]) /\ IsLabel(c[j]) /\ c[i].label = c[j].label => i = j

\* In every chain, finished or under construction, a label name is defined
\* once, although the numbers of nested and sibling statements come from two
\* counters and OptimizeLabels renames and deletes labels in between
\* (IR/init.hpp GetUniqueID, IR/optimizer/optimizer.hpp).
LabelsUnique ==
  /\ Distinct(prog)
  /\ \A f \in DOMAIN stack, s \in {1, 2} : Distinct(stack[f].slots[s])

\* Every jump of the finished program has its label in the program: the
\* labels OptimizeLabels deletes leave no jump behind, and both branch ends
\* of an if define the labels its jumps name (IR/statements.hpp).
JumpsResolve == TargetsOf(prog) \subseteq LabelsOf(prog)

\* The same of every converted statement before it is returned: a block or a
\* while that OptimizeLabels is rewriting has no jump out of its own chain.
\* A caller's OptimizeLabels could not repair one, because it starts at its
\* own first node.
ChainsClosed ==
  \A f \in DOMAIN stack : stack[f].kind # "file" =>
     \A s \in {1, 2} : TargetsOf(stack[f].slots[s]) \subseteq LabelsOf(stack[f].slots[s])

\* The scope in force at position i when the program text is read linearly.
ScopeAt(c, i) ==
  LET sets == {j \in 1 .. i : c[j].op = "SET_SCOPE"}
  IN  IF sets = {} THEN 0 ELSE c[CHOOSE j \in sets : \A k \in sets : k <= j].scope

\* A jump and its label lie in the same scope, so the scope a SET_SCOPE
\* selects at an instruction does not depend on the path taken to it
\* (IR/convert.hpp emits SET_SCOPE around each block, IR/statements.hpp jumps
\* over and back across blocks).
JumpsKeepScope ==
  \A i, j \in DOMAIN prog :
     IsJump(prog[i]) /\ IsLabel(prog[j]) /\ prog[i].label = prog[j].label
        => ScopeAt(prog, i) = ScopeAt(prog, j)

OpenBlocks == {f \in DOMAIN stack : stack[f].kind = "block" /\ stack[f].cur = 0}

\* currentScope is the number of blocks the converter is inside of, and each
\* of them restores the scope of the one around it (GetNewScope and
\* RemoveScope pair up across the recursion).
ScopeIsNesting ==
  /\ phase = "done" => currentScope = 0
  /\ \A f \in OpenBlocks : stack[f].scope = Cardinality({g \in OpenBlocks : g <= f})
  /\ phase = "convert" => currentScope = Cardinality(OpenBlocks)

\* With the option on, two labels are never next to each other in the
\* finished program: the scans of the nested calls miss no pair.
LabelsMerged ==
  OptimizeLabels =>
     \A i \in 1 .. Len(prog) - 1 : ~(IsLabel(prog[i]) /\ IsLabel(prog[i + 1]))

\* The scan never deletes the node its root parameter points at: that node
\* is where ChangeAllLabelReferences starts to walk for the next pair, and,
\* for a while, what the function returns.
RootKept == [][MergeLabel => Top.cur # Root(Top)]_vars

\* The converter returns or throws.
Terminates == <>(phase # "convert")
=============================================================================
