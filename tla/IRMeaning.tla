------------------------------ MODULE IRMeaning ------------------------------
(***************************************************************************)
(* What a converted program does, against what its source says.  The       *)
(* converter emits no code for conditions yet ("TODO: add comparison" in   *)
(* IR/statements.hpp), so an oracle, a sequence of truth values, answers   *)
(* the tests in the order they are made; the run ends with the oracle.     *)
(* An event is a leaf statement done in the scope it was done in.  The     *)
(* else branch of a while is done when its condition fails, as that of     *)
(* `while (false) {} else x = 8"x";` in examples/while.lang.               *)
(***************************************************************************)
EXTENDS IRConvert, SequencesExt

CONSTANT MaxTests     \* bound on the tests of one run

Oracles == UNION {[1 .. n -> BOOLEAN] : n \in 0 .. MaxTests}

Observable(code, scope) == [i \in DOMAIN code |-> <<code[i], scope>>]

\* The events of a list of work items: <<statement, scope>> each.
RECURSIVE RunAST(_, _)
RunAST(work, oracle) ==
  IF work = << >> THEN << >>
  ELSE LET s     == Head(work)[1]
           scope == Head(work)[2]
           rest  == Tail(work)
       IN  CASE s.kind = "block" ->
                  RunAST([i \in DOMAIN s.kids |-> <<s.kids[i], scope + 1>>] \o rest, oracle)
             [] s.kind = "if" ->
                  IF oracle = << >> THEN << >>
                  ELSE RunAST(<< <<s.kids[IF Head(oracle) THEN 1 ELSE 2], scope>> >> \o rest,
                              Tail(oracle))
             [] s.kind = "while" ->
                  IF oracle = << >> THEN << >>
                  ELSE IF Head(oracle)
                       THEN RunAST(<< <<s.kids[1], scope>>, Head(work) >> \o rest, Tail(oracle))
                       ELSE RunAST(<< <<s.kids[2], scope>> >> \o rest, Tail(oracle))
             [] OTHER -> Observable(LeafCode(s), scope) \o RunAST(rest, oracle)

\* The events of program c from position pc on.  A conditional jump is taken
\* when the tested condition fails.
RECURSIVE RunIR(_, _, _, _)
RunIR(c, pc, scope, oracle) ==
  LET i         == c[pc]
      target(l) == CHOOSE j \in DOMAIN c : IsLabel(c[j]) /\ c[j].label = l
  IN  CASE i.op = "EOF"       -> << >>
        [] i.op = "SET_SCOPE" -> RunIR(c, pc + 1, i.scope, oracle)
        [] i.op = "JUMP"      -> RunIR(c, target(i.label), scope, oracle)
        [] i.op \in JumpOps \ {"JUMP"} ->
             IF oracle = << >> THEN << >>
             ELSE RunIR(c, IF Head(oracle) THEN pc + 1 ELSE target(i.label), scope, Tail(oracle))
        [] i.op \in {"SOF", "LABEL"} -> RunIR(c, pc + 1, scope, oracle)
        [] OTHER              -> << <<i, scope>> >> \o RunIR(c, pc + 1, scope, oracle)

SameEvents(s, c) == \A oracle \in Oracles : RunAST(<< <<s, 0>> >>, oracle) = RunIR(c, 1, 0, oracle)

\* Statement s is or has below it a while with an else branch.
RECURSIVE WhileElseIn(_)
WhileElseIn(s) ==
  \/ s.kind = "while" /\ s.kids[2].kind # "null"
  \/ \E i \in DOMAIN s.kids : WhileElseIn(s.kids[i])

\* A finished program does what its source does, the same leaf instructions in
\* the same order and scopes whatever the conditions evaluate to
\* (ConvertASTToIR with all it calls, OptimizeLabels included), if no while of
\* the source has an else branch.  If one has it does something else, since
\* ConvertWhileToIR drops the branch.
MeaningPreserved == phase = "done" => (SameEvents(source, prog) <=> ~WhileElseIn(source))

-----------------------------------------------------------------------------
(* The converter implements Translation.                                   *)

\* A null pointer is no statement.
Present(stmts) == SelectSeq(stmts, LAMBDA s : s.kind # "null")
KidsBelow(s)   == Present(s.kids)
NoOpcode(s)    == s.kind = "badassign"

\* The statements no activation has got to yet, the next first.  A frame
\* under another one is busy with the head of its todo.
NotVisited ==
  LET of(i) == IF i = Len(stack) THEN stack[i].todo ELSE Tail(stack[i].todo)
  IN  Present(FlattenSeq([k \in DOMAIN stack |-> of(Len(stack) + 1 - k)]))

Abstract == INSTANCE Translation
              WITH Sources <- Programs, KidsOf <- KidsBelow, Unsupported <- NoOpcode,
                   Means <- SameEvents, pending <- NotVisited, output <- prog

\* The recursion of ConvertASTToIR, its frames and returns visit every
\* statement of the tree once and in order, and MConvert returns a program
\* only if all of them were converted; a throw leaves no program.  This is
\* said of sources without a while that has an else branch: no activation
\* visits that branch, so their steps are not those of Translation.
ImplementsTranslation ==
  Abstract!Init /\ [][WhileElseIn(source) \/ Abstract!Next]_(Abstract!vars)
=============================================================================
