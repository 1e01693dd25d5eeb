------------------------------- MODULE ASTMeaning -------------------------------
(***************************************************************************)
(* What a tree does, and what the optimizer may not change of it.          *)
(*                                                                         *)
(* A run is the sequence of its events: assignments, declarations, calls   *)
(* and ends of variables.  Symbols "x" and calls of "f" are true or false, *)
(* each time anew: an environment gives their value after so many events,  *)
(* and the run is looked at up to MaxEvents.  Other symbols are numbers    *)
(* that do not change.  The else branch of a while is done when its        *)
(* condition fails.                                                        *)
(***************************************************************************)
EXTENDS ASTOptimizer

CONSTANT MaxEvents

Environments(h) ==
  LET names == {h[a].text : a \in {b \in DOMAIN h : h[b].is \in {"symbol", "call"}}}
  IN  [names \cap {"x", "f"} -> [0 .. MaxEvents -> {0, 1}]]

Bit(b) == IF b THEN 1 ELSE 0

SymbolValue(name, env, t) ==
  IF name \in DOMAIN env THEN env[name][t] ELSE IF name = "a" THEN 5 ELSE 3

Result(val, evs) == [val |-> val, evs |-> evs]

\* The value of expression a of heap h after t events, and its own events.
RECURSIVE Eval(_, _, _, _)
Eval(h, a, env, t) ==
  LET n     == h[a]
      left  == Eval(h, n.kids[1], env, t)
      after == IF t + Len(left.evs) > MaxEvents THEN MaxEvents ELSE t + Len(left.evs)
      right == Eval(h, n.kids[2], env, after)
      op    == n.text
      both  == left.evs \o right.evs
  IN  CASE n.is = "number" -> Result(n.num, << >>)
        [] n.is = "bool"   -> Result(Bit(n.text = "true"), << >>)
        [] n.is = "symbol" -> Result(SymbolValue(op, env, t), << >>)
        [] n.is = "call"   -> Result(env[op][t], << <<"call", op>> >>)
        [] n.is = "prefix" -> Result(IF op = "!" THEN Bit(left.val = 0) ELSE IF op = "-" THEN 0 - left.val ELSE left.val, left.evs)
        [] n.is = "assign" -> LET new == Eval(h, n.kids[2], env, t)
                              IN  Result(new.val, Append(new.evs, <<"assign", h[n.kids[1]].text, new.val>>))
        [] n.is = "binary" /\ op = "&&" /\ left.val = 0 -> Result(0, left.evs)
        [] n.is = "binary" /\ op = "&&" /\ left.val # 0 -> Result(Bit(right.val # 0), both)
        [] n.is = "binary" /\ op \in {"+", "-", "*"}    -> Result(CASE op = "+" -> left.val + right.val [] op = "-" -> left.val - right.val [] op = "*" -> left.val * right.val, both)
        [] n.is = "binary" /\ op \in {"==", "!=", "<", ">", "<=", ">="} -> Result(Bit(CompareNumbers(op, left.val, right.val)), both)
        [] OTHER -> Result(0, << >>)

\* Work items: a statement; the end of a block; a loop that was tested after
\* at events and does nothing for ever if there is no event until it is tested again.
Do(a)        == [kind |-> "do", node |-> a, at |-> 0]
End          == [kind |-> "end", node |-> 0, at |-> 0]
Again(a, t)  == [kind |-> "again", node |-> a, at |-> t]

\* The events of the work items from the t-th on; open are the variables
\* declared so far in the blocks that are open.
RECURSIVE Run(_, _, _, _, _)
Run(h, work, open, env, t) ==
  LET item  == Head(work)
      n     == h[item.node]
      rest  == Tail(work)
      r     == Eval(h, n.kids[1], env, t)
      then(next, scopes) == r.evs \o Run(h, next \o rest, scopes, env, t + Len(r.evs))
  IN  IF work = << >> \/ t >= MaxEvents THEN << >>
      ELSE CASE item.kind = "end" ->
                  [i \in DOMAIN Last(open) |-> <<"end", Last(open)[i]>>] \o Run(h, rest, Front(open), env, t)
             [] item.kind = "again" /\ t = item.at -> << <<"diverges">> >>
             [] item.kind = "again" /\ t # item.at -> Run(h, <<Do(item.node)>> \o rest, open, env, t)
             [] item.kind = "do" /\ item.node = 0 -> Run(h, rest, open, env, t)
             [] item.kind = "do" /\ n.is = "block" ->
                  Run(h, [i \in DOMAIN n.kids |-> Do(n.kids[i])] \o <<End>> \o rest, Append(open, << >>), env, t)
             [] item.kind = "do" /\ n.is = "if" ->
                  then(<<Do(IF r.val # 0 THEN n.kids[2] ELSE n.kids[3])>>, open)
             [] item.kind = "do" /\ n.is = "while" ->
                  then(IF r.val # 0 THEN <<Do(n.kids[2]), Again(item.node, t)>> ELSE <<Do(n.kids[3])>>, open)
             [] item.kind = "do" /\ n.is = "exprstmt" -> then(<< >>, open)
             [] item.kind = "do" /\ n.is = "decl" ->
                  r.evs \o << <<"decl", n.num, r.val>> >>
                    \o Run(h, rest, [open EXCEPT ![Len(open)] = Append(@, n.num)], env, t + Len(r.evs) + 1)
             [] OTHER -> Run(h, rest, open, env, t)

Meaning(h, env) == Run(h, <<Do(Root)>>, << >>, env, 0)

-----------------------------------------------------------------------------
(* Properties.                                                             *)

Statements == {"block", "if", "while", "decl", "exprstmt", "other"}

\* Types: in the tree that is returned there are statements where there must
\* be statements, and expressions where there must be expressions.
TypeOK ==
  /\ phase \in {"run", "done", "exited", "crashed"}
  /\ freed \subseteq DOMAIN heap
  /\ phase = "done" =>
       \A a \in Owned(heap, Root) :
         \A i \in DOMAIN Kids(a) :
           LET isStmt == Kids(a)[i] # 0 /\ heap[Kids(a)[i]].is \in Statements
           IN  CASE heap[a].is = "block" -> isStmt
                 [] heap[a].is \in {"if", "while"} -> IF i = 1 THEN Kids(a)[1] # 0 /\ ~isStmt ELSE Kids(a)[i] = 0 \/ isStmt
                 [] OTHER -> Kids(a)[i] # 0 /\ ~isStmt

\* A branch that is not there or a block without statements.
Empty(a) == a = 0 \/ (input.heap[a].is = "block" /\ input.heap[a].kids = << >>)

\* The tree has a while with nothing to do, neither in its body nor in its
\* else branch: it is deleted and used further, and its condition is
\* evaluated once.
EmptyLoop ==
  \E a \in DOMAIN input.heap :
    input.heap[a].is = "while" /\ Empty(input.heap[a].kids[2]) /\ Empty(input.heap[a].kids[3])

\* Node a is one of those whose rewriting changes what the tree does.
Altered(a) ==
  LET n      == input.heap[a]
      kid(i) == input.heap[n.kids[i]]
      inner  == input.heap[kid(2).kids[1]]
      signed == IF kid(1).is = "prefix" /\ kid(1).text = "+" THEN input.heap[kid(1).kids[1]] ELSE kid(1)
      false(m) == \/ m.text = "false"
                  \/ /\ m.text = "==" /\ \A k \in Range(m.kids) : input.heap[k].is = "number"
                     /\ input.heap[m.kids[1]].num # input.heap[m.kids[2]].num
  IN  \* A minus before a sum or a difference replaces its operator.
      \/ /\ n.is = "prefix" /\ n.text = "-"
         /\ signed.is = "binary" /\ signed.text \in {"+", "-"}
      \* Two whiles become one with both conditions, without the inner else branch.
      \/ /\ n.is = "while" /\ n.kids[2] # 0
         /\ kid(2).is = "while" /\ ~false(inner)
         /\ inner.text # kid(1).text \/ kid(2).kids[3] # 0
      \* An if with nothing in it goes with the call in its condition.
      \/ n.is = "if" /\ kid(1).is = "call" /\ Empty(n.kids[2]) /\ Empty(n.kids[3])
      \* An else block gives its only declaration to the block around the if.
      \/ /\ n.is = "if" /\ n.kids[3] # 0 /\ kid(3).is = "block"
         /\ Len(kid(3).kids) = 1 /\ input.heap[kid(3).kids[1]].is = "decl"
      \* Calls that are compared, or joined to false, are not made.
      \/ /\ input.fast /\ n.is = "binary" /\ kid(1).is = "call"
         /\ \/ n.text \in {"==", "!="} /\ kid(2).is = "call"
            \/ n.text = "&&" /\ false(kid(2))

SameMeaning == \A env \in Environments(input.heap) : Meaning(heap, env) = Meaning(input.heap, env)

\* The optimized tree does what the tree did before, the same events in the
\* same order whatever the conditions evaluate to, if no node of the tree is
\* Altered, and something else if one is (Optimize with all it calls).
MeaningKept ==
  phase = "done" /\ ~EmptyLoop => (SameMeaning <=> \A a \in DOMAIN input.heap : ~Altered(a))

\* What an optimization is for: the tree does what it did, Altered or not
\* (README.md: a language should do what "you" tell it to do).
MeaningAlwaysKept == phase = "done" /\ ~EmptyLoop => SameMeaning

\* Only where the tree has an empty loop is anything that was deleted read or
\* deleted again, and none of it is in the tree that is returned.
NothingFreed ==
  /\ phase = "crashed" => EmptyLoop
  /\ phase = "done" => Owned(heap, Root) \cap freed = {}

\* Every node of the tree that is returned has one owner: the destructors
\* delete it once.
OwnedOnce == phase = "done" => IsInjective(Tree(heap, Root))

\* The optimizer ends, though it optimizes again what it has just put together.
Terminates == <>(phase # "run")
=============================================================================
