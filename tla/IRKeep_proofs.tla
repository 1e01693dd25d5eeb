------------------------------ MODULE IRKeep_proofs ------------------------------
(***************************************************************************)
(* A jump and its label lie in the same scope (JumpsKeepScope), for all    *)
(* programs.  Code is read with the scope it starts in; every chain of a   *)
(* statement gives back that scope, and each label name has one scope, in  *)
(* which both the label and the jumps to it lie.  Last, that currentScope  *)
(* counts the blocks that are open (ScopeIsNesting).                       *)
(***************************************************************************)
EXTENDS IRJumps_proofs, FiniteSetTheorems, WellFoundedInduction

IsScope(i) == i.op = "SET_SCOPE"

\* sc is the scope in force behind each instruction of c, from u on.
ScopesOf(c, u, sc) ==
  /\ sc \in [0 .. Len(c) -> Nat]
  /\ sc[0] = u
  /\ \A i \in 1 .. Len(c) : sc[i] = IF IsScope(c[i]) THEN c[i].scope ELSE sc[i - 1]

\* An instruction with a label has the scope that at gives its label.
Placed(i, n, at) == IsJump(i) \/ IsLabel(i) => i.label \in DOMAIN at /\ at[i.label] = n

\* Read from scope u on, c ends in v and has its jumps and labels where at
\* says.
Leads(c, u, v, at) ==
  \E sc \in [0 .. Len(c) -> Nat] :
     /\ ScopesOf(c, u, sc)
     /\ sc[Len(c)] = v
     /\ \A i \in 1 .. Len(c) : Placed(c[i], sc[i], at)

\* The later of two maps from labels to scopes knows more labels.
Grows(at, more) == \A l \in DOMAIN at : l \in DOMAIN more /\ more[l] = at[l]

-----------------------------------------------------------------------------
(* Lemmas about chains.                                                    *)

\* More labels do not move the ones that are there.
LEMMA LeadsGrows ==
  ASSUME NEW c \in Chains, NEW u, NEW v, NEW at, NEW more, Grows(at, more), Leads(c, u, v, at)
  PROVE  Leads(c, u, v, more)
<1>1. PICK sc \in [0 .. Len(c) -> Nat] :
        /\ ScopesOf(c, u, sc) /\ sc[Len(c)] = v
        /\ \A i \in 1 .. Len(c) : Placed(c[i], sc[i], at)
  BY DEF Leads
<1>2. \A i \in 1 .. Len(c) : Placed(c[i], sc[i], more)
  BY <1>1 DEF Placed, Grows
<1> QED BY <1>1, <1>2 DEF Leads

\* No code keeps the scope.
LEMMA LeadsEmpty ==
  ASSUME NEW u \in Nat, NEW at
  PROVE  Leads(<< >>, u, u, at)
<1> DEFINE sc == [i \in 0 .. 0 |-> u]
<1>1. Len(<< >>) = 0 /\ 1 .. 0 = {}
  OBVIOUS
<1>2. sc \in [0 .. 0 -> Nat] /\ sc[0] = u
  OBVIOUS
<1> HIDE DEF sc
<1> QED BY <1>1, <1>2 DEF Leads, ScopesOf

\* One instruction selects a scope, or keeps it.
LEMMA LeadsOne ==
  ASSUME NEW i \in Instructions, NEW u \in Nat, NEW v \in Nat, NEW at,
         v = IF IsScope(i) THEN i.scope ELSE u, Placed(i, v, at)
  PROVE  Leads(<<i>>, u, v, at)
<1> DEFINE sc == [k \in 0 .. 1 |-> IF k = 0 THEN u ELSE v]
           c  == <<i>>
<1>1. Len(c) = 1 /\ c[1] = i
  OBVIOUS
<1>2. sc \in [0 .. 1 -> Nat] /\ sc[0] = u /\ sc[1] = v
  OBVIOUS
<1> HIDE DEF sc, c
<1>3. \A k \in 1 .. Len(c) : k = 1 /\ k - 1 = 0
  BY <1>1
<1>4. ScopesOf(c, u, sc)
  BY <1>1, <1>2, <1>3 DEF ScopesOf
<1>5. \A k \in 1 .. Len(c) : Placed(c[k], sc[k], at)
  BY <1>1, <1>2, <1>3
<1>6. Leads(c, u, v, at)
  BY <1>1, <1>2, <1>4, <1>5 DEF Leads
<1> QED BY <1>6 DEF c

\* The second part of a splice starts where the first ends.
LEMMA LeadsSplice ==
  ASSUME NEW c \in Chains, NEW d \in Chains, NEW u, NEW v, NEW w, NEW at,
         Leads(c, u, v, at), Leads(d, v, w, at)
  PROVE  c \o d \in Chains /\ Leads(c \o d, u, w, at)
<1> DEFINE e == c \o d
           m == Len(c)
           n == Len(d)
<1>1. m \in Nat /\ n \in Nat
  BY DEF Chains
<1>2. /\ e \in Chains /\ Len(e) = m + n
      /\ \A i \in 1 .. m : e[i] = c[i]
      /\ \A i \in 1 .. n : e[m + i] = d[i]
  BY ConcatChains
<1>3. PICK a \in [0 .. m -> Nat] :
        /\ ScopesOf(c, u, a) /\ a[m] = v
        /\ \A i \in 1 .. m : Placed(c[i], a[i], at)
  BY DEF Leads
<1>4. PICK b \in [0 .. n -> Nat] :
        /\ ScopesOf(d, v, b) /\ b[n] = w
        /\ \A i \in 1 .. n : Placed(d[i], b[i], at)
  BY DEF Leads
<1>5. /\ a[0] = u
      /\ \A i \in 1 .. m : a[i] = IF IsScope(c[i]) THEN c[i].scope ELSE a[i - 1]
  BY <1>3 DEF ScopesOf
<1>6. /\ b[0] = v
      /\ \A i \in 1 .. n : b[i] = IF IsScope(d[i]) THEN d[i].scope ELSE b[i - 1]
  BY <1>4 DEF ScopesOf
<1> DEFINE sc == [i \in 0 .. m + n |-> IF i <= m THEN a[i] ELSE b[i - m]]
<1> HIDE DEF e, m, n
<1>7. \A i \in 0 .. m : i \in 0 .. m + n /\ i <= m
  BY <1>1
<1>8. \A i \in 1 .. n : m + i \in 0 .. m + n /\ ~(m + i <= m) /\ (m + i) - m = i
  BY <1>1
<1>9. sc \in [0 .. m + n -> Nat]
  <2>1. \A i \in 0 .. m + n : i <= m => i \in 0 .. m
    BY <1>1
  <2>2. \A i \in 0 .. m + n : ~(i <= m) => i - m \in 0 .. n
    BY <1>1
  <2> QED BY <2>1, <2>2
<1>10. \A i \in 0 .. m : sc[i] = a[i]
  BY <1>7
<1>11. \A i \in 1 .. n : sc[m + i] = b[i]
  BY <1>8
<1>12. sc[m] = b[0]
  <2>1. m \in 0 .. m
    BY <1>1
  <2> QED BY <1>3, <1>6, <1>10, <2>1
<1> HIDE DEF sc
<1>13. \A i \in 0 .. n : sc[m + i] = b[i]
  <2>1. m + 0 = m /\ \A i \in 0 .. n : i = 0 \/ i \in 1 .. n
    BY <1>1
  <2> QED BY <1>11, <1>12, <2>1
\* A position of e is one of c or one of d.
<1>14. \A i \in 1 .. m + n : i \in 1 .. m \/ \E k \in 1 .. n : i = m + k
  <2> SUFFICES ASSUME NEW i \in 1 .. m + n, i \notin 1 .. m
               PROVE  \E k \in 1 .. n : i = m + k
    OBVIOUS
  <2>1. i - m \in 1 .. n /\ i = m + (i - m)
    BY <1>1
  <2> QED BY <2>1
<1>15. ASSUME NEW i \in 1 .. m
       PROVE  /\ sc[i] = IF IsScope(e[i]) THEN e[i].scope ELSE sc[i - 1]
              /\ Placed(e[i], sc[i], at)
  <2>1. i \in 0 .. m /\ i - 1 \in 0 .. m
    BY <1>1
  <2> QED BY <1>2, <1>3, <1>5, <1>10, <2>1
<1>16. ASSUME NEW k \in 1 .. n
       PROVE  /\ sc[m + k] = IF IsScope(e[m + k]) THEN e[m + k].scope ELSE sc[(m + k) - 1]
              /\ Placed(e[m + k], sc[m + k], at)
  <2>1. k \in 0 .. n /\ k - 1 \in 0 .. n /\ (m + k) - 1 = m + (k - 1)
    BY <1>1
  <2> QED BY <1>2, <1>4, <1>6, <1>13, <2>1
<1>17. \A i \in 1 .. m + n : /\ sc[i] = IF IsScope(e[i]) THEN e[i].scope ELSE sc[i - 1]
                             /\ Placed(e[i], sc[i], at)
  BY <1>14, <1>15, <1>16
<1>18. sc[0] = u /\ sc[m + n] = w
  <2>1. 0 \in 0 .. m /\ n \in 0 .. n
    BY <1>1
  <2> QED BY <1>4, <1>5, <1>10, <1>13, <2>1
<1>19. ScopesOf(e, u, sc)
  BY <1>2, <1>9, <1>17, <1>18 DEF ScopesOf
<1>20. Leads(e, u, w, at)
  BY <1>2, <1>9, <1>17, <1>18, <1>19 DEF Leads
<1> QED BY <1>2, <1>20 DEF e

\* A jump or a label whose scope is the one in force.
LEMMA LeadsMark ==
  ASSUME NEW u \in Nat, NEW at, NEW l \in Labels, l \in DOMAIN at, at[l] = u
  PROVE  /\ \A op \in JumpOps : <<Jump(op, l)>> \in Chains /\ Leads(<<Jump(op, l)>>, u, u, at)
         /\ <<Label(l)>> \in Chains /\ Leads(<<Label(l)>>, u, u, at)
<1>1. ASSUME NEW op \in JumpOps
      PROVE  <<Jump(op, l)>> \in Chains /\ Leads(<<Jump(op, l)>>, u, u, at)
  <2> DEFINE i == Jump(op, l)
  <2>1. i \in Instructions /\ ~IsScope(i) /\ i.label = l
    BY InstructionTypes DEF Jump, IsScope, JumpOps
  <2> HIDE DEF i
  <2>2. Placed(i, u, at)
    BY <2>1 DEF Placed
  <2>3. Leads(<<i>>, u, u, at) /\ <<i>> \in Chains
    BY <2>1, <2>2, LeadsOne, Singleton
  <2> QED BY <2>3 DEF i
<1>2. <<Label(l)>> \in Chains /\ Leads(<<Label(l)>>, u, u, at)
  <2> DEFINE i == Label(l)
  <2>1. i \in Instructions /\ ~IsScope(i) /\ i.label = l
    BY InstructionTypes DEF Label, IsScope
  <2> HIDE DEF i
  <2>2. Placed(i, u, at)
    BY <2>1 DEF Placed
  <2>3. Leads(<<i>>, u, u, at) /\ <<i>> \in Chains
    BY <2>1, <2>2, LeadsOne, Singleton
  <2> QED BY <2>3 DEF i
<1> QED BY <1>1, <1>2

\* A jump next to a label, both in the scope in force.
LEMMA LeadsMarks ==
  ASSUME NEW u \in Nat, NEW at, NEW op \in JumpOps, NEW l \in Labels, NEW k \in Labels,
         l \in DOMAIN at, at[l] = u, k \in DOMAIN at, at[k] = u
  PROVE  /\ JumpThenLabel(op, l, k) \in Chains /\ Leads(JumpThenLabel(op, l, k), u, u, at)
         /\ LabelThenJump(k, op, l) \in Chains /\ Leads(LabelThenJump(k, op, l), u, u, at)
<1>1. Jump(op, l) \in Instructions /\ Label(k) \in Instructions
  BY InstructionTypes
<1>2. /\ JumpThenLabel(op, l, k) = <<Jump(op, l)>> \o <<Label(k)>>
      /\ LabelThenJump(k, op, l) = <<Label(k)>> \o <<Jump(op, l)>>
  BY <1>1, PairIsSplice DEF JumpThenLabel, LabelThenJump
<1>3. /\ <<Jump(op, l)>> \in Chains /\ Leads(<<Jump(op, l)>>, u, u, at)
      /\ <<Label(k)>> \in Chains /\ Leads(<<Label(k)>>, u, u, at)
  BY LeadsMark
<1> QED BY <1>2, <1>3, LeadsSplice

\* An instruction that is no jump, no label and selects no scope.
LEMMA LeadsPlain ==
  ASSUME NEW i \in Instructions, ~IsJump(i), ~IsLabel(i), ~IsScope(i), NEW u \in Nat, NEW at
  PROVE  <<i>> \in Chains /\ Leads(<<i>>, u, u, at)
<1>1. Placed(i, u, at)
  BY DEF Placed
<1> QED BY <1>1, LeadsOne, Singleton

\* Leaf statements keep the scope.
LEMMA LeafLeads ==
  ASSUME NEW s \in Stmts, NEW u \in Nat, NEW at
  PROVE  Leads(LeafCode(s), u, u, at)
<1> DEFINE one(op) == <<OnVar(op, s.name)>>
<1>1. s.name \in Names
  BY StmtsAssumption DEF StmtOK
<1>2. ASSUME NEW op \in VarOps
      PROVE  OnVar(op, s.name) \in Instructions /\ one(op) \in Chains /\ Leads(one(op), u, u, at)
  <2> DEFINE i == OnVar(op, s.name)
  <2>1. i \in Instructions /\ ~IsJump(i) /\ ~IsLabel(i) /\ ~IsScope(i)
    BY <1>1, InstructionTypes DEF OnVar, IsJump, IsScope, VarOps, JumpOps
  <2> HIDE DEF i
  <2>2. <<i>> \in Chains /\ Leads(<<i>>, u, u, at)
    BY <2>1, LeadsPlain
  <2> QED BY <2>1, <2>2 DEF i
<1>3. ASSUME NEW op \in VarOps, NEW op1 \in VarOps
      PROVE  /\ <<OnVar(op, s.name), OnVar(op1, s.name)>> = one(op) \o one(op1)
             /\ one(op) \o one(op1) \in Chains
             /\ Leads(one(op) \o one(op1), u, u, at)
  <2>1. <<OnVar(op, s.name), OnVar(op1, s.name)>> = one(op) \o one(op1)
    BY <1>2, PairIsSplice
  <2> HIDE DEF one
  <2> QED BY <1>2, <2>1, LeadsSplice
<1>4. ASSUME NEW op \in VarOps, NEW op1 \in VarOps, NEW op2 \in VarOps
      PROVE  Leads(<<OnVar(op, s.name), OnVar(op1, s.name), OnVar(op2, s.name)>>, u, u, at)
  <2> DEFINE i == OnVar(op, s.name)
             j == OnVar(op1, s.name)
             k == OnVar(op2, s.name)
  <2>1. <<i, j>> \in Chains /\ <<k>> \in Chains /\ i \in Instructions /\ j \in Instructions
        /\ k \in Instructions
    BY <1>2, <1>3
  <2>2. Leads(<<i, j>>, u, u, at) /\ Leads(<<k>>, u, u, at)
    BY <1>2, <1>3
  <2> HIDE DEF i, j, k
  <2>3. <<i, j, k>> = <<i, j>> \o <<k>>
    <3> DEFINE p == <<i, j, k>>
               q == <<i, j>> \o <<k>>
    <3>1. p \in Seq(Instructions) /\ Len(p) = 3 /\ p[1] = i /\ p[2] = j /\ p[3] = k
      BY <2>1
    <3>2. q \in Seq(Instructions) /\ Len(q) = 3 /\ q[1] = i /\ q[2] = j /\ q[3] = k
      BY <2>1, ConcatProperties DEF Chains
    <3> HIDE DEF p, q
    <3>3. p = q
      BY <3>1, <3>2, SeqEqual
    <3> QED BY <3>3 DEF p, q
  <2>4. Leads(<<i, j>> \o <<k>>, u, u, at)
    <3> DEFINE a == <<i, j>>
               b == <<k>>
    <3>1. a \in Chains /\ b \in Chains /\ Leads(a, u, u, at) /\ Leads(b, u, u, at)
      BY <2>1, <2>2
    <3> HIDE DEF a, b
    <3>2. Leads(a \o b, u, u, at)
      BY <3>1, LeadsSplice
    <3> QED BY <3>2 DEF a, b
  <2>5. Leads(<<i, j, k>>, u, u, at)
    BY ONLY <2>3, <2>4, Zenon
  <2> QED BY <2>5 DEF i, j, k
<1>5. /\ \A op \in VarOps : Leads(<<OnVar(op, s.name)>>, u, u, at)
      /\ \A op, op1 \in VarOps : Leads(<<OnVar(op, s.name), OnVar(op1, s.name)>>, u, u, at)
      /\ \A op, op1, op2 \in VarOps :
           Leads(<<OnVar(op, s.name), OnVar(op1, s.name), OnVar(op2, s.name)>>, u, u, at)
  BY <1>2, <1>3, <1>4
<1> HIDE DEF one
<1>6. Leads(<< >>, u, u, at)
  BY LeadsEmpty
<1> QED BY <1>5, <1>6 DEF LeafCode, AssignCode, VarOps

\* Both branches of an if start and end in the scope of its labels.
LEMMA IfLeads ==
  ASSUME NEW negated, NEW id \in Nat, NEW then \in Chains, NEW else \in Chains,
         NEW u \in Nat, NEW at, Leads(then, u, u, at), Leads(else, u, u, at),
         \A l \in IfLabels(id) : l \in DOMAIN at /\ at[l] = u
  PROVE  Leads(IfCode(negated, id, then, else), u, u, at)
<1> DEFINE op     == IF negated THEN "JUMP_IF_TRUE" ELSE "JUMP_IF_FALSE"
           toElse == <<"ifelse", id>>
           toEnd  == <<"ifend", id>>
           jElse  == <<Jump(op, toElse)>>
           jEnd   == <<Jump(op, toEnd)>>
           mid    == JumpThenLabel("JUMP", toEnd, toElse)
           end    == <<Label(toEnd)>>
<1>1. op \in JumpOps /\ "JUMP" \in JumpOps /\ toElse \in Labels /\ toEnd \in Labels
  BY DEF JumpOps, Labels
<1>2. /\ toElse \in DOMAIN at /\ at[toElse] = u
      /\ toEnd \in DOMAIN at /\ at[toEnd] = u
  BY DEF IfLabels
<1>3. IfCode(negated, id, then, else) =
        IF then = << >>
        THEN IF else = << >> THEN jEnd \o end ELSE jElse \o end
        ELSE IF else = << >> THEN (jEnd \o then) \o end
             ELSE (((jElse \o then) \o mid) \o else) \o end
  BY DEF IfCode, JumpThenLabel
<1> HIDE DEF op, toElse, toEnd
<1>4. /\ jElse \in Chains /\ Leads(jElse, u, u, at)
      /\ jEnd \in Chains /\ Leads(jEnd, u, u, at)
      /\ end \in Chains /\ Leads(end, u, u, at)
  BY <1>1, <1>2, LeadsMark
<1>5. mid \in Chains /\ Leads(mid, u, u, at)
  BY <1>1, <1>2, LeadsMarks
<1> HIDE DEF jElse, jEnd, mid, end
<1>6. \A c, d \in Chains : Leads(c, u, u, at) /\ Leads(d, u, u, at)
                             => c \o d \in Chains /\ Leads(c \o d, u, u, at)
  BY LeadsSplice
<1>7. Leads(jEnd \o end, u, u, at) /\ Leads(jElse \o end, u, u, at)
  BY <1>4, <1>6
<1>8. Leads((jEnd \o then) \o end, u, u, at)
  BY <1>4, <1>6
<1>9. jElse \o then \in Chains /\ Leads(jElse \o then, u, u, at)
  BY <1>4, <1>6
<1>10. (jElse \o then) \o mid \in Chains /\ Leads((jElse \o then) \o mid, u, u, at)
  BY <1>5, <1>6, <1>9
<1>11. Leads((((jElse \o then) \o mid) \o else) \o end, u, u, at)
  <2>1. /\ ((jElse \o then) \o mid) \o else \in Chains
        /\ Leads(((jElse \o then) \o mid) \o else, u, u, at)
    BY <1>6, <1>10
  <2> QED BY <1>4, <1>6, <2>1
<1> QED BY <1>3, <1>7, <1>8, <1>11

\* So does the body of a while.
LEMMA WhileLeads ==
  ASSUME NEW id \in Nat, NEW body \in Chains, NEW u \in Nat, NEW at, Leads(body, u, u, at),
         \A l \in WhileLabels(id) : l \in DOMAIN at /\ at[l] = u
  PROVE  Leads(WhileCode(id, body), u, u, at)
<1> DEFINE toTest == <<"while_start", id>>
           toExit == <<"while_end", id>>
           test   == LabelThenJump(toTest, "JUMP_IF_FALSE", toExit)
           back   == JumpThenLabel("JUMP", toTest, toExit)
           stop   == <<Label(toExit)>>
<1>1. /\ toTest \in Labels /\ toExit \in Labels
      /\ "JUMP" \in JumpOps /\ "JUMP_IF_FALSE" \in JumpOps
  BY DEF JumpOps, Labels
<1>2. /\ toTest \in DOMAIN at /\ at[toTest] = u
      /\ toExit \in DOMAIN at /\ at[toExit] = u
  BY DEF WhileLabels
<1>3. WhileCode(id, body) = IF body = << >> THEN test \o stop ELSE (test \o body) \o back
  BY DEF WhileCode, JumpThenLabel, LabelThenJump
<1> HIDE DEF toTest, toExit
<1>4. /\ test \in Chains /\ Leads(test, u, u, at)
      /\ back \in Chains /\ Leads(back, u, u, at)
  BY <1>1, <1>2, LeadsMarks
<1>5. stop \in Chains /\ Leads(stop, u, u, at)
  BY <1>1, <1>2, LeadsMark
<1> HIDE DEF test, back, stop
<1>6. \A c, d \in Chains : Leads(c, u, u, at) /\ Leads(d, u, u, at)
                             => c \o d \in Chains /\ Leads(c \o d, u, u, at)
  BY LeadsSplice
<1>7. Leads(test \o stop, u, u, at)
  BY <1>4, <1>5, <1>6
<1>8. Leads((test \o body) \o back, u, u, at)
  BY <1>4, <1>6
<1> QED BY <1>3, <1>7, <1>8

\* A block selects its own scope and then the one around it.
LEMMA BlockLeads ==
  ASSUME NEW scope \in Nat, NEW outer \in Nat, NEW body \in Chains, NEW at,
         Leads(body, scope, scope, at)
  PROVE  BlockCode(scope, outer, body) \in Chains
         /\ Leads(BlockCode(scope, outer, body), outer, outer, at)
<1>1. ASSUME NEW n \in Nat, NEW u \in Nat
      PROVE  <<SetScope(n)>> \in Chains /\ Leads(<<SetScope(n)>>, u, n, at)
  <2> DEFINE i == SetScope(n)
  <2>1. i \in Instructions /\ IsScope(i) /\ i.scope = n /\ ~IsJump(i) /\ ~IsLabel(i)
    BY InstructionTypes DEF SetScope, IsScope, IsJump, JumpOps
  <2> HIDE DEF i
  <2>2. Placed(i, n, at)
    BY <2>1 DEF Placed
  <2>3. Leads(<<i>>, u, n, at) /\ <<i>> \in Chains
    BY <2>1, <2>2, LeadsOne, Singleton
  <2> QED BY <2>3 DEF i
<1> DEFINE open  == <<SetScope(scope)>>
           close == <<SetScope(outer)>>
<1>2. /\ open \in Chains /\ Leads(open, outer, scope, at)
      /\ close \in Chains /\ Leads(close, scope, outer, at)
  BY <1>1
<1>3. BlockCode(scope, outer, body) = (open \o body) \o close
  BY DEF BlockCode
<1> HIDE DEF open, close
<1>4. open \o body \in Chains /\ Leads(open \o body, outer, scope, at)
  BY <1>2, LeadsSplice
<1>5. (open \o body) \o close \in Chains /\ Leads((open \o body) \o close, outer, outer, at)
  BY <1>2, <1>4, LeadsSplice
<1> QED BY <1>3, <1>5

\* The finished program.
LEMMA FileLeads ==
  ASSUME NEW body \in Chains, NEW u \in Nat, NEW at, Leads(body, u, u, at)
  PROVE  Leads((<<[op |-> "SOF"]>> \o body) \o <<[op |-> "EOF"]>>, u, u, at)
<1> DEFINE i == [op |-> "SOF"]
           j == [op |-> "EOF"]
<1>1. /\ i \in Instructions /\ ~IsJump(i) /\ ~IsLabel(i) /\ ~IsScope(i)
      /\ j \in Instructions /\ ~IsJump(j) /\ ~IsLabel(j) /\ ~IsScope(j)
  BY InstructionTypes DEF IsJump, IsScope, JumpOps
<1> HIDE DEF i, j
<1>2. /\ <<i>> \in Chains /\ Leads(<<i>>, u, u, at)
      /\ <<j>> \in Chains /\ Leads(<<j>>, u, u, at)
  BY <1>1, LeadsPlain
<1>3. <<i>> \o body \in Chains /\ Leads(<<i>> \o body, u, u, at)
  BY <1>2, LeadsSplice
<1>4. Leads((<<i>> \o body) \o <<j>>, u, u, at)
  BY <1>2, <1>3, LeadsSplice
<1> QED BY <1>4 DEF i, j

\* Two labels side by side have one scope, so the jumps that are redirected
\* from the first to the second stay with their label.
LEMMA MergeLeads ==
  ASSUME NEW c \in Chains, NEW root \in Nat, NEW k \in 1 .. Len(c), k + 1 \in 1 .. Len(c),
         IsLabel(c[k]), IsLabel(c[k + 1]), NEW u, NEW v, NEW at, Leads(c, u, v, at)
  PROVE  Leads(Merged(c, root, k), u, v, at)
<1> DEFINE old   == c[k].label
           new   == c[k + 1].label
           d     == ChangeAllLabelReferences(c, root, old, new)
           n     == Len(c) - 1
           to(i) == IF i < k THEN i ELSE i + 1
           e     == Unlink(d, k)
<1>1. old \in Labels /\ new \in Labels
  BY LabelOfLabel
<1>2. d \in Chains /\ Len(d) = Len(c)
  BY <1>1, ChangeAllOK
<1>3. DOMAIN c = 1 .. Len(c) /\ Len(c) \in Nat /\ n \in Nat /\ k \in 1 .. n /\ Len(c) = n + 1
  BY DEF Chains
<1>4. PICK sc \in [0 .. Len(c) -> Nat] :
        /\ ScopesOf(c, u, sc) /\ sc[Len(c)] = v
        /\ \A i \in 1 .. Len(c) : Placed(c[i], sc[i], at)
  BY DEF Leads
<1>5. sc[0] = u /\ \A i \in 1 .. Len(c) : sc[i] = IF IsScope(c[i]) THEN c[i].scope ELSE sc[i - 1]
  BY <1>4 DEF ScopesOf
<1>6. /\ sc[k] = sc[k - 1] /\ sc[k + 1] = sc[k]
      /\ old \in DOMAIN at /\ at[old] = sc[k]
      /\ new \in DOMAIN at /\ at[new] = sc[k]
  <2>1. ~IsScope(c[k]) /\ ~IsScope(c[k + 1])
    BY DEF IsScope, IsLabel
  <2>2. (k + 1) - 1 = k
    BY <1>3
  <2>3. sc[k] = sc[k - 1] /\ sc[k + 1] = sc[k]
    BY <1>5, <2>1, <2>2
  <2>4. Placed(c[k], sc[k], at) /\ Placed(c[k + 1], sc[k + 1], at)
    BY <1>4
  <2> QED BY <2>3, <2>4 DEF Placed
<1>7. ASSUME NEW i \in 1 .. Len(c)
      PROVE  /\ IsScope(d[i]) <=> IsScope(c[i])
             /\ IsScope(c[i]) => d[i].scope = c[i].scope
             /\ Placed(d[i], sc[i], at)
  <2>1. d[i] = IF i >= root /\ IsJump(c[i]) /\ c[i].label = old
               THEN Jump(c[i].op, new) ELSE c[i]
    BY <1>3 DEF ChangeAllLabelReferences
  <2>2. Placed(c[i], sc[i], at)
    BY <1>4
  <2> HIDE DEF d, old, new
  <2>3. CASE d[i] = c[i]
    BY <2>2, <2>3
  <2>4. CASE IsJump(c[i]) /\ c[i].label = old /\ d[i] = Jump(c[i].op, new)
    <3>1. ~IsScope(c[i]) /\ ~IsScope(d[i]) /\ d[i].label = new
      BY <2>4 DEF IsScope, IsJump, JumpOps, Jump
    <3>2. sc[i] = at[old]
      BY <2>2, <2>4 DEF Placed
    <3> QED BY <1>6, <3>1, <3>2 DEF Placed
  <2> QED BY <2>1, <2>3, <2>4
<1>8. Merged(c, root, k) = e
  BY DEF Merged
<1> HIDE DEF d, old, new
<1>9. e \in Chains /\ Len(e) = n
  BY <1>2, UnlinkOK
<1>10. \A i \in 1 .. n : e[i] = d[to(i)] /\ to(i) \in 1 .. Len(c)
  BY <1>2, <1>3 DEF Unlink
<1> HIDE DEF e
<1> DEFINE q == [i \in 0 .. n |-> sc[to(i)]]
<1>11. q \in [0 .. n -> Nat]
  <2>1. \A i \in 0 .. n : to(i) \in 0 .. Len(c)
    BY <1>3
  <2> HIDE DEF to
  <2> QED BY <1>4, <2>1
<1>12. q[0] = u /\ q[n] = v
  <2> HIDE DEF n
  <2>0. 0 < k /\ ~(n < k) /\ n + 1 = Len(c)
    BY <1>3
  <2>1. 0 \in 0 .. n /\ to(0) = 0 /\ n \in 0 .. n /\ to(n) = Len(c)
    BY <1>3, <2>0
  <2> HIDE DEF to
  <2> QED BY <1>4, <1>5, <2>1
<1>13. ASSUME NEW i \in 1 .. n
       PROVE  q[i] = sc[to(i)] /\ q[i - 1] = sc[to(i) - 1]
  <2>1. i \in 0 .. n /\ i - 1 \in 0 .. n
    BY <1>3
  <2>2. q[i] = sc[to(i)] /\ q[i - 1] = sc[to(i - 1)]
    BY <2>1
  <2> HIDE DEF q
  <2>3. CASE i < k
    <3>1. to(i) = i /\ to(i - 1) = i - 1
      BY <1>3, <2>3
    <3> QED BY <2>2, <3>1
  <2>4. CASE i = k
    <3>1. to(i) = k + 1 /\ to(i - 1) = k - 1 /\ (k + 1) - 1 = k
      BY <1>3, <2>4
    <3> HIDE DEF to
    <3> QED BY <1>6, <2>2, <3>1
  <2>5. CASE i > k
    <3>1. to(i) = i + 1 /\ to(i - 1) = (i + 1) - 1
      BY <1>3, <2>5
    <3> HIDE DEF to
    <3> QED BY <2>2, <3>1
  <2> QED BY <1>3, <2>3, <2>4, <2>5
<1> HIDE DEF q
<1>14. ASSUME NEW i \in 1 .. n
       PROVE  /\ q[i] = IF IsScope(e[i]) THEN e[i].scope ELSE q[i - 1]
              /\ Placed(e[i], q[i], at)
  <2> DEFINE j == to(i)
  <2>1. j \in 1 .. Len(c) /\ e[i] = d[j] /\ q[i] = sc[j] /\ q[i - 1] = sc[j - 1]
    BY <1>10, <1>13
  <2> HIDE DEF j
  <2> QED BY <1>5, <1>7, <2>1
<1>15. ScopesOf(e, u, q)
  BY <1>9, <1>11, <1>12, <1>14 DEF ScopesOf
<1>16. Leads(e, u, v, at)
  BY <1>9, <1>11, <1>12, <1>14, <1>15 DEF Leads
<1> QED BY <1>8, <1>16

\* Read from scope 0 on, the scope in force is the last one selected.
LEMMA ScopesAre ==
  ASSUME NEW c \in Chains, NEW sc, ScopesOf(c, 0, sc)
  PROVE  \A i \in 0 .. Len(c) : sc[i] = ScopeAt(c, i)
<1> DEFINE Sets(i) == {j \in 1 .. i : IsScope(c[j])}
           last(i) == CHOOSE j \in Sets(i) : \A k \in Sets(i) : k <= j
           Wrong   == {i \in 0 .. Len(c) : sc[i] # ScopeAt(c, i)}
           R       == OpToRel(<, Nat)
<1>1. Len(c) \in Nat /\ sc[0] = 0
      /\ \A i \in 1 .. Len(c) : sc[i] = IF IsScope(c[i]) THEN c[i].scope ELSE sc[i - 1]
  BY DEF ScopesOf, Chains
<1>2. \A i \in Nat : ScopeAt(c, i) = IF Sets(i) = {} THEN 0 ELSE c[last(i)].scope
  BY DEF ScopeAt, IsScope
<1>3. ASSUME NEW i \in 1 .. Len(c), IsScope(c[i])
      PROVE  ScopeAt(c, i) = c[i].scope
  <2>1. i \in Sets(i) /\ \A k \in Sets(i) : k <= i
    BY <1>3
  <2>2. last(i) \in Sets(i) /\ \A k \in Sets(i) : k <= last(i)
    BY <2>1
  <2>3. last(i) \in 1 .. i
    BY <2>2
  <2>4. last(i) = i
    <3> DEFINE m == last(i)
    <3>1. m \in 1 .. i /\ i <= m
      BY <2>1, <2>2, <2>3
    <3> HIDE DEF m
    <3> QED BY <3>1 DEF m
  <2>5. Sets(i) # {} /\ i \in Nat
    BY <2>1
  <2> HIDE DEF last, Sets
  <2> QED BY <1>2, <2>4, <2>5
<1>4. ASSUME NEW i \in 1 .. Len(c), ~IsScope(c[i])
      PROVE  ScopeAt(c, i) = ScopeAt(c, i - 1)
  <2>1. Sets(i) = Sets(i - 1)
    <3>1. \A j \in 1 .. i : j = i \/ j \in 1 .. i - 1
      BY <1>1
    <3>2. \A j \in 1 .. i - 1 : j \in 1 .. i
      BY <1>1
    <3> QED BY <1>4, <3>1, <3>2
  <2>2. i \in Nat /\ i - 1 \in Nat
    BY <1>1
  <2>3. last(i) = last(i - 1)
    BY <2>1
  <2> HIDE DEF last, Sets
  <2> QED BY <1>2, <2>1, <2>2, <2>3
<1>5. ScopeAt(c, 0) = 0
  <2>1. Sets(0) = {}
    OBVIOUS
  <2> HIDE DEF Sets
  <2> QED BY <1>2, <2>1
<1> HIDE DEF Sets, last
<1>6. ASSUME Wrong # {}
      PROVE  FALSE
  <2>1. Wrong \subseteq Nat
    OBVIOUS
  <2>2. IsWellFoundedOn(R, Nat)
    BY NatLessThanWellFounded
  <2>3. \A x, y \in Nat : <<y, x>> \in R <=> y < x
    BY DEF OpToRel
  <2> HIDE DEF R, Wrong
  <2>4. PICK x \in Wrong : \A y \in Wrong : ~(<<y, x>> \in R)
    BY <1>6, <2>1, <2>2, WFMin
  <2>5. x \in 0 .. Len(c) /\ sc[x] # ScopeAt(c, x)
    BY DEF Wrong
  <2>6. x \in 1 .. Len(c)
    <3>1. x # 0
      BY <1>1, <1>5, <2>5
    <3> QED BY <1>1, <2>5, <3>1
  <2>7. x - 1 \in Wrong
    <3>1. x - 1 \in 0 .. Len(c)
      BY <1>1, <2>6
    <3>2. ~IsScope(c[x])
      BY <1>1, <1>3, <2>5, <2>6
    <3>3. sc[x - 1] # ScopeAt(c, x - 1)
      BY <1>1, <1>4, <2>5, <2>6, <3>2
    <3> QED BY <3>1, <3>3 DEF Wrong
  <2>8. x \in Nat /\ x - 1 \in Nat /\ x - 1 < x
    BY <2>6
  <2> QED BY <2>3, <2>4, <2>7, <2>8
<1> QED BY <1>6

\* Of code that leads from scope 0 to itself a jump and its label have the
\* same scope.
LEMMA LeadsKeeps ==
  ASSUME NEW c \in Chains, NEW at, NEW v, Leads(c, 0, v, at)
  PROVE  \A i, j \in DOMAIN c :
            IsJump(c[i]) /\ IsLabel(c[j]) /\ c[i].label = c[j].label
               => ScopeAt(c, i) = ScopeAt(c, j)
<1>1. PICK sc \in [0 .. Len(c) -> Nat] :
        /\ ScopesOf(c, 0, sc)
        /\ \A i \in 1 .. Len(c) : Placed(c[i], sc[i], at)
  BY DEF Leads
<1>2. \A i \in 0 .. Len(c) : sc[i] = ScopeAt(c, i)
  BY <1>1, ScopesAre
<1>3. DOMAIN c = 1 .. Len(c) /\ Len(c) \in Nat
  BY DEF Chains
<1>4. ASSUME NEW i \in DOMAIN c, NEW j \in DOMAIN c, IsJump(c[i]), IsLabel(c[j]),
             c[i].label = c[j].label
      PROVE  ScopeAt(c, i) = ScopeAt(c, j)
  <2>1. i \in 0 .. Len(c) /\ j \in 0 .. Len(c)
    BY <1>3
  <2>2. Placed(c[i], sc[i], at) /\ Placed(c[j], sc[j], at)
    BY <1>1, <1>3
  <2>3. sc[i] = at[c[i].label] /\ sc[j] = at[c[j].label]
    BY <1>4, <2>2 DEF Placed
  <2> QED BY <1>2, <1>4, <2>1, <2>3
<1> QED BY <1>4

-----------------------------------------------------------------------------
(* The invariant.                                                          *)

\* The scope of an open block is one deeper than that of its caller; the code
\* in a frame keeps the frame's scope, in which its own labels will lie.
FrameOn(f, outer, u, at) ==
  /\ u = IF f.kind = "block" /\ f.cur = 0 THEN outer + 1 ELSE outer
  /\ f.kind = "block" /\ f.cur = 0 => f.scope = u
  /\ Leads(f.slots[1], u, u, at)
  /\ f.kind = "if" => Leads(f.slots[2], u, u, at)
  /\ \A l \in Reserved(f) : l \in DOMAIN at /\ at[l] = u

\* A scope for each frame, and one for each label that has been issued.
FrameScopes    == [Nat -> Nat]
LabelScopes(m) == [Issued(m) -> Nat]

\* d[f] is the scope of frame f.
Keeps(F, at, d) == d[0] = 0 /\ \A f \in 1 .. Len(F) : FrameOn(F[f], d[f - 1], d[f], at)

\* at gives the issued labels their scopes.
KeepInv ==
  /\ TypeInv
  /\ \E at \in LabelScopes(idmap), d \in FrameScopes :
       Keeps(stack, at, d) /\ currentScope = d[Len(stack)] /\ Leads(prog, 0, 0, at)

\* More labels change nothing in a frame.
LEMMA FrameGrows ==
  ASSUME NEW f \in FrameType, NEW outer, NEW u, NEW at, NEW more, Grows(at, more),
         FrameOn(f, outer, u, at)
  PROVE  FrameOn(f, outer, u, more)
<1>1. f.slots[1] \in Chains /\ f.slots[2] \in Chains
  BY DEF FrameType
<1>2. /\ Leads(f.slots[1], u, u, more)
      /\ f.kind = "if" => Leads(f.slots[2], u, u, more)
  BY <1>1, LeadsGrows DEF FrameOn
<1>3. \A l \in Reserved(f) : l \in DOMAIN more /\ more[l] = u
  BY DEF FrameOn, Grows
<1> QED BY <1>2, <1>3 DEF FrameOn

\* A caller receives code that keeps its scope.
LEMMA ReceivedOn ==
  ASSUME NEW f \in FrameType, f.todo # << >>, NEW outer, NEW u, NEW at, FrameOn(f, outer, u, at),
         NEW c \in Chains, Leads(c, u, u, at)
  PROVE  FrameOn(Received(f, c), outer, u, at)
<1> DEFINE s == SlotOf(f)
           g == Received(f, c)
<1>1. /\ s \in {1, 2} /\ g.kind = f.kind /\ g.id = f.id /\ g.cur = f.cur
      /\ g.slots[s] = f.slots[s] \o c
      /\ \A t \in {1, 2} \ {s} : g.slots[t] = f.slots[t]
  BY ReceivedOK
<1>2. g.scope = f.scope
  BY DEF Received, FrameType
<1>3. s = 2 => f.kind = "if"
  BY DEF SlotOf
<1>4. f.slots[1] \in Chains /\ f.slots[2] \in Chains
  BY DEF FrameType
<1>5. Reserved(g) = Reserved(f)
  BY <1>1 DEF Reserved
<1> HIDE DEF s, g
<1>6. Leads(f.slots[s], u, u, at)
  BY <1>1, <1>3 DEF FrameOn
<1>7. Leads(f.slots[s] \o c, u, u, at)
  BY <1>1, <1>4, <1>6, LeadsSplice
<1>8. Leads(g.slots[1], u, u, at)
  BY <1>1, <1>7 DEF FrameOn
<1>9. f.kind = "if" => Leads(g.slots[2], u, u, at)
  BY <1>1, <1>7 DEF FrameOn
<1> QED BY <1>1, <1>2, <1>5, <1>8, <1>9 DEF FrameOn, g

\* The innermost frame is replaced by one whose scope is w.
LEMMA ReplaceKeeps ==
  ASSUME NEW F \in Frames, NEW G \in Frames, Len(F) > 0, Len(G) = Len(F),
         \A i \in 1 .. Len(F) - 1 : G[i] = F[i],
         NEW at, NEW d \in FrameScopes, Keeps(F, at, d),
         NEW w \in Nat, FrameOn(G[Len(F)], d[Len(F) - 1], w, at)
  PROVE  \E e \in FrameScopes : Keeps(G, at, e) /\ e[Len(G)] = w
<1> DEFINE n == Len(F)
           e == [d EXCEPT ![n] = w]
<1>1. n \in Nat /\ n > 0 /\ Len(G) = n
  BY DEF Frames
<1> HIDE DEF n
<1>2. e \in FrameScopes /\ e[n] = w /\ \A i \in Nat : i # n => e[i] = d[i]
  BY <1>1 DEF FrameScopes
<1> HIDE DEF e
<1>3. \A i \in 1 .. n - 1 : i \in 1 .. n /\ i \in Nat /\ i # n /\ i - 1 \in Nat /\ i - 1 # n
  BY <1>1
<1>4. 0 \in Nat /\ 0 # n /\ n - 1 \in Nat /\ n - 1 # n
  BY <1>1
<1>5. ASSUME NEW i \in 1 .. n
      PROVE  FrameOn(G[i], e[i - 1], e[i], at)
  <2>1. CASE i = n
    BY <1>2, <1>4, <2>1 DEF n
  <2>2. CASE i # n
    <3>1. i \in 1 .. n - 1
      BY <1>1, <2>2, LastOf
    <3>2. e[i] = d[i] /\ e[i - 1] = d[i - 1] /\ G[i] = F[i]
      BY <1>2, <1>3, <3>1 DEF n
    <3> QED BY <3>2 DEF Keeps, n
  <2> QED BY <2>1, <2>2
<1>6. e[0] = 0
  BY <1>2, <1>4 DEF Keeps
<1> QED BY <1>1, <1>2, <1>5, <1>6 DEF Keeps

\* A new innermost frame whose scope is w.
LEMMA PushKeeps ==
  ASSUME NEW F \in Frames, NEW g \in FrameType, NEW at, NEW more, Grows(at, more),
         NEW d \in FrameScopes, Keeps(F, at, d),
         NEW w \in Nat, FrameOn(g, d[Len(F)], w, more)
  PROVE  \E e \in FrameScopes : Keeps(Append(F, g), more, e) /\ e[Len(Append(F, g))] = w
<1> DEFINE n == Len(F)
           G == Append(F, g)
           e == [d EXCEPT ![n + 1] = w]
<1>1. n \in Nat /\ n + 1 \in Nat
  BY DEF Frames
<1>2. Len(G) = n + 1 /\ G[n + 1] = g /\ \A i \in 1 .. n : G[i] = F[i]
  BY PushOK
<1>3. \A i \in 1 .. n : F[i] \in FrameType
  BY DEF Frames
<1>p. \A i \in 1 .. n : FrameOn(F[i], d[i - 1], d[i], at)
  BY DEF Keeps
<1>q. FrameOn(g, d[n], w, more) /\ d[0] = 0
  BY DEF Keeps
<1> HIDE DEF n, G
<1>4. e \in FrameScopes /\ e[n + 1] = w /\ \A i \in Nat : i # n + 1 => e[i] = d[i]
  BY <1>1 DEF FrameScopes
<1> HIDE DEF e
<1>5. \A i \in 0 .. n : i \in Nat /\ i # n + 1
  BY <1>1
<1>6. \A i \in 1 .. n + 1 : i \in 1 .. n \/ i = n + 1
  BY <1>1
<1>7. ASSUME NEW i \in 1 .. n
      PROVE  FrameOn(G[i], e[i - 1], e[i], more)
  <2>1. i \in 0 .. n /\ i - 1 \in 0 .. n
    BY <1>1
  <2>2. e[i] = d[i] /\ e[i - 1] = d[i - 1] /\ G[i] = F[i]
    BY <1>2, <1>4, <1>5, <2>1
  <2>3. FrameOn(F[i], d[i - 1], d[i], more)
    BY <1>3, <1>p, FrameGrows
  <2> QED BY <2>2, <2>3
<1>8. FrameOn(G[n + 1], e[(n + 1) - 1], e[n + 1], more)
  <2>1. n \in 0 .. n /\ (n + 1) - 1 = n
    BY <1>1
  <2>2. e[n] = d[n]
    BY <1>4, <1>5, <2>1
  <2> QED BY <1>2, <1>4, <1>q, <2>1, <2>2
<1>9. e[0] = 0
  <2>1. 0 \in 0 .. n
    BY <1>1
  <2> QED BY <1>4, <1>5, <1>q, <2>1
<1>10. Keeps(G, more, e)
  BY <1>2, <1>6, <1>7, <1>8, <1>9 DEF Keeps
<1> QED BY <1>2, <1>4, <1>10 DEF G

\* It holds initially.
LEMMA KeepInit == Init => KeepInv
<1> SUFFICES ASSUME Init PROVE KeepInv
  OBVIOUS
<1>1. TypeInv
  BY TypeInit
<1>2. /\ Len(stack) = 1 /\ stack[1].cur = 0 /\ stack[1].kind = "file"
      /\ stack[1].slots[1] = << >> /\ stack[1].slots[2] = << >> /\ prog = << >>
      /\ currentScope = 0
  BY DEF Init, Frame
<1> DEFINE at == [l \in Issued(idmap) |-> 0]
           d  == [i \in Nat |-> 0]
<1>3. at \in LabelScopes(idmap) /\ d \in FrameScopes /\ \A i \in Nat : d[i] = 0
  BY DEF LabelScopes, FrameScopes
<1> HIDE DEF at, d
<1>4. Leads(<< >>, 0, 0, at)
  BY LeadsEmpty
<1>5. Reserved(stack[1]) = {}
  BY <1>2 DEF Reserved
<1>6. FrameOn(stack[1], 0, 0, at)
  BY <1>2, <1>4, <1>5 DEF FrameOn
<1>7. Keeps(stack, at, d)
  <2>1. \A f \in 1 .. Len(stack) : f = 1 /\ f - 1 = 0
    BY <1>2
  <2> QED BY <1>3, <1>6, <2>1 DEF Keeps
<1> QED BY <1>1, <1>2, <1>3, <1>4, <1>7 DEF KeepInv

\* The code of a block or a while that is being scanned.
LEMMA RewrittenOn ==
  ASSUME NEW f \in FrameType, f.kind \in {"block", "while"}, NEW c \in Chains,
         NEW k \in Nat, k > 0, NEW u, NEW at, Leads(c, u, u, at)
  PROVE  FrameOn(Rewritten(f, c, k), u, u, at)
<1> DEFINE g == Rewritten(f, c, k)
<1>1. g.kind = f.kind /\ g.cur = k /\ g.slots[1] = c
  BY RewrittenOK
<1> HIDE DEF g
<1>2. Reserved(g) = {}
  BY <1>1 DEF Reserved
<1>3. g.cur # 0 /\ g.kind # "if"
  BY <1>1
<1> QED BY <1>1, <1>2, <1>3 DEF FrameOn, g

\* Some map that grows from at gives the labels of the next number scope u.
NewScopes(at, m, name, u) ==
  \E more \in LabelScopes(Counted(m, name)) :
     /\ Grows(at, more)
     /\ name = "default" => \A l \in IfLabels(m[name]) : l \in DOMAIN more /\ more[l] = u
     /\ name = "while" => \A l \in WhileLabels(m[name]) : l \in DOMAIN more /\ more[l] = u

\* The labels a new number makes get the scope the statement is entered in.
LEMMA NewLabels ==
  ASSUME NEW m \in [Counters -> Nat], NEW name \in Counters,
         NEW at \in LabelScopes(m), NEW u \in Nat
  PROVE  NewScopes(at, m, name, u)
<1> DEFINE own  == IF name = "default" THEN IfLabels(m[name]) ELSE WhileLabels(m[name])
           I    == Issued(m)
           J    == Issued(Counted(m, name))
           more == [l \in J |-> IF l \in I THEN at[l] ELSE u]
<1>1. I \subseteq J /\ own \subseteq J /\ own \cap I = {}
  <2>1. name = "default" \/ name = "while"
    BY DEF Counters
  <2>2. /\ I \subseteq J
        /\ name = "default" => IfLabels(m[name]) \subseteq J /\ IfLabels(m[name]) \cap I = {}
        /\ name = "while" => WhileLabels(m[name]) \subseteq J /\ WhileLabels(m[name]) \cap I = {}
    BY IssuedGrows
  <2> HIDE DEF I, J
  <2> QED BY <2>1, <2>2
<1>o. /\ name = "default" => own = IfLabels(m[name])
      /\ name = "while" => own = WhileLabels(m[name])
  OBVIOUS
<1> HIDE DEF I, J, own
<1>2. at \in [I -> Nat]
  BY DEF I, LabelScopes
<1>3. more \in [J -> Nat]
  BY <1>2
<1>4. Grows(at, more)
  BY <1>1, <1>2 DEF Grows
<1>5. \A l \in own : l \in DOMAIN more /\ more[l] = u
  BY <1>1
<1> HIDE DEF more
<1> QED BY <1>3, <1>4, <1>5, <1>o DEF J, LabelScopes, NewScopes

\* Every action keeps the invariant, one step per action.
LEMMA KeepStep == KeepInv /\ [Next]_vars => KeepInv'
<1> SUFFICES ASSUME KeepInv, [Next]_vars PROVE KeepInv'
  OBVIOUS
<1>t. TypeInv /\ TypeInv'
  BY TypeStep DEF KeepInv
<1>k. PICK at \in LabelScopes(idmap), d \in FrameScopes :
        Keeps(stack, at, d) /\ currentScope = d[Len(stack)] /\ Leads(prog, 0, 0, at)
  BY DEF KeepInv
<1> DEFINE n     == Len(stack)
           outer == d[n - 1]
           u     == d[n]
<1>s. /\ stack \in Frames /\ n \in Nat /\ n > 0
      /\ DOMAIN stack = 1 .. n /\ Top = stack[n] /\ Top \in FrameType
  BY <1>t, StackOK
<1>c. /\ Top.slots[1] \in Chains /\ Top.slots[2] \in Chains
      /\ Top.cur \in Nat /\ Top.id \in Nat /\ Top.scope \in Nat /\ prog \in Chains
  BY <1>s, <1>t DEF FrameType, TypeInv, TypeOK
<1>o. /\ outer \in Nat /\ u \in Nat /\ currentScope = u /\ n \in 1 .. n /\ n - 1 \in Nat
      /\ FrameOn(Top, outer, u, at)
  <2>1. n \in 1 .. n /\ n - 1 \in Nat
    BY <1>s
  <2>2. FrameOn(stack[n], d[n - 1], d[n], at)
    BY <1>k, <2>1 DEF Keeps
  <2>3. d[n] \in Nat /\ d[n - 1] \in Nat
    BY <1>s, <2>1 DEF FrameScopes
  <2> QED BY <1>k, <1>s, <2>1, <2>2, <2>3
<1> HIDE DEF n, outer, u
<1>m. idmap \in [Counters -> Nat] /\ "default" \in Counters /\ "while" \in Counters
  BY <1>t DEF TypeInv, TypeOK, Counters
<1>l. \A name \in Counters : NewScopes(at, idmap, name, u)
  BY <1>m, <1>o, NewLabels
<1>x. Top.cur > 0 => Top.kind \in {"block", "while"} /\ u = outer
  <2>1. Top.cur > 0 => Top.kind \in {"block", "while"}
    BY <1>s, <1>o, <1>t DEF TypeInv, Shape
  <2>2. Top.cur > 0 => Top.cur # 0
    BY <1>c
  <2> QED BY <1>o, <2>1, <2>2 DEF FrameOn
\* How an action that replaces the innermost frame is dealt with.
<1>r. ASSUME NEW g, NEW w \in Nat, FrameOn(g, outer, w, at), stack' \in Frames, Len(stack') = n,
             \A i \in 1 .. n - 1 : stack'[i] = stack[i], stack'[n] = g,
             idmap' = idmap, currentScope' = w, prog' = prog
      PROVE  KeepInv'
  <2> DEFINE G == stack'
  <2>1. /\ G \in Frames /\ Len(G) = Len(stack) /\ Len(stack) > 0
        /\ \A i \in 1 .. Len(stack) - 1 : G[i] = stack[i]
        /\ FrameOn(G[Len(stack)], d[Len(stack) - 1], w, at)
    BY <1>r, <1>s DEF n, outer
  <2> HIDE DEF G
  <2>2. PICK e \in FrameScopes : Keeps(G, at, e) /\ e[Len(G)] = w
    <3>1. stack \in Frames /\ Keeps(stack, at, d) /\ d \in FrameScopes /\ w \in Nat
      BY <1>k, <1>s
    <3> QED BY ONLY <2>1, <3>1, ReplaceKeeps
  <2>3. Keeps(stack', at, e) /\ currentScope' = e[Len(stack')] /\ Leads(prog', 0, 0, at)
        /\ at \in LabelScopes(idmap')
    BY <1>k, <1>r, <2>2 DEF G
  <2> QED BY <1>t, <2>3 DEF KeepInv
\* How an action that starts an activation is dealt with.
<1>e. ASSUME NEW g \in FrameType, NEW w \in Nat, NEW more \in LabelScopes(idmap'),
             Grows(at, more), FrameOn(g, u, w, more), stack' = Append(stack, g),
             currentScope' = w, prog' = prog
      PROVE  KeepInv'
  <2> DEFINE G == Append(stack, g)
  <2>1. PICK e \in FrameScopes : Keeps(G, more, e) /\ e[Len(G)] = w
    <3>1. FrameOn(g, d[Len(stack)], w, more) /\ Grows(at, more) /\ w \in Nat /\ g \in FrameType
      BY <1>e DEF u, n
    <3>2. stack \in Frames /\ Keeps(stack, at, d) /\ d \in FrameScopes
      BY <1>k, <1>s
    <3> QED BY ONLY <3>1, <3>2, PushKeeps
  <2> HIDE DEF G
  <2>2. Keeps(stack', more, e) /\ currentScope' = e[Len(stack')]
    BY <1>e, <2>1 DEF G
  <2>3. Leads(prog', 0, 0, more)
    BY <1>c, <1>e, <1>k, LeadsGrows
  <2> QED BY <1>e, <1>t, <2>2, <2>3 DEF KeepInv
\* How an action that ends an activation is dealt with.
<1>p. ASSUME NEW c \in Chains, Leads(c, outer, outer, at), Top.kind # "file", u = outer,
             stack' = Deliver(Under, c), idmap' = idmap, currentScope' = currentScope,
             prog' = prog
      PROVE  KeepInv'
  <2> DEFINE j == n - 1
  <2>1. /\ stack' \in Seq(FrameType) /\ Len(stack') = j
        /\ \A i \in 1 .. n - 2 : stack'[i] = stack[i]
        /\ stack'[j] = Received(stack[j], c)
        /\ stack[j].todo # << >>
    BY <1>t, <1>p, PopKeepsType DEF n
  <2>2. /\ j \in Nat /\ j > 0 /\ j \in 1 .. n /\ j - 1 = n - 2
        /\ \A i \in 1 .. j : i \in 1 .. n
    <3>1. n # 1
      BY <1>p, <1>s, <1>t DEF TypeInv, Shape
    <3> QED BY <1>s, <3>1
  <2>3. /\ stack[j] \in FrameType
        /\ \A f \in 1 .. n : FrameOn(stack[f], d[f - 1], d[f], at)
        /\ d[0] = 0
    BY <1>k, <1>s, <2>2 DEF Frames, Keeps, n
  <2>4. outer = d[j]
    BY DEF outer
  <2> HIDE DEF j
  <2>5. FrameOn(stack'[j], d[j - 1], d[j], at)
    <3>1. FrameOn(stack[j], d[j - 1], d[j], at)
      BY <2>2, <2>3
    <3> QED BY <1>p, <2>1, <2>3, <2>4, <3>1, ReceivedOn
  <2>6. \A f \in 1 .. j : FrameOn(stack'[f], d[f - 1], d[f], at)
    <3>1. \A f \in 1 .. j : f # j => f \in 1 .. j - 1
      BY <2>2, LastOf
    <3>2. \A f \in 1 .. j - 1 : stack'[f] = stack[f]
      BY <2>1, <2>2
    <3> QED BY <2>2, <2>3, <2>5, <3>1, <3>2
  <2>7. Keeps(stack', at, d) /\ currentScope' = d[Len(stack')]
    BY <1>o, <1>p, <2>1, <2>3, <2>4, <2>6 DEF Keeps
  <2> QED BY <1>k, <1>p, <1>t, <2>7 DEF KeepInv
<1>1. CASE ConvertLeaf
  <2> DEFINE c == LeafCode(Head(Top.todo))
  <2>1. Top.todo # << >> /\ Head(Top.todo) \in Stmts
    BY <1>1, <1>t, KidsOK DEF ConvertLeaf, Pending
  <2>2. c \in Chains /\ Leads(c, u, u, at)
    BY <1>o, <2>1, LeafCodeOK, LeafLeads
  <2>3. /\ stack' = Deliver(stack, c) /\ idmap' = idmap /\ prog' = prog
        /\ currentScope' = currentScope
    BY <1>1 DEF ConvertLeaf
  <2> HIDE DEF c
  <2>4. FrameOn(Received(Top, c), outer, u, at)
    BY <1>o, <1>s, <2>1, <2>2, ReceivedOn
  <2>5. /\ stack' \in Frames /\ Len(stack') = n
        /\ \A i \in 1 .. n - 1 : stack'[i] = stack[i]
        /\ stack'[n] = Received(Top, c)
    BY <1>s, <2>1, <2>2, <2>3, DeliverOK DEF n
  <2> QED BY <1>o, <1>r, <2>3, <2>4, <2>5
<1>2. CASE ThrowUnsupported
  <2>1. stack' = stack /\ prog' = prog /\ idmap' = idmap /\ currentScope' = currentScope
    BY <1>2 DEF ThrowUnsupported
  <2> QED BY <1>o, <1>r, <1>s, <2>1 DEF n
<1>3. CASE EnterBlock
  <2> DEFINE g == Frame("block", FALSE, Head(Top.todo).kids, 0, currentScope + 1)
  <2>1. /\ stack' = Append(stack, g) /\ prog' = prog /\ idmap' = idmap
        /\ currentScope' = u + 1 /\ u + 1 \in Nat
    BY <1>3, <1>o DEF EnterBlock
  <2>2. g \in FrameType
    <3>1. Head(Top.todo).kids \in Seq(Stmts)
      BY <1>3, <1>t, KidsOK DEF EnterBlock, Pending
    <3>2. "block" \in CompoundKinds \cup {"file"} /\ currentScope + 1 \in Nat /\ 0 \in Nat
      BY <1>o DEF CompoundKinds
    <3> QED BY <3>1, <3>2, FrameOK
  <2>3. /\ g.kind = "block" /\ g.cur = 0 /\ g.scope = u + 1
        /\ g.slots[1] = << >> /\ g.slots[2] = << >>
    BY <1>o DEF Frame
  <2> HIDE DEF g
  <2>4. FrameOn(g, u, u + 1, at)
    BY <2>1, <2>3, LeadsEmpty DEF FrameOn, Reserved
  <2>5. Grows(at, at) /\ at \in LabelScopes(idmap')
    BY <2>1 DEF Grows
  <2> QED BY <1>e, <2>1, <2>2, <2>4, <2>5
<1>4. CASE EnterIf
  <2> DEFINE s == Head(Top.todo)
             g == Frame("if", s.flag, s.kids, idmap["default"], 0)
  <2>1. /\ stack' = Append(stack, g) /\ prog' = prog /\ Top.todo # << >>
        /\ currentScope' = u /\ idmap' = Counted(idmap, "default")
    BY <1>4, <1>o DEF EnterIf, Pending, Counted
  <2>2. g \in FrameType
    <3>1. s.kids \in Seq(Stmts) /\ s.flag \in BOOLEAN
      BY <1>t, <2>1, KidsOK
    <3>2. "if" \in CompoundKinds \cup {"file"} /\ idmap["default"] \in Nat /\ 0 \in Nat
      BY <1>m DEF CompoundKinds
    <3> QED BY <3>1, <3>2, FrameOK
  <2>3. /\ g.kind = "if" /\ g.slots[1] = << >> /\ g.slots[2] = << >>
        /\ Reserved(g) = IfLabels(idmap["default"])
    BY DEF Frame, Reserved
  <2> HIDE DEF g
  <2>4. PICK more \in LabelScopes(idmap') :
          Grows(at, more) /\ \A l \in IfLabels(idmap["default"]) : l \in DOMAIN more /\ more[l] = u
    <3>1. \E more \in LabelScopes(Counted(idmap, "default")) :
            Grows(at, more) /\ \A l \in IfLabels(idmap["default"]) : l \in DOMAIN more /\ more[l] = u
      BY <1>l, <1>m DEF NewScopes
    <3> QED BY <2>1, <3>1
  <2>5. FrameOn(g, u, u, more)
    BY <1>o, <2>3, <2>4, LeadsEmpty DEF FrameOn
  <2> QED BY <1>e, <1>o, <2>1, <2>2, <2>4, <2>5
<1>5. CASE EnterWhile
  <2> DEFINE g == Frame("while", FALSE, <<Head(Top.todo).kids[1]>>, idmap["while"], 0)
  <2>1. /\ stack' = Append(stack, g) /\ prog' = prog /\ Top.todo # << >>
        /\ Head(Top.todo).kind = "while"
        /\ currentScope' = u /\ idmap' = Counted(idmap, "while")
    BY <1>5, <1>o DEF EnterWhile, Pending, Counted
  <2>2. g \in FrameType
    <3>1. <<Head(Top.todo).kids[1]>> \in Seq(Stmts)
      BY <1>t, <2>1, BodyOK
    <3>2. "while" \in CompoundKinds \cup {"file"} /\ idmap["while"] \in Nat /\ 0 \in Nat
      BY <1>m DEF CompoundKinds
    <3> QED BY <3>1, <3>2, FrameOK
  <2>3. /\ g.kind = "while" /\ g.slots[1] = << >>
        /\ Reserved(g) = WhileLabels(idmap["while"])
    BY DEF Frame, Reserved
  <2> HIDE DEF g
  <2>4. PICK more \in LabelScopes(idmap') :
          Grows(at, more) /\ \A l \in WhileLabels(idmap["while"]) : l \in DOMAIN more /\ more[l] = u
    <3>1. \E more \in LabelScopes(Counted(idmap, "while")) :
            Grows(at, more) /\ \A l \in WhileLabels(idmap["while"]) : l \in DOMAIN more /\ more[l] = u
      BY <1>l, <1>m DEF NewScopes
    <3> QED BY <2>1, <3>1
  <2>5. FrameOn(g, u, u, more)
    BY <1>o, <2>3, <2>4, LeadsEmpty DEF FrameOn
  <2> QED BY <1>e, <1>o, <2>1, <2>2, <2>4, <2>5
<1>6. CASE LeaveIf
  <2> DEFINE c == IfCode(Top.flag, Top.id, Top.slots[1], Top.slots[2])
  <2>1. /\ Top.kind = "if" /\ stack' = Deliver(Under, c) /\ prog' = prog /\ idmap' = idmap
        /\ currentScope' = currentScope
    BY <1>6 DEF LeaveIf, Converted
  <2>2. /\ u = outer /\ Leads(Top.slots[1], u, u, at) /\ Leads(Top.slots[2], u, u, at)
        /\ \A l \in IfLabels(Top.id) : l \in DOMAIN at /\ at[l] = u
    BY <1>o, <2>1 DEF FrameOn, Reserved
  <2>3. c \in Chains /\ Leads(c, u, u, at)
    BY <1>c, <1>o, <2>2, IfCodeType, IfLeads
  <2> HIDE DEF c
  <2> QED BY <1>p, <2>1, <2>2, <2>3
<1>7. CASE LinkBlock
  <2> DEFINE o    == IF currentScope > 0 THEN currentScope - 1 ELSE 0
             code == BlockCode(Top.scope, o, Top.slots[1])
             k    == IF OptimizeLabels /\ Top.slots[1] # << >> THEN 2 ELSE Len(code)
  <2>1. /\ Top.kind = "block" /\ Top.cur = 0 /\ Rewrite(code, k) /\ prog' = prog
        /\ idmap' = idmap /\ currentScope' = o
    BY <1>7 DEF LinkBlock, Converted
  <2>2. u = outer + 1 /\ Top.scope = u /\ Leads(Top.slots[1], u, u, at)
    BY <1>o, <2>1 DEF FrameOn
  <2>3. o = outer
    BY <1>o, <2>2
  <2>4. Len(code) > 0
    <3>1. o \in Nat
      BY <1>o, <2>3
    <3> QED BY <1>c, <3>1, InstructionTypes, BracketLength DEF BlockCode
  <2> HIDE DEF o
  <2>5. code \in Chains /\ Leads(code, outer, outer, at)
    BY <1>c, <1>o, <2>2, <2>3, BlockLeads
  <2> HIDE DEF code
  <2>6. k \in Nat /\ k > 0
    BY <2>4, <2>5 DEF Chains
  <2> HIDE DEF k
  <2>7. FrameOn(Rewritten(Top, code, k), outer, outer, at)
    BY <1>s, <2>1, <2>5, <2>6, RewrittenOn
  <2>8. /\ stack' \in Frames /\ Len(stack') = n
        /\ \A i \in 1 .. n - 1 : stack'[i] = stack[i]
        /\ stack'[n] = Rewritten(Top, code, k)
    BY <1>s, <2>1, <2>5, <2>6, RewriteOK DEF n
  <2> QED BY <1>o, <1>r, <2>1, <2>3, <2>7, <2>8
<1>8. CASE LinkWhile
  <2> DEFINE code == WhileCode(Top.id, Top.slots[1])
             k    == IF OptimizeLabels THEN 1 ELSE Len(code)
  <2>1. /\ Top.kind = "while" /\ Top.cur = 0 /\ Rewrite(code, k) /\ prog' = prog
        /\ idmap' = idmap /\ currentScope' = currentScope
    BY <1>8 DEF LinkWhile, Converted
  <2>2. /\ u = outer /\ Leads(Top.slots[1], u, u, at)
        /\ \A l \in WhileLabels(Top.id) : l \in DOMAIN at /\ at[l] = u
    BY <1>o, <2>1 DEF FrameOn, Reserved
  <2>3. code \in Chains /\ Len(code) > 0 /\ Leads(code, u, u, at)
    BY <1>c, <1>o, <2>2, WhileCodeType, WhileLeads
  <2> HIDE DEF code
  <2>4. k \in Nat /\ k > 0
    BY <2>3 DEF Chains
  <2> HIDE DEF k
  <2>5. FrameOn(Rewritten(Top, code, k), outer, u, at)
    BY <1>s, <2>1, <2>2, <2>3, <2>4, RewrittenOn
  <2>6. /\ stack' \in Frames /\ Len(stack') = n
        /\ \A i \in 1 .. n - 1 : stack'[i] = stack[i]
        /\ stack'[n] = Rewritten(Top, code, k)
    BY <1>s, <2>1, <2>3, <2>4, RewriteOK DEF n
  <2> QED BY <1>o, <1>r, <2>1, <2>5, <2>6
<1>9. CASE MergeLabel
  <2> DEFINE c == Top.slots[1]
             k == Top.cur
             e == Merged(c, Root(Top), k)
  <2>1. /\ k > 0 /\ k < Len(c) /\ IsLabel(c[k]) /\ IsLabel(c[k + 1]) /\ Rewrite(e, k)
        /\ prog' = prog /\ idmap' = idmap /\ currentScope' = currentScope
    BY <1>9 DEF MergeLabel, Scanning, TwoLabels, Merged
  <2>2. /\ Top.kind \in {"block", "while"} /\ u = outer /\ Leads(c, u, u, at)
    BY <1>o, <1>x, <2>1 DEF FrameOn
  <2>3. c \in Chains /\ k \in Nat /\ Root(Top) \in Nat
    BY <1>c DEF Root
  <2> HIDE DEF c, k, e
  <2>4. k \in 1 .. Len(c) /\ k + 1 \in 1 .. Len(c)
    <3>1. Len(c) \in Nat
      BY <2>3 DEF Chains
    <3>2. k > 0 /\ k < Len(c)
      BY <2>1
    <3> QED BY <2>3, <3>1, <3>2
  <2>5. e \in Chains /\ Leads(e, u, u, at)
    BY <2>1, <2>2, <2>3, <2>4, MergedOK, MergeLeads DEF e
  <2>6. FrameOn(Rewritten(Top, e, k), outer, u, at)
    BY <1>s, <2>1, <2>2, <2>3, <2>5, RewrittenOn
  <2>7. /\ stack' \in Frames /\ Len(stack') = n
        /\ \A i \in 1 .. n - 1 : stack'[i] = stack[i]
        /\ stack'[n] = Rewritten(Top, e, k)
    BY <1>s, <2>1, <2>3, <2>5, RewriteOK DEF n
  <2> QED BY <1>o, <1>r, <2>1, <2>6, <2>7
<1>10. CASE NextInstruction
  <2> DEFINE k == Top.cur + 1
  <2>1. /\ Top.cur > 0 /\ Rewrite(Top.slots[1], k)
        /\ prog' = prog /\ idmap' = idmap /\ currentScope' = currentScope
    BY <1>10 DEF NextInstruction, Scanning
  <2>2. /\ Top.kind \in {"block", "while"} /\ u = outer /\ Leads(Top.slots[1], u, u, at)
    BY <1>o, <1>x, <2>1 DEF FrameOn
  <2>3. k \in Nat /\ k > 0
    BY <1>c
  <2> HIDE DEF k
  <2>4. FrameOn(Rewritten(Top, Top.slots[1], k), outer, u, at)
    BY <1>c, <1>s, <2>2, <2>3, RewrittenOn
  <2>5. /\ stack' \in Frames /\ Len(stack') = n
        /\ \A i \in 1 .. n - 1 : stack'[i] = stack[i]
        /\ stack'[n] = Rewritten(Top, Top.slots[1], k)
    BY <1>c, <1>s, <2>1, <2>3, RewriteOK DEF n
  <2> QED BY <1>o, <1>r, <2>1, <2>4, <2>5
<1>11. CASE Return
  <2>1. /\ Top.cur > 0 /\ stack' = Deliver(Under, Top.slots[1])
        /\ prog' = prog /\ idmap' = idmap /\ currentScope' = currentScope
    BY <1>11 DEF Return
  <2>2. /\ Top.kind # "file" /\ u = outer /\ Leads(Top.slots[1], u, u, at)
    BY <1>o, <1>x, <2>1 DEF FrameOn
  <2> QED BY <1>c, <1>p, <2>1, <2>2
<1>12. CASE FinishFile
  <2>1. /\ Top.kind = "file" /\ stack' = stack /\ idmap' = idmap /\ currentScope' = currentScope
        /\ prog' = (<<[op |-> "SOF"]>> \o Top.slots[1]) \o <<[op |-> "EOF"]>>
    BY <1>12 DEF FinishFile, Converted
  <2>2. n = 1
    BY <1>o, <1>s, <1>t, <2>1 DEF TypeInv, Shape
  <2>3. u = 0 /\ Leads(Top.slots[1], u, u, at)
    <3>1. outer = 0
      BY <1>k, <2>2 DEF Keeps, outer
    <3> QED BY <1>o, <2>1, <3>1 DEF FrameOn
  <2>4. Leads(prog', 0, 0, at)
    BY <1>c, <2>1, <2>3, FileLeads
  <2> QED BY <1>k, <1>t, <2>1, <2>4 DEF KeepInv
<1>13. CASE UNCHANGED vars
  <2>1. stack' = stack /\ prog' = prog /\ idmap' = idmap /\ currentScope' = currentScope
    BY <1>13 DEF vars
  <2> QED BY <1>o, <1>r, <1>s, <2>1 DEF n
<1> QED
  BY <1>1, <1>2, <1>3, <1>4, <1>5, <1>6, <1>7, <1>8, <1>9, <1>10, <1>11, <1>12, <1>13 DEF Next

\* A jump of a finished program and its label lie in the same scope, whatever
\* is nested in what and however often labels are merged.
THEOREM JumpsStayInScope == Spec => []JumpsKeepScope
<1>1. Init => KeepInv
  BY KeepInit
<1>2. KeepInv /\ [Next]_vars => KeepInv'
  BY KeepStep
<1>3. KeepInv => JumpsKeepScope
  <2> SUFFICES ASSUME KeepInv PROVE JumpsKeepScope
    OBVIOUS
  <2>1. prog \in Chains
    BY DEF KeepInv, TypeInv, TypeOK
  <2>2. PICK at \in LabelScopes(idmap) : Leads(prog, 0, 0, at)
    BY DEF KeepInv
  <2> QED BY <2>1, <2>2, LeadsKeeps DEF JumpsKeepScope
<1> QED BY <1>1, <1>2, <1>3, PTL DEF Spec

-----------------------------------------------------------------------------
(* currentScope counts the blocks the converter is inside of, for all      *)
(* programs: GetNewScope and RemoveScope pair up across the recursion.     *)

\* The members of S up to frame f: the blocks around the one of f, and it.
UpTo(S, f) == {g \in S : g <= f}

\* The invariant.  ScopeIsNesting is inductive once currentScope is known
\* after a throw too, and the frame that ends the conversion is the only one.
ScopeInv ==
  /\ TypeInv
  /\ \A f \in OpenBlocks : stack[f].scope = Cardinality(UpTo(OpenBlocks, f))
  /\ currentScope = Cardinality(OpenBlocks)
  /\ phase = "done" => Len(stack) = 1

\* The open blocks are finitely many.
LEMMA OpenFinite ==
  ASSUME TypeInv
  PROVE  /\ IsFiniteSet(OpenBlocks) /\ Cardinality(OpenBlocks) \in Nat
         /\ OpenBlocks \subseteq 1 .. Len(stack)
<1>1. Len(stack) \in Nat /\ DOMAIN stack = 1 .. Len(stack)
  BY StackOK
<1>2. IsFiniteSet(1 .. Len(stack))
  BY <1>1, FS_Interval
<1>3. OpenBlocks \subseteq 1 .. Len(stack)
  BY <1>1 DEF OpenBlocks
<1>4. IsFiniteSet(OpenBlocks)
  BY <1>2, <1>3, FS_Subset
<1> QED BY <1>3, <1>4, FS_CardinalityType

\* With MConvert's frame alone there is no open block.
LEMMA NoneOpen ==
  ASSUME TypeInv, Len(stack) = 1
  PROVE  OpenBlocks = {}
<1>1. DOMAIN stack = {1} /\ stack[1].kind = "file"
  BY StackOK DEF TypeInv, Shape
<1> QED BY <1>1 DEF OpenBlocks

\* The invariant holds initially.
LEMMA ScopeInit == Init => ScopeInv
<1> SUFFICES ASSUME Init PROVE ScopeInv
  OBVIOUS
<1>1. TypeInv /\ Len(stack) = 1
  BY TypeInit DEF Init
<1>2. OpenBlocks = {}
  BY <1>1, NoneOpen
<1> QED BY <1>1, <1>2, FS_EmptySet DEF ScopeInv, Init

\* A step that opens and closes no block and lets the frames of the open ones
\* keep their scope.
LEMMA SameScopes ==
  ASSUME ScopeInv, TypeInv', OpenBlocks' = OpenBlocks, currentScope' = currentScope,
         \A f \in OpenBlocks : stack'[f].scope = stack[f].scope,
         phase' = "done" => Len(stack') = 1
  PROVE  ScopeInv'
<1>1. \A f \in OpenBlocks : UpTo(OpenBlocks', f) = UpTo(OpenBlocks, f)
  BY DEF UpTo
<1> QED BY <1>1 DEF ScopeInv

\* What the frames of a new stack tell of the open blocks.
LEMMA OpenAre ==
  ASSUME stack' \in Frames
  PROVE  OpenBlocks' = {f \in 1 .. Len(stack') : stack'[f].kind = "block" /\ stack'[f].cur = 0}
  BY DEF OpenBlocks, Frames

\* A frame that receives code, or whose code is rewritten, keeps its scope.
LEMMA KeepsScope ==
  ASSUME NEW f \in FrameType, NEW c, NEW k
  PROVE  Received(f, c).scope = f.scope /\ Rewritten(f, c, k).scope = f.scope
  BY DEF Received, Rewritten, FrameType

\* The converted kid was a leaf.
LEMMA LeafScope ==
  ASSUME ScopeInv, TypeInv', ConvertLeaf
  PROVE  ScopeInv'
<1> DEFINE c == LeafCode(Head(Top.todo))
<1>1. /\ stack \in Frames /\ Len(stack) \in Nat /\ Len(stack) > 0
      /\ DOMAIN stack = 1 .. Len(stack) /\ Top = stack[Len(stack)] /\ Top \in FrameType
  BY StackOK DEF ScopeInv
<1>2. Top.todo # << >> /\ c \in Chains
  BY KidsOK, LeafCodeOK DEF ConvertLeaf, Pending, ScopeInv
<1>3. stack' = Deliver(stack, c) /\ currentScope' = currentScope /\ phase' # "done"
  BY DEF ConvertLeaf, Pending
<1> HIDE DEF c
<1>4. /\ stack' \in Frames /\ Len(stack') = Len(stack)
      /\ \A i \in 1 .. Len(stack) - 1 : stack'[i] = stack[i]
      /\ stack'[Len(stack)] = Received(Top, c)
  BY <1>1, <1>2, <1>3, DeliverOK
<1>5. \A i \in 1 .. Len(stack) : /\ stack'[i].kind = stack[i].kind
                                 /\ stack'[i].cur = stack[i].cur
                                 /\ stack'[i].scope = stack[i].scope
  <2>1. /\ Received(Top, c).kind = Top.kind /\ Received(Top, c).cur = Top.cur
        /\ Received(Top, c).scope = Top.scope
    BY <1>1, <1>2, ReceivedOK, KeepsScope
  <2> QED BY <1>1, <1>4, <2>1, LastOf
<1>6. OpenBlocks' = OpenBlocks /\ OpenBlocks \subseteq 1 .. Len(stack)
  BY <1>1, <1>4, <1>5, OpenAre DEF OpenBlocks
<1> QED BY <1>3, <1>5, <1>6, SameScopes

\* An activation that is no open block ends.
LEMMA PopScope ==
  ASSUME ScopeInv, TypeInv', Top.kind # "file", ~(Top.kind = "block" /\ Top.cur = 0),
         NEW c \in Chains, stack' = Deliver(Under, c), currentScope' = currentScope,
         phase' # "done"
  PROVE  ScopeInv'
<1>1. /\ stack \in Frames /\ Len(stack) \in Nat /\ Len(stack) > 0
      /\ DOMAIN stack = 1 .. Len(stack) /\ Top = stack[Len(stack)] /\ Top \in FrameType
      /\ TypeInv
  BY StackOK DEF ScopeInv
<1> DEFINE n == Len(stack) - 1
<1>2. Len(stack) > 1
  BY <1>1 DEF TypeInv, Shape
<1>3. n \in 1 .. Len(stack) /\ n \in Nat /\ n + 1 = Len(stack)
  BY <1>1, <1>2
<1>4. /\ Len(stack') = n
      /\ \A i \in 1 .. n - 1 : stack'[i] = stack[i]
      /\ stack'[n] = Received(stack[n], c)
      /\ stack[n].todo # << >>
      /\ stack' \in Frames
  <2>1. /\ stack' \in Seq(FrameType) /\ Len(stack') = Len(stack) - 1
        /\ \A i \in 1 .. Len(stack) - 2 : stack'[i] = stack[i]
        /\ stack'[Len(stack) - 1] = Received(stack[Len(stack) - 1], c)
        /\ stack[Len(stack) - 1].todo # << >>
    BY <1>1, PopKeepsType
  <2>2. n - 1 = Len(stack) - 2
    BY <1>1
  <2> QED BY <2>1, <2>2 DEF Frames
<1>5. stack[n] \in FrameType
  BY <1>1, <1>3 DEF Frames
<1> HIDE DEF n
<1>6. \A i \in 1 .. n : /\ stack'[i].kind = stack[i].kind
                        /\ stack'[i].cur = stack[i].cur
                        /\ stack'[i].scope = stack[i].scope
  <2>1. /\ Received(stack[n], c).kind = stack[n].kind
        /\ Received(stack[n], c).cur = stack[n].cur
        /\ Received(stack[n], c).scope = stack[n].scope
    BY <1>4, <1>5, ReceivedOK, KeepsScope
  <2>2. n \in Nat /\ n > 0
    BY <1>3
  <2> QED BY <1>4, <2>1, <2>2, LastOf
<1>7. \A i \in DOMAIN stack : i \in 1 .. n \/ i = Len(stack)
  BY <1>1, <1>3
<1>8. 1 .. n \subseteq DOMAIN stack
  BY <1>1, <1>3
<1>9. OpenBlocks' = OpenBlocks /\ OpenBlocks \subseteq 1 .. n
  BY <1>1, <1>4, <1>6, <1>7, <1>8, OpenAre DEF OpenBlocks
<1> QED BY <1>6, <1>9, SameScopes

\* A frame that is no open block before and after is rewritten.
LEMMA RewriteScope ==
  ASSUME ScopeInv, TypeInv', NEW c \in Chains, NEW k \in Nat, Rewrite(c, k),
         Top.kind = "block" => Top.cur # 0 /\ k # 0,
         currentScope' = currentScope, phase' # "done"
  PROVE  ScopeInv'
<1>1. /\ stack \in Frames /\ Len(stack) \in Nat /\ Len(stack) > 0
      /\ DOMAIN stack = 1 .. Len(stack) /\ Top = stack[Len(stack)] /\ Top \in FrameType
  BY StackOK DEF ScopeInv
<1>2. /\ stack' \in Frames /\ Len(stack') = Len(stack)
      /\ \A i \in 1 .. Len(stack) - 1 : stack'[i] = stack[i]
      /\ stack'[Len(stack)] = Rewritten(Top, c, k)
  BY <1>1, RewriteOK
<1>3. /\ Rewritten(Top, c, k).kind = Top.kind /\ Rewritten(Top, c, k).cur = k
  BY <1>1, RewrittenOK
<1>4. \A i \in 1 .. Len(stack) - 1 : /\ stack'[i].kind = stack[i].kind
                                     /\ stack'[i].cur = stack[i].cur
                                     /\ stack'[i].scope = stack[i].scope
  BY <1>2
<1>5. Len(stack) \notin OpenBlocks /\ Len(stack) \notin OpenBlocks'
  BY <1>1, <1>2, <1>3, OpenAre DEF OpenBlocks
<1>6. OpenBlocks' = OpenBlocks /\ OpenBlocks \subseteq 1 .. Len(stack) - 1
  <2>1. OpenBlocks' = {f \in 1 .. Len(stack) : stack'[f].kind = "block" /\ stack'[f].cur = 0}
    BY <1>2, OpenAre
  <2>2. OpenBlocks = {f \in 1 .. Len(stack) : stack[f].kind = "block" /\ stack[f].cur = 0}
    BY <1>1 DEF OpenBlocks
  <2>3. \A i \in 1 .. Len(stack) : i # Len(stack) => i \in 1 .. Len(stack) - 1
    BY <1>1, LastOf
  <2>4. 1 .. Len(stack) - 1 \subseteq 1 .. Len(stack)
    BY <1>1
  <2> HIDE DEF OpenBlocks
  <2> QED BY <1>4, <1>5, <2>1, <2>2, <2>3, <2>4
<1> QED BY <1>4, <1>6, SameScopes

\* A frame that is no block is pushed.
LEMMA PushScope ==
  ASSUME ScopeInv, TypeInv', NEW g \in FrameType, g.kind # "block",
         stack' = Append(stack, g), currentScope' = currentScope, phase' # "done"
  PROVE  ScopeInv'
<1>1. /\ stack \in Frames /\ Len(stack) \in Nat /\ DOMAIN stack = 1 .. Len(stack)
  BY StackOK DEF ScopeInv
<1>2. /\ stack' \in Frames /\ Len(stack') = Len(stack) + 1 /\ stack'[Len(stack) + 1] = g
      /\ \A i \in 1 .. Len(stack) : stack'[i] = stack[i]
  BY <1>1, PushOK
<1>3. OpenBlocks' = OpenBlocks /\ OpenBlocks \subseteq 1 .. Len(stack)
  <2>1. OpenBlocks' = {f \in 1 .. Len(stack) + 1 : stack'[f].kind = "block" /\ stack'[f].cur = 0}
    BY <1>2, OpenAre
  <2>2. OpenBlocks = {f \in 1 .. Len(stack) : stack[f].kind = "block" /\ stack[f].cur = 0}
    BY <1>1 DEF OpenBlocks
  <2>3. \A i \in 1 .. Len(stack) + 1 : i \in 1 .. Len(stack) \/ i = Len(stack) + 1
    BY <1>1
  <2>4. 1 .. Len(stack) \subseteq 1 .. Len(stack) + 1
    BY <1>1
  <2> QED BY <1>2, <2>1, <2>2, <2>3, <2>4
<1> QED BY <1>2, <1>3, SameScopes

\* GetNewScope: the new block is inside of all the others.
LEMMA EnterScope ==
  ASSUME ScopeInv, TypeInv', EnterBlock
  PROVE  ScopeInv'
<1> DEFINE g == Frame("block", FALSE, Head(Top.todo).kids, 0, currentScope + 1)
           n == Len(stack) + 1
           O == OpenBlocks
<1>1. /\ stack \in Frames /\ Len(stack) \in Nat /\ DOMAIN stack = 1 .. Len(stack)
      /\ TypeInv /\ currentScope \in Nat
  BY StackOK DEF ScopeInv, TypeInv, TypeOK
<1>2. stack' = Append(stack, g) /\ currentScope' = currentScope + 1 /\ phase' # "done"
  BY DEF EnterBlock, Pending
<1>3. g.kind = "block" /\ g.cur = 0 /\ g.scope = currentScope + 1 /\ g \in FrameType
  <2>1. Head(Top.todo).kids \in Seq(Stmts)
    BY <1>1, KidsOK DEF EnterBlock, Pending
  <2>2. "block" \in CompoundKinds \cup {"file"}
    BY DEF CompoundKinds
  <2>3. g \in FrameType
    <3>1. currentScope + 1 \in Nat /\ 0 \in Nat /\ FALSE \in BOOLEAN
      BY <1>1
    <3> QED BY <2>1, <2>2, <3>1, FrameOK
  <2>4. g.kind = "block" /\ g.cur = 0 /\ g.scope = currentScope + 1
    BY DEF Frame
  <2> QED BY <2>3, <2>4
<1> HIDE DEF g
<1>4. /\ stack' \in Frames /\ Len(stack') = n /\ stack'[n] = g
      /\ \A i \in 1 .. Len(stack) : stack'[i] = stack[i]
  BY <1>1, <1>2, <1>3, PushOK
<1>5. /\ IsFiniteSet(O) /\ O \subseteq 1 .. Len(stack) /\ Cardinality(O) = currentScope
  BY <1>1, OpenFinite DEF ScopeInv
<1>6. n \notin O /\ OpenBlocks' = O \cup {n}
  <2>1. OpenBlocks' = {f \in 1 .. n : stack'[f].kind = "block" /\ stack'[f].cur = 0}
    BY <1>4, OpenAre
  <2>2. O = {f \in 1 .. Len(stack) : stack[f].kind = "block" /\ stack[f].cur = 0}
    BY <1>1 DEF OpenBlocks
  <2>3. \A i \in 1 .. n : i \in 1 .. Len(stack) \/ i = n
    BY <1>1
  <2>4. 1 .. Len(stack) \subseteq 1 .. n /\ n \in 1 .. n /\ n \notin 1 .. Len(stack)
    BY <1>1
  <2> HIDE DEF O, n
  <2> QED BY <1>3, <1>4, <2>1, <2>2, <2>3, <2>4
<1>7. Cardinality(OpenBlocks') = currentScope + 1
  BY <1>5, <1>6, FS_AddElement
<1>8. \A f \in O : UpTo(OpenBlocks', f) = UpTo(OpenBlocks, f) /\ stack'[f] = stack[f]
  <2>1. \A f \in O : f <= Len(stack) /\ ~(n <= f) /\ f \in 1 .. Len(stack)
    BY <1>1, <1>5
  <2> HIDE DEF n
  <2> QED BY <1>4, <1>6, <2>1 DEF UpTo
<1>9. UpTo(OpenBlocks', n) = OpenBlocks'
  <2>1. \A f \in O \cup {n} : f <= n
    BY <1>1, <1>5
  <2> HIDE DEF n, O
  <2> QED BY <1>6, <2>1 DEF UpTo
<1>10. \A f \in O : stack[f].scope = Cardinality(UpTo(OpenBlocks, f))
  BY DEF ScopeInv
<1>11. ASSUME NEW f \in OpenBlocks'
       PROVE  stack'[f].scope = Cardinality(UpTo(OpenBlocks', f))
  <2> HIDE DEF n, O
  <2>1. CASE f = n
    BY <1>3, <1>4, <1>7, <1>9, <2>1
  <2>2. CASE f \in O
    BY <1>8, <1>10, <2>2
  <2> QED BY <1>6, <2>1, <2>2
<1> QED BY <1>2, <1>7, <1>11 DEF ScopeInv

\* RemoveScope: the block that is left is the innermost of the open ones.
LEMMA LeaveScope ==
  ASSUME ScopeInv, TypeInv', LinkBlock
  PROVE  ScopeInv'
<1> DEFINE n == Len(stack)
           O == OpenBlocks
           outer == IF currentScope > 0 THEN currentScope - 1 ELSE 0
           code  == BlockCode(Top.scope, outer, Top.slots[1])
           k     == IF OptimizeLabels /\ Top.slots[1] # << >> THEN 2 ELSE Len(code)
<1>1. /\ stack \in Frames /\ n \in Nat /\ n > 0 /\ DOMAIN stack = 1 .. n
      /\ Top = stack[n] /\ Top \in FrameType /\ TypeInv /\ currentScope \in Nat
  BY StackOK DEF ScopeInv, TypeInv, TypeOK
<1>2. /\ currentScope' = outer /\ Rewrite(code, k) /\ phase' # "done"
      /\ Top.kind = "block" /\ Top.cur = 0
  BY DEF LinkBlock, Converted
<1>3. code \in Chains /\ Len(code) \in Nat /\ Len(code) > 0
  <2>1. Top.slots[1] \in Chains /\ Top.scope \in Nat /\ outer \in Nat
    BY <1>1 DEF FrameType
  <2>2. SetScope(Top.scope) \in Instructions /\ SetScope(outer) \in Instructions
    BY <2>1, InstructionTypes
  <2> HIDE DEF outer
  <2>3. /\ code \in Chains /\ <<SetScope(Top.scope)>> \o Top.slots[1] \in Chains
        /\ <<SetScope(outer)>> \in Chains
    BY <2>1, <2>2, BracketType, ConcatChains, Singleton DEF BlockCode
  <2>4. Len(code) = Len(<<SetScope(Top.scope)>> \o Top.slots[1]) + Len(<<SetScope(outer)>>)
    BY <2>3, ConcatChains DEF BlockCode
  <2>5. Len(<<SetScope(Top.scope)>> \o Top.slots[1]) \in Nat /\ Len(<<SetScope(outer)>>) = 1
    BY <2>3 DEF Chains
  <2> QED BY <2>3, <2>4, <2>5
<1> HIDE DEF code
<1>4. k \in Nat /\ k > 0
  BY <1>3
<1>5. /\ stack' \in Frames /\ Len(stack') = n
      /\ \A i \in 1 .. n - 1 : stack'[i] = stack[i]
      /\ stack'[n] = Rewritten(Top, code, k)
  BY <1>1, <1>2, <1>3, <1>4, RewriteOK
<1>6. stack'[n].cur = k
  BY <1>1, <1>3, <1>4, <1>5, RewrittenOK
<1> HIDE DEF k, n
<1>7. /\ IsFiniteSet(O) /\ O \subseteq 1 .. n /\ Cardinality(O) = currentScope
  BY <1>1, OpenFinite DEF ScopeInv, n
<1>8. n \in O /\ OpenBlocks' = O \ {n}
  <2>1. OpenBlocks' = {f \in 1 .. n : stack'[f].kind = "block" /\ stack'[f].cur = 0}
    BY <1>5, OpenAre
  <2>2. O = {f \in 1 .. n : stack[f].kind = "block" /\ stack[f].cur = 0}
    BY <1>1 DEF OpenBlocks
  <2>3. \A i \in 1 .. n : i \in 1 .. n - 1 \/ i = n
    BY <1>1
  <2>4. n \in 1 .. n /\ \A i \in 1 .. n - 1 : i # n
    BY <1>1
  <2>5. k # 0
    BY <1>4
  <2> HIDE DEF O
  <2> QED BY <1>1, <1>2, <1>5, <1>6, <2>1, <2>2, <2>3, <2>4, <2>5
<1>9. Cardinality(OpenBlocks') = currentScope - 1
  BY <1>7, <1>8, FS_RemoveElement
<1>10. currentScope > 0
  BY <1>1, <1>7, <1>8, FS_EmptySet
<1>11. \A f \in O \ {n} : UpTo(OpenBlocks', f) = UpTo(OpenBlocks, f) /\ stack'[f] = stack[f]
  <2>1. \A f \in O \ {n} : f \in 1 .. n - 1 /\ ~(n <= f)
    BY <1>1, <1>7
  <2> QED BY <1>5, <1>8, <2>1 DEF UpTo
<1>12. \A f \in OpenBlocks' : stack'[f].scope = Cardinality(UpTo(OpenBlocks', f))
  BY <1>8, <1>11 DEF ScopeInv
<1> QED BY <1>2, <1>9, <1>10, <1>12 DEF ScopeInv

\* Every action keeps the invariant, one step per action.
LEMMA ScopeStep == ScopeInv /\ [Next]_vars => ScopeInv'
<1> SUFFICES ASSUME ScopeInv, [Next]_vars PROVE ScopeInv'
  OBVIOUS
<1>t. TypeInv /\ TypeInv'
  BY TypeStep DEF ScopeInv
<1>s. /\ stack \in Frames /\ Len(stack) \in Nat /\ DOMAIN stack = 1 .. Len(stack)
      /\ Top = stack[Len(stack)] /\ Top \in FrameType
      /\ idmap \in [Counters -> Nat]
  BY <1>t, StackOK DEF TypeInv, TypeOK
<1>c. Top.slots[1] \in Chains /\ Top.slots[2] \in Chains /\ Top.cur \in Nat /\ Top.id \in Nat
  BY <1>s DEF FrameType
<1>k. Top.todo # << >> => Head(Top.todo).kids \in Seq(Stmts) /\ Head(Top.todo).flag \in BOOLEAN
  BY <1>t, KidsOK
<1>1. CASE ConvertLeaf
  BY <1>1, <1>t, LeafScope
<1>2. CASE ThrowUnsupported
  <2>1. stack' = stack /\ currentScope' = currentScope /\ phase' # "done"
    BY <1>2 DEF ThrowUnsupported
  <2>2. OpenBlocks' = OpenBlocks
    BY <2>1 DEF OpenBlocks
  <2> QED BY <1>t, <2>1, <2>2, SameScopes
<1>3. CASE EnterBlock
  BY <1>3, <1>t, EnterScope
<1>4. CASE EnterIf
  <2> DEFINE s == Head(Top.todo)
             g == Frame("if", s.flag, s.kids, idmap["default"], 0)
  <2>1. /\ stack' = Append(stack, g) /\ currentScope' = currentScope /\ phase' # "done"
        /\ Top.todo # << >>
    BY <1>4 DEF EnterIf, Pending
  <2>2. g \in FrameType /\ g.kind = "if"
    <3>1. "if" \in CompoundKinds \cup {"file"} /\ idmap["default"] \in Nat /\ 0 \in Nat
      BY <1>s DEF CompoundKinds, Counters
    <3> QED BY <1>k, <2>1, <3>1, FrameOK DEF Frame
  <2> QED BY <1>t, <2>1, <2>2, PushScope
<1>5. CASE EnterWhile
  <2> DEFINE g == Frame("while", FALSE, <<Head(Top.todo).kids[1]>>, idmap["while"], 0)
  <2>1. /\ stack' = Append(stack, g) /\ currentScope' = currentScope /\ phase' # "done"
        /\ Top.todo # << >> /\ Head(Top.todo).kind = "while"
    BY <1>5 DEF EnterWhile, Pending
  <2>2. g \in FrameType /\ g.kind = "while"
    <3>1. "while" \in CompoundKinds \cup {"file"} /\ idmap["while"] \in Nat /\ 0 \in Nat
      BY <1>s DEF CompoundKinds, Counters
    <3>2. <<Head(Top.todo).kids[1]>> \in Seq(Stmts)
      BY <1>t, <2>1, BodyOK
    <3> QED BY <3>1, <3>2, FrameOK DEF Frame
  <2> QED BY <1>t, <2>1, <2>2, PushScope
<1>6. CASE LeaveIf
  <2>1. IfCode(Top.flag, Top.id, Top.slots[1], Top.slots[2]) \in Chains
    BY <1>c, IfCodeType
  <2> QED BY <1>6, <1>t, <2>1, PopScope DEF LeaveIf, Converted
<1>7. CASE LinkBlock
  BY <1>7, <1>t, LeaveScope
<1>8. CASE LinkWhile
  <2> DEFINE code == WhileCode(Top.id, Top.slots[1])
             k    == IF OptimizeLabels THEN 1 ELSE Len(code)
  <2>1. code \in Chains
    BY <1>c, WhileCodeType
  <2>2. Rewrite(code, k) /\ Top.kind = "while" /\ currentScope' = currentScope /\ phase' # "done"
    BY <1>8 DEF LinkWhile, Converted
  <2> HIDE DEF code
  <2>3. k \in Nat
    BY <2>1 DEF Chains
  <2> QED BY <1>t, <2>1, <2>2, <2>3, RewriteScope
<1>9. CASE MergeLabel
  <2> DEFINE c == Top.slots[1]
             e == Unlink(ChangeAllLabelReferences(c, Root(Top), c[Top.cur].label,
                                                  c[Top.cur + 1].label), Top.cur)
  <2>1. /\ Rewrite(e, Top.cur) /\ currentScope' = currentScope /\ phase' # "done"
        /\ Top.cur > 0 /\ Top.cur < Len(c) /\ IsLabel(c[Top.cur]) /\ IsLabel(c[Top.cur + 1])
    BY <1>9 DEF MergeLabel, Scanning, TwoLabels
  <2>2. e \in Chains
    <3>1. Len(c) \in Nat
      BY <1>c DEF Chains
    <3>2. Top.cur \in 1 .. Len(c) /\ Top.cur + 1 \in 1 .. Len(c)
      BY <1>c, <2>1, <3>1
    <3>3. c[Top.cur].label \in Labels /\ c[Top.cur + 1].label \in Labels
      BY <1>c, <2>1, <3>2, LabelOfLabel
    <3>4. Root(Top) \in Nat
      BY DEF Root
    <3> DEFINE d == ChangeAllLabelReferences(c, Root(Top), c[Top.cur].label,
                                             c[Top.cur + 1].label)
    <3>5. c \in Chains
      BY <1>c
    <3> HIDE DEF c
    <3>6. d \in Chains /\ Len(d) = Len(c)
      BY ONLY <3>3, <3>4, <3>5, ChangeAllOK
    <3> HIDE DEF d
    <3>7. Top.cur \in 1 .. Len(d)
      BY <3>2, <3>6
    <3>8. Unlink(d, Top.cur) \in Chains
      BY ONLY <3>6, <3>7, UnlinkOK
    <3> QED BY <3>8 DEF d
  <2> HIDE DEF e
  <2>3. Top.cur # 0
    BY <1>c, <2>1
  <2> QED BY <1>c, <1>t, <2>1, <2>2, <2>3, RewriteScope
<1>10. CASE NextInstruction
  <2>1. /\ Rewrite(Top.slots[1], Top.cur + 1) /\ currentScope' = currentScope /\ phase' # "done"
        /\ Top.cur > 0
    BY <1>10 DEF NextInstruction, Scanning
  <2>2. Top.cur + 1 \in Nat /\ Top.cur + 1 # 0 /\ Top.cur # 0
    BY <1>c, <2>1
  <2> QED BY <1>c, <1>t, <2>1, <2>2, RewriteScope
<1>11. CASE Return
  <2>1. /\ stack' = Deliver(Under, Top.slots[1]) /\ currentScope' = currentScope
        /\ phase' # "done" /\ Top.cur > 0
    BY <1>11 DEF Return
  <2>2. Top.kind # "file"
    <3>1. Len(stack) \in DOMAIN stack
      BY <1>t, <1>s DEF TypeInv, Shape
    <3> QED BY <1>t, <1>s, <2>1, <3>1 DEF TypeInv, Shape
  <2>3. Top.cur # 0
    BY <1>c, <2>1
  <2> QED BY <1>c, <1>t, <2>1, <2>2, <2>3, PopScope
<1>12. CASE FinishFile
  <2>1. stack' = stack /\ currentScope' = currentScope /\ Top.kind = "file"
    BY <1>12 DEF FinishFile, Converted
  <2>2. Len(stack') = 1
    <3>1. Len(stack) \in DOMAIN stack
      BY <1>t, <1>s DEF TypeInv, Shape
    <3> QED BY <1>t, <1>s, <2>1, <3>1 DEF TypeInv, Shape
  <2>3. OpenBlocks' = OpenBlocks
    BY <2>1 DEF OpenBlocks
  <2> QED BY <1>t, <2>1, <2>2, <2>3, SameScopes
<1>13. CASE UNCHANGED vars
  <2>1. stack' = stack /\ currentScope' = currentScope /\ phase' = phase
    BY <1>13 DEF vars
  <2>2. OpenBlocks' = OpenBlocks
    BY <2>1 DEF OpenBlocks
  <2> QED BY <1>t, <2>1, <2>2, SameScopes DEF ScopeInv
<1> QED
  BY <1>1, <1>2, <1>3, <1>4, <1>5, <1>6, <1>7, <1>8, <1>9, <1>10, <1>11, <1>12, <1>13 DEF Next

\* The scope a block selects is its depth of nesting, the scope it returns to
\* is that of the block around it, and none is open when MConvert returns.
THEOREM ScopesNest == Spec => []ScopeIsNesting
<1>1. Init => ScopeInv
  BY ScopeInit
<1>2. ScopeInv /\ [Next]_vars => ScopeInv'
  BY ScopeStep
<1>3. ScopeInv => ScopeIsNesting
  <2> SUFFICES ASSUME ScopeInv PROVE ScopeIsNesting
    OBVIOUS
  <2>1. phase = "done" => currentScope = 0
    BY NoneOpen, FS_EmptySet DEF ScopeInv
  <2> QED BY <2>1 DEF ScopeInv, ScopeIsNesting, UpTo
<1> QED BY <1>1, <1>2, <1>3, PTL DEF Spec
=============================================================================
