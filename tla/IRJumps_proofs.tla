----------------------------- MODULE IRJumps_proofs -----------------------------
(***************************************************************************)
(* Every jump has its label, in the finished program (JumpsResolve) and in *)
(* the chain of every statement before it is returned (ChainsClosed), for  *)
(* all programs in which no if has an else node without a then node; with  *)
(* one the else label is jumped to and never placed.                       *)
(***************************************************************************)
EXTENDS IRScan_proofs

ElseHasThen ==
  \A s \in Stmts : s.kind = "if" /\ s.kids[1].kind = "null" => s.kids[2].kind = "null"

Closed(c) == TargetsOf(c) \subseteq LabelsOf(c)

\* The branches of an if are converted in order, and only the null pointer
\* yields no node: with no then node there is no else node.
BranchesOK(f) ==
  /\ Len(f.todo) <= 2
  /\ Len(f.todo) = 2 => /\ f.slots[1] = << >> /\ f.slots[2] = << >>
                        /\ f.todo[1].kind = "null" => f.todo[2].kind = "null"
  /\ Len(f.todo) = 1 => /\ f.slots[2] = << >>
                        /\ f.slots[1] = << >> => f.todo[1].kind = "null"
  /\ Len(f.todo) = 0 => (f.slots[1] = << >> => f.slots[2] = << >>)

\* A scan that starts behind the first node of a block misses no jump.
JumpsOK(f) ==
  /\ Closed(f.slots[1]) /\ Closed(f.slots[2])
  /\ f.cur > 0 /\ f.kind = "block" => ~IsJump(f.slots[1][1])
  /\ f.kind = "if" => BranchesOK(f)

\* No activation was started for a null pointer.
WaitingOK == \A f \in DOMAIN stack : f < Len(stack) => Head(stack[f].todo).kind # "null"

JumpInv ==
  /\ ScanInv
  /\ \A f \in DOMAIN stack : JumpsOK(stack[f])
  /\ WaitingOK
  /\ Closed(prog)

-----------------------------------------------------------------------------
(* Lemmas about chains.                                                    *)

\* A concatenation jumps to where its parts jump to.
LEMMA ConcatTargets ==
  ASSUME NEW c \in Chains, NEW d \in Chains
  PROVE  TargetsOf(c \o d) = TargetsOf(c) \cup TargetsOf(d)
<1>1. TargetsOf(c \o d) \subseteq TargetsOf(c) \cup TargetsOf(d)
  <2> SUFFICES ASSUME NEW i \in DOMAIN (c \o d), IsJump((c \o d)[i])
               PROVE  (c \o d)[i].label \in TargetsOf(c) \cup TargetsOf(d)
    BY DEF TargetsOf
  <2>1. CASE i <= Len(c)
    BY <2>1, ConcatChains DEF TargetsOf, Chains
  <2>2. CASE i > Len(c)
    <3>1. i - Len(c) \in DOMAIN d /\ (c \o d)[i] = d[i - Len(c)]
      BY <2>2, ConcatChains DEF Chains
    <3> QED BY <3>1 DEF TargetsOf
  <2> QED BY <2>1, <2>2, ConcatChains DEF Chains
<1>2. TargetsOf(c) \subseteq TargetsOf(c \o d)
  <2> SUFFICES ASSUME NEW i \in DOMAIN c, IsJump(c[i])
               PROVE  c[i].label \in TargetsOf(c \o d)
    BY DEF TargetsOf
  <2>1. i \in DOMAIN (c \o d) /\ (c \o d)[i] = c[i]
    BY ConcatChains DEF Chains
  <2> QED BY <2>1 DEF TargetsOf
<1>3. TargetsOf(d) \subseteq TargetsOf(c \o d)
  <2> SUFFICES ASSUME NEW i \in DOMAIN d, IsJump(d[i])
               PROVE  d[i].label \in TargetsOf(c \o d)
    BY DEF TargetsOf
  <2>1. Len(c) + i \in DOMAIN (c \o d) /\ (c \o d)[Len(c) + i] = d[i]
    BY ConcatChains DEF Chains
  <2> QED BY <2>1 DEF TargetsOf
<1> QED BY <1>1, <1>2, <1>3

\* What a splice defines, jumps to and leaves behind.
LEMMA Spliced ==
  ASSUME NEW c \in Chains, NEW d \in Chains
  PROVE  /\ c \o d \in Chains
         /\ LabelsOf(c \o d) = LabelsOf(c) \cup LabelsOf(d)
         /\ TargetsOf(c \o d) = TargetsOf(c) \cup TargetsOf(d)
         /\ c \o d = << >> <=> c = << >> /\ d = << >>
<1>1. c \o d = << >> <=> c = << >> /\ d = << >>
  <2>1. Len(c \o d) = Len(c) + Len(d) /\ c \o d \in Chains /\ Len(c) \in Nat /\ Len(d) \in Nat
    BY ConcatChains DEF Chains
  <2>2. \A e \in Chains : e = << >> <=> Len(e) = 0
    BY DEF Chains
  <2>3. Len(c \o d) = 0 <=> Len(c) = 0 /\ Len(d) = 0
    BY <2>1
  <2> QED BY <2>1, <2>2, <2>3
<1> QED BY <1>1, ConcatTargets, ConcatLabels, ConcatChains

\* A jump is the only node that goes anywhere, a label the only one to go to.
LEMMA One ==
  /\ \A op \in JumpOps, l \in Labels :
       /\ <<Jump(op, l)>> \in Chains
       /\ TargetsOf(<<Jump(op, l)>>) = {l} /\ LabelsOf(<<Jump(op, l)>>) = {}
  /\ \A l \in Labels :
       /\ <<Label(l)>> \in Chains
       /\ TargetsOf(<<Label(l)>>) = {} /\ LabelsOf(<<Label(l)>>) = {l}
  /\ \A i \in Instructions : ~IsJump(i) => TargetsOf(<<i>>) = {}
<1>1. ASSUME NEW i \in Instructions
      PROVE  TargetsOf(<<i>>) = IF IsJump(i) THEN {i.label} ELSE {}
  BY DEF TargetsOf
<1>2. ASSUME NEW op \in JumpOps, NEW l \in Labels
      PROVE  Jump(op, l) \in Instructions /\ IsJump(Jump(op, l)) /\ ~IsLabel(Jump(op, l))
             /\ Jump(op, l).label = l
  BY InstructionTypes DEF Jump, IsJump
<1>3. ASSUME NEW l \in Labels
      PROVE  Label(l) \in Instructions /\ ~IsJump(Label(l)) /\ IsLabel(Label(l))
             /\ Label(l).label = l
  BY InstructionTypes DEF Label, IsJump, JumpOps
<1> QED BY <1>1, <1>2, <1>3, Singleton

\* A pair of nodes is the splice of two.
LEMMA PairIsSplice ==
  ASSUME NEW i \in Instructions, NEW j \in Instructions
  PROVE  <<i, j>> = <<i>> \o <<j>>
<1> DEFINE p == <<i, j>>
           q == <<i>> \o <<j>>
<1>1. p \in Seq(Instructions) /\ Len(p) = 2 /\ p[1] = i /\ p[2] = j
  OBVIOUS
<1>2. q \in Seq(Instructions) /\ Len(q) = 2 /\ q[1] = i /\ q[2] = j
  BY Singleton, ConcatProperties DEF Chains
<1> HIDE DEF p, q
<1>3. p = q
  BY <1>1, <1>2, SeqEqual
<1> QED BY <1>3 DEF p, q

\* A jump next to a label.
LEMMA JumpsAndLabel ==
  ASSUME NEW op \in JumpOps, NEW l \in Labels, NEW k \in Labels
  PROVE  /\ JumpThenLabel(op, l, k) \in Chains
         /\ TargetsOf(JumpThenLabel(op, l, k)) = {l} /\ LabelsOf(JumpThenLabel(op, l, k)) = {k}
         /\ LabelThenJump(k, op, l) \in Chains
         /\ TargetsOf(LabelThenJump(k, op, l)) = {l} /\ LabelsOf(LabelThenJump(k, op, l)) = {k}
<1>1. Jump(op, l) \in Instructions /\ Label(k) \in Instructions
  BY InstructionTypes
<1>2. /\ JumpThenLabel(op, l, k) = <<Jump(op, l)>> \o <<Label(k)>>
      /\ LabelThenJump(k, op, l) = <<Label(k)>> \o <<Jump(op, l)>>
  BY <1>1, PairIsSplice DEF JumpThenLabel, LabelThenJump
<1> QED BY <1>2, One, Spliced

\* Leaf statements jump nowhere, and only the null pointer yields no node.
LEMMA LeafJumps ==
  ASSUME NEW s \in Stmts
  PROVE  Closed(LeafCode(s)) /\ (LeafCode(s) = << >> <=> s.kind = "null")
<1>1. s.name \in Names
  BY StmtsAssumption DEF StmtOK
<1>2. \A op \in VarOps : ~IsJump(OnVar(op, s.name))
  BY DEF OnVar, IsJump, VarOps, JumpOps
<1>3. /\ \A k \in DOMAIN LeafCode(s) : ~IsJump(LeafCode(s)[k])
      /\ LeafCode(s) = << >> <=> s.kind = "null"
  <2>1. CASE s.kind = "null"   BY <2>1 DEF LeafCode
  <2>2. CASE s.kind = "decl"   BY <2>2, <1>2 DEF LeafCode, VarOps
  <2>3. CASE s.kind = "unused" BY <2>3, <1>2 DEF LeafCode, VarOps
  <2>4. CASE s.kind = "assign"
    <3>1. LeafCode(s) = AssignCode(s.flag, s.name)
      BY <2>4 DEF LeafCode
    <3>2. CASE s.flag  BY <2>4, <3>1, <3>2, <1>2 DEF AssignCode, VarOps
    <3>3. CASE ~s.flag BY <2>4, <3>1, <3>3, <1>2 DEF AssignCode, VarOps
    <3> QED BY <3>2, <3>3
  <2>5. CASE s.kind \notin {"null", "decl", "unused", "assign"}
    <3>1. LeafCode(s) = <<OnVar("NOP", s.name)>>
      BY <2>5 DEF LeafCode
    <3> QED BY <2>5, <3>1, <1>2 DEF VarOps
  <2> QED BY <2>1, <2>2, <2>3, <2>4, <2>5
<1> QED BY <1>3 DEF Closed, TargetsOf

\* An if jumps to its own labels, which it places unless it has an else node
\* and no then node.
LEMMA IfJumps ==
  ASSUME NEW negated, NEW id \in Nat, NEW then \in Chains, NEW else \in Chains,
         Closed(then), Closed(else), then = << >> => else = << >>
  PROVE  /\ Closed(IfCode(negated, id, then, else))
         /\ IfCode(negated, id, then, else) # << >>
<1> DEFINE op     == IF negated THEN "JUMP_IF_TRUE" ELSE "JUMP_IF_FALSE"
           toElse == <<"ifelse", id>>
           toEnd  == <<"ifend", id>>
           jElse  == <<Jump(op, toElse)>>
           jEnd   == <<Jump(op, toEnd)>>
           mid    == JumpThenLabel("JUMP", toEnd, toElse)
           end    == <<Label(toEnd)>>
<1>1. op \in JumpOps /\ "JUMP" \in JumpOps /\ toElse \in Labels /\ toEnd \in Labels
  BY DEF JumpOps, Labels
<1>2. IfCode(negated, id, then, else) =
        IF then = << >> THEN jEnd \o end
        ELSE IF else = << >> THEN (jEnd \o then) \o end
             ELSE (((jElse \o then) \o mid) \o else) \o end
  BY DEF IfCode, JumpThenLabel
<1> HIDE DEF op, toElse, toEnd
<1>3. /\ jElse \in Chains /\ TargetsOf(jElse) = {toElse} /\ LabelsOf(jElse) = {}
      /\ jEnd \in Chains /\ TargetsOf(jEnd) = {toEnd} /\ LabelsOf(jEnd) = {}
      /\ end \in Chains /\ TargetsOf(end) = {} /\ LabelsOf(end) = {toEnd}
      /\ end # << >>
  BY <1>1, One
<1>4. mid \in Chains /\ TargetsOf(mid) = {toEnd} /\ LabelsOf(mid) = {toElse}
  BY <1>1, JumpsAndLabel
<1> HIDE DEF jElse, jEnd, mid, end
<1> DEFINE A == jEnd \o then
           B == jElse \o then
           C == B \o mid
           D == C \o else
<1>5. A \in Chains /\ TargetsOf(A) = {toEnd} \cup TargetsOf(then) /\ LabelsOf(A) = LabelsOf(then)
  <2>1. /\ A \in Chains /\ TargetsOf(A) = TargetsOf(jEnd) \cup TargetsOf(then)
        /\ LabelsOf(A) = LabelsOf(jEnd) \cup LabelsOf(then)
    BY <1>3, Spliced
  <2> QED BY <1>3, <2>1
<1>6. B \in Chains /\ TargetsOf(B) = {toElse} \cup TargetsOf(then) /\ LabelsOf(B) = LabelsOf(then)
  <2>1. /\ B \in Chains /\ TargetsOf(B) = TargetsOf(jElse) \cup TargetsOf(then)
        /\ LabelsOf(B) = LabelsOf(jElse) \cup LabelsOf(then)
    BY <1>3, Spliced
  <2> QED BY <1>3, <2>1
<1> HIDE DEF A, B
<1>7. /\ C \in Chains /\ TargetsOf(C) = {toElse, toEnd} \cup TargetsOf(then)
      /\ LabelsOf(C) = LabelsOf(then) \cup {toElse}
  BY <1>4, <1>6, Spliced
<1> HIDE DEF C
<1>8. /\ D \in Chains /\ TargetsOf(D) = {toElse, toEnd} \cup TargetsOf(then) \cup TargetsOf(else)
      /\ LabelsOf(D) = LabelsOf(then) \cup {toElse} \cup LabelsOf(else)
  BY <1>7, Spliced
<1> HIDE DEF D
<1>9. Closed(jEnd \o end) /\ jEnd \o end # << >>
  BY <1>3, Spliced DEF Closed
<1>10. Closed(A \o end) /\ A \o end # << >>
  BY <1>3, <1>5, Spliced DEF Closed
<1>11. Closed(D \o end) /\ D \o end # << >>
  BY <1>3, <1>8, Spliced DEF Closed
<1>12. IfCode(negated, id, then, else) \in {jEnd \o end, A \o end, D \o end}
  BY <1>2 DEF A, B, C, D
<1> QED BY <1>9, <1>10, <1>11, <1>12

\* A while jumps to its start and its end.
LEMMA WhileJumps ==
  ASSUME NEW id \in Nat, NEW body \in Chains, Closed(body)
  PROVE  Closed(WhileCode(id, body))
<1> DEFINE toTest == <<"while_start", id>>
           toExit == <<"while_end", id>>
           test   == LabelThenJump(toTest, "JUMP_IF_FALSE", toExit)
           back   == JumpThenLabel("JUMP", toTest, toExit)
           stop   == <<Label(toExit)>>
<1>1. /\ toTest \in Labels /\ toExit \in Labels
      /\ "JUMP" \in JumpOps /\ "JUMP_IF_FALSE" \in JumpOps
  BY DEF JumpOps, Labels
<1>2. WhileCode(id, body) = IF body = << >> THEN test \o stop ELSE (test \o body) \o back
  BY DEF WhileCode, JumpThenLabel, LabelThenJump
<1> HIDE DEF toTest, toExit
<1>3. /\ test \in Chains /\ TargetsOf(test) = {toExit} /\ LabelsOf(test) = {toTest}
      /\ back \in Chains /\ TargetsOf(back) = {toTest} /\ LabelsOf(back) = {toExit}
      /\ stop \in Chains /\ TargetsOf(stop) = {} /\ LabelsOf(stop) = {toExit}
  BY <1>1, JumpsAndLabel, One
<1> HIDE DEF test, back, stop
<1>4. Closed(test \o stop)
  BY <1>3, Spliced DEF Closed
<1> DEFINE A == test \o body
<1>5. /\ A \in Chains /\ TargetsOf(A) = {toExit} \cup TargetsOf(body)
      /\ LabelsOf(A) = {toTest} \cup LabelsOf(body)
  BY <1>3, Spliced
<1> HIDE DEF A
<1>6. Closed(A \o back)
  BY <1>3, <1>5, Spliced DEF Closed
<1> QED BY <1>2, <1>4, <1>6 DEF A

\* Bracketing with instructions that are no jumps and no labels.
LEMMA BracketJumps ==
  ASSUME NEW i \in Instructions, NEW j \in Instructions, ~IsLabel(i), ~IsLabel(j),
         ~IsJump(i), ~IsJump(j), NEW body \in Chains, Closed(body)
  PROVE  Closed((<<i>> \o body) \o <<j>>) /\ ~IsJump(((<<i>> \o body) \o <<j>>)[1])
<1> DEFINE a == <<i>>
           b == <<j>>
<1>1. /\ a \in Chains /\ LabelsOf(a) = {} /\ TargetsOf(a) = {} /\ Len(a) = 1 /\ a[1] = i
      /\ b \in Chains /\ LabelsOf(b) = {} /\ TargetsOf(b) = {}
  BY Singleton, One
<1> HIDE DEF a, b
<1> DEFINE A == a \o body
<1>2. A \in Chains /\ LabelsOf(A) = LabelsOf(body) /\ TargetsOf(A) = TargetsOf(body)
  <2>1. /\ A \in Chains /\ LabelsOf(A) = LabelsOf(a) \cup LabelsOf(body)
        /\ TargetsOf(A) = TargetsOf(a) \cup TargetsOf(body)
    BY <1>1, Spliced
  <2> QED BY <1>1, <2>1
<1>3. Len(A) = 1 + Len(body) /\ A[1] = i /\ Len(body) \in Nat
  <2>1. Len(A) = Len(a) + Len(body) /\ \A k \in 1 .. Len(a) : A[k] = a[k]
    BY <1>1, ConcatChains
  <2>2. Len(body) \in Nat
    BY DEF Chains
  <2> HIDE DEF A
  <2> QED BY <1>1, <2>1, <2>2
<1> HIDE DEF A
<1>4. Closed(A \o b)
  BY <1>1, <1>2, Spliced DEF Closed
<1>5. (A \o b)[1] = i
  <2>1. 1 \in 1 .. Len(A)
    BY <1>3
  <2> QED BY <1>1, <1>2, <1>3, <2>1, ConcatChains
<1> QED BY <1>4, <1>5 DEF A, a, b

\* Merging the label at k into the one behind it.  Every jump is at or behind
\* the root, so none keeps the deleted name.
LEMMA MergeJumps ==
  ASSUME NEW c \in Chains, NEW root \in Nat, NEW k \in 1 .. Len(c), k + 1 \in 1 .. Len(c),
         IsLabel(c[k]), IsLabel(c[k + 1]), Closed(c),
         \A i \in 1 .. Len(c) : IsJump(c[i]) => i >= root
  PROVE  /\ Closed(Merged(c, root, k))
         /\ k > 1 => (IsJump(Merged(c, root, k)[1]) => IsJump(c[1]))
<1> DEFINE old   == c[k].label
           new   == c[k + 1].label
           d     == ChangeAllLabelReferences(c, root, old, new)
           at(i) == IF i < k THEN i ELSE i + 1
           e     == Unlink(d, k)
<1>1. old \in Labels /\ new \in Labels
  BY LabelOfLabel
<1>2. d \in Chains /\ Len(d) = Len(c)
  BY <1>1, ChangeAllOK
<1>3. DOMAIN c = 1 .. Len(c) /\ DOMAIN d = 1 .. Len(c) /\ Len(c) \in Nat
  BY <1>2 DEF Chains
<1>4. ASSUME NEW i \in 1 .. Len(c)
      PROVE  /\ IsLabel(c[i]) => d[i] = c[i]
             /\ IsJump(d[i]) <=> IsJump(c[i])
             /\ IsJump(c[i]) => d[i].label = IF c[i].label = old THEN new ELSE c[i].label
  <2>1. d[i] = IF i >= root /\ IsJump(c[i]) /\ c[i].label = old
               THEN Jump(c[i].op, new) ELSE c[i]
    BY <1>3 DEF ChangeAllLabelReferences
  <2>2. IsLabel(c[i]) => ~IsJump(c[i])
    BY DEF IsLabel, IsJump, JumpOps
  <2>3. IsJump(c[i]) => IsJump(Jump(c[i].op, new)) /\ Jump(c[i].op, new).label = new
    BY DEF Jump, IsJump
  <2> HIDE DEF d, old, new
  <2> QED BY <2>1, <2>2, <2>3
<1>5. Merged(c, root, k) = e
  BY DEF Merged
<1> HIDE DEF d
<1>6. e \in Chains /\ Len(e) = Len(c) - 1
  BY <1>2, UnlinkOK
<1>7. \A i \in 1 .. Len(c) - 1 : e[i] = d[at(i)] /\ at(i) \in 1 .. Len(c)
  BY <1>2, <1>3 DEF Unlink
<1>8. DOMAIN e = 1 .. Len(c) - 1
  BY <1>6 DEF Chains
<1> HIDE DEF e
\* A label other than the one at k is still there.
<1>9. ASSUME NEW j \in 1 .. Len(c), j # k, IsLabel(c[j])
      PROVE  c[j].label \in LabelsOf(e)
  <2>1. PICK i \in 1 .. Len(c) - 1 : at(i) = j
    <3>1. CASE j < k
      <4>1. j \in 1 .. Len(c) - 1 /\ at(j) = j
        BY <1>3, <3>1
      <4> QED BY <4>1
    <3>2. CASE j > k
      <4>1. j - 1 \in 1 .. Len(c) - 1 /\ at(j - 1) = j
        BY <1>3, <3>2
      <4> QED BY <4>1
    <3> QED BY <1>3, <1>9, <3>1, <3>2
  <2>2. e[i] = c[j]
    BY <1>4, <1>7, <1>9, <2>1
  <2> QED BY <1>8, <1>9, <2>2 DEF LabelsOf
<1>10. ASSUME NEW i \in DOMAIN e, IsJump(e[i])
       PROVE  e[i].label \in LabelsOf(e)
  <2> DEFINE j == at(i)
  <2>1. j \in 1 .. Len(c) /\ e[i] = d[j]
    BY <1>7, <1>8
  <2> HIDE DEF j
  <2>2. IsJump(c[j]) /\ e[i].label = IF c[j].label = old THEN new ELSE c[j].label
    BY <1>4, <1>10, <2>1
  <2>3. c[j].label \in LabelsOf(c)
    BY <1>3, <2>1, <2>2 DEF Closed, TargetsOf
  <2>4. PICK m \in 1 .. Len(c) : IsLabel(c[m]) /\ c[m].label = c[j].label
    BY <1>3, <2>3 DEF LabelsOf
  <2>5. CASE c[j].label = old
    BY <1>3, <1>9, <2>2, <2>5
  <2>6. CASE c[j].label # old
    <3>1. m # k
      BY <2>4, <2>6
    <3> QED BY <1>9, <2>2, <2>4, <2>6, <3>1
  <2> QED BY <2>5, <2>6
<1>11. k > 1 => (IsJump(e[1]) => IsJump(c[1]))
  <2> SUFFICES ASSUME k > 1 PROVE IsJump(e[1]) => IsJump(c[1])
    OBVIOUS
  <2>1. 1 \in 1 .. Len(c) - 1 /\ at(1) = 1 /\ 1 \in 1 .. Len(c)
    BY <1>3
  <2> QED BY <1>4, <1>7, <2>1
<1> QED BY <1>5, <1>10, <1>11 DEF Closed, TargetsOf

-----------------------------------------------------------------------------
(* The invariant.                                                          *)

\* A caller that receives the code of its next kid.
LEMMA ReceivedJumps ==
  ASSUME NEW f \in FrameType, JumpsOK(f), f.cur = 0, f.todo # << >>,
         NEW c \in Chains, Closed(c), c = << >> <=> Head(f.todo).kind = "null"
  PROVE  JumpsOK(Received(f, c))
<1> DEFINE s == SlotOf(f)
           g == Received(f, c)
<1>1. /\ s \in {1, 2} /\ g.kind = f.kind /\ g.cur = 0 /\ g.todo = Tail(f.todo)
      /\ g.slots[s] = f.slots[s] \o c
      /\ \A t \in {1, 2} \ {s} : g.slots[t] = f.slots[t]
  BY ReceivedOK
<1>2. f.slots[1] \in Chains /\ f.slots[2] \in Chains /\ f.todo \in Seq(Stmts)
  BY DEF FrameType
<1>s. s = IF f.kind = "if" /\ Len(f.todo) = 1 THEN 2 ELSE 1
  BY DEF SlotOf
<1> HIDE DEF s, g
<1>3. \A t \in {1, 2} : Closed(g.slots[t])
  <2>1. Closed(f.slots[s] \o c)
    <3>1. f.slots[s] \in Chains /\ Closed(f.slots[s])
      BY <1>1, <1>2 DEF JumpsOK
    <3> QED BY <3>1, Spliced DEF Closed
  <2>2. \A t \in {1, 2} \ {s} : Closed(g.slots[t])
    BY <1>1 DEF JumpsOK
  <2> QED BY <1>1, <2>1, <2>2
<1>4. ASSUME f.kind = "if"
      PROVE  BranchesOK(g)
  <2>1. BranchesOK(f)
    BY <1>4 DEF JumpsOK
  <2>2. /\ Len(f.todo) \in 1 .. 2 /\ Len(g.todo) = Len(f.todo) - 1
        /\ c = << >> <=> f.todo[1].kind = "null"
        /\ Len(f.todo) = 2 => g.todo[1] = f.todo[2]
    <3>1. \A q \in Seq(Stmts) : q # << >> =>
             /\ Len(q) \in Nat /\ Len(q) > 0 /\ Len(Tail(q)) = Len(q) - 1 /\ Head(q) = q[1]
             /\ Len(q) = 2 => Tail(q)[1] = q[2]
      OBVIOUS
    <3> DEFINE q == f.todo
    <3>2. Len(q) <= 2
      BY <2>1 DEF BranchesOK
    <3>3. q \in Seq(Stmts) /\ q # << >> /\ g.todo = Tail(q)
      BY <1>1, <1>2
    <3>4. Head(q).kind = "null" <=> c = << >>
      OBVIOUS
    <3> HIDE DEF q
    <3>5. /\ Len(q) \in Nat /\ Len(q) > 0 /\ Len(Tail(q)) = Len(q) - 1 /\ Head(q) = q[1]
          /\ Len(q) = 2 => Tail(q)[1] = q[2]
      BY <3>1, <3>3
    <3>6. Len(q) \in 1 .. 2 /\ Len(g.todo) = Len(q) - 1
      BY <3>2, <3>3, <3>5
    <3>7. c = << >> <=> q[1].kind = "null"
      BY <3>4, <3>5
    <3> QED BY <3>3, <3>5, <3>6, <3>7 DEF q
  <2>3. CASE Len(f.todo) = 2
    <3>1. s = 1 /\ g.slots[2] = << >> /\ Len(g.todo) = 1 /\ g.todo[1] = f.todo[2]
      BY <1>1, <1>2, <1>s, <2>1, <2>2, <2>3 DEF BranchesOK
    <3>2. g.slots[1] = << >> => c = << >>
      BY <1>1, <1>2, <3>1, Spliced
    <3>3. f.todo[1].kind = "null" => f.todo[2].kind = "null"
      BY <2>1, <2>3 DEF BranchesOK
    <3>4. g.slots[1] = << >> => g.todo[1].kind = "null"
      BY <2>2, <3>1, <3>2, <3>3
    <3> QED BY <3>1, <3>4 DEF BranchesOK
  <2>4. CASE Len(f.todo) = 1
    <3>1. s = 2 /\ g.slots[1] = f.slots[1] /\ f.slots[2] = << >> /\ Len(g.todo) = 0
      BY <1>1, <1>4, <1>s, <2>1, <2>2, <2>4 DEF BranchesOK
    <3>2. g.slots[1] = << >> => f.todo[1].kind = "null"
      BY <2>1, <2>4, <3>1 DEF BranchesOK
    <3>3. c = << >> => g.slots[2] = << >>
      BY <1>1, <1>2, <3>1, Spliced
    <3>4. g.slots[1] = << >> => g.slots[2] = << >>
      BY <2>2, <3>2, <3>3
    <3> QED BY <3>1, <3>4 DEF BranchesOK
  <2> QED BY <2>2, <2>3, <2>4
<1> QED BY <1>1, <1>3, <1>4 DEF JumpsOK, g

\* It holds initially.
LEMMA JumpInit == Init => JumpInv
<1> SUFFICES ASSUME Init PROVE JumpInv
  OBVIOUS
<1>1. /\ Len(stack) = 1 /\ DOMAIN stack = {1} /\ stack[1].cur = 0 /\ stack[1].kind = "file"
      /\ stack[1].slots[1] = << >> /\ stack[1].slots[2] = << >> /\ prog = << >>
  BY DEF Init, Frame
<1>2. Closed(<< >>)
  BY DEF Closed, TargetsOf
<1> QED BY <1>1, <1>2, ScanInit DEF JumpInv, JumpsOK, WaitingOK

\* The chain of the innermost activation, and where its scan may merge.
LEMMA TopJumps ==
  ASSUME JumpInv
  PROVE  /\ stack \in Frames /\ Len(stack) \in Nat /\ Len(stack) > 0
         /\ DOMAIN stack = 1 .. Len(stack) /\ Top = stack[Len(stack)] /\ Top \in FrameType
         /\ Top.slots[1] \in Chains /\ Top.slots[2] \in Chains
         /\ Top.cur \in Nat /\ Top.id \in Nat /\ Top.scope \in Nat
         /\ Closed(Top.slots[1]) /\ Closed(Top.slots[2]) /\ JumpsOK(Top)
<1>1. TypeInv
  BY DEF JumpInv, ScanInv
<1>2. /\ stack \in Frames /\ Len(stack) \in Nat /\ Len(stack) > 0
      /\ DOMAIN stack = 1 .. Len(stack) /\ Top = stack[Len(stack)] /\ Top \in FrameType
  BY <1>1, StackOK
<1>3. JumpsOK(Top)
  <2>1. Len(stack) \in DOMAIN stack
    BY <1>2
  <2> QED BY <1>2, <2>1 DEF JumpInv
<1>4. /\ Top.slots[1] \in Chains /\ Top.slots[2] \in Chains
      /\ Top.cur \in Nat /\ Top.id \in Nat /\ Top.scope \in Nat
  BY <1>2 DEF FrameType
<1> QED BY <1>2, <1>3, <1>4 DEF JumpsOK

\* MergeLabel keeps the chain closed.
LEMMA MergeTop ==
  ASSUME JumpInv, MergeLabel
  PROVE  LET e == Merged(Top.slots[1], Root(Top), Top.cur)
         IN  e \in Chains /\ Rewrite(e, Top.cur) /\ JumpsOK(Rewritten(Top, e, Top.cur))
<1> DEFINE c == Top.slots[1]
           k == Top.cur
           e == Merged(c, Root(Top), k)
<1>1. /\ Top \in FrameType /\ c \in Chains /\ k \in Nat /\ Root(Top) \in Nat
      /\ JumpsOK(Top) /\ Closed(c)
  BY TopJumps DEF Root
<1>2. /\ k > 0 /\ k < Len(c) /\ IsLabel(c[k]) /\ IsLabel(c[k + 1]) /\ Rewrite(e, k)
  BY DEF MergeLabel, Scanning, TwoLabels, Merged
<1>3. k > Root(Top)
  BY MergeBehindRoot DEF JumpInv
<1>4. \A i \in 1 .. Len(c) : IsJump(c[i]) => i >= Root(Top)
  BY <1>1, <1>2 DEF JumpsOK, Root
<1>5. Len(c) \in Nat
  BY <1>1 DEF Chains
<1> HIDE DEF c, k
<1>6. k \in 1 .. Len(c) /\ k + 1 \in 1 .. Len(c)
  BY <1>1, <1>2, <1>5
<1>7. e \in Chains
  BY <1>1, <1>2, <1>6, MergedOK
<1>8. Closed(e) /\ (k > 1 => (IsJump(e[1]) => IsJump(c[1])))
  BY <1>1, <1>2, <1>4, <1>6, MergeJumps
<1> HIDE DEF e
<1>9. Top.kind = "block" => ~IsJump(e[1])
  <2>1. Top.kind = "block" => Root(Top) = 2 /\ ~IsJump(c[1])
    BY <1>1, <1>2 DEF JumpsOK, Root, c, k
  <2> QED BY <1>1, <1>3, <1>8, <2>1
<1>10. /\ Rewritten(Top, e, k).kind = Top.kind /\ Rewritten(Top, e, k).cur = k
       /\ Rewritten(Top, e, k).slots[1] = e
       /\ Rewritten(Top, e, k).slots[2] = Top.slots[2]
  BY <1>1, <1>7, RewrittenOK
<1>11. Top.kind # "if"
  <2>1. Top.cur > 0 /\ Len(stack) \in DOMAIN stack /\ Top = stack[Len(stack)]
    BY <1>2, TopJumps DEF k
  <2> QED BY <2>1 DEF JumpInv, ScanInv, TypeInv, Shape
<1>12. Closed(Top.slots[2])
  BY TopJumps
<1>13. JumpsOK(Rewritten(Top, e, k))
  BY <1>8, <1>9, <1>10, <1>11, <1>12 DEF JumpsOK
<1> QED BY <1>2, <1>7, <1>13 DEF c, k, e

\* Any other rewriting of the code of a block or a while.
LEMMA RewriteTop ==
  ASSUME JumpInv, Top.kind \in {"block", "while"}, NEW c \in Chains, Closed(c), NEW k \in Nat,
         Top.kind = "block" => ~IsJump(c[1])
  PROVE  JumpsOK(Rewritten(Top, c, k))
<1>1. /\ Rewritten(Top, c, k).kind = Top.kind /\ Rewritten(Top, c, k).slots[1] = c
      /\ Rewritten(Top, c, k).slots[2] = Top.slots[2]
  <2>1. Top \in FrameType
    BY TopJumps
  <2> QED BY <2>1, RewrittenOK
<1>2. Closed(Top.slots[2])
  BY TopJumps
<1> QED BY <1>1, <1>2 DEF JumpsOK

\* Every action keeps the invariant, one step per action.
LEMMA JumpStep == ElseHasThen /\ JumpInv /\ [Next]_vars => JumpInv'
<1> SUFFICES ASSUME ElseHasThen, JumpInv, [Next]_vars PROVE JumpInv'
  OBVIOUS
<1>t. ScanInv /\ ScanInv' /\ TypeInv
  BY ScanStep DEF JumpInv, ScanInv
<1>s. /\ stack \in Frames /\ Len(stack) \in Nat /\ Len(stack) > 0
      /\ DOMAIN stack = 1 .. Len(stack) /\ Top = stack[Len(stack)] /\ Top \in FrameType
  BY TopJumps
<1>c. /\ Top.slots[1] \in Chains /\ Top.slots[2] \in Chains
      /\ Top.cur \in Nat /\ Top.id \in Nat /\ Top.scope \in Nat
      /\ Closed(Top.slots[1]) /\ Closed(Top.slots[2]) /\ JumpsOK(Top)
  BY TopJumps
<1>j. /\ \A f \in 1 .. Len(stack) : JumpsOK(stack[f])
      /\ \A f \in 1 .. Len(stack) - 1 : Head(stack[f].todo).kind # "null"
      /\ Closed(prog)
  <2>1. \A f \in 1 .. Len(stack) - 1 : f \in DOMAIN stack /\ f < Len(stack)
    BY <1>s
  <2> QED BY <1>s, <2>1 DEF JumpInv, WaitingOK
<1>d. Top.todo # << >> => Top.cur = 0
  BY <1>t, <1>s DEF TypeInv, Shape, FrameType
\* How the frames of the next stack make the invariant.
<1>n. ASSUME NEW n \in Nat, DOMAIN stack' = 1 .. n, Len(stack') = n,
             \A f \in 1 .. n : JumpsOK(stack'[f]),
             \A f \in 1 .. n - 1 : Head(stack'[f].todo).kind # "null",
             Closed(prog')
      PROVE  JumpInv'
  <2>1. \A f \in 1 .. n : f < n => f \in 1 .. n - 1
    BY <1>n
  <2> QED BY <1>t, <1>n, <2>1 DEF JumpInv, WaitingOK
\* How an action that replaces the innermost frame is dealt with.
<1>r. ASSUME NEW g, JumpsOK(g), stack' \in Frames, Len(stack') = Len(stack), prog' = prog,
             \A i \in 1 .. Len(stack) - 1 : stack'[i] = stack[i], stack'[Len(stack)] = g
      PROVE  JumpInv'
  <2>1. DOMAIN stack' = 1 .. Len(stack)
    BY <1>r DEF Frames
  <2>2. \A f \in 1 .. Len(stack) : f # Len(stack) => f \in 1 .. Len(stack) - 1
    BY <1>s, LastOf
  <2>3. \A f \in 1 .. Len(stack) : JumpsOK(stack'[f])
    BY <1>j, <1>r, <2>2
  <2> QED BY <1>j, <1>n, <1>r, <1>s, <2>1, <2>3
\* How an action that starts an activation is dealt with.
<1>e. ASSUME NEW g \in FrameType, JumpsOK(g), stack' = Append(stack, g), prog' = prog,
             Head(Top.todo).kind # "null"
      PROVE  JumpInv'
  <2>1. /\ stack' \in Frames /\ Len(stack') = Len(stack) + 1 /\ stack'[Len(stack) + 1] = g
        /\ \A i \in 1 .. Len(stack) : stack'[i] = stack[i]
    BY <1>e, <1>s, PushOK
  <2>2. DOMAIN stack' = 1 .. Len(stack) + 1 /\ Len(stack) + 1 \in Nat
    BY <1>s, <2>1 DEF Frames
  <2>3. \A f \in 1 .. Len(stack) + 1 : f \in 1 .. Len(stack) \/ f = Len(stack) + 1
    BY <1>s
  <2>4. \A f \in 1 .. (Len(stack) + 1) - 1 :
           f \in 1 .. Len(stack) /\ (f # Len(stack) => f \in 1 .. Len(stack) - 1)
    <3>1. (Len(stack) + 1) - 1 = Len(stack)
      BY <1>s
    <3> QED BY <1>s, <3>1, LastOf
  <2>5. \A f \in 1 .. Len(stack) + 1 : JumpsOK(stack'[f])
    BY <1>e, <1>j, <2>1, <2>3
  <2>6. \A f \in 1 .. (Len(stack) + 1) - 1 : Head(stack'[f].todo).kind # "null"
    BY <1>e, <1>j, <1>s, <2>1, <2>4
  <2> QED BY <1>e, <1>j, <1>n, <2>1, <2>2, <2>5, <2>6
\* How an action that ends an activation is dealt with.
<1>p. ASSUME NEW c \in Chains, Closed(c), c # << >>, Top.kind # "file",
             stack' = Deliver(Under, c), prog' = prog
      PROVE  JumpInv'
  <2> DEFINE n == Len(stack) - 1
  <2>1. /\ stack' \in Seq(FrameType) /\ Len(stack') = n
        /\ \A i \in 1 .. Len(stack) - 2 : stack'[i] = stack[i]
        /\ stack'[n] = Received(stack[n], c)
        /\ stack[n].todo # << >>
    BY <1>t, <1>p, PopKeepsType
  <2>2. n \in Nat /\ n > 0 /\ n \in 1 .. Len(stack) /\ n \in 1 .. Len(stack) - 1
        /\ n - 1 = Len(stack) - 2
    BY <1>p, <1>s, <1>t DEF TypeInv, Shape
  <2>3. DOMAIN stack' = 1 .. n
    BY <2>1
  <2>4. stack[n] \in FrameType /\ JumpsOK(stack[n]) /\ Head(stack[n].todo).kind # "null"
    BY <1>j, <1>s, <2>2 DEF Frames
  <2>5. stack[n].cur = 0
    <3>1. n \in DOMAIN stack /\ stack[n].todo # << >>
      BY <1>s, <2>1, <2>2
    <3>2. ~(stack[n].cur > 0)
      BY <1>t, <3>1 DEF TypeInv, Shape
    <3>3. stack[n].cur \in Nat
      BY <2>4 DEF FrameType
    <3> QED BY <3>2, <3>3
  <2>6. JumpsOK(Received(stack[n], c))
    BY <1>p, <2>1, <2>4, <2>5, ReceivedJumps
  <2>7. \A f \in 1 .. n - 1 : f \in 1 .. Len(stack) - 1 /\ f \in 1 .. Len(stack)
    BY <1>s
  <2>8. \A f \in 1 .. n : f # n => f \in 1 .. n - 1
    BY <2>2, LastOf
  <2> HIDE DEF n
  <2>9. \A f \in 1 .. n : JumpsOK(stack'[f])
    BY <1>j, <2>1, <2>2, <2>6, <2>7, <2>8
  <2>10. \A f \in 1 .. n - 1 : Head(stack'[f].todo).kind # "null"
    BY <1>j, <2>1, <2>2, <2>7
  <2> QED BY <1>j, <1>n, <1>p, <2>1, <2>2, <2>3, <2>9, <2>10
<1>1. CASE ConvertLeaf
  <2> DEFINE c == LeafCode(Head(Top.todo))
  <2>1. Top.todo # << >> /\ Head(Top.todo) \in Stmts
    BY <1>1, <1>t, KidsOK DEF ConvertLeaf, Pending
  <2>2. c \in Chains /\ Closed(c) /\ (c = << >> <=> Head(Top.todo).kind = "null")
    BY <2>1, LeafCodeOK, LeafJumps
  <2>3. stack' = Deliver(stack, c) /\ prog' = prog
    BY <1>1 DEF ConvertLeaf
  <2> HIDE DEF c
  <2>4. JumpsOK(Received(Top, c))
    BY <1>c, <1>d, <1>s, <2>1, <2>2, ReceivedJumps
  <2>5. /\ stack' \in Frames /\ Len(stack') = Len(stack)
        /\ \A i \in 1 .. Len(stack) - 1 : stack'[i] = stack[i]
        /\ stack'[Len(stack)] = Received(Top, c)
    BY <1>s, <2>1, <2>2, <2>3, DeliverOK
  <2> QED BY <1>r, <2>3, <2>4, <2>5
<1>2. CASE ThrowUnsupported
  <2>1. stack' = stack /\ prog' = prog
    BY <1>2 DEF ThrowUnsupported
  <2> QED BY <1>c, <1>r, <1>s, <2>1
<1>3. CASE EnterBlock
  <2> DEFINE g == Frame("block", FALSE, Head(Top.todo).kids, 0, currentScope + 1)
  <2>1. stack' = Append(stack, g) /\ prog' = prog /\ Head(Top.todo).kind # "null"
    BY <1>3 DEF EnterBlock, Pending
  <2>2. g \in FrameType
    <3>1. Head(Top.todo).kids \in Seq(Stmts)
      BY <1>3, <1>t, KidsOK DEF EnterBlock, Pending
    <3>2. "block" \in CompoundKinds \cup {"file"} /\ currentScope + 1 \in Nat /\ 0 \in Nat
      BY <1>t DEF CompoundKinds, TypeInv, TypeOK
    <3> QED BY <3>1, <3>2, FrameOK
  <2>3. JumpsOK(g)
    BY DEF Frame, JumpsOK, Closed, TargetsOf
  <2> QED BY <1>e, <2>1, <2>2, <2>3
<1>4. CASE EnterIf
  <2> DEFINE s == Head(Top.todo)
             g == Frame("if", s.flag, s.kids, idmap["default"], 0)
  <2>1. stack' = Append(stack, g) /\ prog' = prog /\ s.kind = "if" /\ Top.todo # << >>
    BY <1>4 DEF EnterIf, Pending
  <2>2. s \in Stmts /\ s.kids \in Seq(Stmts) /\ s.flag \in BOOLEAN
    BY <1>t, <2>1, KidsOK
  <2>3. g \in FrameType
    <3>1. "if" \in CompoundKinds \cup {"file"} /\ idmap["default"] \in Nat /\ 0 \in Nat
      BY <1>t DEF CompoundKinds, Counters, TypeInv, TypeOK
    <3> QED BY <2>2, <3>1, FrameOK
  <2>4. Len(s.kids) = 2 /\ (s.kids[1].kind = "null" => s.kids[2].kind = "null")
    BY <2>1, <2>2, StmtsAssumption DEF StmtOK, ElseHasThen
  <2>5. /\ g.kind = "if" /\ g.cur = 0 /\ g.todo = s.kids
        /\ g.slots[1] = << >> /\ g.slots[2] = << >>
    BY DEF Frame
  <2> HIDE DEF g
  <2>6. JumpsOK(g)
    <3>1. Closed(<< >>)
      BY DEF Closed, TargetsOf
    <3>2. BranchesOK(g)
      <4>1. Len(g.todo) = 2 /\ (g.todo[1].kind = "null" => g.todo[2].kind = "null")
        BY <2>4, <2>5
      <4>2. Len(g.todo) <= 2 /\ Len(g.todo) # 1 /\ Len(g.todo) # 0
        BY <4>1
      <4> QED BY <2>5, <4>1, <4>2, Zenon DEF BranchesOK
    <3> QED BY <2>5, <3>1, <3>2 DEF JumpsOK
  <2> QED BY <1>e, <2>1, <2>3, <2>6
<1>5. CASE EnterWhile
  <2> DEFINE g == Frame("while", FALSE, <<Head(Top.todo).kids[1]>>, idmap["while"], 0)
  <2>1. stack' = Append(stack, g) /\ prog' = prog /\ Head(Top.todo).kind # "null"
    BY <1>5 DEF EnterWhile, Pending
  <2>2. g \in FrameType
    <3>1. <<Head(Top.todo).kids[1]>> \in Seq(Stmts)
      BY <1>5, <1>t, BodyOK DEF EnterWhile, Pending
    <3>2. "while" \in CompoundKinds \cup {"file"} /\ idmap["while"] \in Nat /\ 0 \in Nat
      BY <1>t DEF CompoundKinds, Counters, TypeInv, TypeOK
    <3> QED BY <3>1, <3>2, FrameOK
  <2>3. JumpsOK(g)
    BY DEF Frame, JumpsOK, Closed, TargetsOf
  <2> QED BY <1>e, <2>1, <2>2, <2>3
<1>6. CASE LeaveIf
  <2> DEFINE c == IfCode(Top.flag, Top.id, Top.slots[1], Top.slots[2])
  <2>1. /\ Top.kind = "if" /\ Top.todo = << >> /\ stack' = Deliver(Under, c) /\ prog' = prog
    BY <1>6 DEF LeaveIf, Converted
  <2>2. Top.slots[1] = << >> => Top.slots[2] = << >>
    <3>1. BranchesOK(Top) /\ Len(Top.todo) = 0
      BY <1>c, <2>1 DEF JumpsOK
    <3> QED BY <3>1 DEF BranchesOK
  <2>3. c \in Chains /\ Closed(c) /\ c # << >>
    BY <1>c, <2>2, IfCodeType, IfJumps
  <2> QED BY <1>p, <2>1, <2>3
<1>7. CASE LinkBlock
  <2> DEFINE outer == IF currentScope > 0 THEN currentScope - 1 ELSE 0
             code  == BlockCode(Top.scope, outer, Top.slots[1])
             k     == IF OptimizeLabels /\ Top.slots[1] # << >> THEN 2 ELSE Len(code)
  <2>1. Rewrite(code, k) /\ prog' = prog /\ Top.kind = "block"
    BY <1>7 DEF LinkBlock, Converted
  <2>2. outer \in Nat
    BY <1>t DEF TypeInv, TypeOK
  <2>3. code \in Chains /\ Closed(code) /\ ~IsJump(code[1])
    <3>1. \A m \in Nat : SetScope(m) \in Instructions /\ ~IsLabel(SetScope(m))
                          /\ ~IsJump(SetScope(m))
      BY InstructionTypes DEF SetScope, IsJump, JumpOps
    <3> HIDE DEF outer
    <3> QED BY <1>c, <2>2, <3>1, BracketType, BracketJumps DEF BlockCode
  <2> HIDE DEF code
  <2>4. k \in Nat
    BY <2>3 DEF Chains
  <2>5. JumpsOK(Rewritten(Top, code, k))
    BY <2>1, <2>3, <2>4, RewriteTop
  <2>6. /\ stack' \in Frames /\ Len(stack') = Len(stack)
        /\ \A i \in 1 .. Len(stack) - 1 : stack'[i] = stack[i]
        /\ stack'[Len(stack)] = Rewritten(Top, code, k)
    BY <1>s, <2>1, <2>3, <2>4, RewriteOK
  <2> QED BY <1>r, <2>1, <2>5, <2>6
<1>8. CASE LinkWhile
  <2> DEFINE code == WhileCode(Top.id, Top.slots[1])
             k    == IF OptimizeLabels THEN 1 ELSE Len(code)
  <2>1. Rewrite(code, k) /\ prog' = prog /\ Top.kind = "while"
    BY <1>8 DEF LinkWhile, Converted
  <2>2. code \in Chains /\ Closed(code)
    BY <1>c, WhileCodeType, WhileJumps
  <2> HIDE DEF code
  <2>3. k \in Nat
    BY <2>2 DEF Chains
  <2>4. JumpsOK(Rewritten(Top, code, k))
    BY <2>1, <2>2, <2>3, RewriteTop
  <2>5. /\ stack' \in Frames /\ Len(stack') = Len(stack)
        /\ \A i \in 1 .. Len(stack) - 1 : stack'[i] = stack[i]
        /\ stack'[Len(stack)] = Rewritten(Top, code, k)
    BY <1>s, <2>1, <2>2, <2>3, RewriteOK
  <2> QED BY <1>r, <2>1, <2>4, <2>5
<1>9. CASE MergeLabel
  <2> DEFINE e == Merged(Top.slots[1], Root(Top), Top.cur)
  <2>1. e \in Chains /\ Rewrite(e, Top.cur) /\ JumpsOK(Rewritten(Top, e, Top.cur))
    BY <1>9, MergeTop
  <2>2. prog' = prog
    BY <1>9 DEF MergeLabel
  <2> HIDE DEF e
  <2>3. /\ stack' \in Frames /\ Len(stack') = Len(stack)
        /\ \A i \in 1 .. Len(stack) - 1 : stack'[i] = stack[i]
        /\ stack'[Len(stack)] = Rewritten(Top, e, Top.cur)
    BY <1>c, <1>s, <2>1, RewriteOK
  <2> QED BY <1>r, <2>1, <2>2, <2>3
<1>10. CASE NextInstruction
  <2>1. Rewrite(Top.slots[1], Top.cur + 1) /\ prog' = prog /\ Top.cur > 0
    BY <1>10 DEF NextInstruction, Scanning
  <2>2. Top.kind \in {"block", "while"} /\ Top.cur + 1 \in Nat
    BY <1>c, <1>s, <1>t, <2>1 DEF TypeInv, Shape
  <2>3. JumpsOK(Rewritten(Top, Top.slots[1], Top.cur + 1))
    <3>1. Top.kind = "block" => ~IsJump(Top.slots[1][1])
      BY <1>c, <2>1 DEF JumpsOK
    <3> QED BY <1>c, <2>2, <3>1, RewriteTop
  <2>4. /\ stack' \in Frames /\ Len(stack') = Len(stack)
        /\ \A i \in 1 .. Len(stack) - 1 : stack'[i] = stack[i]
        /\ stack'[Len(stack)] = Rewritten(Top, Top.slots[1], Top.cur + 1)
    BY <1>c, <1>s, <2>1, <2>2, RewriteOK
  <2> QED BY <1>r, <2>1, <2>3, <2>4
<1>11. CASE Return
  <2>1. /\ Top.kind # "file" /\ Top.cur = Len(Top.slots[1]) /\ Top.cur > 0
    BY <1>11, <1>t, ReturnScan
  <2>2. Top.slots[1] # << >>
    BY <1>c, <2>1
  <2> QED BY <1>11, <1>c, <1>p, <2>1, <2>2 DEF Return
<1>12. CASE FinishFile
  <2>1. stack' = stack /\ prog' = (<<[op |-> "SOF"]>> \o Top.slots[1]) \o <<[op |-> "EOF"]>>
    BY <1>12 DEF FinishFile
  <2>2. Closed(prog')
    <3>1. \A o \in {"SOF", "EOF"} : [op |-> o] \in Instructions /\ ~IsLabel([op |-> o])
                                    /\ ~IsJump([op |-> o])
      BY InstructionTypes DEF IsJump, JumpOps
    <3> QED BY <1>c, <2>1, <3>1, BracketJumps
  <2> QED BY <1>j, <1>n, <1>s, <2>1, <2>2
<1>13. CASE UNCHANGED vars
  <2>1. stack' = stack /\ prog' = prog
    BY <1>13 DEF vars
  <2> QED BY <1>c, <1>r, <1>s, <2>1
<1> QED
  BY <1>1, <1>2, <1>3, <1>4, <1>5, <1>6, <1>7, <1>8, <1>9, <1>10, <1>11, <1>12, <1>13 DEF Next

\* Of every statement under construction, a block or a while that is being
\* scanned included, each jump has its label in the same chain.
THEOREM StatementsClosed ==
  ASSUME ElseHasThen
  PROVE  Spec => []ChainsClosed
<1>1. Init => JumpInv
  BY JumpInit
<1>2. JumpInv /\ [Next]_vars => JumpInv'
  BY JumpStep
<1>3. JumpInv => ChainsClosed
  BY DEF JumpInv, JumpsOK, ChainsClosed, Closed
<1> QED BY <1>1, <1>2, <1>3, PTL DEF Spec

\* Every jump of a finished program has its label in the program.
THEOREM EveryJumpResolves ==
  ASSUME ElseHasThen
  PROVE  Spec => []JumpsResolve
<1>1. Init => JumpInv
  BY JumpInit
<1>2. JumpInv /\ [Next]_vars => JumpInv'
  BY JumpStep
<1>3. JumpInv => JumpsResolve
  BY DEF JumpInv, JumpsResolve, Closed
<1> QED BY <1>1, <1>2, <1>3, PTL DEF Spec

=============================================================================
