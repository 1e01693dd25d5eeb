--------------------------- MODULE IRConvert_proofs ---------------------------
(***************************************************************************)
(* Two invariants of the IR converter, for all programs: TypeOK, and       *)
(* LabelsUnique.  First lemmas about chains of instructions and the code   *)
(* the converter makes, then about the stack of activations; TypeInv and   *)
(* UniqueInv are the inductive invariants, each with one lemma for the     *)
(* initial states and one for the steps.                                   *)
(***************************************************************************)
EXTENDS IRConvert, SequenceTheorems, TLAPS

\* The last position and the ones before it.
LEMMA LastOf ==
  ASSUME NEW n \in Nat, n > 0
  PROVE  \A i \in 1 .. n : i # n => i \in 1 .. n - 1
  OBVIOUS

\* Concatenation, the splice of two linked lists, keeps both.
LEMMA ConcatChains ==
  ASSUME NEW c \in Chains, NEW d \in Chains
  PROVE  /\ c \o d \in Chains
         /\ Len(c \o d) = Len(c) + Len(d)
         /\ \A i \in 1 .. Len(c) : (c \o d)[i] = c[i]
         /\ \A i \in 1 .. Len(d) : (c \o d)[Len(c) + i] = d[i]
  BY DEF Chains

\* A concatenation defines the labels of its parts.
LEMMA ConcatLabels ==
  ASSUME NEW c \in Chains, NEW d \in Chains
  PROVE  LabelsOf(c \o d) = LabelsOf(c) \cup LabelsOf(d)
<1>1. LabelsOf(c \o d) \subseteq LabelsOf(c) \cup LabelsOf(d)
  <2> SUFFICES ASSUME NEW i \in DOMAIN (c \o d), IsLabel((c \o d)[i])
               PROVE  (c \o d)[i].label \in LabelsOf(c) \cup LabelsOf(d)
    BY DEF LabelsOf
  <2>1. CASE i <= Len(c)
    BY <2>1, ConcatChains DEF LabelsOf, Chains
  <2>2. CASE i > Len(c)
    <3>1. i - Len(c) \in DOMAIN d /\ (c \o d)[i] = d[i - Len(c)]
      BY <2>2, ConcatChains DEF Chains
    <3> QED BY <3>1 DEF LabelsOf
  <2> QED BY <2>1, <2>2, ConcatChains DEF Chains
<1>2. LabelsOf(c) \subseteq LabelsOf(c \o d)
  <2> SUFFICES ASSUME NEW i \in DOMAIN c, IsLabel(c[i])
               PROVE  c[i].label \in LabelsOf(c \o d)
    BY DEF LabelsOf
  <2>1. i \in DOMAIN (c \o d) /\ (c \o d)[i] = c[i]
    BY ConcatChains DEF Chains
  <2> QED BY <2>1 DEF LabelsOf
<1>3. LabelsOf(d) \subseteq LabelsOf(c \o d)
  <2> SUFFICES ASSUME NEW i \in DOMAIN d, IsLabel(d[i])
               PROVE  d[i].label \in LabelsOf(c \o d)
    BY DEF LabelsOf
  <2>1. Len(c) + i \in DOMAIN (c \o d) /\ (c \o d)[Len(c) + i] = d[i]
    BY ConcatChains DEF Chains
  <2> QED BY <2>1 DEF LabelsOf
<1> QED BY <1>1, <1>2, <1>3

\* Chains that define different labels, each once, still do when spliced.
LEMMA ConcatDistinct ==
  ASSUME NEW c \in Chains, NEW d \in Chains, Distinct(c), Distinct(d),
         LabelsOf(c) \cap LabelsOf(d) = {}
  PROVE  Distinct(c \o d)
<1> DEFINE e == c \o d
<1>1. DOMAIN e = 1 .. Len(c) + Len(d) /\ Len(c) \in Nat /\ Len(d) \in Nat
  BY ConcatChains DEF Chains
<1>2. ASSUME NEW i \in DOMAIN e, NEW j \in DOMAIN e, IsLabel(e[i]), IsLabel(e[j]),
             e[i].label = e[j].label, i < j
      PROVE  FALSE
  <2>1. CASE j <= Len(c)
    <3>1. e[i] = c[i] /\ e[j] = c[j] /\ i \in DOMAIN c /\ j \in DOMAIN c
      BY <1>1, <1>2, <2>1, ConcatChains DEF Chains
    <3> QED BY <1>1, <1>2, <3>1 DEF Distinct
  <2>2. CASE i <= Len(c) /\ Len(c) < j
    <3>1. c[i].label \in LabelsOf(c) /\ e[i] = c[i]
      BY <1>2, <2>2, ConcatChains DEF LabelsOf, Chains
    <3>2. j - Len(c) \in DOMAIN d /\ e[j] = d[j - Len(c)]
      BY <1>1, <1>2, <2>2, ConcatChains DEF Chains
    <3>3. d[j - Len(c)].label \in LabelsOf(d)
      BY <1>2, <3>2 DEF LabelsOf
    <3> QED BY <1>2, <3>1, <3>2, <3>3
  <2>3. CASE Len(c) < i
    <3>1. /\ i - Len(c) \in DOMAIN d /\ e[i] = d[i - Len(c)]
          /\ j - Len(c) \in DOMAIN d /\ e[j] = d[j - Len(c)]
      BY <1>1, <1>2, <2>3, ConcatChains DEF Chains
    <3>2. i - Len(c) = j - Len(c)
      BY <1>2, <3>1 DEF Distinct
    <3> QED BY <1>1, <1>2, <3>2
  <2> QED BY <1>1, <1>2, <2>1, <2>2, <2>3
<1> HIDE DEF e
<1>3. Distinct(e)
  BY <1>1, <1>2 DEF Distinct
<1> QED BY <1>3 DEF e

\* The constructors make well-formed instructions.
LEMMA InstructionTypes ==
  /\ \A op \in JumpOps, l \in Labels : Jump(op, l) \in Instructions
  /\ \A op \in JumpOps, l \in Labels : ~IsLabel(Jump(op, l))
  /\ \A l \in Labels : Label(l) \in Instructions /\ IsLabel(Label(l)) /\ Label(l).label = l
  /\ \A op \in VarOps, x \in Names : OnVar(op, x) \in Instructions /\ ~IsLabel(OnVar(op, x))
  /\ \A n \in Nat : SetScope(n) \in Instructions /\ ~IsLabel(SetScope(n))
  /\ \A op \in {"SOF", "EOF"} : [op |-> op] \in Instructions /\ ~IsLabel([op |-> op])
  BY DEF Instructions, Jump, Label, OnVar, SetScope, IsLabel, JumpOps, VarOps

\* Of the constructors only Label defines a label.
LEMMA LabelOfLabel ==
  ASSUME NEW c \in Chains, NEW k \in 1 .. Len(c), IsLabel(c[k])
  PROVE  c[k].label \in Labels
<1>1. c[k] \in Instructions /\ c[k].op = "LABEL"
  BY DEF Chains, IsLabel
<1> QED BY <1>1 DEF Instructions, VarOps, JumpOps

\* A chain of one instruction.
LEMMA Singleton ==
  ASSUME NEW i \in Instructions
  PROVE  /\ <<i>> \in Chains
         /\ IsLabel(i) => LabelsOf(<<i>>) = {i.label}
         /\ ~IsLabel(i) => LabelsOf(<<i>>) = {}
         /\ Distinct(<<i>>)
  BY DEF Chains, LabelsOf, Distinct

\* Two instructions, the second of which may define a label.
LEMMA Pair ==
  ASSUME NEW i \in Instructions, NEW j \in Instructions, ~IsLabel(i) \/ ~IsLabel(j)
  PROVE  /\ <<i, j>> \in Chains
         /\ LabelsOf(<<i, j>>) = LabelsOf(<<i>>) \cup LabelsOf(<<j>>)
         /\ Distinct(<<i, j>>)
<1>1. <<i, j>> = <<i>> \o <<j>>
  <2> DEFINE p == <<i, j>>
             q == <<i>> \o <<j>>
  <2>1. p \in Seq(Instructions) /\ Len(p) = 2 /\ p[1] = i /\ p[2] = j
    OBVIOUS
  <2>2. q \in Seq(Instructions) /\ Len(q) = 2 /\ q[1] = i /\ q[2] = j
    BY Singleton, ConcatProperties DEF Chains
  <2> HIDE DEF p, q
  <2>3. p = q
    BY <2>1, <2>2, SeqEqual
  <2> QED BY <2>3 DEF p, q
<1>2. <<i, j>> \in Chains /\ LabelsOf(<<i, j>>) = LabelsOf(<<i>>) \cup LabelsOf(<<j>>)
  <2>1. <<i>> \in Chains /\ <<j>> \in Chains
    BY Singleton
  <2> QED BY <1>1, <2>1, ConcatLabels, ConcatChains
<1>3. Distinct(<<i, j>>)
  BY <1>1, Singleton, ConcatDistinct
<1> QED BY <1>2, <1>3

\* No instruction, and no label.
LEMMA Empty == << >> \in Chains /\ LabelsOf(<< >>) = {} /\ Distinct(<< >>)
  BY DEF Chains, LabelsOf, Distinct

\* Leaf statements (ConvertASTToIR without recursion) define no label.
LEMMA LeafCodeOK ==
  ASSUME NEW s \in Stmts
  PROVE  /\ LeafCode(s) \in Chains
         /\ LabelsOf(LeafCode(s)) = {}
         /\ Distinct(LeafCode(s))
<1>1. s.name \in Names
  BY StmtsAssumption DEF StmtOK
<1>2. \A op \in VarOps : OnVar(op, s.name) \in Instructions /\ ~IsLabel(OnVar(op, s.name))
  BY <1>1, InstructionTypes
<1>3. \A op, op1, op2 \in VarOps :
         /\ <<OnVar(op, s.name)>> \in Chains
         /\ <<OnVar(op, s.name), OnVar(op1, s.name)>> \in Chains
         /\ <<OnVar(op, s.name), OnVar(op1, s.name), OnVar(op2, s.name)>> \in Chains
  BY <1>2 DEF Chains
<1>4. LeafCode(s) \in Chains
  BY <1>3, Empty DEF LeafCode, AssignCode, VarOps
<1>5. \A k \in DOMAIN LeafCode(s) : ~IsLabel(LeafCode(s)[k])
  <2>1. CASE s.kind = "null"   BY <2>1 DEF LeafCode
  <2>2. CASE s.kind = "decl"   BY <2>2, <1>2 DEF LeafCode, AssignCode, VarOps
  <2>3. CASE s.kind = "unused" BY <2>3, <1>2 DEF LeafCode, AssignCode, VarOps
  <2>4. CASE s.kind = "assign"
    <3>1. LeafCode(s) = AssignCode(s.flag, s.name)
      BY <2>4 DEF LeafCode
    <3>2. CASE s.flag  BY <3>1, <3>2, <1>2 DEF AssignCode, VarOps
    <3>3. CASE ~s.flag BY <3>1, <3>3, <1>2 DEF AssignCode, VarOps
    <3> QED BY <3>2, <3>3
  <2>5. CASE s.kind \notin {"null", "decl", "unused", "assign"}
    <3>1. LeafCode(s) = <<OnVar("NOP", s.name)>>
      BY <2>5 DEF LeafCode
    <3> QED BY <3>1, <1>2 DEF VarOps
  <2> QED BY <2>1, <2>2, <2>3, <2>4, <2>5
<1> QED BY <1>4, <1>5 DEF LabelsOf, Distinct

\* A jump and a label, in either order.
JumpThenLabel(op, l, k) == <<Jump(op, l), Label(k)>>
LabelThenJump(k, op, l) == <<Label(k), Jump(op, l)>>

\* The two nodes between the branches of an if define its else label.
LEMMA JumpAndLabel ==
  ASSUME NEW op \in JumpOps, NEW l \in Labels, NEW k \in Labels
  PROVE  /\ JumpThenLabel(op, l, k) \in Chains
         /\ LabelsOf(JumpThenLabel(op, l, k)) = {k}
         /\ Distinct(JumpThenLabel(op, l, k))
         /\ LabelThenJump(k, op, l) \in Chains
         /\ LabelsOf(LabelThenJump(k, op, l)) = {k}
         /\ Distinct(LabelThenJump(k, op, l))
<1>1. Jump(op, l) \in Instructions /\ ~IsLabel(Jump(op, l))
  BY InstructionTypes
<1>2. Label(k) \in Instructions /\ IsLabel(Label(k)) /\ Label(k).label = k
  BY InstructionTypes
<1>3. LabelsOf(<<Jump(op, l)>>) = {} /\ LabelsOf(<<Label(k)>>) = {k}
  BY <1>1, <1>2, Singleton
<1> QED BY <1>1, <1>2, <1>3, Pair DEF JumpThenLabel, LabelThenJump

\* A concatenation of chains that define different labels.
LEMMA ConcatOK ==
  ASSUME NEW c \in Chains, NEW d \in Chains
  PROVE  /\ c \o d \in Chains
         /\ LabelsOf(c \o d) = LabelsOf(c) \cup LabelsOf(d)
         /\ Distinct(c) /\ Distinct(d) /\ LabelsOf(c) \cap LabelsOf(d) = {} => Distinct(c \o d)
  BY ConcatChains, ConcatLabels, ConcatDistinct

IfLabels(id)    == {<<"ifelse", id>>, <<"ifend", id>>}
WhileLabels(id) == {<<"while_start", id>>, <<"while_end", id>>}

\* ConvertIfToIR links well-formed code.
LEMMA IfCodeType ==
  ASSUME NEW negated, NEW id \in Nat, NEW then \in Chains, NEW else \in Chains
  PROVE  IfCode(negated, id, then, else) \in Chains
<1> DEFINE op     == IF negated THEN "JUMP_IF_TRUE" ELSE "JUMP_IF_FALSE"
           toElse == <<"ifelse", id>>
           toEnd  == <<"ifend", id>>
           jElse  == <<Jump(op, toElse)>>
           jEnd   == <<Jump(op, toEnd)>>
           mid    == JumpThenLabel("JUMP", toEnd, toElse)
           end    == <<Label(toEnd)>>
<1>1. op \in JumpOps /\ "JUMP" \in JumpOps /\ toElse \in Labels /\ toEnd \in Labels
  BY DEF JumpOps, Labels
<1>2. IfCode(negated, id, then, else) =
        IF then = << >>
        THEN IF else = << >> THEN jEnd \o end ELSE jElse \o end
        ELSE IF else = << >> THEN (jEnd \o then) \o end
             ELSE (((jElse \o then) \o mid) \o else) \o end
  BY DEF IfCode, JumpThenLabel
<1> HIDE DEF op, toElse, toEnd
<1>3. jElse \in Chains /\ jEnd \in Chains /\ end \in Chains
  BY <1>1, InstructionTypes, Singleton
<1>4. mid \in Chains
  BY <1>1, JumpAndLabel
<1> HIDE DEF jElse, jEnd, mid, end
<1>5. jEnd \o end \in Chains /\ jElse \o end \in Chains
  BY <1>3, ConcatChains
<1>6. jEnd \o then \in Chains /\ jElse \o then \in Chains
  BY <1>3, ConcatChains
<1>7. (jEnd \o then) \o end \in Chains /\ (jElse \o then) \o mid \in Chains
  BY <1>3, <1>4, <1>6, ConcatChains
<1>8. ((jElse \o then) \o mid) \o else \in Chains
  BY <1>7, ConcatChains
<1>9. (((jElse \o then) \o mid) \o else) \o end \in Chains
  BY <1>3, <1>8, ConcatChains
<1> QED BY <1>2, <1>5, <1>7, <1>9

\* ConvertIfToIR defines its own two labels and those of its branches, once each.
LEMMA IfCodeOK ==
  ASSUME NEW negated, NEW id \in Nat, NEW then \in Chains, NEW else \in Chains,
         Distinct(then), Distinct(else), LabelsOf(then) \cap LabelsOf(else) = {},
         IfLabels(id) \cap LabelsOf(then) = {}, IfLabels(id) \cap LabelsOf(else) = {}
  PROVE  /\ IfCode(negated, id, then, else) \in Chains
         /\ LabelsOf(IfCode(negated, id, then, else))
              \subseteq IfLabels(id) \cup LabelsOf(then) \cup LabelsOf(else)
         /\ Distinct(IfCode(negated, id, then, else))
<1> DEFINE op     == IF negated THEN "JUMP_IF_TRUE" ELSE "JUMP_IF_FALSE"
           toElse == <<"ifelse", id>>
           toEnd  == <<"ifend", id>>
           jElse  == <<Jump(op, toElse)>>
           jEnd   == <<Jump(op, toEnd)>>
           mid    == JumpThenLabel("JUMP", toEnd, toElse)
           end    == <<Label(toEnd)>>
<1>1. op \in JumpOps /\ "JUMP" \in JumpOps
  BY DEF JumpOps
<1>2. toElse \in Labels /\ toEnd \in Labels /\ toElse # toEnd
  BY DEF Labels
<1> HIDE DEF op, toElse, toEnd
<1>3. /\ jElse \in Chains /\ LabelsOf(jElse) = {} /\ Distinct(jElse)
      /\ jEnd \in Chains /\ LabelsOf(jEnd) = {} /\ Distinct(jEnd)
  BY <1>1, <1>2, InstructionTypes, Singleton
<1>4. end \in Chains /\ LabelsOf(end) = {toEnd} /\ Distinct(end)
  BY <1>2, InstructionTypes, Singleton
<1>5. mid \in Chains /\ LabelsOf(mid) = {toElse} /\ Distinct(mid)
  BY <1>1, <1>2, JumpAndLabel
<1>6. IfLabels(id) = {toElse, toEnd}
  BY DEF IfLabels, toElse, toEnd
<1>7. IfCode(negated, id, then, else) =
        IF then = << >>
        THEN IF else = << >> THEN jEnd \o end ELSE jElse \o end
        ELSE IF else = << >> THEN (jEnd \o then) \o end
             ELSE (((jElse \o then) \o mid) \o else) \o end
  BY DEF IfCode, JumpThenLabel, op, toElse, toEnd
<1> HIDE DEF jElse, jEnd, mid, end
<1> DEFINE A == jEnd \o then
           B == jElse \o then
           C == B \o mid
           D == C \o else
<1>8. A \in Chains /\ LabelsOf(A) = LabelsOf(then) /\ Distinct(A)
  BY <1>3, ConcatOK
<1>9. B \in Chains /\ LabelsOf(B) = LabelsOf(then) /\ Distinct(B)
  BY <1>3, ConcatOK
<1> HIDE DEF A, B
<1>10. C \in Chains /\ LabelsOf(C) = LabelsOf(then) \cup {toElse} /\ Distinct(C)
  BY <1>5, <1>6, <1>9, ConcatOK
<1> HIDE DEF C
<1>11. D \in Chains /\ LabelsOf(D) = LabelsOf(then) \cup {toElse} \cup LabelsOf(else)
       /\ Distinct(D)
  BY <1>6, <1>10, ConcatOK
<1> HIDE DEF D
<1>12. /\ A \o end \in Chains /\ LabelsOf(A \o end) = LabelsOf(then) \cup {toEnd}
       /\ Distinct(A \o end)
  BY <1>4, <1>6, <1>8, ConcatOK
<1>13. /\ D \o end \in Chains
       /\ LabelsOf(D \o end) = LabelsOf(then) \cup {toElse} \cup LabelsOf(else) \cup {toEnd}
       /\ Distinct(D \o end)
  BY <1>2, <1>4, <1>6, <1>11, ConcatOK
<1>14. /\ jEnd \o end \in Chains /\ LabelsOf(jEnd \o end) = {toEnd} /\ Distinct(jEnd \o end)
       /\ jElse \o end \in Chains /\ LabelsOf(jElse \o end) = {toEnd} /\ Distinct(jElse \o end)
  BY <1>3, <1>4, ConcatOK
<1>15. IfCode(negated, id, then, else) \in {jEnd \o end, jElse \o end, A \o end, D \o end}
  BY <1>7 DEF A, B, C, D
<1> QED BY <1>6, <1>12, <1>13, <1>14, <1>15

\* ConvertWhileToIR links well-formed code, never empty.
LEMMA WhileCodeType ==
  ASSUME NEW id \in Nat, NEW body \in Chains
  PROVE  WhileCode(id, body) \in Chains /\ Len(WhileCode(id, body)) > 0
<1> DEFINE toTest == <<"while_start", id>>
           toExit == <<"while_end", id>>
           test   == LabelThenJump(toTest, "JUMP_IF_FALSE", toExit)
           back   == JumpThenLabel("JUMP", toTest, toExit)
           stop   == <<Label(toExit)>>
<1>1. /\ toTest \in Labels /\ toExit \in Labels
      /\ "JUMP" \in JumpOps /\ "JUMP_IF_FALSE" \in JumpOps
  BY DEF JumpOps, Labels
<1>2. WhileCode(id, body) = IF body = << >> THEN test \o stop ELSE (test \o body) \o back
  BY DEF WhileCode, JumpThenLabel, LabelThenJump
<1> HIDE DEF toTest, toExit
<1>3. test \in Chains /\ back \in Chains /\ stop \in Chains
  BY <1>1, JumpAndLabel, InstructionTypes, Singleton
<1>l. Len(back) = 2 /\ Len(stop) = 1
  BY DEF JumpThenLabel
<1> HIDE DEF test, back, stop
<1>4. test \o stop \in Chains /\ test \o body \in Chains
  BY <1>3, ConcatChains
<1>5. (test \o body) \o back \in Chains
  BY <1>3, <1>4, ConcatChains
<1>6. Len(test \o stop) > 0
  <2>1. Len(test \o stop) = Len(test) + Len(stop)
    BY <1>3, ConcatChains
  <2>2. Len(test) \in Nat
    BY <1>3 DEF Chains
  <2> QED BY <1>l, <2>1, <2>2
<1>7. Len((test \o body) \o back) > 0
  BY <1>3, <1>4, <1>l, ConcatChains DEF Chains
<1> QED BY <1>2, <1>4, <1>5, <1>6, <1>7

\* ConvertWhileToIR defines its own two labels and those of its body, once each.
LEMMA WhileCodeOK ==
  ASSUME NEW id \in Nat, NEW body \in Chains, Distinct(body),
         WhileLabels(id) \cap LabelsOf(body) = {}
  PROVE  /\ WhileCode(id, body) \in Chains
         /\ LabelsOf(WhileCode(id, body)) \subseteq WhileLabels(id) \cup LabelsOf(body)
         /\ Distinct(WhileCode(id, body))
<1> DEFINE toTest == <<"while_start", id>>
           toExit   == <<"while_end", id>>
<1> DEFINE test  == LabelThenJump(toTest, "JUMP_IF_FALSE", toExit)
           back  == JumpThenLabel("JUMP", toTest, toExit)
           stop  == <<Label(toExit)>>
<1>1. toTest \in Labels /\ toExit \in Labels /\ toTest # toExit
  BY DEF Labels
<1>2. WhileLabels(id) = {toTest, toExit}
  BY DEF WhileLabels
<1>3. WhileCode(id, body) = IF body = << >> THEN test \o stop ELSE (test \o body) \o back
  BY DEF WhileCode, LabelThenJump, JumpThenLabel
<1> HIDE DEF toTest, toExit
<1>4. "JUMP" \in JumpOps /\ "JUMP_IF_FALSE" \in JumpOps
  BY DEF JumpOps
<1>5. test \in Chains /\ LabelsOf(test) = {toTest} /\ Distinct(test)
  BY <1>1, <1>4, JumpAndLabel
<1>6. back \in Chains /\ LabelsOf(back) = {toExit} /\ Distinct(back)
  BY <1>1, <1>4, JumpAndLabel
<1>7. stop \in Chains /\ LabelsOf(stop) = {toExit} /\ Distinct(stop)
  BY <1>1, InstructionTypes, Singleton
<1> HIDE DEF test, back, stop
<1>8. /\ test \o stop \in Chains /\ LabelsOf(test \o stop) = {toTest, toExit}
      /\ Distinct(test \o stop)
  BY <1>1, <1>5, <1>7, ConcatOK
<1> DEFINE A == test \o body
<1>9. A \in Chains /\ LabelsOf(A) = {toTest} \cup LabelsOf(body) /\ Distinct(A)
  BY <1>2, <1>5, ConcatOK
<1> HIDE DEF A
<1>10. /\ A \o back \in Chains /\ LabelsOf(A \o back) = {toTest, toExit} \cup LabelsOf(body)
       /\ Distinct(A \o back)
  BY <1>1, <1>2, <1>6, <1>9, ConcatOK
<1>11. WhileCode(id, body) \in {test \o stop, A \o back}
  BY <1>3 DEF A
<1> QED BY <1>2, <1>8, <1>10, <1>11

\* The two SET_SCOPE nodes around a block, or SOF and EOF, keep a chain a chain.
LEMMA BracketType ==
  ASSUME NEW i \in Instructions, NEW j \in Instructions, NEW body \in Chains
  PROVE  (<<i>> \o body) \o <<j>> \in Chains
<1>1. <<i>> \in Chains /\ <<j>> \in Chains
  BY Singleton
<1>2. <<i>> \o body \in Chains
  BY <1>1, ConcatChains
<1> QED BY <1>1, <1>2, ConcatChains

\* A bracketed chain is not empty.
LEMMA BracketLength ==
  ASSUME NEW i \in Instructions, NEW j \in Instructions, NEW body \in Chains
  PROVE  Len((<<i>> \o body) \o <<j>>) > 0
<1>1. <<i>> \in Chains /\ <<j>> \in Chains /\ Len(<<j>>) = 1
  BY Singleton
<1>2. <<i>> \o body \in Chains
  BY <1>1, ConcatChains
<1>3. Len((<<i>> \o body) \o <<j>>) = Len(<<i>> \o body) + 1
  BY <1>1, <1>2, ConcatChains
<1> QED BY <1>2, <1>3 DEF Chains

\* Bracketing with instructions that are no labels defines no new label.
LEMMA BracketOK ==
  ASSUME NEW i \in Instructions, NEW j \in Instructions, ~IsLabel(i), ~IsLabel(j),
         NEW body \in Chains, Distinct(body)
  PROVE  /\ (<<i>> \o body) \o <<j>> \in Chains
         /\ LabelsOf((<<i>> \o body) \o <<j>>) = LabelsOf(body)
         /\ Distinct((<<i>> \o body) \o <<j>>)
<1> DEFINE a == <<i>>
           b == <<j>>
<1>1. a \in Chains /\ LabelsOf(a) = {} /\ Distinct(a)
  BY Singleton
<1>2. b \in Chains /\ LabelsOf(b) = {} /\ Distinct(b)
  BY Singleton
<1> HIDE DEF a, b
<1> DEFINE A == a \o body
<1>3. A \in Chains /\ LabelsOf(A) = LabelsOf(body) /\ Distinct(A)
  <2>1. LabelsOf(a) \cap LabelsOf(body) = {}
    BY <1>1
  <2>2. A \in Chains /\ LabelsOf(A) = LabelsOf(a) \cup LabelsOf(body)
    BY <1>1, ConcatOK
  <2>3. Distinct(A)
    BY <1>1, <2>1, ConcatOK
  <2> QED BY <1>1, <2>2, <2>3
<1> HIDE DEF A
<1>4. A \o b \in Chains /\ LabelsOf(A \o b) = LabelsOf(body) /\ Distinct(A \o b)
  BY <1>2, <1>3, ConcatOK
<1> QED BY <1>4 DEF A, a, b

\* Redirecting jumps leaves every label where it is.
LEMMA ChangeAllOK ==
  ASSUME NEW c \in Chains, NEW root \in Nat, NEW old \in Labels, NEW new \in Labels
  PROVE  LET d == ChangeAllLabelReferences(c, root, old, new)
         IN  /\ d \in Chains
             /\ Len(d) = Len(c)
             /\ LabelsOf(d) = LabelsOf(c)
             /\ Distinct(c) => Distinct(d)
<1> DEFINE d == ChangeAllLabelReferences(c, root, old, new)
<1>1. c \in Seq(Instructions) /\ DOMAIN c = 1 .. Len(c) /\ Len(c) \in Nat
  BY DEF Chains
<1>2. ASSUME NEW i \in DOMAIN c
      PROVE  /\ d[i] \in Instructions
             /\ IsLabel(d[i]) <=> IsLabel(c[i])
             /\ IsLabel(c[i]) => d[i] = c[i]
  <2>1. c[i] \in Instructions
    BY <1>1
  <2>2. IsJump(c[i]) => c[i].op \in JumpOps /\ ~IsLabel(c[i])
    BY DEF IsJump, IsLabel, JumpOps
  <2>3. d[i] = c[i] \/ (IsJump(c[i]) /\ d[i] = Jump(c[i].op, new))
    BY DEF ChangeAllLabelReferences
  <2> QED BY <2>1, <2>2, <2>3, InstructionTypes
<1>3. d = [i \in DOMAIN c |-> d[i]] /\ DOMAIN d = DOMAIN c
  BY DEF ChangeAllLabelReferences
<1> HIDE DEF d
<1>4. d \in [1 .. Len(c) -> Instructions]
  BY <1>1, <1>2, <1>3
<1>5. d \in Seq(Instructions) /\ Len(d) = Len(c)
  BY <1>1, <1>4
<1>6. LabelsOf(d) = LabelsOf(c)
  BY <1>2, <1>3 DEF LabelsOf
<1>7. Distinct(c) => Distinct(d)
  BY <1>2, <1>3 DEF Distinct
<1> QED BY <1>5, <1>6, <1>7 DEF Chains, d

\* Unlinking a node drops one label at most and duplicates none.
LEMMA UnlinkOK ==
  ASSUME NEW c \in Chains, NEW k \in 1 .. Len(c)
  PROVE  /\ Unlink(c, k) \in Chains
         /\ Len(Unlink(c, k)) = Len(c) - 1
         /\ LabelsOf(Unlink(c, k)) \subseteq LabelsOf(c)
         /\ Distinct(c) => Distinct(Unlink(c, k))
<1> DEFINE d == Unlink(c, k)
           at(i) == IF i < k THEN i ELSE i + 1
<1>1. c \in Seq(Instructions) /\ DOMAIN c = 1 .. Len(c) /\ Len(c) \in Nat
  BY DEF Chains
<1>2. DOMAIN d = 1 .. Len(c) - 1
  BY DEF Unlink
<1>3. \A i \in DOMAIN d : at(i) \in DOMAIN c /\ d[i] = c[at(i)]
  BY <1>1, <1>2 DEF Unlink
<1>4. \A i, j \in DOMAIN d : at(i) = at(j) => i = j
  BY <1>1, <1>2
<1>5. d = [i \in 1 .. Len(c) - 1 |-> d[i]]
  BY DEF Unlink
<1> HIDE DEF d, at
<1>6. d \in [1 .. Len(c) - 1 -> Instructions] /\ Len(c) - 1 \in Nat
  BY <1>1, <1>2, <1>3, <1>5
<1>7. d \in Seq(Instructions) /\ Len(d) = Len(c) - 1
  BY <1>6
<1>8. LabelsOf(d) \subseteq LabelsOf(c)
  BY <1>3 DEF LabelsOf
<1>9. Distinct(c) => Distinct(d)
  BY <1>3, <1>4 DEF Distinct
<1> QED BY <1>7, <1>8, <1>9 DEF Chains, d

-----------------------------------------------------------------------------
(* What the operations on the stack of activations do to its frames.       *)

Frames == Seq(FrameType)

\* Dropping the innermost frame leaves well-formed frames.
LEMMA UnderOK ==
  ASSUME stack \in Frames, Len(stack) > 0
  PROVE  /\ Under \in Frames
         /\ Len(Under) = Len(stack) - 1
         /\ \A i \in 1 .. Len(stack) - 1 : Under[i] = stack[i]
         /\ Top \in FrameType
<1> DEFINE n == Len(stack) - 1
<1>1. n \in Nat /\ \A i \in 1 .. n + 1 : stack[i] \in FrameType
  BY DEF Frames
<1>2. Top = stack[n + 1]
  BY DEF Top, Frames
<1>3. Under = SubSeq(stack, 1, n)
  BY DEF Under
<1> HIDE DEF n
<1>4. \A i \in 1 .. n : stack[i] \in FrameType
  BY <1>1
<1>5. /\ SubSeq(stack, 1, n) \in Seq(FrameType)
      /\ Len(SubSeq(stack, 1, n)) = n
      /\ \A i \in 1 .. n : SubSeq(stack, 1, n)[i] = stack[i]
  <2>1. /\ SubSeq(stack, 1, n) \in Seq(FrameType)
        /\ Len(SubSeq(stack, 1, n)) = IF 1 <= n THEN n - 1 + 1 ELSE 0
        /\ \A i \in 1 .. n - 1 + 1 : SubSeq(stack, 1, n)[i] = stack[1 + i - 1]
    BY <1>1, <1>4, SubSeqProperties, 1 \in Int, n \in Int
  <2> QED BY <1>1, <2>1
<1>6. Top \in FrameType
  BY <1>1, <1>2
<1> QED BY <1>3, <1>5, <1>6 DEF n, Frames

\* A frame that receives a chain is well formed.
LEMMA ReceivedOK ==
  ASSUME NEW f \in FrameType, f.todo # << >>, NEW c \in Chains
  PROVE  /\ SlotOf(f) \in {1, 2}
         /\ Received(f, c) \in FrameType
         /\ Received(f, c).kind = f.kind
         /\ Received(f, c).id = f.id
         /\ Received(f, c).cur = f.cur
         /\ Received(f, c).todo = Tail(f.todo)
         /\ Received(f, c).slots[SlotOf(f)] = f.slots[SlotOf(f)] \o c
         /\ \A t \in {1, 2} \ {SlotOf(f)} : Received(f, c).slots[t] = f.slots[t]
<1> DEFINE s     == SlotOf(f)
           slots == [f.slots EXCEPT ![s] = f.slots[s] \o c]
<1>1. s \in {1, 2}
  BY DEF SlotOf
<1>2. f.slots \in [{1, 2} -> Chains] /\ Tail(f.todo) \in Seq(Stmts)
  BY DEF FrameType
<1> HIDE DEF s
<1>3. f.slots[s] \o c \in Chains
  BY <1>1, <1>2, ConcatChains
<1>4. /\ slots \in [{1, 2} -> Chains] /\ slots[s] = f.slots[s] \o c
      /\ \A t \in {1, 2} \ {s} : slots[t] = f.slots[t]
  BY <1>1, <1>2, <1>3
<1> HIDE DEF slots
<1>5. Received(f, c) = [f EXCEPT !.todo = Tail(f.todo), !.slots = slots]
  BY DEF Received, slots, s
<1>6. Received(f, c) \in FrameType
  BY <1>2, <1>4, <1>5 DEF FrameType
<1>7. /\ Received(f, c).kind = f.kind /\ Received(f, c).id = f.id
      /\ Received(f, c).cur = f.cur /\ Received(f, c).todo = Tail(f.todo)
      /\ Received(f, c).slots = slots
  BY <1>5 DEF FrameType
<1> QED BY <1>1, <1>4, <1>6, <1>7 DEF s

\* Delivering a chain changes the innermost frame only.
LEMMA DeliverOK ==
  ASSUME NEW F \in Frames, Len(F) > 0, F[Len(F)].todo # << >>, NEW c \in Chains
  PROVE  /\ Deliver(F, c) \in Frames
         /\ Len(Deliver(F, c)) = Len(F)
         /\ \A i \in 1 .. Len(F) - 1 : Deliver(F, c)[i] = F[i]
         /\ Deliver(F, c)[Len(F)] = Received(F[Len(F)], c)
<1> DEFINE n == Len(F)
           g == Received(F[n], c)
<1>1. n \in 1 .. Len(F) /\ F[n] \in FrameType
  BY DEF Frames
<1>2. g \in FrameType
  BY <1>1, ReceivedOK
<1>3. Deliver(F, c) = [F EXCEPT ![n] = g]
  BY DEF Deliver
<1> HIDE DEF n, g
<1>4. /\ [F EXCEPT ![n] = g] \in Frames /\ Len([F EXCEPT ![n] = g]) = Len(F)
      /\ \A i \in 1 .. Len(F) : [F EXCEPT ![n] = g][i] = IF i = n THEN g ELSE F[i]
  BY <1>1, <1>2, ExceptSeq DEF Frames
<1> QED BY <1>1, <1>3, <1>4 DEF n, g, Frames

\* A frame whose code is replaced is well formed.
LEMMA RewrittenOK ==
  ASSUME NEW f \in FrameType, NEW c \in Chains, NEW k \in Nat
  PROVE  /\ Rewritten(f, c, k) \in FrameType
         /\ Rewritten(f, c, k).kind = f.kind
         /\ Rewritten(f, c, k).id = f.id
         /\ Rewritten(f, c, k).cur = k
         /\ Rewritten(f, c, k).todo = f.todo
         /\ Rewritten(f, c, k).slots[1] = c
         /\ Rewritten(f, c, k).slots[2] = f.slots[2]
<1> DEFINE slots == [f.slots EXCEPT ![1] = c]
<1>1. slots \in [{1, 2} -> Chains] /\ slots[1] = c /\ slots[2] = f.slots[2]
  BY DEF FrameType
<1> HIDE DEF slots
<1>2. Rewritten(f, c, k) = [f EXCEPT !.slots = slots, !.cur = k]
  BY DEF Rewritten, slots
<1>3. Rewritten(f, c, k) \in FrameType
  BY <1>1, <1>2 DEF FrameType
<1>4. /\ Rewritten(f, c, k).kind = f.kind /\ Rewritten(f, c, k).id = f.id
      /\ Rewritten(f, c, k).cur = k /\ Rewritten(f, c, k).todo = f.todo
      /\ Rewritten(f, c, k).slots = slots
  BY <1>2 DEF FrameType
<1> QED BY <1>1, <1>3, <1>4

\* Rewrite changes the innermost frame only.
LEMMA RewriteOK ==
  ASSUME stack \in Frames, Len(stack) > 0, NEW c \in Chains, NEW k \in Nat, Rewrite(c, k)
  PROVE  /\ stack' \in Frames
         /\ Len(stack') = Len(stack)
         /\ \A i \in 1 .. Len(stack) - 1 : stack'[i] = stack[i]
         /\ stack'[Len(stack)] = Rewritten(Top, c, k)
<1> DEFINE n == Len(stack)
           g == Rewritten(Top, c, k)
<1>1. n \in 1 .. Len(stack) /\ Top \in FrameType
  BY DEF Frames, Top
<1>2. g \in FrameType
  BY <1>1, RewrittenOK
<1> DEFINE E == [stack EXCEPT ![n] = g]
<1>3. stack' = E
  BY DEF Rewrite
<1> HIDE DEF n, g
<1>4. /\ E \in Frames /\ Len(E) = Len(stack)
      /\ \A i \in 1 .. Len(stack) : E[i] = IF i = n THEN g ELSE stack[i]
  BY <1>1, <1>2, ExceptSeq DEF Frames
<1> HIDE DEF E
<1> QED BY <1>1, <1>3, <1>4 DEF n, g, Frames

\* A new activation has a well-formed frame.
LEMMA FrameOK ==
  ASSUME NEW kind \in CompoundKinds \cup {"file"}, NEW flag \in BOOLEAN,
         NEW kids \in Seq(Stmts), NEW id \in Nat, NEW scope \in Nat
  PROVE  Frame(kind, flag, kids, id, scope) \in FrameType
<1>1. [i \in {1, 2} |-> << >>] \in [{1, 2} -> Chains]
  BY Empty
<1> QED BY <1>1 DEF Frame, FrameType

\* Entering a statement adds one frame on top.
LEMMA PushOK ==
  ASSUME NEW F \in Frames, NEW g \in FrameType
  PROVE  /\ Append(F, g) \in Frames
         /\ Len(Append(F, g)) = Len(F) + 1
         /\ \A i \in 1 .. Len(F) : Append(F, g)[i] = F[i]
         /\ Append(F, g)[Len(F) + 1] = g
  BY DEF Frames

-----------------------------------------------------------------------------
(* Type correctness.  It needs to know which frame may be on top of which: *)
(* Deliver takes the head of the todo list of the frame below.             *)

\* The shape of the stack of activations: MConvert's frame is the only one
\* of its kind and the outermost, OptimizeLabels runs only when a block or a
\* while has no statement left, and every caller waits for its next kid.
Shape ==
  /\ Len(stack) > 0
  /\ \A f \in DOMAIN stack : stack[f].kind = "file" <=> f = 1
  /\ \A f \in DOMAIN stack :
       stack[f].cur > 0 => stack[f].kind \in {"block", "while"} /\ stack[f].todo = << >>
  /\ \A f \in DOMAIN stack : f < Len(stack) => stack[f].todo # << >>

TypeInv == TypeOK /\ Shape

\* What TypeInv says of the innermost frame.
LEMMA StackOK ==
  ASSUME TypeInv
  PROVE  /\ stack \in Frames /\ Len(stack) \in Nat /\ Len(stack) > 0
         /\ DOMAIN stack = 1 .. Len(stack)
         /\ Top = stack[Len(stack)] /\ Top \in FrameType
<1>1. stack \in Seq(FrameType)
  BY DEF TypeInv, TypeOK
<1>2. Len(stack) > 0
  BY DEF TypeInv, Shape
<1>3. Len(stack) \in Nat /\ DOMAIN stack = 1 .. Len(stack)
  BY <1>1
<1>4. Top = stack[Len(stack)]
  BY DEF Top
<1>5. Top \in FrameType
  BY <1>1, <1>2, <1>3, <1>4
<1> QED BY <1>1, <1>2, <1>3, <1>4, <1>5 DEF Frames

\* The type invariant holds initially.
LEMMA TypeInit == Init => TypeInv
<1> SUFFICES ASSUME Init PROVE TypeInv
  OBVIOUS
<1> DEFINE g == Frame("file", FALSE, <<source>>, 0, 0)
<1>1. source \in Programs /\ source \in Stmts
  BY ProgramAssumption DEF Init
<1>2. <<source>> \in Seq(Stmts)
  BY <1>1
<1>3. g \in FrameType
  BY <1>2, FrameOK
<1>4. g.kind = "file" /\ g.cur = 0
  BY DEF Frame
<1>5. stack = <<g>>
  BY DEF Init
<1> HIDE DEF g
<1>6. stack \in Seq(FrameType) /\ Len(stack) = 1 /\ stack[1] = g
  BY <1>3, <1>5
<1>7. Shape
  BY <1>4, <1>6 DEF Shape
<1>8. idmap \in [Counters -> Nat] /\ currentScope \in Nat /\ prog \in Chains
      /\ phase \in {"convert", "done", "threw"}
  BY Empty DEF Init
<1> QED BY <1>1, <1>6, <1>7, <1>8 DEF TypeInv, TypeOK

\* The kids of a compound statement are statements.
LEMMA KidsOK ==
  ASSUME TypeInv, Top.todo # << >>
  PROVE  /\ Head(Top.todo) \in Stmts
         /\ Head(Top.todo).kids \in Seq(Stmts)
         /\ Head(Top.todo).flag \in BOOLEAN
         /\ Tail(Top.todo) \in Seq(Stmts)
<1>1. Top \in FrameType
  BY StackOK
<1>2. Top.todo \in Seq(Stmts)
  BY <1>1 DEF FrameType
<1>3. Head(Top.todo) \in Stmts /\ Tail(Top.todo) \in Seq(Stmts)
  BY <1>2
<1> QED BY <1>3, StmtsAssumption DEF StmtOK

\* The body of a while is a statement.
LEMMA BodyOK ==
  ASSUME TypeInv, Top.todo # << >>, Head(Top.todo).kind = "while"
  PROVE  <<Head(Top.todo).kids[1]>> \in Seq(Stmts)
<1>1. Head(Top.todo) \in Stmts /\ Head(Top.todo).kids \in Seq(Stmts)
  BY KidsOK
<1>2. Len(Head(Top.todo).kids) = 2
  BY <1>1, StmtsAssumption DEF StmtOK
<1>3. Head(Top.todo).kids[1] \in Stmts
  BY <1>1, <1>2
<1> QED BY <1>3

\* Entering a compound statement.
LEMMA PushKeepsType ==
  ASSUME TypeInv, Top.todo # << >>, Top.cur = 0,
         NEW kind \in CompoundKinds, NEW flag \in BOOLEAN, NEW kids \in Seq(Stmts),
         NEW id \in Nat, NEW scope \in Nat,
         stack' = Append(stack, Frame(kind, flag, kids, id, scope))
  PROVE  stack' \in Seq(FrameType) /\ Shape'
<1> DEFINE g == Frame(kind, flag, kids, id, scope)
<1>1. g \in FrameType
  BY FrameOK
<1>2. g.kind = kind /\ g.cur = 0 /\ kind # "file"
  BY DEF Frame, CompoundKinds
<1>3. stack' = Append(stack, g)
  OBVIOUS
<1> HIDE DEF g
<1>4. stack \in Frames /\ Len(stack) \in Nat /\ Len(stack) > 0
  BY StackOK
<1>5. /\ stack' \in Frames /\ Len(stack') = Len(stack) + 1
      /\ \A i \in 1 .. Len(stack) : stack'[i] = stack[i]
      /\ stack'[Len(stack) + 1] = g
  BY <1>1, <1>3, <1>4, PushOK
<1>6. /\ DOMAIN stack = 1 .. Len(stack) /\ DOMAIN stack' = 1 .. Len(stack) + 1
  BY <1>4, <1>5 DEF Frames
<1>7. Shape'
  BY <1>2, <1>4, <1>5, <1>6 DEF Shape, TypeInv, Top
<1> QED BY <1>5, <1>7 DEF Frames

\* A caller receives the code of a kid that was a leaf.
LEMMA LeafKeepsType ==
  ASSUME TypeInv, Top.todo # << >>, NEW c \in Chains, stack' = Deliver(stack, c)
  PROVE  stack' \in Seq(FrameType) /\ Shape'
<1>1. stack \in Frames /\ Len(stack) \in Nat /\ Len(stack) > 0
  BY StackOK
<1>2. Top = stack[Len(stack)] /\ Top \in FrameType
  BY StackOK
<1>3. /\ stack' \in Frames /\ Len(stack') = Len(stack)
      /\ \A i \in 1 .. Len(stack) - 1 : stack'[i] = stack[i]
      /\ stack'[Len(stack)] = Received(Top, c)
  BY <1>1, <1>2, DeliverOK
<1>4. Received(Top, c).kind = Top.kind /\ Received(Top, c).cur = Top.cur
  BY <1>2, ReceivedOK
<1>5. DOMAIN stack = 1 .. Len(stack) /\ DOMAIN stack' = 1 .. Len(stack)
  BY <1>1, <1>3 DEF Frames
<1>6. Top.cur = 0
  BY <1>1, <1>2, <1>5 DEF TypeInv, Shape, FrameType
<1>7. Shape'
  BY <1>1, <1>2, <1>3, <1>4, <1>5, <1>6 DEF Shape, TypeInv
<1> QED BY <1>3, <1>7 DEF Frames

\* A caller receives the code of a compound kid, whose frame is dropped.
LEMMA PopKeepsType ==
  ASSUME TypeInv, Top.kind # "file", NEW c \in Chains, stack' = Deliver(Under, c)
  PROVE  /\ stack' \in Seq(FrameType) /\ Shape'
         /\ Len(stack') = Len(stack) - 1
         /\ \A i \in 1 .. Len(stack) - 2 : stack'[i] = stack[i]
         /\ stack'[Len(stack) - 1] = Received(stack[Len(stack) - 1], c)
         /\ stack[Len(stack) - 1].todo # << >>
<1> DEFINE n == Len(stack) - 1
<1>1. stack \in Frames /\ Len(stack) \in Nat /\ Len(stack) > 0
  BY StackOK
<1>2. DOMAIN stack = 1 .. Len(stack)
  BY <1>1 DEF Frames
<1>3. Len(stack) > 1
  BY <1>1, <1>2 DEF TypeInv, Shape, Top
<1>4. n \in 1 .. Len(stack) /\ n < Len(stack) /\ n > 0
  BY <1>1, <1>3
<1>5. stack[n].todo # << >> /\ stack[n] \in FrameType
  BY <1>1, <1>2, <1>4 DEF TypeInv, Shape, Frames
<1>6. Under \in Frames /\ Len(Under) = n /\ \A i \in 1 .. n : Under[i] = stack[i]
  BY <1>1, UnderOK
<1> DEFINE U == Under
<1> HIDE DEF n, U
<1>7. /\ stack' \in Frames /\ Len(stack') = n
      /\ \A i \in 1 .. n - 1 : stack'[i] = U[i]
      /\ stack'[n] = Received(U[n], c)
  BY <1>4, <1>5, <1>6, DeliverOK DEF U
<1>8. U[n] = stack[n] /\ \A i \in 1 .. n - 1 : U[i] = stack[i]
  BY <1>1, <1>4, <1>6 DEF U, n
<1>9. /\ Received(stack[n], c).kind = stack[n].kind
      /\ Received(stack[n], c).cur = stack[n].cur
  BY <1>5, ReceivedOK
<1>10. stack[n].cur = 0
  BY <1>2, <1>4, <1>5 DEF TypeInv, Shape, FrameType
<1>11. DOMAIN stack' = 1 .. n
  BY <1>7 DEF Frames
<1>12. Shape'
  <2>1. \A i \in 1 .. n : stack'[i].kind = stack[i].kind /\ stack'[i].cur = stack[i].cur
    BY <1>4, <1>7, <1>8, <1>9
  <2>2. \A i \in 1 .. n - 1 : stack'[i] = stack[i]
    BY <1>7, <1>8
  <2>3. 1 .. n \subseteq DOMAIN stack /\ n \in Nat
    BY <1>1, <1>2, <1>4
  <2>4. \A i \in DOMAIN stack' : stack'[i].kind = "file" <=> i = 1
    BY <1>11, <2>1, <2>3 DEF TypeInv, Shape
  <2>5. \A i \in DOMAIN stack' :
          stack'[i].cur > 0 => stack'[i].kind \in {"block", "while"} /\ stack'[i].todo = << >>
    <3>1. \A i \in 1 .. n : stack'[i].cur > 0 => i \in 1 .. n - 1
      BY <1>10, <2>1, <2>3
    <3>2. \A i \in 1 .. n - 1 :
            stack[i].cur > 0 => stack[i].kind \in {"block", "while"} /\ stack[i].todo = << >>
      BY <2>3 DEF TypeInv, Shape
    <3> QED BY <1>11, <2>2, <3>1, <3>2
  <2>6. \A i \in DOMAIN stack' : i < Len(stack') => stack'[i].todo # << >>
    <3>1. \A i \in 1 .. n - 1 : stack[i].todo # << >>
      BY <1>1, <1>4, <2>3 DEF TypeInv, Shape
    <3> QED BY <1>7, <1>11, <2>2, <2>3, <3>1
  <2> QED BY <1>4, <1>7, <2>4, <2>5, <2>6 DEF Shape
<1>13. \A i \in 1 .. Len(stack) - 2 : stack'[i] = stack[i]
  BY <1>1, <1>7, <1>8 DEF n
<1>14. stack'[Len(stack) - 1] = Received(stack[Len(stack) - 1], c)
  BY <1>7, <1>8 DEF n
<1>15. stack' \in Seq(FrameType) /\ Len(stack') = Len(stack) - 1
  BY <1>7 DEF Frames, n
<1>16. stack[Len(stack) - 1].todo # << >>
  BY <1>5 DEF n
<1> QED BY <1>12, <1>13, <1>14, <1>15, <1>16

\* OptimizeLabels, or the code that starts it, replaces the innermost code.
LEMMA RewriteKeepsType ==
  ASSUME TypeInv, Top.kind \in {"block", "while"}, Top.todo = << >>,
         NEW c \in Chains, NEW k \in Nat, Rewrite(c, k)
  PROVE  stack' \in Seq(FrameType) /\ Shape'
<1>1. stack \in Frames /\ Len(stack) \in Nat /\ Len(stack) > 0
  BY StackOK
<1>2. Top = stack[Len(stack)] /\ Top \in FrameType
  BY StackOK
<1>3. /\ stack' \in Frames /\ Len(stack') = Len(stack)
      /\ \A i \in 1 .. Len(stack) - 1 : stack'[i] = stack[i]
      /\ stack'[Len(stack)] = Rewritten(Top, c, k)
  BY <1>1, RewriteOK
<1>4. Rewritten(Top, c, k).kind = Top.kind /\ Rewritten(Top, c, k).todo = Top.todo
  BY <1>2, RewrittenOK
<1>5. DOMAIN stack = 1 .. Len(stack) /\ DOMAIN stack' = 1 .. Len(stack)
  BY <1>1, <1>3 DEF Frames
<1>6. Shape'
  BY <1>1, <1>2, <1>3, <1>4, <1>5 DEF Shape, TypeInv
<1> QED BY <1>3, <1>6 DEF Frames

\* GetUniqueID.
Counted(m, name) == [m EXCEPT ![name] = m[name] + 1]

\* GetUniqueID keeps the counters numbers.
LEMMA CountedOK ==
  ASSUME NEW m \in [Counters -> Nat], NEW name \in Counters
  PROVE  /\ Counted(m, name) \in [Counters -> Nat]
         /\ m[name] \in Nat
         /\ Counted(m, name)[name] = m[name] + 1
         /\ \A other \in Counters : m[other] \in Nat /\ m[other] <= Counted(m, name)[other]
  BY DEF Counted

\* Every action keeps the type invariant, one step per action.
LEMMA TypeStep == TypeInv /\ [Next]_vars => TypeInv'
<1> SUFFICES ASSUME TypeInv, [Next]_vars PROVE TypeInv'
  OBVIOUS
<1>t. /\ source \in Programs /\ idmap \in [Counters -> Nat] /\ currentScope \in Nat
      /\ prog \in Chains /\ phase \in {"convert", "done", "threw"}
      /\ Top \in FrameType
  BY StackOK DEF TypeInv, TypeOK
<1>c. Top.slots \in [{1, 2} -> Chains] /\ Top.id \in Nat /\ Top.flag \in BOOLEAN
      /\ Top.scope \in Nat /\ Top.cur \in Nat
  BY <1>t DEF FrameType
<1>d. Top.todo # << >> => Top.cur = 0
  BY StackOK, <1>c DEF TypeInv, Shape
<1> SUFFICES /\ stack' \in Seq(FrameType) /\ Shape'
             /\ source' \in Programs /\ idmap' \in [Counters -> Nat]
             /\ currentScope' \in Nat /\ prog' \in Chains
             /\ phase' \in {"convert", "done", "threw"}
  BY DEF TypeInv, TypeOK
<1>1. CASE ConvertLeaf
  <2>1. Top.todo # << >> /\ LeafCode(Head(Top.todo)) \in Chains
    BY <1>1, KidsOK, LeafCodeOK DEF ConvertLeaf, Pending
  <2> QED BY <1>1, <1>t, <2>1, LeafKeepsType DEF ConvertLeaf
<1>2. CASE ThrowUnsupported
  BY <1>2, <1>t, StackOK DEF ThrowUnsupported, TypeInv, Shape, Frames
<1>3. CASE EnterBlock
  <2>1. Top.todo # << >> /\ currentScope + 1 \in Nat
    <3>1. Top.todo # << >>
      BY <1>3 DEF EnterBlock, Pending
    <3> QED BY <1>t, <3>1
  <2>2. Head(Top.todo).kids \in Seq(Stmts) /\ "block" \in CompoundKinds
    BY <2>1, KidsOK DEF CompoundKinds
  <2>3. stack' \in Seq(FrameType) /\ Shape'
    BY <1>3, <1>d, <2>1, <2>2, PushKeepsType DEF EnterBlock
  <2> QED BY <1>3, <1>t, <2>1, <2>3 DEF EnterBlock
<1>4. CASE EnterIf
  <2>1. Top.todo # << >> /\ idmap["default"] \in Nat
    BY <1>4, <1>t DEF EnterIf, Pending, Counters
  <2>2. /\ Head(Top.todo).kids \in Seq(Stmts) /\ "if" \in CompoundKinds
        /\ Head(Top.todo).flag \in BOOLEAN
    BY <2>1, KidsOK DEF CompoundKinds
  <2>3. stack' \in Seq(FrameType) /\ Shape'
    BY <1>4, <1>d, <2>1, <2>2, PushKeepsType DEF EnterIf
  <2>4. idmap' \in [Counters -> Nat]
    <3>1. idmap' = Counted(idmap, "default")
      BY <1>4 DEF EnterIf, Counted
    <3>2. idmap \in [Counters -> Nat] /\ "default" \in Counters
      BY <1>t DEF Counters
    <3> QED BY <3>1, <3>2, CountedOK
  <2>5. UNCHANGED <<source, currentScope, prog, phase>>
    BY <1>4 DEF EnterIf
  <2> QED BY <1>t, <2>3, <2>4, <2>5
<1>5. CASE EnterWhile
  <2>1. Top.todo # << >> /\ Head(Top.todo).kind = "while" /\ idmap["while"] \in Nat
    BY <1>5, <1>t DEF EnterWhile, Pending, Counters
  <2>2. <<Head(Top.todo).kids[1]>> \in Seq(Stmts) /\ "while" \in CompoundKinds
    BY <2>1, BodyOK DEF CompoundKinds
  <2>3. stack' \in Seq(FrameType) /\ Shape'
    BY <1>5, <1>d, <2>1, <2>2, PushKeepsType DEF EnterWhile
  <2>4. idmap' \in [Counters -> Nat]
    <3>1. idmap' = Counted(idmap, "while")
      BY <1>5 DEF EnterWhile, Counted
    <3>2. idmap \in [Counters -> Nat] /\ "while" \in Counters
      BY <1>t DEF Counters
    <3> QED BY <3>1, <3>2, CountedOK
  <2>5. UNCHANGED <<source, currentScope, prog, phase>>
    BY <1>5 DEF EnterWhile
  <2> QED BY <1>t, <2>3, <2>4, <2>5
<1>6. CASE LeaveIf
  <2>1. Top.kind # "file"
    BY <1>6 DEF LeaveIf, Converted
  <2>2. IfCode(Top.flag, Top.id, Top.slots[1], Top.slots[2]) \in Chains
    BY <1>c, IfCodeType
  <2>3. stack' \in Seq(FrameType) /\ Shape'
    BY <1>6, <2>1, <2>2, PopKeepsType DEF LeaveIf
  <2> QED BY <1>6, <1>t, <2>3 DEF LeaveIf
<1>7. CASE LinkBlock
  <2> DEFINE outer == IF currentScope > 0 THEN currentScope - 1 ELSE 0
             code  == BlockCode(Top.scope, outer, Top.slots[1])
             k     == IF OptimizeLabels /\ Top.slots[1] # << >> THEN 2 ELSE Len(code)
  <2>1. outer \in Nat
    BY <1>t
  <2>2. Top.kind \in {"block", "while"} /\ Top.todo = << >>
    BY <1>7 DEF LinkBlock, Converted
  <2>3. Rewrite(code, k) /\ currentScope' = outer /\ UNCHANGED <<source, idmap, prog, phase>>
    BY <1>7 DEF LinkBlock
  <2> HIDE DEF outer
  <2>4. code \in Chains
    BY <1>c, <2>1, InstructionTypes, BracketType DEF BlockCode
  <2>5. k \in Nat
    BY <2>4 DEF Chains
  <2> HIDE DEF code, k
  <2>6. stack' \in Seq(FrameType) /\ Shape'
    BY <2>2, <2>3, <2>4, <2>5, RewriteKeepsType
  <2> QED BY <1>t, <2>1, <2>3, <2>6
<1>8. CASE LinkWhile
  <2> DEFINE code == WhileCode(Top.id, Top.slots[1])
             k    == IF OptimizeLabels THEN 1 ELSE Len(code)
  <2>1. Top.kind \in {"block", "while"} /\ Top.todo = << >>
    BY <1>8 DEF LinkWhile, Converted
  <2>2. Rewrite(code, k) /\ UNCHANGED <<source, idmap, currentScope, prog, phase>>
    BY <1>8 DEF LinkWhile
  <2>3. code \in Chains
    BY <1>c, WhileCodeType
  <2>4. k \in Nat
    BY <2>3 DEF Chains
  <2> HIDE DEF code, k
  <2>5. stack' \in Seq(FrameType) /\ Shape'
    BY <2>1, <2>2, <2>3, <2>4, RewriteKeepsType
  <2> QED BY <1>t, <2>2, <2>5
<1>s. Top.cur > 0 => Top.kind \in {"block", "while"} /\ Top.todo = << >>
  BY StackOK DEF TypeInv, Shape
<1>9. CASE MergeLabel
  <2> DEFINE c == Top.slots[1]
             k == Top.cur
  <2>1. c \in Chains /\ Len(c) \in Nat /\ k \in 1 .. Len(c) /\ k + 1 \in 1 .. Len(c) /\ k > 0
    BY <1>9, <1>c DEF MergeLabel, Scanning, Chains
  <2>2. IsLabel(c[k]) /\ IsLabel(c[k + 1])
    BY <1>9 DEF MergeLabel, TwoLabels
  <2>3. c[k].label \in Labels /\ c[k + 1].label \in Labels
    BY <2>1, <2>2, LabelOfLabel
  <2> DEFINE d == ChangeAllLabelReferences(c, Root(Top), c[k].label, c[k + 1].label)
  <2>4. Rewrite(Unlink(d, k), k) /\ UNCHANGED <<source, idmap, currentScope, prog, phase>>
    BY <1>9 DEF MergeLabel
  <2>5. Root(Top) \in Nat
    BY DEF Root
  <2>6. d \in Chains /\ Len(d) = Len(c)
    BY <2>1, <2>3, <2>5, ChangeAllOK
  <2> HIDE DEF d
  <2>7. Unlink(d, k) \in Chains
    BY <2>1, <2>6, UnlinkOK
  <2>8. stack' \in Seq(FrameType) /\ Shape'
    BY <1>s, <2>1, <2>4, <2>7, RewriteKeepsType
  <2> QED BY <1>t, <2>4, <2>8
<1>10. CASE NextInstruction
  <2>1. Top.slots[1] \in Chains /\ Top.cur + 1 \in Nat /\ Top.cur > 0
    BY <1>10, <1>c DEF NextInstruction, Scanning
  <2>2. Rewrite(Top.slots[1], Top.cur + 1) /\ UNCHANGED <<source, idmap, currentScope, prog, phase>>
    BY <1>10 DEF NextInstruction
  <2>3. stack' \in Seq(FrameType) /\ Shape'
    BY <1>s, <2>1, <2>2, RewriteKeepsType
  <2> QED BY <1>t, <2>2, <2>3
<1>11. CASE Return
  <2>1. Top.kind # "file" /\ Top.slots[1] \in Chains
    BY <1>11, <1>s, <1>c DEF Return
  <2>2. stack' \in Seq(FrameType) /\ Shape'
    BY <1>11, <2>1, PopKeepsType DEF Return
  <2> QED BY <1>11, <1>t, <2>2 DEF Return
<1>12. CASE FinishFile
  <2>1. [op |-> "SOF"] \in Instructions /\ [op |-> "EOF"] \in Instructions
    BY InstructionTypes
  <2>2. prog' \in Chains
    BY <1>12, <1>c, <2>1, BracketType DEF FinishFile
  <2>3. phase' = "done" /\ UNCHANGED <<source, stack, idmap, currentScope>>
    BY <1>12 DEF FinishFile
  <2>4. stack' \in Seq(FrameType) /\ Shape'
    BY <2>3, StackOK DEF Frames, TypeInv, Shape
  <2> QED BY <1>t, <2>2, <2>3, <2>4
<1>13. CASE UNCHANGED vars
  BY <1>13, <1>t, StackOK DEF vars, Frames, TypeInv, Shape
<1> QED
  BY <1>1, <1>2, <1>3, <1>4, <1>5, <1>6, <1>7, <1>8, <1>9, <1>10, <1>11, <1>12, <1>13
  DEF Next

\* Every chain and frame the converter builds is well formed, for every set
\* of statements closed under kids, whether or not labels are optimised.
THEOREM TypeCorrect == Spec => []TypeOK
<1>1. Init => TypeInv
  BY TypeInit
<1>2. TypeInv /\ [Next]_vars => TypeInv'
  BY TypeStep
<1>3. TypeInv => TypeOK
  BY DEF TypeInv
<1> QED BY <1>1, <1>2, <1>3, PTL DEF Spec

-----------------------------------------------------------------------------
(* Labels are unique.  That no chain defines a label twice is not          *)
(* inductive: chains are concatenated, so two chains that will meet must   *)
(* have no label in common, and neither may have one that an open if or    *)
(* while has a number for but has not emitted yet.                         *)

\* The labels whose numbers GetUniqueID has given out.
Issued(m) ==
  {l \in Labels : l[2] < m[IF l[1] \in {"ifelse", "ifend"} THEN "default" ELSE "while"]}

\* The labels that an activation is still going to emit.
Reserved(f) ==
  IF f.kind = "if" THEN IfLabels(f.id)
  ELSE IF f.kind = "while" /\ f.cur = 0 THEN WhileLabels(f.id)
  ELSE {}

\* The three sets of labels an activation is responsible for.
Owned(f, x) == IF x = 0 THEN Reserved(f) ELSE LabelsOf(f.slots[x])

LabelInv(F, m) ==
  /\ \A f \in DOMAIN F, x \in 0 .. 2 : Owned(F[f], x) \subseteq Issued(m)
  /\ \A f \in DOMAIN F, t \in {1, 2} : Distinct(F[f].slots[t])
  /\ \A f, g \in DOMAIN F, x, y \in 0 .. 2 :
       f # g \/ x # y => Owned(F[f], x) \cap Owned(F[g], y) = {}

\* Only the innermost frame changes, within a pool of labels no other owns.
LEMMA ReplaceTopLabels ==
  ASSUME NEW F \in Frames, NEW G \in Frames, NEW m, NEW P,
         Len(F) > 0, Len(G) = Len(F), \A i \in 1 .. Len(F) - 1 : G[i] = F[i],
         LabelInv(F, m), P \subseteq Issued(m),
         \A i \in 1 .. Len(F) - 1, x \in 0 .. 2 : P \cap Owned(F[i], x) = {},
         \A x \in 0 .. 2 : Owned(G[Len(F)], x) \subseteq P,
         \A x, y \in 0 .. 2 : x # y => Owned(G[Len(F)], x) \cap Owned(G[Len(F)], y) = {},
         \A t \in {1, 2} : Distinct(G[Len(F)].slots[t])
  PROVE  LabelInv(G, m)
<1> DEFINE n == Len(F)
<1>1. DOMAIN F = 1 .. n /\ DOMAIN G = 1 .. n /\ n \in Nat /\ n > 0
  BY DEF Frames
<1>2. ASSUME NEW f \in DOMAIN G, NEW x \in 0 .. 2
      PROVE  Owned(G[f], x) \subseteq Issued(m)
  <2>1. CASE f = n BY <2>1
  <2>2. CASE f # n
    <3>1. f \in DOMAIN F /\ f \in 1 .. n - 1 BY <1>1, <2>2
    <3> QED BY <3>1 DEF LabelInv
  <2> QED BY <2>1, <2>2
<1>3. ASSUME NEW f \in DOMAIN G, NEW t \in {1, 2}
      PROVE  Distinct(G[f].slots[t])
  <2>1. CASE f = n BY <2>1
  <2>2. CASE f # n
    <3>1. f \in DOMAIN F /\ f \in 1 .. n - 1 BY <1>1, <2>2
    <3> QED BY <3>1 DEF LabelInv
  <2> QED BY <2>1, <2>2
<1>4. ASSUME NEW f \in DOMAIN G, NEW g \in DOMAIN G, NEW x \in 0 .. 2, NEW y \in 0 .. 2,
             f # g \/ x # y
      PROVE  Owned(G[f], x) \cap Owned(G[g], y) = {}
  <2>1. CASE f = n /\ g = n
    BY <1>4, <2>1
  <2>2. CASE f = n /\ g # n
    <3>1. g \in 1 .. n - 1 /\ G[g] = F[g] BY <1>1, <2>2
    <3>2. P \cap Owned(G[g], y) = {} BY <3>1
    <3> QED BY <2>2, <3>2
  <2>3. CASE f # n /\ g = n
    <3>1. f \in 1 .. n - 1 /\ G[f] = F[f] BY <1>1, <2>3
    <3>2. P \cap Owned(G[f], x) = {} BY <3>1
    <3> QED BY <2>3, <3>2
  <2>4. CASE f # n /\ g # n
    <3>1. f \in DOMAIN F /\ G[f] = F[f] /\ g \in DOMAIN F /\ G[g] = F[g]
      BY <1>1, <2>4
    <3> QED BY <1>4, <3>1 DEF LabelInv
  <2> QED BY <2>1, <2>2, <2>3, <2>4
<1> QED BY <1>2, <1>3, <1>4 DEF LabelInv

\* A caller receives a chain of labels nobody else owns.
LEMMA DeliverLabels ==
  ASSUME NEW F \in Frames, Len(F) > 0, F[Len(F)].todo # << >>, NEW m, LabelInv(F, m),
         F[Len(F)].cur = 0,
         NEW c \in Chains, Distinct(c), LabelsOf(c) \subseteq Issued(m),
         \A f \in DOMAIN F, x \in 0 .. 2 : LabelsOf(c) \cap Owned(F[f], x) = {}
  PROVE  LabelInv(Deliver(F, c), m)
<1> DEFINE n == Len(F)
           f == F[n]
           g == Received(f, c)
           s == SlotOf(f)
           P == Owned(f, 0) \cup Owned(f, 1) \cup Owned(f, 2) \cup LabelsOf(c)
<1>1. n \in DOMAIN F /\ f \in FrameType /\ DOMAIN F = 1 .. n /\ n \in Nat
  BY DEF Frames
<1>2. /\ Deliver(F, c) \in Frames /\ Len(Deliver(F, c)) = n
      /\ \A i \in 1 .. n - 1 : Deliver(F, c)[i] = F[i]
      /\ Deliver(F, c)[n] = g
  BY DeliverOK
<1>3. /\ s \in {1, 2} /\ g.kind = f.kind /\ g.id = f.id /\ g.cur = f.cur
      /\ g.slots[s] = f.slots[s] \o c
      /\ \A t \in {1, 2} \ {s} : g.slots[t] = f.slots[t]
  BY <1>1, ReceivedOK
<1>4. f.slots[s] \in Chains
  BY <1>1, <1>3 DEF FrameType
<1> HIDE DEF n, f, g, s
<1>5. Owned(g, 0) = Owned(f, 0)
  BY <1>3 DEF Owned, Reserved
<1>6. Owned(g, s) = Owned(f, s) \cup LabelsOf(c)
  BY <1>3, <1>4, ConcatLabels DEF Owned
<1>7. \A t \in {1, 2} \ {s} : Owned(g, t) = Owned(f, t)
  BY <1>3 DEF Owned
<1>8. \A x \in 0 .. 2 : LabelsOf(c) \cap Owned(f, x) = {}
  BY <1>1 DEF f
<1>9. \A t \in {1, 2} : Distinct(f.slots[t])
  BY <1>1 DEF LabelInv, f
<1>10. \A t \in {1, 2} : Distinct(g.slots[t])
  <2>1. LabelsOf(f.slots[s]) \cap LabelsOf(c) = {}
    BY <1>3, <1>8 DEF Owned
  <2>2. Distinct(g.slots[s])
    BY <1>3, <1>4, <1>9, <2>1, ConcatDistinct
  <2> QED BY <1>3, <1>9, <2>2
<1>11. \A x, y \in 0 .. 2 : x # y => Owned(f, x) \cap Owned(f, y) = {}
  BY <1>1 DEF LabelInv, f
<1>12. \A x, y \in 0 .. 2 : x # y => Owned(g, x) \cap Owned(g, y) = {}
  <2>1. \A x \in 0 .. 2 : Owned(g, x) = IF x = s THEN Owned(f, x) \cup LabelsOf(c)
                                                 ELSE Owned(f, x)
    BY <1>3, <1>5, <1>6, <1>7
  <2> QED BY <1>8, <1>11, <2>1
<1>13. \A x \in 0 .. 2 : Owned(g, x) \subseteq P
  <2>1. s = 1 \/ s = 2 BY <1>3
  <2> QED BY <1>5, <1>6, <1>7, <2>1
<1>14. P \subseteq Issued(m)
  <2>1. \A x \in 0 .. 2 : Owned(f, x) \subseteq Issued(m)
    BY <1>1 DEF LabelInv, f
  <2> QED BY <2>1
<1>15. \A i \in 1 .. n - 1, x \in 0 .. 2 : P \cap Owned(F[i], x) = {}
  <2> SUFFICES ASSUME NEW i \in 1 .. n - 1, NEW x \in 0 .. 2
               PROVE  P \cap Owned(F[i], x) = {}
    OBVIOUS
  <2>1. i \in DOMAIN F /\ i # n
    BY <1>1
  <2>2. \A y \in 0 .. 2 : Owned(f, y) \cap Owned(F[i], x) = {}
    BY <1>1, <2>1 DEF LabelInv, f
  <2>3. LabelsOf(c) \cap Owned(F[i], x) = {}
    BY <2>1
  <2> QED BY <2>2, <2>3
<1> HIDE DEF P
<1> DEFINE G == Deliver(F, c)
<1>16. /\ G \in Frames /\ Len(G) = Len(F) /\ \A i \in 1 .. Len(F) - 1 : G[i] = F[i]
       /\ G[Len(F)] = g
  BY <1>2 DEF n
<1>17. \A i \in 1 .. Len(F) - 1, x \in 0 .. 2 : P \cap Owned(F[i], x) = {}
  BY <1>15 DEF n
<1> HIDE DEF G
<1>18. LabelInv(G, m)
  <2>1. \A x \in 0 .. 2 : Owned(G[Len(F)], x) \subseteq P
    BY <1>13, <1>16
  <2>2. \A x, y \in 0 .. 2 : x # y => Owned(G[Len(F)], x) \cap Owned(G[Len(F)], y) = {}
    BY <1>12, <1>16
  <2>3. \A t \in {1, 2} : Distinct(G[Len(F)].slots[t])
    BY <1>10, <1>16
  <2>4. G \in Frames /\ Len(G) = Len(F) /\ \A i \in 1 .. Len(F) - 1 : G[i] = F[i]
    BY <1>16
  <2> QED BY <1>14, <1>17, <2>1, <2>2, <2>3, <2>4, ReplaceTopLabels
<1> QED BY <1>18 DEF G

\* An activation begins, with numbers nobody had before.
LEMMA PushLabels ==
  ASSUME NEW F \in Frames, NEW g \in FrameType, NEW m, NEW m2, LabelInv(F, m),
         Issued(m) \subseteq Issued(m2), Reserved(g) \subseteq Issued(m2),
         Reserved(g) \cap Issued(m) = {}, g.slots = [i \in {1, 2} |-> << >>]
  PROVE  LabelInv(Append(F, g), m2)
<1> DEFINE n == Len(F) + 1
           G == Append(F, g)
<1>1. /\ DOMAIN F = 1 .. n - 1 /\ DOMAIN G = 1 .. n /\ n \in Nat
      /\ \A i \in 1 .. n - 1 : G[i] = F[i] 
      /\ G[n] = g
  BY DEF Frames
<1> HIDE DEF n, G
<1>2. \A t \in {1, 2} : Owned(g, t) = {} /\ Distinct(g.slots[t])
  BY Empty DEF Owned
<1>3. Owned(g, 0) = Reserved(g)
  BY DEF Owned
<1>4. \A x \in 0 .. 2 : Owned(g, x) \subseteq Issued(m2) /\ Owned(g, x) \cap Issued(m) = {}
  BY <1>2, <1>3
<1>5. \A x, y \in 0 .. 2 : x # y => Owned(g, x) \cap Owned(g, y) = {}
  BY <1>2, <1>3
<1>6. \A i \in DOMAIN G : i = n \/ (i \in DOMAIN F /\ G[i] = F[i])
  BY <1>1
<1>7. \A f \in DOMAIN G, x \in 0 .. 2 : Owned(G[f], x) \subseteq Issued(m2)
  BY <1>1, <1>4, <1>6 DEF LabelInv
<1>8. \A f \in DOMAIN G, t \in {1, 2} : Distinct(G[f].slots[t])
  BY <1>1, <1>2, <1>6 DEF LabelInv
<1>9. ASSUME NEW f \in DOMAIN G, NEW h \in DOMAIN G, NEW x \in 0 .. 2, NEW y \in 0 .. 2,
             f # h \/ x # y
      PROVE  Owned(G[f], x) \cap Owned(G[h], y) = {}
  <2>1. CASE f = n /\ h = n
    BY <1>1, <1>5, <1>9, <2>1
  <2>2. CASE f = n /\ h # n
    <3>1. Owned(G[h], y) \subseteq Issued(m)
      BY <1>6, <2>2 DEF LabelInv
    <3> QED BY <1>1, <1>4, <2>2, <3>1
  <2>3. CASE f # n /\ h = n
    <3>1. Owned(G[f], x) \subseteq Issued(m)
      BY <1>6, <2>3 DEF LabelInv
    <3> QED BY <1>1, <1>4, <2>3, <3>1
  <2>4. CASE f # n /\ h # n
    BY <1>6, <1>9, <2>4 DEF LabelInv
  <2> QED BY <2>1, <2>2, <2>3, <2>4
<1> QED BY <1>7, <1>8, <1>9 DEF LabelInv, G

\* OptimizeLabels, or the code that starts it: the innermost frame's own
\* labels are the only ones the new code may define.
LEMMA RewriteLabels ==
  ASSUME NEW F \in Frames, Len(F) > 0, NEW m, LabelInv(F, m),
         F[Len(F)].kind \in {"block", "while"},
         NEW c \in Chains, NEW k \in Nat, k > 0, Distinct(c),
         LabelsOf(c) \subseteq Owned(F[Len(F)], 0) \cup Owned(F[Len(F)], 1),
         NEW G \in Frames, Len(G) = Len(F), \A i \in 1 .. Len(F) - 1 : G[i] = F[i],
         G[Len(F)] = Rewritten(F[Len(F)], c, k)
  PROVE  LabelInv(G, m)
<1> DEFINE n == Len(F)
           f == F[n]
           g == Rewritten(f, c, k)
           P == Owned(f, 0) \cup Owned(f, 1) \cup Owned(f, 2)
<1>1. n \in DOMAIN F /\ f \in FrameType /\ DOMAIN F = 1 .. n /\ n \in Nat
  BY DEF Frames
<1>2. /\ g.kind = f.kind /\ g.cur = k /\ g.slots[1] = c /\ g.slots[2] = f.slots[2]
  BY <1>1, RewrittenOK
<1>3. f.kind \in {"block", "while"} /\ LabelsOf(c) \subseteq Owned(f, 0) \cup Owned(f, 1)
  OBVIOUS
<1> HIDE DEF f, g
<1>4. Owned(g, 0) = {} /\ Owned(g, 1) = LabelsOf(c) /\ Owned(g, 2) = Owned(f, 2)
  BY <1>2, <1>3 DEF Owned, Reserved
<1>5. /\ \A x \in 0 .. 2 : Owned(f, x) \subseteq Issued(m)
      /\ \A t \in {1, 2} : Distinct(f.slots[t])
      /\ \A x, y \in 0 .. 2 : x # y => Owned(f, x) \cap Owned(f, y) = {}
  BY <1>1 DEF LabelInv, f
<1>6. \A t \in {1, 2} : Distinct(g.slots[t])
  BY <1>2, <1>5
<1>7. LabelsOf(c) \cap Owned(f, 2) = {}
  BY <1>3, <1>5
<1>8. \A x, y \in 0 .. 2 : x # y => Owned(g, x) \cap Owned(g, y) = {}
  BY <1>4, <1>7
<1>9. \A x \in 0 .. 2 : Owned(g, x) \subseteq P
  BY <1>3, <1>4
<1>10. P \subseteq Issued(m)
  BY <1>5
<1>11. \A i \in 1 .. n - 1, x \in 0 .. 2 : P \cap Owned(F[i], x) = {}
  <2> SUFFICES ASSUME NEW i \in 1 .. n - 1, NEW x \in 0 .. 2
               PROVE  P \cap Owned(F[i], x) = {}
    OBVIOUS
  <2>1. i \in DOMAIN F /\ i # n
    BY <1>1
  <2>2. \A y \in 0 .. 2 : Owned(f, y) \cap Owned(F[i], x) = {}
    BY <1>1, <2>1 DEF LabelInv, f
  <2> QED BY <2>2
<1> HIDE DEF P
<1>12. G[Len(F)] = g
  BY DEF g, f
<1> QED BY <1>6, <1>8, <1>9, <1>10, <1>11, <1>12, ReplaceTopLabels

\* Dropping the innermost frame.
LEMMA UnderLabels ==
  ASSUME TypeInv, NEW m, LabelInv(stack, m)
  PROVE  LabelInv(Under, m)
<1> DEFINE U == Under
<1>1. /\ U \in Frames /\ Len(U) = Len(stack) - 1
      /\ \A i \in 1 .. Len(stack) - 1 : U[i] = stack[i]
  BY StackOK, UnderOK
<1> HIDE DEF U
<1>2. \A i \in DOMAIN U : i \in DOMAIN stack /\ U[i] = stack[i]
  BY <1>1, StackOK DEF Frames
<1>3. LabelInv(U, m)
  BY <1>2 DEF LabelInv
<1> QED BY <1>3 DEF U

\* The innermost frame's own labels belong to none of the frames under it.
LEMMA TopLabels ==
  ASSUME TypeInv, NEW m, LabelInv(stack, m)
  PROVE  /\ \A x \in 0 .. 2 : Owned(Top, x) \subseteq Issued(m)
         /\ \A t \in {1, 2} : Distinct(Top.slots[t])
         /\ \A x, y \in 0 .. 2 : x # y => Owned(Top, x) \cap Owned(Top, y) = {}
         /\ \A i \in DOMAIN Under, x, y \in 0 .. 2 : Owned(Top, x) \cap Owned(Under[i], y) = {}
<1> DEFINE n == Len(stack)
<1>1. n \in DOMAIN stack /\ Top = stack[n] /\ n \in Nat
  BY StackOK
<1>2. \A i \in DOMAIN Under : i \in DOMAIN stack /\ i # n /\ Under[i] = stack[i]
  BY StackOK, UnderOK DEF Frames
<1> HIDE DEF n
<1>3. \A x \in 0 .. 2 : Owned(Top, x) \subseteq Issued(m)
  BY <1>1 DEF LabelInv
<1>4. \A t \in {1, 2} : Distinct(Top.slots[t])
  BY <1>1 DEF LabelInv
<1>5. \A x, y \in 0 .. 2 : x # y => Owned(Top, x) \cap Owned(Top, y) = {}
  BY <1>1 DEF LabelInv
<1>6. ASSUME NEW i \in DOMAIN Under, NEW x \in 0 .. 2, NEW y \in 0 .. 2
      PROVE  Owned(Top, x) \cap Owned(Under[i], y) = {}
  BY <1>1, <1>2 DEF LabelInv
<1> QED BY <1>3, <1>4, <1>5, <1>6

\* A compound kid's code, made of its own labels, goes to its caller.
LEMMA PopLabels ==
  ASSUME TypeInv, NEW m, LabelInv(stack, m), Top.kind # "file",
         NEW c \in Chains, Distinct(c),
         LabelsOf(c) \subseteq Owned(Top, 0) \cup Owned(Top, 1) \cup Owned(Top, 2)
  PROVE  LabelInv(Deliver(Under, c), m)
<1> DEFINE U == Under
           n == Len(U)
<1>1. /\ U \in Frames /\ n = Len(stack) - 1
      /\ \A i \in 1 .. Len(stack) - 1 : U[i] = stack[i]
  BY StackOK, UnderOK
<1>2. Len(stack) > 1
  BY StackOK DEF TypeInv, Shape
<1> HIDE DEF U
<1>3. n > 0 /\ n \in DOMAIN stack /\ n < Len(stack) /\ U[n] = stack[n] /\ stack[n] \in FrameType
  BY <1>1, <1>2, StackOK DEF Frames
<1>4. U[n].todo # << >> /\ U[n].cur = 0
  BY <1>3 DEF TypeInv, Shape, FrameType
<1>5. LabelInv(U, m)
  BY UnderLabels DEF U
<1>6. LabelsOf(c) \subseteq Issued(m)
  <2>1. \A x \in 0 .. 2 : Owned(Top, x) \subseteq Issued(m)
    BY TopLabels
  <2> QED BY <2>1
<1>7. ASSUME NEW i \in DOMAIN U, NEW y \in 0 .. 2
      PROVE  LabelsOf(c) \cap Owned(U[i], y) = {}
  <2>1. \A x \in 0 .. 2 : Owned(Top, x) \cap Owned(U[i], y) = {}
    BY TopLabels DEF U
  <2> QED BY <2>1
<1>8. LabelInv(Deliver(U, c), m)
  BY <1>1, <1>3, <1>4, <1>5, <1>6, <1>7, DeliverLabels
<1> QED BY <1>8 DEF U

\* A new number makes more labels issued, and its own labels were not.
LEMMA IssuedGrows ==
  ASSUME NEW m \in [Counters -> Nat], NEW name \in Counters
  PROVE  /\ Issued(m) \subseteq Issued(Counted(m, name))
         /\ name = "default" =>
              /\ IfLabels(m[name]) \subseteq Issued(Counted(m, name))
              /\ IfLabels(m[name]) \cap Issued(m) = {}
         /\ name = "while" =>
              /\ WhileLabels(m[name]) \subseteq Issued(Counted(m, name))
              /\ WhileLabels(m[name]) \cap Issued(m) = {}
<1> DEFINE m2 == Counted(m, name)
<1>1. /\ m[name] \in Nat /\ m2[name] = m[name] + 1
      /\ \A other \in Counters : m[other] \in Nat /\ m2[other] \in Nat /\ m[other] <= m2[other]
  BY CountedOK
<1> HIDE DEF m2
<1>2. Issued(m) \subseteq Issued(m2)
  <2> SUFFICES ASSUME NEW l \in Issued(m) PROVE l \in Issued(m2)
    OBVIOUS
  <2> DEFINE key == IF l[1] \in {"ifelse", "ifend"} THEN "default" ELSE "while"
  <2>1. l \in Labels /\ l[2] < m[key] /\ l[2] \in Nat
    BY DEF Issued, Labels
  <2>2. key \in Counters
    BY DEF Counters
  <2> HIDE DEF key
  <2>3. l[2] < m2[key]
    BY <1>1, <2>1, <2>2
  <2> QED BY <2>1, <2>3 DEF Issued, key
<1>3. name = "default" => /\ IfLabels(m[name]) \subseteq Issued(m2)
                          /\ IfLabels(m[name]) \cap Issued(m) = {}
  BY <1>1 DEF IfLabels, Issued, Labels
<1>4. name = "while" => /\ WhileLabels(m[name]) \subseteq Issued(m2)
                        /\ WhileLabels(m[name]) \cap Issued(m) = {}
  BY <1>1 DEF WhileLabels, Issued, Labels
<1> QED BY <1>2, <1>3, <1>4 DEF m2

UniqueInv == TypeInv /\ LabelInv(stack, idmap) /\ Distinct(prog)

\* The label invariant holds initially.
LEMMA UniqueInit == Init => UniqueInv
<1> SUFFICES ASSUME Init PROVE UniqueInv
  OBVIOUS
<1>1. TypeInv
  BY TypeInit
<1>2. stack[1].kind = "file" /\ stack[1].slots = [i \in {1, 2} |-> << >>] /\ DOMAIN stack = {1}
  BY DEF Init, Frame
<1>3. \A t \in {1, 2} : LabelsOf(stack[1].slots[t]) = {} /\ Distinct(stack[1].slots[t])
  BY <1>2, Empty
<1>4. \A x \in 0 .. 2 : Owned(stack[1], x) = {}
  BY <1>2, <1>3 DEF Owned, Reserved
<1>5. LabelInv(stack, idmap)
  BY <1>2, <1>3, <1>4 DEF LabelInv
<1>6. Distinct(prog)
  BY Empty DEF Init
<1> QED BY <1>1, <1>5, <1>6 DEF UniqueInv

\* Every action keeps the label invariant, one step per action.
LEMMA UniqueStep == UniqueInv /\ [Next]_vars => UniqueInv'
<1> SUFFICES ASSUME UniqueInv, [Next]_vars PROVE UniqueInv'
  OBVIOUS
<1>t. TypeInv /\ LabelInv(stack, idmap) /\ Distinct(prog) /\ TypeInv'
  BY TypeStep DEF UniqueInv
<1>m. idmap \in [Counters -> Nat] /\ "default" \in Counters /\ "while" \in Counters
  BY <1>t DEF TypeInv, TypeOK, Counters
<1>s. stack \in Frames /\ Len(stack) > 0 /\ Top = stack[Len(stack)] /\ Top \in FrameType
  BY <1>t, StackOK
<1>c. Top.slots[1] \in Chains /\ Top.slots[2] \in Chains /\ Top.id \in Nat /\ Top.cur \in Nat
      /\ Top.scope \in Nat
  BY <1>s DEF FrameType
<1>d. Top.todo # << >> => Top.cur = 0
  BY <1>t, <1>c, StackOK DEF TypeInv, Shape
<1>k. Top.cur > 0 => Top.kind \in {"block", "while"}
  BY <1>t, StackOK DEF TypeInv, Shape
<1>p. /\ \A x \in 0 .. 2 : Owned(Top, x) \subseteq Issued(idmap)
      /\ \A t \in {1, 2} : Distinct(Top.slots[t])
      /\ \A x, y \in 0 .. 2 : x # y => Owned(Top, x) \cap Owned(Top, y) = {}
  BY <1>t, TopLabels
<1>o. Owned(Top, 1) = LabelsOf(Top.slots[1]) /\ Owned(Top, 2) = LabelsOf(Top.slots[2])
  BY DEF Owned
\* How an action that rewrites the innermost code is dealt with.
<1>r. ASSUME NEW c \in Chains, NEW k \in Nat, k > 0, Distinct(c), Rewrite(c, k),
             LabelsOf(c) \subseteq Owned(Top, 0) \cup Owned(Top, 1),
             Top.kind \in {"block", "while"}
      PROVE  LabelInv(stack', idmap)
  <2> DEFINE G == stack'
  <2>1. /\ G \in Frames /\ Len(G) = Len(stack)
        /\ \A i \in 1 .. Len(stack) - 1 : G[i] = stack[i]
        /\ G[Len(stack)] = Rewritten(Top, c, k)
    BY <1>s, <1>r, RewriteOK
  <2> HIDE DEF G
  <2>2. LabelInv(G, idmap)
    BY <1>s, <1>t, <1>r, <2>1, RewriteLabels
  <2> QED BY <2>2 DEF G
\* How an action that starts an activation is dealt with.
<1>e. ASSUME NEW g \in FrameType, NEW m2, stack' = Append(stack, g), idmap' = m2,
             Issued(idmap) \subseteq Issued(m2), Reserved(g) \subseteq Issued(m2),
             Reserved(g) \cap Issued(idmap) = {}, g.slots = [i \in {1, 2} |-> << >>]
      PROVE  LabelInv(stack', idmap')
  BY <1>e, <1>s, <1>t, PushLabels
<1> SUFFICES LabelInv(stack', idmap') /\ Distinct(prog')
  BY <1>t DEF UniqueInv
<1>1. CASE ConvertLeaf
  <2>1. Top.todo # << >> /\ Head(Top.todo) \in Stmts
    BY <1>1, <1>t, KidsOK DEF ConvertLeaf, Pending
  <2> DEFINE c == LeafCode(Head(Top.todo))
  <2>2. c \in Chains /\ LabelsOf(c) = {} /\ Distinct(c)
    BY <2>1, LeafCodeOK
  <2>3. stack' = Deliver(stack, c) /\ idmap' = idmap /\ prog' = prog
    BY <1>1 DEF ConvertLeaf
  <2> HIDE DEF c
  <2>4. LabelInv(Deliver(stack, c), idmap)
    BY <1>d, <1>s, <1>t, <2>1, <2>2, DeliverLabels
  <2> QED BY <1>t, <2>3, <2>4
<1>2. CASE ThrowUnsupported
  BY <1>2, <1>t DEF ThrowUnsupported
<1>3. CASE EnterBlock
  <2> DEFINE g == Frame("block", FALSE, Head(Top.todo).kids, 0, currentScope + 1)
  <2>1. Top.todo # << >> /\ stack' = Append(stack, g) /\ idmap' = idmap /\ prog' = prog
    BY <1>3 DEF EnterBlock, Pending
  <2>2. g \in FrameType
    <3>1. Head(Top.todo).kids \in Seq(Stmts)
      BY <1>t, <2>1, KidsOK
    <3>2. currentScope + 1 \in Nat
      <4>1. currentScope \in Nat BY <1>t DEF TypeInv, TypeOK
      <4> QED BY <4>1
    <3> QED BY <3>1, <3>2, FrameOK DEF CompoundKinds
  <2>3. Reserved(g) = {} /\ g.slots = [i \in {1, 2} |-> << >>]
    BY DEF Reserved, Frame
  <2> HIDE DEF g
  <2> QED BY <1>e, <1>t, <2>1, <2>2, <2>3
<1>4. CASE EnterIf
  <2> DEFINE s == Head(Top.todo)
             g == Frame("if", s.flag, s.kids, idmap["default"], 0)
  <2>1. Top.todo # << >> /\ stack' = Append(stack, g) /\ prog' = prog
    BY <1>4 DEF EnterIf, Pending
  <2>2. idmap' = Counted(idmap, "default")
    BY <1>4 DEF EnterIf, Counted
  <2>3. g \in FrameType
    <3>1. s.kids \in Seq(Stmts) /\ s.flag \in BOOLEAN
      BY <1>t, <2>1, KidsOK
    <3>2. idmap["default"] \in Nat
      BY <1>m
    <3> QED BY <3>1, <3>2, FrameOK DEF CompoundKinds
  <2>4. Reserved(g) = IfLabels(idmap["default"]) /\ g.slots = [i \in {1, 2} |-> << >>]
    BY DEF Reserved, Frame
  <2> HIDE DEF g, s
  <2>5. /\ Issued(idmap) \subseteq Issued(idmap') /\ Reserved(g) \subseteq Issued(idmap')
        /\ Reserved(g) \cap Issued(idmap) = {}
    BY <1>m, <2>2, <2>4, IssuedGrows
  <2> QED BY <1>e, <1>t, <2>1, <2>3, <2>4, <2>5
<1>5. CASE EnterWhile
  <2> DEFINE s == Head(Top.todo)
             g == Frame("while", FALSE, <<s.kids[1]>>, idmap["while"], 0)
  <2>1. /\ Top.todo # << >> /\ s.kind = "while"
        /\ stack' = Append(stack, g) /\ prog' = prog
    BY <1>5 DEF EnterWhile, Pending
  <2>2. idmap' = Counted(idmap, "while")
    BY <1>5 DEF EnterWhile, Counted
  <2>3. g \in FrameType
    <3>1. <<s.kids[1]>> \in Seq(Stmts)
      BY <1>t, <2>1, BodyOK
    <3>2. idmap["while"] \in Nat
      BY <1>m
    <3> QED BY <3>1, <3>2, FrameOK DEF CompoundKinds
  <2>4. Reserved(g) = WhileLabels(idmap["while"]) /\ g.slots = [i \in {1, 2} |-> << >>]
    BY DEF Reserved, Frame
  <2> HIDE DEF g, s
  <2>5. /\ Issued(idmap) \subseteq Issued(idmap') /\ Reserved(g) \subseteq Issued(idmap')
        /\ Reserved(g) \cap Issued(idmap) = {}
    BY <1>m, <2>2, <2>4, IssuedGrows
  <2> QED BY <1>e, <1>t, <2>1, <2>3, <2>4, <2>5
<1>6. CASE LeaveIf
  <2> DEFINE c == IfCode(Top.flag, Top.id, Top.slots[1], Top.slots[2])
  <2>1. Top.kind = "if"
    BY <1>6 DEF LeaveIf, Converted
  <2>2. Owned(Top, 0) = IfLabels(Top.id)
    BY <2>1 DEF Owned, Reserved
  <2>3. /\ IfLabels(Top.id) \cap LabelsOf(Top.slots[1]) = {}
        /\ IfLabels(Top.id) \cap LabelsOf(Top.slots[2]) = {}
        /\ LabelsOf(Top.slots[1]) \cap LabelsOf(Top.slots[2]) = {}
    BY <1>p, <1>o, <2>2
  <2>4. Distinct(Top.slots[1]) /\ Distinct(Top.slots[2])
    BY <1>p
  <2>5. /\ c \in Chains /\ Distinct(c)
        /\ LabelsOf(c) \subseteq Owned(Top, 0) \cup Owned(Top, 1) \cup Owned(Top, 2)
    BY <1>c, <1>o, <2>2, <2>3, <2>4, IfCodeOK
  <2>6. stack' = Deliver(Under, c) /\ idmap' = idmap /\ prog' = prog
    BY <1>6 DEF LeaveIf
  <2> HIDE DEF c
  <2>7. LabelInv(Deliver(Under, c), idmap)
    BY <1>t, <2>1, <2>5, PopLabels
  <2> QED BY <1>t, <2>6, <2>7
<1>7. CASE LinkBlock
  <2> DEFINE outer == IF currentScope > 0 THEN currentScope - 1 ELSE 0
             code  == BlockCode(Top.scope, outer, Top.slots[1])
             k     == IF OptimizeLabels /\ Top.slots[1] # << >> THEN 2 ELSE Len(code)
  <2>1. outer \in Nat
    <3>1. currentScope \in Nat BY <1>t DEF TypeInv, TypeOK
    <3> QED BY <3>1
  <2>2. Top.kind = "block" /\ Rewrite(code, k) /\ idmap' = idmap /\ prog' = prog
    BY <1>7 DEF LinkBlock, Converted
  <2> HIDE DEF outer
  <2>3. code \in Chains /\ LabelsOf(code) = LabelsOf(Top.slots[1]) /\ Distinct(code)
    BY <1>c, <1>p, <2>1, InstructionTypes, BracketOK DEF BlockCode
  <2>4. Len(code) > 0
    BY <1>c, <2>1, InstructionTypes, BracketLength DEF BlockCode
  <2>5. k \in Nat /\ k > 0
    BY <2>3, <2>4 DEF Chains
  <2> HIDE DEF code, k
  <2>6. LabelInv(stack', idmap)
    BY <1>r, <1>o, <2>2, <2>3, <2>5
  <2> QED BY <1>t, <2>2, <2>6
<1>8. CASE LinkWhile
  <2> DEFINE code == WhileCode(Top.id, Top.slots[1])
             k    == IF OptimizeLabels THEN 1 ELSE Len(code)
  <2>1. /\ Top.kind = "while" /\ Top.cur = 0 /\ Rewrite(code, k)
        /\ idmap' = idmap /\ prog' = prog
    BY <1>8 DEF LinkWhile, Converted
  <2>2. Owned(Top, 0) = WhileLabels(Top.id)
    BY <2>1 DEF Owned, Reserved
  <2>3. WhileLabels(Top.id) \cap LabelsOf(Top.slots[1]) = {} /\ Distinct(Top.slots[1])
    BY <1>p, <1>o, <2>2
  <2>4. /\ code \in Chains /\ Distinct(code)
        /\ LabelsOf(code) \subseteq Owned(Top, 0) \cup Owned(Top, 1)
    BY <1>c, <1>o, <2>2, <2>3, WhileCodeOK
  <2>5. k \in Nat /\ k > 0
    <3>1. Len(code) \in Nat /\ Len(code) > 0
      BY <1>c, WhileCodeType DEF Chains
    <3> QED BY <3>1
  <2> HIDE DEF code, k
  <2>6. LabelInv(stack', idmap)
    BY <1>r, <2>1, <2>4, <2>5
  <2> QED BY <1>t, <2>1, <2>6
<1>9. CASE MergeLabel
  <2> DEFINE c == Top.slots[1]
             k == Top.cur
  <2>1. c \in Chains /\ Len(c) \in Nat /\ k \in 1 .. Len(c) /\ k + 1 \in 1 .. Len(c) /\ k > 0
        /\ k \in Nat
    BY <1>9, <1>c DEF MergeLabel, Scanning, Chains
  <2>2. IsLabel(c[k]) /\ IsLabel(c[k + 1])
    BY <1>9 DEF MergeLabel, TwoLabels
  <2>3. c[k].label \in Labels /\ c[k + 1].label \in Labels
    BY <2>1, <2>2, LabelOfLabel
  <2> DEFINE d == ChangeAllLabelReferences(c, Root(Top), c[k].label, c[k + 1].label)
             e == Unlink(d, k)
  <2>4. Rewrite(e, k) /\ idmap' = idmap /\ prog' = prog
    BY <1>9 DEF MergeLabel
  <2>5. Root(Top) \in Nat
    BY DEF Root
  <2>6. Distinct(c)
    BY <1>p
  <2>7. d \in Chains /\ Len(d) = Len(c) /\ LabelsOf(d) = LabelsOf(c) /\ Distinct(d)
    <3>1. c \in Chains
      BY <2>1
    <3> HIDE DEF c, k
    <3> QED BY <2>3, <2>5, <2>6, <3>1, ChangeAllOK
  <2> HIDE DEF d
  <2>8. e \in Chains /\ LabelsOf(e) \subseteq LabelsOf(c) /\ Distinct(e)
    BY <2>1, <2>7, UnlinkOK
  <2> HIDE DEF e
  <2>9. LabelInv(stack', idmap)
    BY <1>r, <1>k, <1>o, <2>1, <2>4, <2>8
  <2> QED BY <1>t, <2>4, <2>9
<1>10. CASE NextInstruction
  <2>1. /\ Top.cur + 1 \in Nat /\ Top.cur + 1 > 0 /\ Top.cur > 0
        /\ Rewrite(Top.slots[1], Top.cur + 1) /\ idmap' = idmap /\ prog' = prog
    BY <1>10, <1>c DEF NextInstruction, Scanning
  <2>2. Distinct(Top.slots[1])
    BY <1>p
  <2>3. LabelInv(stack', idmap)
    BY <1>r, <1>c, <1>k, <1>o, <2>1, <2>2
  <2> QED BY <1>t, <2>1, <2>3
<1>11. CASE Return
  <2>1. Top.kind # "file" /\ Distinct(Top.slots[1])
    BY <1>11, <1>k, <1>p DEF Return
  <2>2. LabelInv(Deliver(Under, Top.slots[1]), idmap)
    BY <1>c, <1>o, <1>t, <2>1, PopLabels
  <2> QED BY <1>11, <1>t, <2>2 DEF Return
<1>12. CASE FinishFile
  <2>1. [op |-> "SOF"] \in Instructions /\ [op |-> "EOF"] \in Instructions
        /\ ~IsLabel([op |-> "SOF"]) /\ ~IsLabel([op |-> "EOF"])
    BY InstructionTypes
  <2>2. Distinct(Top.slots[1])
    BY <1>p
  <2>3. Distinct(prog')
    BY <1>12, <1>c, <2>1, <2>2, BracketOK DEF FinishFile
  <2>4. UNCHANGED <<stack, idmap>>
    BY <1>12 DEF FinishFile
  <2> QED BY <1>t, <2>3, <2>4
<1>13. CASE UNCHANGED vars
  BY <1>13, <1>t DEF vars
<1> QED
  BY <1>1, <1>2, <1>3, <1>4, <1>5, <1>6, <1>7, <1>8, <1>9, <1>10, <1>11, <1>12, <1>13
  DEF Next

\* No chain under construction, and no finished program, defines a label
\* twice: GetUniqueID, shared by the recursive calls of ConvertIfToIR and
\* ConvertWhileToIR, keeps numbers apart, and OptimizeLabels never makes two
\* labels equal.
THEOREM LabelsAreUnique == Spec => []LabelsUnique
<1>1. Init => UniqueInv
  BY UniqueInit
<1>2. UniqueInv /\ [Next]_vars => UniqueInv'
  BY UniqueStep
<1>3. UniqueInv => LabelsUnique
  BY DEF UniqueInv, LabelInv, LabelsUnique
<1> QED BY <1>1, <1>2, <1>3, PTL DEF Spec

=============================================================================
