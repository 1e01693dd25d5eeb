----------------------------- MODULE IRScan_proofs -----------------------------
(***************************************************************************)
(* What OptimizeLabels achieves, for all programs: it never deletes the    *)
(* node it started at (RootKept), and of a program whose source is a block *)
(* it leaves no two labels side by side (LabelsMerged).                    *)
(***************************************************************************)
EXTENDS IRConvert_proofs

\* Two labels side by side at positions i and i + 1.
PairAt(c, i) == IsLabel(c[i]) /\ IsLabel(c[i + 1])

\* If a label is at position r, something that is no label follows it.
CodeFollows(c, r) ==
  r \in DOMAIN c /\ IsLabel(c[r]) => r + 1 \in DOMAIN c /\ ~IsLabel(c[r + 1])

\* The code of a statement does not start with two labels; that is why a scan
\* never merges its root.
RootOK(f) ==
  /\ f.cur = 0 => CodeFollows(f.slots[1], 1)
  /\ f.cur > 0 => /\ f.cur >= Root(f)
                  /\ Len(f.slots[1]) >= f.cur
                  /\ CodeFollows(f.slots[1], Root(f))
                  /\ f.kind = "block" => ~IsLabel(f.slots[1][1])

\* Behind current there are no two labels side by side.
ScannedOK(f) ==
  OptimizeLabels /\ f.cur > 0 => \A i \in 1 .. f.cur - 1 : ~PairAt(f.slots[1], i)

ScanInv == TypeInv /\ \A f \in DOMAIN stack : RootOK(stack[f]) /\ ScannedOK(stack[f])

-----------------------------------------------------------------------------
(* Lemmas about chains.                                                    *)

\* Splicing keeps the beginning of the code free of two labels.
LEMMA ConcatFollows ==
  ASSUME NEW c \in Chains, NEW d \in Chains, CodeFollows(c, 1), CodeFollows(d, 1)
  PROVE  CodeFollows(c \o d, 1)
<1>1. /\ DOMAIN c = 1 .. Len(c) /\ DOMAIN d = 1 .. Len(d) /\ Len(c) \in Nat /\ Len(d) \in Nat
      /\ DOMAIN (c \o d) = 1 .. Len(c) + Len(d)
  BY ConcatChains DEF Chains
<1>2. CASE Len(c) = 0
  <2>1. \A i \in 1 .. Len(d) : (c \o d)[i] = d[i]
    BY <1>1, <1>2, ConcatChains
  <2> QED BY <1>1, <1>2, <2>1 DEF CodeFollows
<1>3. CASE Len(c) > 0
  <2>1. \A i \in 1 .. Len(c) : (c \o d)[i] = c[i]
    BY ConcatChains
  <2> QED BY <1>1, <1>3, <2>1 DEF CodeFollows
<1> QED BY <1>1, <1>2, <1>3

\* Leaf statements have no label in their code.
LEMMA LeafFollows ==
  ASSUME NEW s \in Stmts
  PROVE  CodeFollows(LeafCode(s), 1)
BY LeafCodeOK DEF CodeFollows, LabelsOf

\* The code of an if starts with its conditional jump.
LEMMA IfCodeFollows ==
  ASSUME NEW negated, NEW id \in Nat, NEW then \in Chains, NEW else \in Chains
  PROVE  CodeFollows(IfCode(negated, id, then, else), 1)
<1> DEFINE op     == IF negated THEN "JUMP_IF_TRUE" ELSE "JUMP_IF_FALSE"
           toElse == <<"ifelse", id>>
           toEnd  == <<"ifend", id>>
           jElse  == <<Jump(op, toElse)>>
           jEnd   == <<Jump(op, toEnd)>>
           mid    == JumpThenLabel("JUMP", toEnd, toElse)
           end    == <<Label(toEnd)>>
<1>1. op \in JumpOps /\ "JUMP" \in JumpOps /\ toElse \in Labels /\ toEnd \in Labels
  BY DEF JumpOps, Labels
<1>2. IfCode(negated, id, then, else) =
        IF then = << >>
        THEN IF else = << >> THEN jEnd \o end ELSE jElse \o end
        ELSE IF else = << >> THEN (jEnd \o then) \o end
             ELSE (((jElse \o then) \o mid) \o else) \o end
  BY DEF IfCode, JumpThenLabel
<1> HIDE DEF op, toElse, toEnd
<1>3. /\ Jump(op, toElse) \in Instructions /\ ~IsLabel(Jump(op, toElse))
      /\ Jump(op, toEnd) \in Instructions /\ ~IsLabel(Jump(op, toEnd))
  BY <1>1, InstructionTypes
<1>4. end \in Chains /\ mid \in Chains /\ Len(mid) = 2
  BY <1>1, InstructionTypes, Singleton, JumpAndLabel DEF JumpThenLabel
<1> DEFINE StartsJump(c) == c \in Chains /\ Len(c) > 0 /\ ~IsLabel(c[1])
<1>5. StartsJump(jElse) /\ StartsJump(jEnd)
  BY <1>3, Singleton
<1>6. ASSUME NEW c, NEW d \in Chains, StartsJump(c)
      PROVE  StartsJump(c \o d)
  BY <1>6, ConcatChains DEF Chains
<1> HIDE DEF jElse, jEnd, mid, end, StartsJump
<1>7. StartsJump(jEnd \o end) /\ StartsJump(jElse \o end)
  BY <1>4, <1>5, <1>6
<1>8. StartsJump(jEnd \o then) /\ StartsJump(jElse \o then)
  BY <1>5, <1>6
<1>9. StartsJump((jEnd \o then) \o end) /\ StartsJump((jElse \o then) \o mid)
  BY <1>4, <1>6, <1>8
<1>10. StartsJump(((jElse \o then) \o mid) \o else)
  BY <1>6, <1>9
<1>11. StartsJump((((jElse \o then) \o mid) \o else) \o end)
  BY <1>4, <1>6, <1>10
<1>12. StartsJump(IfCode(negated, id, then, else))
  BY <1>2, <1>7, <1>9, <1>11
<1> QED BY <1>12 DEF StartsJump, CodeFollows

\* The code of a while starts with its start label and its test.
LEMMA WhileCodeFollows ==
  ASSUME NEW id \in Nat, NEW body \in Chains
  PROVE  CodeFollows(WhileCode(id, body), 1)
<1> DEFINE toTest == <<"while_start", id>>
           toExit == <<"while_end", id>>
           test   == LabelThenJump(toTest, "JUMP_IF_FALSE", toExit)
           back   == JumpThenLabel("JUMP", toTest, toExit)
           stop   == <<Label(toExit)>>
<1>1. /\ toTest \in Labels /\ toExit \in Labels
      /\ "JUMP" \in JumpOps /\ "JUMP_IF_FALSE" \in JumpOps
  BY DEF JumpOps, Labels
<1>2. WhileCode(id, body) = IF body = << >> THEN test \o stop ELSE (test \o body) \o back
  BY DEF WhileCode, JumpThenLabel, LabelThenJump
<1> HIDE DEF toTest, toExit
<1>3. test \in Chains /\ back \in Chains /\ stop \in Chains
  BY <1>1, JumpAndLabel, InstructionTypes, Singleton
<1>4. Len(test) = 2 /\ ~IsLabel(test[2])
  BY <1>1, InstructionTypes DEF LabelThenJump
<1> HIDE DEF test, back, stop
<1>5. ASSUME NEW c \in Chains, NEW d \in Chains, Len(c) >= 2, ~IsLabel(c[2])
      PROVE  c \o d \in Chains /\ Len(c \o d) >= 2 /\ ~IsLabel((c \o d)[2])
  BY <1>5, ConcatChains DEF Chains
<1>6. test \o stop \in Chains /\ Len(test \o stop) >= 2 /\ ~IsLabel((test \o stop)[2])
  BY <1>3, <1>4, <1>5
<1>7. test \o body \in Chains /\ Len(test \o body) >= 2 /\ ~IsLabel((test \o body)[2])
  BY <1>3, <1>4, <1>5
<1> DEFINE whole == (test \o body) \o back
<1>8. whole \in Chains /\ Len(whole) >= 2 /\ ~IsLabel(whole[2])
  BY <1>3, <1>5, <1>7
<1> HIDE DEF whole
<1>9. ASSUME NEW c \in Chains, Len(c) >= 2, ~IsLabel(c[2])
      PROVE  CodeFollows(c, 1)
  BY <1>9 DEF CodeFollows, Chains
<1> QED BY <1>2, <1>6, <1>8, <1>9 DEF whole

\* A block starts with SET_SCOPE, its body follows, then SET_SCOPE again.
LEMMA BlockCodeFollows ==
  ASSUME NEW scope \in Nat, NEW outer \in Nat, NEW body \in Chains, CodeFollows(body, 1)
  PROVE  LET code == BlockCode(scope, outer, body)
         IN  /\ code \in Chains
             /\ Len(code) = Len(body) + 2
             /\ ~IsLabel(code[1])
             /\ CodeFollows(code, 2)
<1> DEFINE first  == <<SetScope(scope)>>
           final == <<SetScope(outer)>>
           part  == first \o body
           code  == part \o final
<1>1. /\ SetScope(scope) \in Instructions /\ ~IsLabel(SetScope(scope))
      /\ SetScope(outer) \in Instructions /\ ~IsLabel(SetScope(outer))
  BY InstructionTypes
<1>2. /\ first \in Chains /\ Len(first) = 1 /\ ~IsLabel(first[1])
      /\ final \in Chains /\ Len(final) = 1 /\ ~IsLabel(final[1])
  BY <1>1, Singleton
<1>3. BlockCode(scope, outer, body) = code
  BY DEF BlockCode
<1> HIDE DEF first, final
<1>4. /\ part \in Chains /\ Len(part) = Len(body) + 1 /\ part[1] = first[1]
      /\ \A i \in 1 .. Len(body) : part[i + 1] = body[i]
  <2>1. /\ part \in Chains /\ Len(part) = Len(first) + Len(body)
        /\ \A i \in 1 .. Len(first) : part[i] = first[i]
        /\ \A i \in 1 .. Len(body) : part[Len(first) + i] = body[i]
    BY <1>2, ConcatChains
  <2>2. Len(body) \in Nat
    BY DEF Chains
  <2> HIDE DEF part
  <2> QED BY <1>2, <2>1, <2>2
<1>5. Len(body) \in Nat /\ DOMAIN body = 1 .. Len(body)
  BY DEF Chains
<1> HIDE DEF part
<1>6. /\ code \in Chains /\ Len(code) = Len(body) + 2
      /\ \A i \in 1 .. Len(body) + 1 : code[i] = part[i]
      /\ code[Len(body) + 2] = final[1]
  <2>1. /\ code \in Chains /\ Len(code) = Len(part) + Len(final)
        /\ \A i \in 1 .. Len(part) : code[i] = part[i]
        /\ \A i \in 1 .. Len(final) : code[Len(part) + i] = final[i]
    BY <1>2, <1>4, ConcatChains
  <2> HIDE DEF code
  <2>2. code[Len(part) + 1] = final[1]
    BY <1>2, <2>1
  <2> QED BY <1>2, <1>4, <1>5, <2>1, <2>2
<1> HIDE DEF code
<1>7. DOMAIN code = 1 .. Len(body) + 2
  BY <1>6 DEF Chains
<1>8. CodeFollows(code, 2)
  <2>1. CASE Len(body) = 0
    BY <1>2, <1>6, <2>1 DEF CodeFollows
  <2>2. CASE Len(body) = 1
    <3>1. code[2] = body[1] /\ code[3] = final[1]
      BY <1>4, <1>6, <2>2
    <3> QED BY <1>2, <1>7, <2>2, <3>1 DEF CodeFollows
  <2>3. CASE Len(body) > 1
    <3>1. code[2] = body[1] /\ code[3] = body[2]
      BY <1>4, <1>5, <1>6, <2>3
    <3> QED BY <1>5, <1>7, <2>3, <3>1 DEF CodeFollows
  <2> QED BY <1>5, <2>1, <2>2, <2>3
<1>9. ~IsLabel(code[1])
  BY <1>2, <1>4, <1>5, <1>6
<1> QED BY <1>3, <1>6, <1>8, <1>9

\* What is left at each position when the label at k has been merged.
Merged(c, root, k) ==
  Unlink(ChangeAllLabelReferences(c, root, c[k].label, c[k + 1].label), k)

\* Merging makes the chain one shorter and moves what is behind current.
LEMMA MergedOK ==
  ASSUME NEW c \in Chains, NEW root \in Nat, NEW k \in 1 .. Len(c), k + 1 \in 1 .. Len(c),
         IsLabel(c[k]), IsLabel(c[k + 1])
  PROVE  /\ Merged(c, root, k) \in Chains
         /\ Len(Merged(c, root, k)) = Len(c) - 1
         /\ \A i \in 1 .. Len(c) - 1 :
              IsLabel(Merged(c, root, k)[i]) <=> IsLabel(c[IF i < k THEN i ELSE i + 1])
<1> DEFINE d == ChangeAllLabelReferences(c, root, c[k].label, c[k + 1].label)
<1>1. c[k].label \in Labels /\ c[k + 1].label \in Labels
  BY LabelOfLabel
<1>2. d \in Chains /\ Len(d) = Len(c)
  BY <1>1, ChangeAllOK
<1>3. DOMAIN c = 1 .. Len(c) /\ Len(c) \in Nat
  BY DEF Chains
<1>4. \A i \in 1 .. Len(c) : IsLabel(d[i]) <=> IsLabel(c[i])
  BY <1>1, <1>3, InstructionTypes DEF ChangeAllLabelReferences, IsLabel, IsJump, Jump, JumpOps
<1> HIDE DEF d
<1>5. Unlink(d, k) \in Chains /\ Len(Unlink(d, k)) = Len(d) - 1
  BY <1>2, UnlinkOK
<1>6. \A i \in 1 .. Len(c) - 1 : Unlink(d, k)[i] = d[IF i < k THEN i ELSE i + 1]
  BY <1>2 DEF Unlink
<1>7. \A i \in 1 .. Len(c) - 1 : (IF i < k THEN i ELSE i + 1) \in 1 .. Len(c)
  BY <1>3
<1> QED BY <1>2, <1>4, <1>5, <1>6, <1>7 DEF Merged, d

-----------------------------------------------------------------------------
(* RootKept.                                                               *)

ScanOK(f) == RootOK(f) /\ ScannedOK(f)

\* A caller's code is still well begun when a kid's code is appended.
LEMMA DeliverScan ==
  ASSUME NEW F \in Frames, Len(F) > 0, F[Len(F)].todo # << >>, F[Len(F)].cur = 0,
         \A f \in DOMAIN F : ScanOK(F[f]),
         NEW c \in Chains, CodeFollows(c, 1)
  PROVE  \A f \in DOMAIN Deliver(F, c) : ScanOK(Deliver(F, c)[f])
<1> DEFINE n == Len(F)
           g == F[n]
           D == Deliver(F, c)
<1>1. n \in Nat /\ n > 0 /\ n \in DOMAIN F /\ g \in FrameType
  BY DEF Frames
<1>2. /\ D \in Frames /\ Len(D) = n /\ D[n] = Received(g, c)
      /\ \A i \in 1 .. n - 1 : D[i] = F[i]
  BY DeliverOK
<1>3. ScanOK(g) /\ g.cur = 0 /\ g.todo # << >>
  BY <1>1
<1> HIDE DEF D, g
<1> DEFINE R == Received(g, c)
<1>4. /\ SlotOf(g) \in {1, 2} /\ R.cur = g.cur
      /\ R.slots[SlotOf(g)] = g.slots[SlotOf(g)] \o c
      /\ \A t \in {1, 2} \ {SlotOf(g)} : R.slots[t] = g.slots[t]
  BY <1>1, <1>3, ReceivedOK
<1>5. g.slots[1] \in Chains /\ CodeFollows(g.slots[1], 1)
  BY <1>1, <1>3 DEF FrameType, ScanOK, RootOK
<1> HIDE DEF R
<1>6. CodeFollows(R.slots[1], 1)
  <2>1. CASE SlotOf(g) = 1
    BY <1>4, <1>5, <2>1, ConcatFollows
  <2>2. CASE SlotOf(g) # 1
    BY <1>4, <1>5, <2>2
  <2> QED BY <2>1, <2>2
<1>7. ScanOK(Received(g, c))
  <2>1. R.cur = 0
    BY <1>3, <1>4
  <2> QED BY <1>6, <2>1 DEF ScanOK, RootOK, ScannedOK, R
<1>8. DOMAIN D = 1 .. n /\ DOMAIN F = 1 .. n
  BY <1>2 DEF Frames
<1> HIDE DEF n
<1> QED BY <1>1, <1>2, <1>7, <1>8 DEF D

\* The scan invariant holds initially.
LEMMA ScanInit == Init => ScanInv
<1> SUFFICES ASSUME Init PROVE ScanInv
  OBVIOUS
<1>1. TypeInv
  BY TypeInit
<1>2. DOMAIN stack = {1} /\ stack[1].cur = 0 /\ stack[1].slots[1] = << >>
  BY DEF Init, Frame
<1>3. CodeFollows(<< >>, 1)
  BY DEF CodeFollows
<1> QED BY <1>1, <1>2, <1>3 DEF ScanInv, RootOK, ScannedOK

\* When OptimizeLabels merges at current, current is behind its root.
LEMMA MergeBehindRoot ==
  ASSUME ScanInv, MergeLabel
  PROVE  Top.cur > Root(Top) /\ (IsLabel(Top.slots[1][Root(Top)]) => Top.cur > Root(Top) + 1)
<1> DEFINE c == Top.slots[1]
           k == Top.cur
           r == Root(Top)
<1>1. Top \in FrameType /\ RootOK(Top)
  BY StackOK DEF ScanInv
<1>2. c \in Chains /\ k \in Nat /\ r \in {1, 2}
  BY <1>1 DEF FrameType, Root
<1>3. k > 0 /\ k < Len(c) /\ IsLabel(c[k]) /\ IsLabel(c[k + 1])
  BY DEF MergeLabel, Scanning, TwoLabels
<1>4. k >= r /\ CodeFollows(c, r)
  BY <1>1, <1>3 DEF RootOK
<1> HIDE DEF c, k, r
<1>5. DOMAIN c = 1 .. Len(c) /\ Len(c) \in Nat
  BY <1>2 DEF Chains
<1>6. k # r /\ (IsLabel(c[r]) => k # r + 1)
  BY <1>2, <1>3, <1>4, <1>5 DEF CodeFollows
<1>7. k > r /\ (IsLabel(c[r]) => k > r + 1)
  BY <1>2, <1>4, <1>6
<1> QED BY <1>7 DEF c, k, r

\* Merging keeps the beginning of the code and what has been scanned.
LEMMA MergeScan ==
  ASSUME ScanInv, MergeLabel
  PROVE  LET e == Merged(Top.slots[1], Root(Top), Top.cur)
         IN  e \in Chains /\ Rewrite(e, Top.cur) /\ ScanOK(Rewritten(Top, e, Top.cur))
<1> DEFINE c == Top.slots[1]
           k == Top.cur
           r == Root(Top)
           e == Merged(c, r, k)
           f == Rewritten(Top, e, k)
<1>1. Top \in FrameType /\ RootOK(Top) /\ ScannedOK(Top)
  BY StackOK DEF ScanInv
<1>2. c \in Chains /\ k \in Nat /\ r \in Nat /\ r > 0
  BY <1>1 DEF FrameType, Root
<1>3. k > 0 /\ k < Len(c) /\ IsLabel(c[k]) /\ IsLabel(c[k + 1])
  BY DEF MergeLabel, Scanning, TwoLabels
<1>4. k > r /\ (IsLabel(c[r]) => k > r + 1)
  BY MergeBehindRoot
<1>5. Rewrite(e, k)
  BY DEF MergeLabel, Merged
<1>6. /\ CodeFollows(c, r)
      /\ Top.kind = "block" => ~IsLabel(c[1])
      /\ OptimizeLabels => \A i \in 1 .. k - 1 : ~PairAt(c, i)
  BY <1>1, <1>3 DEF RootOK, ScannedOK
<1> HIDE DEF c, r, k
<1>7. Len(c) \in Nat /\ DOMAIN c = 1 .. Len(c) /\ k \in 1 .. Len(c) /\ k + 1 \in 1 .. Len(c)
  BY <1>2, <1>3 DEF Chains
<1>8. /\ e \in Chains /\ Len(e) = Len(c) - 1
      /\ \A i \in 1 .. Len(c) - 1 : IsLabel(e[i]) <=> IsLabel(c[IF i < k THEN i ELSE i + 1])
  BY <1>2, <1>3, <1>7, MergedOK
<1> HIDE DEF e
<1>9. DOMAIN e = 1 .. Len(c) - 1
  BY <1>7, <1>8 DEF Chains
<1>10. f.kind = Top.kind /\ f.cur = k /\ f.slots[1] = e
  BY <1>1, <1>2, <1>8, RewrittenOK
<1>11. Root(f) = r
  BY <1>10 DEF Root, r
<1>12. CodeFollows(e, r)
  <2>1. r \in 1 .. Len(c) - 1 /\ r < k
    BY <1>2, <1>4, <1>7
  <2>2. CASE ~IsLabel(c[r])
    BY <1>8, <2>1, <2>2 DEF CodeFollows
  <2>3. CASE IsLabel(c[r])
    <3>1. r + 1 < k /\ r + 1 \in 1 .. Len(c) - 1
      BY <1>2, <1>4, <1>7, <2>3
    <3>2. ~IsLabel(c[r + 1])
      BY <1>6, <1>7, <2>1, <2>3 DEF CodeFollows
    <3> QED BY <1>8, <1>9, <3>1, <3>2 DEF CodeFollows
  <2> QED BY <2>2, <2>3
<1>13. Top.kind = "block" => ~IsLabel(e[1])
  <2>1. 1 \in 1 .. Len(c) - 1 /\ 1 < k
    BY <1>2, <1>4, <1>7
  <2> QED BY <1>6, <1>8, <2>1
<1>14. ASSUME OptimizeLabels, NEW i \in 1 .. k - 1
       PROVE  ~PairAt(e, i)
  <2>1. i \in 1 .. Len(c) - 1 /\ i + 1 \in 1 .. Len(c) - 1 /\ i < k
    BY <1>2, <1>7
  <2>2. IsLabel(e[i]) <=> IsLabel(c[i])
    BY <1>8, <2>1
  <2>3. ~PairAt(c, i)
    BY <1>6, <1>14
  <2>4. CASE i + 1 < k
    BY <1>8, <2>1, <2>2, <2>3, <2>4 DEF PairAt
  <2>5. CASE i + 1 = k
    BY <1>3, <2>2, <2>3, <2>5 DEF PairAt
  <2> QED BY <1>2, <2>1, <2>4, <2>5
<1>15. k >= r /\ Len(e) >= k
  BY <1>2, <1>3, <1>4, <1>7, <1>8
<1>16. ScanOK(f)
  BY <1>10, <1>11, <1>12, <1>13, <1>14, <1>15, <1>3 DEF ScanOK, RootOK, ScannedOK
<1> QED BY <1>5, <1>8, <1>16 DEF c, k, r, e

\* A block or a while starts its scan, or leaves it out.
LEMMA LinkScan ==
  ASSUME ScanInv, LinkBlock \/ LinkWhile
  PROVE  \E c \in Chains, k \in Nat : Rewrite(c, k) /\ ScanOK(Rewritten(Top, c, k))
<1>1. Top \in FrameType /\ RootOK(Top) /\ Top.cur = 0
  BY StackOK DEF ScanInv, LinkBlock, LinkWhile, Converted
<1>2. /\ Top.slots[1] \in Chains /\ Top.scope \in Nat /\ Top.id \in Nat
      /\ CodeFollows(Top.slots[1], 1)
  BY <1>1 DEF FrameType, RootOK
<1>3. CASE LinkBlock
  <2> DEFINE outer == IF currentScope > 0 THEN currentScope - 1 ELSE 0
             c     == BlockCode(Top.scope, outer, Top.slots[1])
             k     == IF OptimizeLabels /\ Top.slots[1] # << >> THEN 2 ELSE Len(c)
  <2>1. outer \in Nat
    <3>1. currentScope \in Nat BY DEF ScanInv, TypeInv, TypeOK
    <3> QED BY <3>1
  <2>2. Rewrite(c, k) /\ Top.kind = "block"
    BY <1>3 DEF LinkBlock, Converted
  <2> HIDE DEF outer
  <2>3. /\ c \in Chains /\ Len(c) = Len(Top.slots[1]) + 2
        /\ ~IsLabel(c[1]) /\ CodeFollows(c, 2)
    BY <1>2, <2>1, BlockCodeFollows
  <2>4. Len(Top.slots[1]) \in Nat
    BY <1>2 DEF Chains
  <2>5. k \in Nat /\ k >= 2 /\ k <= Len(c)
    BY <2>3, <2>4
  <2>6. OptimizeLabels => k = 2
    <3>1. Top.slots[1] = << >> => Len(Top.slots[1]) = 0
      OBVIOUS
    <3> QED BY <2>3, <3>1
  <2> HIDE DEF c, k
  <2> DEFINE f == Rewritten(Top, c, k)
  <2>7. f.kind = "block" /\ f.cur = k /\ f.slots[1] = c
    BY <1>1, <2>2, <2>3, <2>5, RewrittenOK
  <2>8. Root(f) = 2
    BY <2>7 DEF Root
  <2>9. RootOK(f)
    BY <2>3, <2>5, <2>7, <2>8 DEF RootOK
  <2>10. ScannedOK(f)
    BY <2>3, <2>6, <2>7 DEF ScannedOK, PairAt
  <2> QED BY <2>2, <2>3, <2>5, <2>9, <2>10 DEF ScanOK
<1>4. CASE LinkWhile
  <2> DEFINE c == WhileCode(Top.id, Top.slots[1])
             k == IF OptimizeLabels THEN 1 ELSE Len(c)
  <2>1. Rewrite(c, k) /\ Top.kind = "while"
    BY <1>4 DEF LinkWhile, Converted
  <2>2. c \in Chains /\ Len(c) > 0 /\ CodeFollows(c, 1)
    BY <1>2, WhileCodeType, WhileCodeFollows
  <2>3. Len(c) \in Nat
    BY <2>2 DEF Chains
  <2>4. k \in Nat /\ k >= 1 /\ k <= Len(c) /\ (OptimizeLabels => k = 1)
    BY <2>2, <2>3
  <2> HIDE DEF c, k
  <2> DEFINE f == Rewritten(Top, c, k)
  <2>5. f.kind = "while" /\ f.cur = k /\ f.slots[1] = c
    BY <1>1, <2>1, <2>2, <2>4, RewrittenOK
  <2>6. Root(f) = 1
    BY <2>5 DEF Root
  <2>7. RootOK(f)
    BY <2>2, <2>4, <2>5, <2>6 DEF RootOK
  <2>8. ScannedOK(f)
    BY <2>4, <2>5 DEF ScannedOK
  <2> QED BY <2>1, <2>2, <2>4, <2>7, <2>8 DEF ScanOK
<1> QED BY <1>3, <1>4

\* The scan moves on over anything but two labels.
LEMMA NextScan ==
  ASSUME ScanInv, NextInstruction
  PROVE  /\ Top.slots[1] \in Chains /\ Top.cur + 1 \in Nat
         /\ Rewrite(Top.slots[1], Top.cur + 1)
         /\ ScanOK(Rewritten(Top, Top.slots[1], Top.cur + 1))
<1> DEFINE c == Top.slots[1]
           k == Top.cur
           f == Rewritten(Top, c, k + 1)
<1>1. Top \in FrameType /\ RootOK(Top) /\ ScannedOK(Top)
  BY StackOK DEF ScanInv
<1>2. c \in Chains /\ k \in Nat /\ Root(Top) \in Nat
  BY <1>1 DEF FrameType, Root
<1>3. k > 0 /\ k < Len(c) /\ ~PairAt(c, k) /\ Rewrite(c, k + 1)
  BY DEF NextInstruction, Scanning, TwoLabels, PairAt
<1>4. /\ k >= Root(Top) /\ CodeFollows(c, Root(Top))
      /\ Top.kind = "block" => ~IsLabel(c[1])
      /\ OptimizeLabels => \A i \in 1 .. k - 1 : ~PairAt(c, i)
  BY <1>1, <1>3 DEF RootOK, ScannedOK
<1>5. Len(c) \in Nat
  BY <1>2 DEF Chains
<1> HIDE DEF c, k
<1>6. k + 1 \in Nat /\ k + 1 > 0 /\ Len(c) >= k + 1 /\ k + 1 >= Root(Top)
  BY <1>2, <1>3, <1>4, <1>5
<1>7. f.kind = Top.kind /\ f.cur = k + 1 /\ f.slots[1] = c
  BY <1>1, <1>2, <1>6, RewrittenOK
<1>8. Root(f) = Root(Top)
  BY <1>7 DEF Root
<1>9. RootOK(f)
  BY <1>4, <1>6, <1>7, <1>8 DEF RootOK
<1>10. ScannedOK(f)
  <2>1. \A i \in 1 .. (k + 1) - 1 : i = k \/ i \in 1 .. k - 1
    BY <1>2
  <2> QED BY <1>3, <1>4, <1>7, <2>1 DEF ScannedOK
<1> QED BY <1>2, <1>3, <1>6, <1>9, <1>10 DEF c, k, ScanOK

\* What the innermost activation returns is well begun.
LEMMA ReturnScan ==
  ASSUME ScanInv, Return
  PROVE  /\ Top.slots[1] \in Chains /\ CodeFollows(Top.slots[1], 1)
         /\ Top.kind # "file"
         /\ Top.cur = Len(Top.slots[1]) /\ Top.cur > 0
<1>1. Top \in FrameType /\ RootOK(Top)
  BY StackOK DEF ScanInv
<1>2. Top.cur > 0 /\ Top.cur >= Len(Top.slots[1])
  BY DEF Return
<1>3. Top.kind \in {"block", "while"}
  BY <1>2, StackOK DEF ScanInv, TypeInv, Shape
<1>4. /\ Len(Top.slots[1]) >= Top.cur
      /\ CodeFollows(Top.slots[1], Root(Top))
      /\ Top.kind = "block" => ~IsLabel(Top.slots[1][1])
  BY <1>1, <1>2 DEF RootOK
<1>5. Top.slots[1] \in Chains /\ Top.cur \in Nat
  BY <1>1 DEF FrameType
<1>6. CodeFollows(Top.slots[1], 1)
  BY <1>3, <1>4 DEF CodeFollows, Root
<1>7. Len(Top.slots[1]) \in Nat
  BY <1>5 DEF Chains
<1> QED BY <1>2, <1>3, <1>4, <1>5, <1>6, <1>7

\* Every action keeps the scan invariant, one step per action.
LEMMA ScanStep == ScanInv /\ [Next]_vars => ScanInv'
<1> SUFFICES ASSUME ScanInv, [Next]_vars PROVE ScanInv'
  OBVIOUS
<1>t. TypeInv /\ TypeInv'
  BY TypeStep DEF ScanInv
<1>s. /\ stack \in Frames /\ Len(stack) \in Nat /\ Len(stack) > 0
      /\ DOMAIN stack = 1 .. Len(stack)
      /\ Top = stack[Len(stack)] /\ Top \in FrameType
      /\ \A f \in DOMAIN stack : ScanOK(stack[f])
  BY <1>t, StackOK DEF ScanInv, ScanOK
<1> SUFFICES \A f \in DOMAIN stack' : ScanOK(stack'[f])
  BY <1>t DEF ScanInv, ScanOK
<1>d. Top.todo # << >> => Top.cur = 0
  BY <1>t, <1>s DEF TypeInv, Shape, FrameType
\* How an action that rewrites the innermost code is dealt with.
<1>r. ASSUME NEW c \in Chains, NEW k \in Nat, Rewrite(c, k), ScanOK(Rewritten(Top, c, k))
      PROVE  \A f \in DOMAIN stack' : ScanOK(stack'[f])
  <2>1. /\ stack' \in Frames /\ Len(stack') = Len(stack)
        /\ \A i \in 1 .. Len(stack) - 1 : stack'[i] = stack[i]
        /\ stack'[Len(stack)] = Rewritten(Top, c, k)
    BY <1>s, <1>r, RewriteOK
  <2>2. DOMAIN stack' = 1 .. Len(stack)
    BY <2>1 DEF Frames
  <2> QED BY <1>s, <1>r, <2>1, <2>2
\* How an action that starts an activation is dealt with.
<1>e. ASSUME NEW g, stack' = Append(stack, g), g.cur = 0, g.slots[1] = << >>
      PROVE  \A f \in DOMAIN stack' : ScanOK(stack'[f])
  <2>1. ScanOK(g)
    BY <1>e DEF ScanOK, RootOK, ScannedOK, CodeFollows
  <2>2. /\ DOMAIN stack' = 1 .. Len(stack) + 1 /\ stack'[Len(stack) + 1] = g
        /\ \A i \in 1 .. Len(stack) : stack'[i] = stack[i]
    BY <1>e, <1>s DEF Frames
  <2> QED BY <1>s, <2>1, <2>2
\* How an action that ends an activation is dealt with.
<1>p. ASSUME NEW c \in Chains, CodeFollows(c, 1), Top.kind # "file", stack' = Deliver(Under, c)
      PROVE  \A f \in DOMAIN stack' : ScanOK(stack'[f])
  <2> DEFINE U == Under
  <2>1. /\ U \in Frames /\ Len(U) = Len(stack) - 1
        /\ \A i \in 1 .. Len(stack) - 1 : U[i] = stack[i]
    BY <1>s, UnderOK
  <2>2. Len(stack) > 1
    BY <1>t, <1>s, <1>p DEF TypeInv, Shape
  <2> HIDE DEF U
  <2>3. Len(U) > 0 /\ U[Len(U)] = stack[Len(U)] /\ Len(U) \in DOMAIN stack /\ Len(U) < Len(stack)
    BY <1>s, <2>1, <2>2
  <2>4. U[Len(U)].todo # << >> /\ U[Len(U)].cur = 0
    <3>1. stack[Len(U)] \in FrameType /\ stack[Len(U)].todo # << >>
      BY <1>t, <1>s, <2>3 DEF TypeInv, Shape, Frames
    <3>2. stack[Len(U)].cur = 0
      BY <1>t, <2>3, <3>1 DEF TypeInv, Shape, FrameType
    <3> QED BY <2>3, <3>1, <3>2
  <2>5. \A f \in DOMAIN U : ScanOK(U[f])
    <3>1. DOMAIN U = 1 .. Len(stack) - 1
      BY <2>1 DEF Frames
    <3> QED BY <1>s, <2>1, <3>1
  <2>6. \A f \in DOMAIN Deliver(U, c) : ScanOK(Deliver(U, c)[f])
    BY <1>p, <2>1, <2>3, <2>4, <2>5, DeliverScan
  <2> QED BY <1>p, <2>6 DEF U
<1>1. CASE ConvertLeaf
  <2>1. Top.todo # << >> /\ Head(Top.todo) \in Stmts
    BY <1>1, <1>t, KidsOK DEF ConvertLeaf, Pending
  <2>2. LeafCode(Head(Top.todo)) \in Chains /\ CodeFollows(LeafCode(Head(Top.todo)), 1)
    BY <2>1, LeafCodeOK, LeafFollows
  <2>3. stack' = Deliver(stack, LeafCode(Head(Top.todo)))
    BY <1>1 DEF ConvertLeaf
  <2> QED BY <1>d, <1>s, <2>1, <2>2, <2>3, DeliverScan
<1>2. CASE ThrowUnsupported
  BY <1>2, <1>s DEF ThrowUnsupported
<1>3. CASE EnterBlock
  BY <1>3, <1>e DEF EnterBlock, Frame
<1>4. CASE EnterIf
  BY <1>4, <1>e DEF EnterIf, Frame
<1>5. CASE EnterWhile
  BY <1>5, <1>e DEF EnterWhile, Frame
<1>6. CASE LeaveIf
  <2>1. Top.slots[1] \in Chains /\ Top.slots[2] \in Chains /\ Top.id \in Nat
    BY <1>s DEF FrameType
  <2>2. /\ IfCode(Top.flag, Top.id, Top.slots[1], Top.slots[2]) \in Chains
        /\ CodeFollows(IfCode(Top.flag, Top.id, Top.slots[1], Top.slots[2]), 1)
    BY <2>1, IfCodeType, IfCodeFollows
  <2>3. Top.kind # "file"
    BY <1>6 DEF LeaveIf, Converted
  <2> QED BY <1>6, <1>p, <2>2, <2>3 DEF LeaveIf
<1>7. CASE LinkBlock \/ LinkWhile
  BY <1>7, <1>r, LinkScan
<1>8. CASE MergeLabel
  <2>1. Top.cur \in Nat
    BY <1>s DEF FrameType
  <2> QED BY <1>8, <1>r, <2>1, MergeScan
<1>9. CASE NextInstruction
  BY <1>9, <1>r, NextScan
<1>10. CASE Return
  <2>1. Top.slots[1] \in Chains /\ CodeFollows(Top.slots[1], 1) /\ Top.kind # "file"
    BY <1>10, ReturnScan
  <2> QED BY <1>10, <1>p, <2>1 DEF Return
<1>11. CASE FinishFile
  BY <1>11, <1>s DEF FinishFile
<1>12. CASE UNCHANGED vars
  BY <1>12, <1>s DEF vars
<1> QED
  BY <1>1, <1>2, <1>3, <1>4, <1>5, <1>6, <1>7, <1>8, <1>9, <1>10, <1>11, <1>12 DEF Next

\* OptimizeLabels never deletes the node it was called with: the code of a
\* statement does not start with two labels, and the label at the root of a
\* scan is followed by something that stays.
THEOREM RootIsKept == Spec => RootKept
<1>1. Init => ScanInv
  BY ScanInit
<1>2. ScanInv /\ [Next]_vars => ScanInv'
  BY ScanStep
<1>3. ScanInv /\ [Next]_vars => [MergeLabel => Top.cur # Root(Top)]_vars
  <2> SUFFICES ASSUME ScanInv, MergeLabel PROVE Top.cur # Root(Top)
    OBVIOUS
  <2>1. Top.cur > Root(Top)
    BY MergeBehindRoot
  <2>2. Top.cur \in Nat /\ Root(Top) \in Nat
    BY StackOK DEF ScanInv, FrameType, Root
  <2> QED BY <2>1, <2>2
<1> QED BY <1>1, <1>2, <1>3, PTL DEF Spec, RootKept

-----------------------------------------------------------------------------
(* LabelsMerged.  Parse returns a block, so the last scan of all is that   *)
(* of the outermost block, and its chain is the program.                   *)

ProgramsAreBlocks == \A p \in Programs : p.kind = "block"

NoPairs(c) == \A i \in 1 .. Len(c) - 1 : ~PairAt(c, i)

\* The frame of MConvert waits for the code of the source, and the frame on
\* top of it is a block; or it has the code, which has been scanned.
FileOK ==
  /\ \/ stack[1].todo = <<source>> /\ stack[1].slots[1] = << >>
     \/ stack[1].todo = << >> /\ NoPairs(stack[1].slots[1])
  /\ Len(stack) > 1 => stack[2].kind = "block"
  /\ NoPairs(prog)

MergedInv == ScanInv /\ FileOK

\* Two instructions around a chain without two labels side by side.
LEMMA BracketNoPairs ==
  ASSUME NEW c \in Chains, NoPairs(c), NEW i \in Instructions, NEW j \in Instructions,
         ~IsLabel(i), ~IsLabel(j)
  PROVE  NoPairs((<<i>> \o c) \o <<j>>)
<1> DEFINE a == <<i>>
           b == <<j>>
           d == a \o c
           e == d \o b
<1>1. a \in Chains /\ Len(a) = 1 /\ a[1] = i /\ b \in Chains /\ Len(b) = 1 /\ b[1] = j
  BY Singleton
<1> HIDE DEF a, b
<1>2. /\ d \in Chains /\ Len(d) = Len(a) + Len(c)
      /\ \A k \in 1 .. Len(a) : d[k] = a[k]
      /\ \A k \in 1 .. Len(c) : d[Len(a) + k] = c[k]
  BY <1>1, ConcatChains
<1> HIDE DEF d
<1>3. /\ e \in Chains /\ Len(e) = Len(d) + Len(b)
      /\ \A k \in 1 .. Len(d) : e[k] = d[k]
      /\ \A k \in 1 .. Len(b) : e[Len(d) + k] = b[k]
  BY <1>1, <1>2, ConcatChains
<1>4. Len(c) \in Nat
  BY DEF Chains
<1> HIDE DEF e
<1>5. /\ Len(d) = 1 + Len(c) /\ Len(e) = 2 + Len(c)
      /\ e[1] = i /\ e[Len(e)] = j
      /\ \A k \in 1 .. Len(c) : e[1 + k] = c[k]
  <2>1. Len(d) = 1 + Len(c) /\ Len(e) = 2 + Len(c)
    BY <1>1, <1>2, <1>3, <1>4
  <2>2. d[1] = i /\ \A k \in 1 .. Len(c) : d[1 + k] = c[k]
    BY <1>1, <1>2
  <2>3. \A k \in 1 .. Len(c) : 1 + k \in 1 .. Len(d)
    BY <1>4, <2>1
  <2>4. e[1] = d[1] /\ \A k \in 1 .. Len(c) : e[1 + k] = d[1 + k]
    BY <1>3, <1>4, <2>1, <2>3
  <2>5. e[Len(d) + 1] = j
    BY <1>1, <1>3
  <2> QED BY <1>4, <2>1, <2>2, <2>4, <2>5
<1>6. ASSUME NEW k \in 1 .. Len(e) - 1
      PROVE  ~PairAt(e, k)
  <2>1. CASE k = 1
    BY <1>5, <2>1 DEF PairAt
  <2>2. CASE k = Len(e) - 1
    BY <1>4, <1>5, <2>2 DEF PairAt
  <2>3. CASE k > 1 /\ k < Len(e) - 1
    <3>1. k - 1 \in 1 .. Len(c) - 1 /\ k - 1 \in 1 .. Len(c) /\ k \in 1 .. Len(c)
      BY <1>4, <1>5, <1>6, <2>3
    <3>2. e[1 + (k - 1)] = c[k - 1] /\ e[1 + k] = c[k]
      BY <1>5, <3>1
    <3>3. 1 + (k - 1) = k /\ 1 + k = k + 1 /\ (k - 1) + 1 = k
      BY <1>6
    <3>4. ~PairAt(c, k - 1)
      BY <3>1 DEF NoPairs
    <3> QED BY <3>2, <3>3, <3>4 DEF PairAt
  <2> QED BY <1>4, <1>5, <2>1, <2>2, <2>3
<1> QED BY <1>6 DEF NoPairs, a, b, d, e

\* It holds initially.
LEMMA MergedInit == ProgramsAreBlocks /\ Init => MergedInv
<1> SUFFICES ASSUME Init PROVE MergedInv
  OBVIOUS
<1>1. stack[1].todo = <<source>> /\ stack[1].slots[1] = << >> /\ Len(stack) = 1
  BY DEF Init, Frame
<1>2. NoPairs(prog)
  BY DEF Init, NoPairs
<1> QED BY <1>1, <1>2, ScanInit DEF MergedInv, FileOK

\* Every action keeps it, when labels are merged.
LEMMA MergedStep ==
  ProgramsAreBlocks /\ OptimizeLabels /\ MergedInv /\ [Next]_vars => MergedInv'
<1> SUFFICES ASSUME ProgramsAreBlocks, OptimizeLabels, MergedInv, [Next]_vars PROVE MergedInv'
  OBVIOUS
<1>i. ScanInv /\ ScanInv' /\ TypeInv /\ FileOK
  BY ScanStep DEF MergedInv, ScanInv
<1>t. /\ stack \in Frames /\ Len(stack) \in Nat /\ Len(stack) > 0
      /\ DOMAIN stack = 1 .. Len(stack)
      /\ Top = stack[Len(stack)] /\ Top \in FrameType
  BY <1>i, StackOK
<1>f. Top.kind = "file" <=> Len(stack) = 1
  BY <1>i, <1>t DEF TypeInv, Shape
<1>s. /\ stack \in Frames /\ Len(stack) \in Nat /\ Len(stack) > 0
      /\ DOMAIN stack = 1 .. Len(stack)
      /\ Top = stack[Len(stack)] /\ Top \in FrameType
      /\ Top.kind = "file" <=> Len(stack) = 1
  BY <1>t, <1>f
<1>k. source.kind = "block"
  BY <1>i DEF ProgramsAreBlocks, TypeInv, TypeOK
\* The source is the first kid to convert.
<1>h. Len(stack) = 1 /\ Top.todo # << >> => Head(Top.todo) = source
  BY <1>i, <1>s DEF FileOK
<1> SUFFICES FileOK'
  BY <1>i DEF MergedInv
\* How an action on a frame other than the first is dealt with.
<1>r. ASSUME NEW g, Len(stack) > 1, stack' \in Frames, Len(stack') = Len(stack),
             \A i \in 1 .. Len(stack) - 1 : stack'[i] = stack[i],
             stack'[Len(stack)] = g, g.kind = Top.kind, source' = source, prog' = prog
      PROVE  FileOK'
  <2>1. stack'[1] = stack[1]
    BY <1>r, <1>s
  <2>2. Len(stack') > 1 => stack'[2].kind = "block"
    <3>1. stack[2].kind = "block"
      BY <1>i, <1>r DEF FileOK
    <3>2. CASE Len(stack) = 2
      BY <1>r, <1>s, <3>1, <3>2
    <3>3. CASE Len(stack) > 2
      BY <1>r, <1>s, <3>1, <3>3
    <3> QED BY <1>r, <1>s, <3>2, <3>3
  <2> QED BY <1>i, <1>r, <2>1, <2>2 DEF FileOK
\* How an action that starts an activation is dealt with.
<1>e. ASSUME NEW g \in FrameType, stack' = Append(stack, g), Top.todo # << >>,
             g.kind = Head(Top.todo).kind, source' = source, prog' = prog
      PROVE  FileOK'
  <2>1. /\ Len(stack') = Len(stack) + 1 /\ stack'[Len(stack) + 1] = g
        /\ \A i \in 1 .. Len(stack) : stack'[i] = stack[i]
    BY <1>e, <1>s, PushOK
  <2>2. stack'[1] = stack[1]
    BY <1>s, <2>1
  <2>3. stack'[2].kind = "block"
    <3>1. CASE Len(stack) = 1
      BY <1>e, <1>h, <1>k, <2>1, <3>1
    <3>2. CASE Len(stack) > 1
      BY <1>i, <1>s, <2>1, <3>2 DEF FileOK
    <3> QED BY <1>s, <3>1, <3>2
  <2> QED BY <1>e, <1>i, <2>2, <2>3 DEF FileOK
\* How an action that ends an activation is dealt with.
<1>p. ASSUME NEW c \in Chains, Top.kind # "file", stack' = Deliver(Under, c),
             Len(stack) = 2 => NoPairs(c), source' = source, prog' = prog
      PROVE  FileOK'
  <2>1. /\ Len(stack') = Len(stack) - 1
        /\ \A i \in 1 .. Len(stack) - 2 : stack'[i] = stack[i]
        /\ stack'[Len(stack) - 1] = Received(stack[Len(stack) - 1], c)
        /\ stack[Len(stack) - 1].todo # << >>
    BY <1>i, <1>p, PopKeepsType
  <2>2. Len(stack) > 1
    BY <1>p, <1>s
  <2>3. stack[Len(stack) - 1] \in FrameType
    BY <1>s, <2>2 DEF Frames
  <2>4. CASE Len(stack) = 2
    <3> DEFINE f == stack[1]
    <3>1. f \in FrameType /\ stack'[1] = Received(f, c) /\ f.todo # << >> /\ Len(stack') = 1
      BY <2>1, <2>3, <2>4
    <3>2. f.kind = "file"
      BY <1>i, <1>s, <2>4 DEF TypeInv, Shape
    <3>3. f.todo = <<source>> /\ f.slots[1] = << >>
      BY <1>i, <3>1 DEF FileOK
    <3> HIDE DEF f
    <3>4. SlotOf(f) = 1
      BY <3>2 DEF SlotOf
    <3>5. Received(f, c).todo = << >> /\ Received(f, c).slots[1] = << >> \o c
      <4>1. Tail(f.todo) = << >>
        BY <3>3
      <4>2. Received(f, c).todo = Tail(f.todo) /\ Received(f, c).slots[SlotOf(f)] = f.slots[SlotOf(f)] \o c
        BY <3>1, ReceivedOK
      <4> QED BY <3>3, <3>4, <4>1, <4>2
    <3>6. << >> \o c = c
      BY DEF Chains
    <3>7. NoPairs(c)
      BY <1>p, <2>4
    <3> QED BY <1>i, <1>p, <3>1, <3>5, <3>6, <3>7 DEF FileOK
  <2>5. CASE Len(stack) > 2
    <3>1. stack'[1] = stack[1]
      BY <1>s, <2>1, <2>5
    <3>2. stack'[2].kind = "block"
      <4>1. stack[2].kind = "block"
        BY <1>i, <2>5 DEF FileOK
      <4>2. CASE Len(stack) = 3
        <5>1. stack[2] \in FrameType /\ stack'[2] = Received(stack[2], c) /\ stack[2].todo # << >>
          BY <2>1, <2>3, <4>2
        <5>2. Received(stack[2], c).kind = stack[2].kind
          BY <5>1, ReceivedOK
        <5> QED BY <4>1, <5>1, <5>2
      <4>3. CASE Len(stack) > 3
        <5>1. 2 \in 1 .. Len(stack) - 2
          BY <1>s, <4>3
        <5> QED BY <2>1, <4>1, <5>1
      <4> QED BY <1>s, <2>5, <4>2, <4>3
    <3> QED BY <1>i, <1>p, <3>1, <3>2 DEF FileOK
  <2> QED BY <1>s, <2>2, <2>4, <2>5
\* How an action that rewrites the innermost code is dealt with.
<1>w. ASSUME NEW c \in Chains, NEW k \in Nat, Rewrite(c, k), Top.kind # "file",
             source' = source, prog' = prog
      PROVE  FileOK'
  <2>1. /\ stack' \in Frames /\ Len(stack') = Len(stack)
        /\ \A i \in 1 .. Len(stack) - 1 : stack'[i] = stack[i]
        /\ stack'[Len(stack)] = Rewritten(Top, c, k)
    BY <1>s, <1>w, RewriteOK
  <2>2. Rewritten(Top, c, k).kind = Top.kind
    BY <1>s, RewrittenOK
  <2>3. Len(stack) > 1
    BY <1>s, <1>w
  <2> QED BY <1>r, <1>w, <2>1, <2>2, <2>3
<1>1. CASE ConvertLeaf
  <2>1. Top.todo # << >> /\ Head(Top.todo).kind \in LeafKinds
    BY <1>1 DEF ConvertLeaf, Pending
  <2>2. Len(stack) > 1
    BY <1>h, <1>k, <1>s, <2>1 DEF LeafKinds
  <2>3. LeafCode(Head(Top.todo)) \in Chains
    BY <1>i, <2>1, KidsOK, LeafCodeOK
  <2> DEFINE c == LeafCode(Head(Top.todo))
  <2>4. stack' = Deliver(stack, c) /\ source' = source /\ prog' = prog
    BY <1>1 DEF ConvertLeaf
  <2> HIDE DEF c
  <2>5. /\ stack' \in Frames /\ Len(stack') = Len(stack)
        /\ \A i \in 1 .. Len(stack) - 1 : stack'[i] = stack[i]
        /\ stack'[Len(stack)] = Received(Top, c)
    BY <1>s, <2>1, <2>3, <2>4, DeliverOK DEF c
  <2>6. Received(Top, c).kind = Top.kind
    BY <1>s, <2>1, <2>3, ReceivedOK DEF c
  <2> QED BY <1>r, <2>2, <2>4, <2>5, <2>6
<1>2. CASE ThrowUnsupported
  BY <1>2, <1>i DEF ThrowUnsupported, FileOK
<1>3. CASE EnterBlock
  <2> DEFINE g == Frame("block", FALSE, Head(Top.todo).kids, 0, currentScope + 1)
  <2>1. /\ Top.todo # << >> /\ Head(Top.todo).kind = "block"
        /\ stack' = Append(stack, g) /\ source' = source /\ prog' = prog
    BY <1>3 DEF EnterBlock, Pending
  <2>2. Head(Top.todo).kids \in Seq(Stmts)
    BY <1>i, <2>1, KidsOK
  <2>3. currentScope + 1 \in Nat
    <3>1. currentScope \in Nat BY <1>i DEF TypeInv, TypeOK
    <3> QED BY <3>1
  <2>4. g \in FrameType
    BY <2>2, <2>3, FrameOK DEF CompoundKinds
  <2>5. g.kind = "block"
    BY DEF Frame
  <2> HIDE DEF g
  <2> QED BY <1>e, <2>1, <2>4, <2>5
<1>4. CASE EnterIf
  <2> DEFINE s == Head(Top.todo)
             g == Frame("if", s.flag, s.kids, idmap["default"], 0)
  <2>1. /\ Top.todo # << >> /\ Head(Top.todo).kind = "if"
        /\ stack' = Append(stack, g) /\ source' = source /\ prog' = prog
    BY <1>4 DEF EnterIf, Pending
  <2>2. s.kids \in Seq(Stmts) /\ s.flag \in BOOLEAN
    BY <1>i, <2>1, KidsOK
  <2>3. idmap["default"] \in Nat
    BY <1>i DEF TypeInv, TypeOK, Counters
  <2>4. g \in FrameType
    BY <2>2, <2>3, FrameOK DEF CompoundKinds
  <2>5. g.kind = "if"
    BY DEF Frame
  <2> HIDE DEF g, s
  <2> QED BY <1>e, <2>1, <2>4, <2>5
<1>5. CASE EnterWhile
  <2> DEFINE s == Head(Top.todo)
             g == Frame("while", FALSE, <<s.kids[1]>>, idmap["while"], 0)
  <2>1. /\ Top.todo # << >> /\ Head(Top.todo).kind = "while"
        /\ stack' = Append(stack, g) /\ source' = source /\ prog' = prog
    BY <1>5 DEF EnterWhile, Pending
  <2>2. <<s.kids[1]>> \in Seq(Stmts)
    BY <1>i, <2>1, BodyOK
  <2>3. idmap["while"] \in Nat
    BY <1>i DEF TypeInv, TypeOK, Counters
  <2>4. g \in FrameType
    BY <2>2, <2>3, FrameOK DEF CompoundKinds
  <2>5. g.kind = "while"
    BY DEF Frame
  <2> HIDE DEF g, s
  <2> QED BY <1>e, <2>1, <2>4, <2>5
<1>6. CASE LeaveIf
  <2>1. /\ Top.kind = "if" /\ source' = source /\ prog' = prog
        /\ stack' = Deliver(Under, IfCode(Top.flag, Top.id, Top.slots[1], Top.slots[2]))
    BY <1>6 DEF LeaveIf, Converted
  <2>2. IfCode(Top.flag, Top.id, Top.slots[1], Top.slots[2]) \in Chains
    BY <1>s, IfCodeType DEF FrameType
  <2>3. Len(stack) # 2
    BY <1>i, <1>s, <2>1 DEF FileOK
  <2> QED BY <1>p, <2>1, <2>2, <2>3
<1>7. CASE LinkBlock \/ LinkWhile
  <2>1. Top.kind # "file" /\ source' = source /\ prog' = prog
    BY <1>7 DEF LinkBlock, LinkWhile, Converted
  <2>2. PICK c \in Chains, k \in Nat : Rewrite(c, k)
    BY <1>7, <1>i, LinkScan
  <2> QED BY <1>w, <2>1, <2>2
<1>8. CASE MergeLabel \/ NextInstruction
  <2>1. source' = source /\ prog' = prog /\ Top.cur > 0
    BY <1>8 DEF MergeLabel, NextInstruction, Scanning
  <2>2. Top.kind # "file"
    BY <1>i, <1>s, <2>1 DEF TypeInv, Shape
  <2>3. Top.cur \in Nat
    BY <1>s DEF FrameType
  <2>4. \E c \in Chains, k \in Nat : Rewrite(c, k)
    BY <1>8, <1>i, <2>3, MergeScan, NextScan
  <2> QED BY <1>w, <2>1, <2>2, <2>4
<1>9. CASE Return
  <2>1. Top.slots[1] \in Chains /\ Top.kind # "file" /\ Top.cur = Len(Top.slots[1]) /\ Top.cur > 0
    BY <1>9, <1>i, ReturnScan
  <2>2. ScannedOK(Top)
    BY <1>i, <1>s DEF ScanInv
  <2>3. NoPairs(Top.slots[1])
    BY <2>1, <2>2 DEF ScannedOK, NoPairs
  <2>4. stack' = Deliver(Under, Top.slots[1]) /\ source' = source /\ prog' = prog
    BY <1>9 DEF Return
  <2> QED BY <1>p, <2>1, <2>3, <2>4
<1>10. CASE FinishFile
  <2> DEFINE c == Top.slots[1]
             p == (<<[op |-> "SOF"]>> \o c) \o <<[op |-> "EOF"]>>
  <2>1. Top.kind = "file" /\ Top.todo = << >> /\ prog' = p /\ UNCHANGED <<source, stack>>
    BY <1>10 DEF FinishFile, Converted
  <2>2. Len(stack) = 1 /\ Top = stack[1]
    BY <1>s, <2>1
  <2>3. c \in Chains /\ NoPairs(c)
    BY <1>i, <1>s, <2>1, <2>2 DEF FileOK, FrameType
  <2> HIDE DEF c
  <2>4. NoPairs(p)
    <3>1. /\ [op |-> "SOF"] \in Instructions /\ ~IsLabel([op |-> "SOF"])
          /\ [op |-> "EOF"] \in Instructions /\ ~IsLabel([op |-> "EOF"])
      BY InstructionTypes
    <3> QED BY <2>3, <3>1, BracketNoPairs
  <2> HIDE DEF p
  <2> QED BY <1>i, <2>1, <2>4 DEF FileOK
<1>11. CASE UNCHANGED vars
  BY <1>11, <1>i DEF vars, FileOK
<1> QED
  BY <1>1, <1>2, <1>3, <1>4, <1>5, <1>6, <1>7, <1>8, <1>9, <1>10, <1>11 DEF Next

\* With the option on, no two labels are side by side in a finished program
\* whose source is a block, as Parse makes it: the scan of the outermost
\* block ends behind all of its code, and nothing it has passed becomes a
\* pair again.
THEOREM AllLabelsMerged ==
  ASSUME ProgramsAreBlocks
  PROVE  Spec => []LabelsMerged
<1>1. CASE OptimizeLabels
  <2>1. Init => MergedInv
    BY MergedInit
  <2>2. MergedInv /\ [Next]_vars => MergedInv'
    BY <1>1, MergedStep
  <2>3. MergedInv => LabelsMerged
    BY DEF MergedInv, FileOK, NoPairs, PairAt, LabelsMerged
  <2> QED BY <2>1, <2>2, <2>3, PTL DEF Spec
<1>2. CASE ~OptimizeLabels
  <2>1. LabelsMerged
    BY <1>2 DEF LabelsMerged
  <2> QED BY <2>1, PTL
<1> QED BY <1>1, <1>2

=============================================================================
