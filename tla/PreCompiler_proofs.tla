-------------------------- MODULE PreCompiler_proofs --------------------------
(***************************************************************************)
(* The precompiler, for all programs and options: its types, the registry  *)
(* of the open blocks.  First sequences and the heap, then the tree of     *)
(* statements with the blocks around each of them, then the steps.         *)
(***************************************************************************)
EXTENDS PreCompiler, FiniteSetTheorems, WellFoundedInduction, SequenceTheorems, TLAPS

\* A set of numbers has a least member.
LEMMA LeastExists ==
  ASSUME NEW S, S \subseteq Nat, S # {}
  PROVE  \E x \in S : \A y \in S : x <= y
<1> DEFINE R == OpToRel(<, Nat)
<1>1. IsWellFoundedOn(R, Nat)
  BY NatLessThanWellFounded
<1>2. \A x, y \in Nat : <<y, x>> \in R <=> y < x
  BY DEF OpToRel
<1> HIDE DEF R
<1>3. PICK x \in S : \A y \in S : ~(<<y, x>> \in R)
  BY <1>1, WFMin
<1>4. ASSUME NEW y \in S
      PROVE  x <= y
  <2>1. x \in Nat /\ y \in Nat
    OBVIOUS
  <2>2. ~(y < x)
    BY <1>2, <1>3, <2>1
  <2> QED BY <2>1, <2>2
<1> QED BY <1>4

-----------------------------------------------------------------------------
(* Keep.                                                                   *)

\* A set of places in a list of length n.
Places(keep, n) == \A q \in keep : q \in Nat /\ 1 <= q /\ q <= n

\* How many members of a set of places are not behind p.
Rank(keep, p) == Cardinality({q \in keep : q <= p})

\* Ranks are numbers that grow by one at each member.
LEMMA RankStep ==
  ASSUME NEW n \in Nat, NEW keep, Places(keep, n)
  PROVE  /\ IsFiniteSet(keep)
         /\ \A p \in 0 .. n : Rank(keep, p) \in Nat
         /\ \A p \in 1 .. n : Rank(keep, p) = IF p \in keep THEN Rank(keep, p - 1) + 1
                                              ELSE Rank(keep, p - 1)
         /\ Rank(keep, 0) = 0
         /\ Rank(keep, n) = Cardinality(keep)
<1> USE DEF Places
<1>1. IsFiniteSet(1 .. n) /\ keep \subseteq 1 .. n
  BY FS_Interval
<1>2. IsFiniteSet(keep)
  BY <1>1, FS_Subset
<1>3. \A p \in 0 .. n : IsFiniteSet({q \in keep : q <= p})
  BY <1>2, FS_Subset
<1>4. \A p \in 0 .. n : Rank(keep, p) \in Nat
  BY <1>3, FS_CardinalityType DEF Rank
<1>5. ASSUME NEW p \in 1 .. n, p \in keep
      PROVE  Rank(keep, p) = Rank(keep, p - 1) + 1
  <2>1. {q \in keep : q <= p} = {q \in keep : q <= p - 1} \cup {p}
    <3>1. \A q \in keep : q <= p <=> q <= p - 1 \/ q = p
      OBVIOUS
    <3> QED BY <1>5, <3>1
  <2>2. p \notin {q \in keep : q <= p - 1} /\ p - 1 \in 0 .. n
    OBVIOUS
  <2> QED BY <1>3, <2>1, <2>2, FS_AddElement DEF Rank
<1>6. ASSUME NEW p \in 1 .. n, p \notin keep
      PROVE  Rank(keep, p) = Rank(keep, p - 1)
  <2>1. {q \in keep : q <= p} = {q \in keep : q <= p - 1}
    BY <1>6
  <2> QED BY <2>1 DEF Rank
<1>7. {q \in keep : q <= 0} = {} /\ {q \in keep : q <= n} = keep
  OBVIOUS
<1> QED BY <1>2, <1>4, <1>5, <1>6, <1>7, FS_EmptySet DEF Rank

\* Ranks do not fall.
LEMMA RankGrows ==
  ASSUME NEW n \in Nat, NEW keep, Places(keep, n), NEW p \in 0 .. n, NEW q \in 0 .. n, p < q
  PROVE  /\ Rank(keep, p) <= Rank(keep, q)
         /\ q \in keep => Rank(keep, p) < Rank(keep, q)
<1>0. q \in 1 .. n /\ q - 1 \in 0 .. n
  OBVIOUS
<1>1. Rank(keep, q) \in Nat /\ Rank(keep, p) \in Nat
      /\ Rank(keep, q - 1) \in Nat
      /\ Rank(keep, q) = IF q \in keep THEN Rank(keep, q - 1) + 1 ELSE Rank(keep, q - 1)
  BY <1>0, RankStep
<1>2. Rank(keep, p) <= Rank(keep, q - 1)
  <2>1. IsFiniteSet({r \in keep : r <= q - 1})
    BY RankStep, FS_Subset
  <2>2. {r \in keep : r <= p} \subseteq {r \in keep : r <= q - 1}
    <3>1. \A r \in keep : r <= p => r <= q - 1
      BY DEF Places
    <3> QED BY <3>1
  <2> QED BY <2>1, <2>2, FS_Subset DEF Rank
<1> QED BY <1>0, <1>1, <1>2

\* Every number up to the size of the set is the rank of one of its members.
LEMMA RankReached ==
  ASSUME NEW n \in Nat, NEW keep, Places(keep, n), NEW k \in 1 .. Cardinality(keep)
  PROVE  \E p \in keep : Rank(keep, p) = k
<1> DEFINE T == {p \in 0 .. n : k <= Rank(keep, p)}
<1>1. Cardinality(keep) \in Nat
  BY RankStep, FS_CardinalityType
<1>2. n \in T
  BY <1>1, RankStep
<1>3. PICK p \in T : \A q \in T : p <= q
  <2>1. T \subseteq Nat
    OBVIOUS
  <2> HIDE DEF T
  <2> QED BY <1>2, <2>1, LeastExists
<1>4. p # 0
  BY <1>1, RankStep
<1>5. p \in 1 .. n /\ p - 1 \in 0 .. n /\ p - 1 \notin T
  BY <1>3, <1>4
<1>6. Rank(keep, p - 1) \in Nat /\ Rank(keep, p - 1) < k /\ k <= Rank(keep, p)
  BY <1>1, <1>5, RankStep
<1>7. Rank(keep, p) = IF p \in keep THEN Rank(keep, p - 1) + 1 ELSE Rank(keep, p - 1)
  BY <1>5, RankStep
<1> QED BY <1>1, <1>6, <1>7

\* place lists the members of keep in order; Keep takes the elements there.
KeptBy(list, keep, place) ==
  /\ place \in [1 .. Cardinality(keep) -> keep]
  /\ Keep(list, keep) = [k \in 1 .. Cardinality(keep) |-> list[place[k]]]
  /\ \A j, k \in 1 .. Cardinality(keep) : j < k => place[j] < place[k]
  /\ \A p \in keep : \E k \in 1 .. Cardinality(keep) : place[k] = p

\* Keep takes the elements at the places in keep, each once and in order.
LEMMA KeepPlaces ==
  ASSUME NEW list, NEW n \in Nat, NEW keep, Places(keep, n)
  PROVE  Cardinality(keep) \in Nat /\ \E place : KeptBy(list, keep, place)
<1> DEFINE N        == Cardinality(keep)
           at(k)    == CHOOSE p \in keep : Cardinality({q \in keep : q <= p}) = k
           place    == [k \in 1 .. N |-> at(k)]
<1>1. N \in Nat
  BY RankStep, FS_CardinalityType
<1>2. \A k \in 1 .. N : at(k) \in keep /\ Rank(keep, at(k)) = k
  BY RankReached DEF Rank
<1>3. Keep(list, keep) = [k \in 1 .. N |-> list[at(k)]]
  BY DEF Keep
<1> HIDE DEF at
<1>4. ASSUME NEW j \in 1 .. N, NEW k \in 1 .. N, j < k
      PROVE  at(j) < at(k)
  <2>1. at(j) \in 0 .. n /\ at(k) \in 0 .. n
    BY <1>2 DEF Places
  <2>2. CASE at(k) < at(j)
    BY <1>2, <1>4, <2>1, <2>2, RankGrows
  <2>3. CASE at(k) = at(j)
    BY <1>2, <1>4, <2>3
  <2> QED BY <2>1, <2>2, <2>3
<1>5. ASSUME NEW p \in keep
      PROVE  \E k \in 1 .. N : at(k) = p
  <2>1. p \in 1 .. n /\ p - 1 \in 0 .. n
    BY DEF Places
  <2>2. Rank(keep, p) \in Nat /\ Rank(keep, p) = Rank(keep, p - 1) + 1 /\ Rank(keep, p - 1) \in Nat
    BY <2>1, RankStep
  <2>3. Rank(keep, p) <= N
    BY <1>1, <2>1, RankStep, RankGrows
  <2>4. Rank(keep, p) \in 1 .. N
    BY <1>1, <2>2, <2>3
  <2> DEFINE r == at(Rank(keep, p))
  <2>5. r \in keep /\ Rank(keep, r) = Rank(keep, p)
    BY <1>2, <2>4
  <2>6. r \in 0 .. n /\ p \in 0 .. n /\ Rank(keep, r) \in Nat
    <3>1. r \in 0 .. n /\ p \in 0 .. n
      BY <2>5 DEF Places
    <3> QED BY <3>1, RankStep
  <2> HIDE DEF r
  <2>7. ~(r < p) /\ ~(p < r)
    BY <2>2, <2>5, <2>6, RankGrows
  <2>8. r = p
    BY <2>6, <2>7
  <2> QED BY <2>4, <2>8 DEF r
<1>6. place \in [1 .. N -> keep]
  BY <1>2
<1>7. Keep(list, keep) = [k \in 1 .. N |-> list[place[k]]]
  BY <1>3
<1>8. /\ \A j, k \in 1 .. N : j < k => place[j] < place[k]
      /\ \A p \in keep : \E k \in 1 .. N : place[k] = p
  BY <1>4, <1>5
<1> QED BY <1>1, <1>6, <1>7, <1>8 DEF KeptBy

\* t has the elements of list at the places in keep and no others.
Selects(list, keep, t) ==
  /\ \A k \in DOMAIN t : \E p \in keep : t[k] = list[p]
  /\ \A p \in keep : \E k \in DOMAIN t : t[k] = list[p]

\* What is kept of a sequence is a sequence of some of its elements.
LEMMA KeepSeq ==
  ASSUME NEW S, NEW list \in Seq(S), NEW keep, keep \subseteq DOMAIN list
  PROVE  Keep(list, keep) \in Seq(S) /\ Selects(list, keep, Keep(list, keep))
<1>1. Len(list) \in Nat /\ Places(keep, Len(list))
  <2>1. \A p \in DOMAIN list : p \in Nat /\ 1 <= p /\ p <= Len(list)
    OBVIOUS
  <2> QED BY <2>1 DEF Places
<1> DEFINE N == Cardinality(keep)
<1>2. N \in Nat
  BY <1>1, KeepPlaces
<1>3. PICK place : KeptBy(list, keep, place)
  BY <1>1, KeepPlaces
<1>4. /\ place \in [1 .. N -> keep]
      /\ Keep(list, keep) = [k \in 1 .. N |-> list[place[k]]]
      /\ \A p \in keep : \E k \in 1 .. N : place[k] = p
  BY <1>3 DEF KeptBy
<1> HIDE DEF N
<1>5. \A k \in 1 .. N : place[k] \in keep /\ list[place[k]] \in S
  BY <1>4
<1>6. Keep(list, keep) \in Seq(S) /\ DOMAIN Keep(list, keep) = 1 .. N
  BY <1>2, <1>4, <1>5
<1>7. \A k \in 1 .. N : Keep(list, keep)[k] = list[place[k]]
  BY <1>4
<1> QED BY SMTT(40), <1>4, <1>5, <1>6, <1>7 DEF Selects

-----------------------------------------------------------------------------
(* The heap and the stack.                                                 *)

Compound == {"block", "if", "while", "func"}

NodeType(m) ==
  [kind : StmtKinds, name : Names, auto : BOOLEAN, uses : SUBSET Names, hidden : SUBSET Names,
   kids : Seq(0 .. m), parent : 0 .. m, written : BOOLEAN]

EntryType(m) ==
  [name : Names, declaration : 0 .. m, usage : Seq(1 .. m), scope : Nat, auto : BOOLEAN]

FrameOf(r) ==
  [id : Nat \ {0}, i : Nat, closed : BOOLEAN, skip : Nat, detached : BOOLEAN, scope : Nat,
   leaving : BOOLEAN, pending : Seq(DOMAIN r)]

\* A statement keeps everything but its kids.
SameNode(x, y) ==
  /\ x.kind = y.kind /\ x.name = y.name /\ x.auto = y.auto /\ x.uses = y.uses
  /\ x.hidden = y.hidden /\ x.parent = y.parent /\ x.written = y.written

\* Heap g has the statements of h, maybe with other kids, and maybe more.
Extends(h, g) ==
  /\ Len(h) <= Len(g)
  /\ \A n \in 1 .. Len(h) : SameNode(h[n], g[n])

\* h with K for the kids of id.
WithKids(h, id, K) == [h EXCEPT ![id].kids = K]

\* h with K for the kids of id, and a new statement.
Grown(h, id, K, node) == Append(WithKids(h, id, K), node)

\* Types of nodes, entries and frames only grow with the heap and the registry.
LEMMA TypesGrow ==
  ASSUME NEW m \in Nat, NEW n \in Nat, m <= n
  PROVE  /\ \A x \in NodeType(m) : x \in NodeType(n)
         /\ \A x \in EntryType(m) : x \in EntryType(n)
         /\ \A h \in Seq(NodeType(m)) : h \in Seq(NodeType(n))
         /\ \A r \in Seq(EntryType(m)) : r \in Seq(EntryType(n))
<1>1. 0 .. m \subseteq 0 .. n /\ 1 .. m \subseteq 1 .. n
  OBVIOUS
<1>2. \A K \in Seq(0 .. m) : K \in Seq(0 .. n)
  BY <1>1, SeqMonotonic
<1>3. \A K \in Seq(1 .. m) : K \in Seq(1 .. n)
  BY <1>1, SeqMonotonic
<1>4. NodeType(m) \subseteq NodeType(n)
  BY <1>1, <1>2 DEF NodeType
<1>5. EntryType(m) \subseteq EntryType(n)
  BY <1>1, <1>3 DEF EntryType
<1>6. Seq(NodeType(m)) \subseteq Seq(NodeType(n)) /\ Seq(EntryType(m)) \subseteq Seq(EntryType(n))
  BY <1>4, <1>5, SeqMonotonic
<1> QED BY <1>4, <1>5, <1>6

\* What WithKids changes.
LEMMA WithKidsIs ==
  ASSUME NEW m \in Nat, NEW h \in Seq(NodeType(m)), NEW id \in 1 .. Len(h), NEW K \in Seq(0 .. m)
  PROVE  /\ WithKids(h, id, K) \in Seq(NodeType(m))
         /\ Len(WithKids(h, id, K)) = Len(h)
         /\ \A n \in 1 .. Len(h) : /\ SameNode(h[n], WithKids(h, id, K)[n])
                                   /\ WithKids(h, id, K)[n].kids = IF n = id THEN K ELSE h[n].kids
<1> DEFINE x == [h[id] EXCEPT !.kids = K]
           g == WithKids(h, id, K)
<1>1. h[id] \in NodeType(m)
  OBVIOUS
<1>2. x \in NodeType(m) /\ SameNode(h[id], x) /\ x.kids = K
  BY <1>1 DEF NodeType, SameNode
<1>3. g = [h EXCEPT ![id] = x]
  BY DEF WithKids
<1> HIDE DEF x, g
<1>4. g \in Seq(NodeType(m)) /\ Len(g) = Len(h)
      /\ \A n \in 1 .. Len(h) : g[n] = IF n = id THEN x ELSE h[n]
  BY <1>2, <1>3
<1>5. \A n \in 1 .. Len(h) : SameNode(h[n], g[n]) /\ g[n].kids = IF n = id THEN K ELSE h[n].kids
  BY <1>2, <1>4 DEF SameNode
<1> QED BY <1>4, <1>5 DEF g

\* The heap after a step that changes the kids of one statement.
LEMMA HeapWithKids ==
  ASSUME heap \in Seq(NodeType(Len(heap))), NEW id \in 1 .. Len(heap), NEW K \in Seq(0 .. Len(heap)),
         heap' = WithKids(heap, id, K)
  PROVE  /\ heap' \in Seq(NodeType(Len(heap'))) /\ Len(heap') = Len(heap)
         /\ Extends(heap, heap')
         /\ \A n \in 1 .. Len(heap) : heap'[n].kids = IF n = id THEN K ELSE heap[n].kids
<1>1. Len(heap) \in Nat
  OBVIOUS
<1>2. /\ heap' \in Seq(NodeType(Len(heap))) /\ Len(heap') = Len(heap)
      /\ \A n \in 1 .. Len(heap) : /\ SameNode(heap[n], heap'[n])
                                   /\ heap'[n].kids = IF n = id THEN K ELSE heap[n].kids
  BY <1>1, WithKidsIs
<1> QED BY <1>1, <1>2 DEF Extends

\* A longer sequence.
LEMMA AppendTo ==
  ASSUME NEW S, NEW r \in Seq(S), NEW e \in S
  PROVE  /\ Append(r, e) \in Seq(S) /\ Len(Append(r, e)) = Len(r) + 1
         /\ \A k \in 1 .. Len(r) : Append(r, e)[k] = r[k]
         /\ Append(r, e)[Len(r) + 1] = e
OBVIOUS

\* The heap after a step that also allocates a statement.
LEMMA HeapGrown ==
  ASSUME heap \in Seq(NodeType(Len(heap))), NEW id \in 1 .. Len(heap), NEW K \in Seq(0 .. Len(heap) + 1),
         NEW node \in NodeType(Len(heap) + 1), heap' = Grown(heap, id, K, node)
  PROVE  /\ heap' \in Seq(NodeType(Len(heap'))) /\ Len(heap') = Len(heap) + 1
         /\ Extends(heap, heap')
         /\ \A n \in 1 .. Len(heap) : heap'[n].kids = IF n = id THEN K ELSE heap[n].kids
         /\ heap'[Len(heap) + 1] = node
<1> DEFINE m == Len(heap) + 1
           g == WithKids(heap, id, K)
<1>1. Len(heap) \in Nat /\ m \in Nat /\ Len(heap) <= m
  OBVIOUS
<1>2. heap \in Seq(NodeType(m))
  BY <1>1, TypesGrow
<1>3. /\ g \in Seq(NodeType(m)) /\ Len(g) = Len(heap)
      /\ \A n \in 1 .. Len(heap) : /\ SameNode(heap[n], g[n])
                                   /\ g[n].kids = IF n = id THEN K ELSE heap[n].kids
  BY <1>1, <1>2, WithKidsIs
<1>4. heap' = Append(g, node)
  BY DEF Grown
<1> HIDE DEF g
<1>5. /\ heap' \in Seq(NodeType(m)) /\ Len(heap') = m
      /\ \A n \in 1 .. Len(heap) : heap'[n] = g[n]
      /\ heap'[m] = node
  <2>1. node \in NodeType(m) /\ g \in Seq(NodeType(m))
    BY <1>3
  <2> HIDE DEF m
  <2>2. /\ Append(g, node) \in Seq(NodeType(m)) /\ Len(Append(g, node)) = Len(g) + 1
        /\ \A n \in 1 .. Len(g) : Append(g, node)[n] = g[n]
        /\ Append(g, node)[Len(g) + 1] = node
    BY <2>1, AppendTo
  <2>3. Len(g) = Len(heap) /\ m = Len(heap) + 1
    BY <1>3 DEF m
  <2> QED BY <1>4, <2>2, <2>3
<1> QED BY <1>1, <1>3, <1>5 DEF Extends

\* Extending is transitive enough: nothing changed.
LEMMA HeapSame ==
  ASSUME heap \in Seq(NodeType(Len(heap))), heap' = heap
  PROVE  Extends(heap, heap') /\ heap' \in Seq(NodeType(Len(heap'))) /\ Len(heap') = Len(heap)
BY DEF Extends, SameNode

-----------------------------------------------------------------------------
(* Types.                                                                  *)

\* A frame walks the kids of a compound statement; only a block is left in
\* steps.
FrameFits(h, r, fr) ==
  /\ fr \in FrameOf(r)
  /\ fr.id \in 1 .. Len(h)
  /\ h[fr.id].kind \in Compound
  /\ ~fr.leaving => fr.pending = << >>
  /\ fr.leaving => h[fr.id].kind = "block"

\* Only the innermost activation is leaving its block.
StackFits(h, r, st) ==
  /\ st \in Seq(FrameOf(r))
  /\ \A f \in 1 .. Len(st) : FrameFits(h, r, st[f]) /\ (f < Len(st) => ~st[f].leaving)

Phases == {"walk", "done", "threw", "crashed", "logic_error"}

TypeInv ==
  /\ options \in OptionSets
  /\ heap \in Seq(NodeType(Len(heap)))
  /\ freed \subseteq 1 .. Len(heap)
  /\ registry \in Seq(EntryType(Len(heap)))
  /\ currentScope \in Nat
  /\ StackFits(heap, registry, stack)
  /\ phase \in Phases
  /\ phase = "walk" => stack # << >>

\* remainingVars are different entries of the block that is left, with their
\* declarations; only entries of that block have lost theirs.
PendInv ==
  /\ \A k \in DOMAIN registry :
       registry[k].declaration = Null => stack # << >> /\ Top.leaving /\ registry[k].scope = Top.scope
  /\ stack # << >> =>
       \A j \in DOMAIN Top.pending :
          /\ registry[Top.pending[j]].declaration # Null
          /\ registry[Top.pending[j]].scope = Top.scope
          /\ \A l \in DOMAIN Top.pending : Top.pending[j] = Top.pending[l] => j = l

\* The typed states are TypeOK.
LEMMA TypeInvTypeOK == TypeInv => TypeOK
<1> SUFFICES ASSUME TypeInv PROVE TypeOK
  OBVIOUS
<1>1. FrameOf(registry) = FrameType /\ DOMAIN heap = 1 .. Len(heap)
  BY DEF FrameOf, FrameType, TypeInv
<1> QED BY <1>1 DEF TypeInv, TypeOK, StackFits, NodeType, EntryType, Phases

\* A frame still fits after a step, if the registry has what it waits for.
LEMMA FrameStays ==
  ASSUME NEW h, NEW g, Extends(h, g), Len(h) \in Nat, Len(g) \in Nat,
         NEW r, NEW q, NEW fr, FrameFits(h, r, fr), ~fr.leaving \/ DOMAIN r \subseteq DOMAIN q
  PROVE  FrameFits(g, q, fr)
<1>1. fr.pending \in Seq(DOMAIN q)
  <2>1. CASE ~fr.leaving
    <3>1. fr.pending = << >>
      BY <2>1 DEF FrameFits
    <3>2. << >> \in Seq(DOMAIN q)
      OBVIOUS
    <3> QED BY <3>1, <3>2
  <2>2. CASE DOMAIN r \subseteq DOMAIN q
    <3>1. fr.pending \in Seq(DOMAIN r)
      BY DEF FrameFits, FrameOf
    <3> QED BY <2>2, <3>1, SeqMonotonic
  <2> QED BY <2>1, <2>2
<1>2. fr \in FrameOf(q)
  BY <1>1 DEF FrameFits, FrameOf
<1>3. fr.id \in 1 .. Len(g) /\ h[fr.id].kind = g[fr.id].kind
  BY DEF FrameFits, Extends, SameNode
<1> QED BY <1>2, <1>3 DEF FrameFits

\* A sequence is one of whatever its elements are.
LEMMA SeqOf ==
  ASSUME NEW S, NEW T, NEW s \in Seq(S), \A f \in 1 .. Len(s) : s[f] \in T
  PROVE  s \in Seq(T)
<1>1. s = [f \in 1 .. Len(s) |-> s[f]] /\ Len(s) \in Nat
  OBVIOUS
<1>2. [f \in 1 .. Len(s) |-> s[f]] \in Seq(T)
  BY <1>1, IsASeq
<1> QED BY <1>1, <1>2

\* st with fr for its top.
WithTop(st, fr) == [st EXCEPT ![Len(st)] = fr]

\* What WithTop changes.
LEMMA WithTopIs ==
  ASSUME NEW S, NEW st \in Seq(S), st # << >>, NEW fr
  PROVE  /\ Len(WithTop(st, fr)) = Len(st)
         /\ \A f \in 1 .. Len(st) : WithTop(st, fr)[f] = IF f = Len(st) THEN fr ELSE st[f]
BY DEF WithTop

\* The frames under the top are not leaving, so they still fit.
LEMMA StackSet ==
  ASSUME NEW h, NEW g, Extends(h, g), Len(h) \in Nat, Len(g) \in Nat,
         NEW r, NEW q, NEW st, StackFits(h, r, st), st # << >>,
         NEW fr, FrameFits(g, q, fr)
  PROVE  StackFits(g, q, WithTop(st, fr)) /\ WithTop(st, fr) # << >>
<1> DEFINE t == [st EXCEPT ![Len(st)] = fr]
<1>1. st \in Seq(FrameOf(r)) /\ Len(st) \in Nat /\ Len(st) >= 1
  BY DEF StackFits
<1>2. Len(t) = Len(st) /\ DOMAIN t = 1 .. Len(st)
      /\ \A f \in 1 .. Len(st) : t[f] = IF f = Len(st) THEN fr ELSE st[f]
  BY <1>1
<1>3. \A f \in 1 .. Len(st) : f < Len(st) => FrameFits(g, q, st[f]) /\ ~st[f].leaving
  BY FrameStays DEF StackFits
<1>4. \A f \in 1 .. Len(st) : FrameFits(g, q, t[f]) /\ (f < Len(st) => ~t[f].leaving)
  BY <1>1, <1>2, <1>3
<1>5. t \in Seq(FrameOf(q))
  <2>1. \A f \in 1 .. Len(st) : t[f] \in FrameOf(q)
    BY <1>4 DEF FrameFits
  <2>2. t = [f \in 1 .. Len(st) |-> t[f]]
    BY <1>1
  <2> HIDE DEF t
  <2> QED BY <1>1, <2>1, <2>2, IsASeq
<1>6. t # << >>
  BY <1>1, <1>2
<1>7. WithTop(st, fr) = t
  BY SMTT(40) DEF WithTop
<1> HIDE DEF t
<1>8. StackFits(g, q, t)
  BY <1>2, <1>4, <1>5 DEF StackFits
<1> QED BY <1>6, <1>7, <1>8

\* A new activation on top of one that is not leaving.
LEMMA StackPush ==
  ASSUME NEW g, NEW q, NEW st, StackFits(g, q, st), st # << >>, ~st[Len(st)].leaving,
         NEW fr, FrameFits(g, q, fr)
  PROVE  StackFits(g, q, Append(st, fr)) /\ Append(st, fr) # << >>
<1> DEFINE s == Append(st, fr)
<1>1. st \in Seq(FrameOf(q)) /\ Len(st) \in Nat /\ fr \in FrameOf(q)
  BY DEF StackFits, FrameFits
<1>2. s \in Seq(FrameOf(q)) /\ Len(s) = Len(st) + 1 /\ s[Len(st) + 1] = fr
      /\ \A f \in 1 .. Len(st) : s[f] = st[f]
  BY <1>1
<1>3. \A f \in 1 .. Len(st) : FrameFits(g, q, st[f]) /\ ~st[f].leaving
  BY <1>1 DEF StackFits
<1> HIDE DEF s
<1>4. \A f \in 1 .. Len(s) : FrameFits(g, q, s[f]) /\ (f < Len(s) => ~s[f].leaving)
  BY <1>1, <1>2, <1>3
<1>5. s # << >>
  BY <1>1, <1>2
<1>6. StackFits(g, q, s)
  BY <1>2, <1>4 DEF StackFits
<1> QED BY <1>5, <1>6 DEF s

\* A sequence without its last element.
DropTop(st) == SubSeq(st, 1, Len(st) - 1)

\* What DropTop leaves.
LEMMA DropTopIs ==
  ASSUME NEW S, NEW st \in Seq(S), st # << >>
  PROVE  /\ DropTop(st) \in Seq(S)
         /\ Len(DropTop(st)) = Len(st) - 1 /\ Len(st) - 1 \in Nat
         /\ \A f \in 1 .. Len(st) - 1 : DropTop(st)[f] = st[f]
<1> DEFINE n == Len(st) - 1
<1>1. n \in Nat /\ \A f \in 1 .. n : st[f] \in S
  OBVIOUS
<1> HIDE DEF n
<1>2. 1 \in Int /\ n \in Int
  BY <1>1
<1>3. /\ SubSeq(st, 1, n) \in Seq(S)
      /\ Len(SubSeq(st, 1, n)) = IF 1 <= n THEN n - 1 + 1 ELSE 0
      /\ \A f \in 1 .. n - 1 + 1 : SubSeq(st, 1, n)[f] = st[1 + f - 1]
  BY <1>1, <1>2, SubSeqProperties
<1>4. Len(SubSeq(st, 1, n)) = n
  BY <1>1, <1>3
<1>5. \A f \in 1 .. n : SubSeq(st, 1, n)[f] = st[f]
  BY <1>1, <1>3
<1> QED BY <1>1, <1>3, <1>4, <1>5 DEF n, DropTop

\* What is left when the top activation returns.
LEMMA StackPop ==
  ASSUME NEW h, NEW g, Extends(h, g), Len(h) \in Nat, Len(g) \in Nat,
         NEW r, NEW q, NEW st, StackFits(h, r, st), st # << >>
  PROVE  StackFits(g, q, DropTop(st))
<1> DEFINE s == DropTop(st)
<1> HIDE DEF s
<1>1. st \in Seq(FrameOf(r)) /\ Len(st) \in Nat /\ Len(st) >= 1
  BY DEF StackFits
<1>2. s \in Seq(FrameOf(r)) /\ Len(s) = Len(st) - 1 /\ Len(st) - 1 \in Nat
      /\ \A f \in 1 .. Len(s) : s[f] = st[f]
  BY <1>1, DropTopIs DEF s
<1>3. \A f \in 1 .. Len(s) : FrameFits(g, q, st[f]) /\ ~st[f].leaving
  BY SMTT(40), <1>1, <1>2, FrameStays DEF StackFits
<1>4. \A f \in 1 .. Len(s) : s[f] \in FrameOf(q) /\ FrameFits(g, q, s[f]) /\ ~s[f].leaving
  BY <1>2, <1>3 DEF FrameFits
<1>5. s \in Seq(FrameOf(q))
  BY <1>2, <1>4, SeqOf
<1>6. StackFits(g, q, s)
  BY <1>2, <1>4, <1>5 DEF StackFits
<1> QED BY <1>6 DEF s

-----------------------------------------------------------------------------
(* The operations of the registry.                                         *)

\* An entry keeps everything but its usages.
SameEntry(x, y) ==
  x.name = y.name /\ x.declaration = y.declaration /\ x.scope = y.scope /\ x.auto = y.auto

\* UsedVariables only adds usages.
LEMMA UsedVariablesIs ==
  ASSUME NEW m \in Nat, NEW r \in Seq(EntryType(m)), NEW names, NEW id \in 1 .. m
  PROVE  /\ UsedVariables(r, names, id) \in Seq(EntryType(m))
         /\ Len(UsedVariables(r, names, id)) = Len(r)
         /\ \A k \in 1 .. Len(r) : SameEntry(r[k], UsedVariables(r, names, id)[k])
<1> DEFINE e(k) == IF \E x \in names : Registered(r, x) # {} /\ k = First(r, x)
                   THEN [r[k] EXCEPT !.usage = Append(@, id)] ELSE r[k]
           u == [k \in 1 .. Len(r) |-> e(k)]
<1>1. UsedVariables(r, names, id) = u /\ Len(r) \in Nat
  BY DEF UsedVariables
<1>2. ASSUME NEW k \in 1 .. Len(r)
      PROVE  e(k) \in EntryType(m) /\ SameEntry(r[k], e(k))
  <2> DEFINE x == [r[k] EXCEPT !.usage = Append(@, id)]
  <2>1. r[k] \in EntryType(m)
    OBVIOUS
  <2>2. Append(r[k].usage, id) \in Seq(1 .. m)
    BY <2>1 DEF EntryType
  <2>3. x \in EntryType(m) /\ SameEntry(r[k], x)
    BY <2>1, <2>2 DEF EntryType, SameEntry
  <2>4. SameEntry(r[k], r[k])
    BY DEF SameEntry
  <2>5. e(k) = x \/ e(k) = r[k]
    OBVIOUS
  <2> HIDE DEF e, x
  <2> QED BY <2>1, <2>3, <2>4, <2>5
<1> HIDE DEF e
<1>3. u \in Seq(EntryType(m)) /\ Len(u) = Len(r) /\ \A k \in 1 .. Len(r) : u[k] = e(k)
  BY <1>1, <1>2
<1> HIDE DEF u
<1> QED BY <1>1, <1>2, <1>3

\* AddVariable adds an entry behind the others.
LEMMA AppendIs ==
  ASSUME NEW m \in Nat, NEW r \in Seq(EntryType(m)), NEW e \in EntryType(m)
  PROVE  /\ Append(r, e) \in Seq(EntryType(m))
         /\ Len(Append(r, e)) = Len(r) + 1
         /\ \A k \in 1 .. Len(r) : Append(r, e)[k] = r[k]
         /\ Append(r, e)[Len(r) + 1] = e
OBVIOUS

\* A new entry.
LEMMA EntryIs ==
  ASSUME NEW m \in Nat, currentScope \in Nat, NEW x \in Names, NEW id \in 0 .. m, NEW a \in BOOLEAN
  PROVE  Entry(x, id, a) \in EntryType(m)
<1>1. << >> \in Seq(1 .. m)
  OBVIOUS
<1> QED BY <1>1 DEF Entry, EntryType

\* Declare adds an entry in the current scope, and usages.
LEMMA DeclareIs ==
  ASSUME NEW m \in Nat, NEW r \in Seq(EntryType(m)), NEW id \in 1 .. m,
         heap[id] \in NodeType(m), currentScope \in Nat
  PROVE  /\ Declare(r, id) \in Seq(EntryType(m))
         /\ Len(Declare(r, id)) = Len(r) + 1
         /\ \A k \in 1 .. Len(r) : SameEntry(r[k], Declare(r, id)[k])
         /\ SameEntry(Entry(heap[id].name, id, heap[id].auto), Declare(r, id)[Len(r) + 1])
<1> DEFINE e == Entry(heap[id].name, id, heap[id].auto)
           a == Append(r, e)
           d == UsedVariables(a, heap[id].uses, id)
<1>1. heap[id].name \in Names /\ heap[id].auto \in BOOLEAN /\ id \in 0 .. m
  BY DEF NodeType
<1>2. e \in EntryType(m)
  BY <1>1, EntryIs
<1>3. Declare(r, id) = d
  BY DEF Declare
<1> HIDE DEF e
<1>4. /\ a \in Seq(EntryType(m)) /\ Len(a) = Len(r) + 1 /\ a[Len(r) + 1] = e
      /\ \A k \in 1 .. Len(r) : a[k] = r[k]
  BY <1>2, AppendIs
<1> HIDE DEF a
<1>5. /\ d \in Seq(EntryType(m)) /\ Len(d) = Len(a)
      /\ \A k \in 1 .. Len(a) : SameEntry(a[k], d[k])
  BY <1>4, UsedVariablesIs
<1> HIDE DEF d
<1>6. Len(r) \in Nat
  OBVIOUS
<1> QED BY <1>3, <1>4, <1>5, <1>6 DEF e

\* RemoveVariable and RemoveScope keep entries, of other names or scopes.
LEMMA RemoveIs ==
  ASSUME NEW m \in Nat, NEW r \in Seq(EntryType(m)), NEW x
  PROVE  /\ RemoveVariable(r, x) \in Seq(EntryType(m))
         /\ RemoveScope(r, x) \in Seq(EntryType(m))
         /\ Selects(r, {k \in DOMAIN r : r[k].name # x}, RemoveVariable(r, x))
         /\ Selects(r, {k \in DOMAIN r : r[k].scope # x}, RemoveScope(r, x))
<1> DEFINE K == {k \in DOMAIN r : r[k].name # x}
           L == {k \in DOMAIN r : r[k].scope # x}
<1>1. K \subseteq DOMAIN r /\ L \subseteq DOMAIN r
  OBVIOUS
<1>2. RemoveVariable(r, x) = Keep(r, K) /\ RemoveScope(r, x) = Keep(r, L)
  BY DEF RemoveVariable, RemoveScope
<1> HIDE DEF K, L
<1>3. Keep(r, K) \in Seq(EntryType(m)) /\ Selects(r, K, Keep(r, K))
  BY <1>1, KeepSeq
<1>4. Keep(r, L) \in Seq(EntryType(m)) /\ Selects(r, L, Keep(r, L))
  BY <1>1, KeepSeq
<1> QED BY <1>2, <1>3, <1>4 DEF K, L

\* GetVariablesInScope lists registry positions.
LEMMA InScopeIs ==
  ASSUME NEW S, NEW r \in Seq(S), NEW c
  PROVE  /\ GetVariablesInScope(r, c) \in Seq(DOMAIN r)
         /\ \A k \in DOMAIN GetVariablesInScope(r, c) : r[GetVariablesInScope(r, c)[k]].scope = c
<1> DEFINE id == [k \in 1 .. Len(r) |-> k]
           K == {k \in DOMAIN r : r[k].scope = c}
<1>1. Len(r) \in Nat /\ DOMAIN r = 1 .. Len(r)
  OBVIOUS
<1>2. id \in Seq(DOMAIN r) /\ DOMAIN id = DOMAIN r /\ \A k \in DOMAIN r : id[k] = k
  BY <1>1
<1>3. GetVariablesInScope(r, c) = Keep(id, K) /\ K \subseteq DOMAIN id
  BY <1>1 DEF GetVariablesInScope
<1> HIDE DEF id
<1>4. Keep(id, K) \in Seq(DOMAIN r) /\ Selects(id, K, Keep(id, K))
  BY <1>2, <1>3, KeepSeq
<1> QED BY <1>2, <1>3, <1>4 DEF Selects

-----------------------------------------------------------------------------
(* Types: the steps.                                                       *)

SetTop(fr) == WithTop(stack, fr)

\* The same activation, at another statement.
SameWalk(x, y) ==
  x.id = y.id /\ x.scope = y.scope /\ x.leaving = y.leaving /\ x.pending = y.pending

\* While the walk goes on there is an activation on a compound statement.
LEMMA TopIs ==
  ASSUME TypeInv, phase = "walk"
  PROVE  /\ stack # << >> /\ Len(stack) \in Nat /\ Len(stack) >= 1
         /\ FrameFits(heap, registry, Top) /\ Top \in FrameOf(registry)
         /\ Top.id \in 1 .. Len(heap) /\ Here \in Compound /\ heap[Top.id] \in NodeType(Len(heap))
         /\ Kids \in Seq(0 .. Len(heap)) /\ Len(Kids) \in Nat
         /\ Top.i \in Nat /\ Top.skip \in Nat /\ Len(heap) \in Nat
<1>1. stack # << >> /\ stack \in Seq(FrameOf(registry)) /\ heap \in Seq(NodeType(Len(heap)))
  BY DEF TypeInv, StackFits
<1>2. Len(stack) \in Nat /\ Len(stack) >= 1 /\ Len(stack) \in 1 .. Len(stack) /\ Len(heap) \in Nat
  BY <1>1
<1>3. FrameFits(heap, registry, Top)
  BY <1>2 DEF TypeInv, StackFits, Top
<1>4. Top \in FrameOf(registry) /\ Top.id \in 1 .. Len(heap) /\ Here \in Compound
  BY <1>3 DEF FrameFits, Here
<1>5. Top.i \in Nat /\ Top.skip \in Nat
  BY <1>4 DEF FrameOf
<1>6. heap[Top.id] \in NodeType(Len(heap))
  BY <1>1, <1>4
<1>7. Kids \in Seq(0 .. Len(heap))
  BY <1>6 DEF NodeType, Kids
<1>8. Len(Kids) \in Nat
  BY <1>7
<1> QED BY <1>1, <1>2, <1>3, <1>4, <1>5, <1>6, <1>7, <1>8

\* The statement the walk is about to visit.
LEMMA VisitedIs ==
  ASSUME TypeInv, NEW kinds, Visiting(kinds)
  PROVE  /\ phase = "walk" /\ ~Top.leaving
         /\ Top.i + 1 \in 1 .. Len(Kids) /\ Visited = Kids[Top.i + 1]
         /\ Visited \in 1 .. Len(heap) /\ heap[Visited] \in NodeType(Len(heap))
         /\ heap[Visited].kind \in kinds
<1>1. phase = "walk" /\ ~Top.leaving /\ Top.i + Top.skip < Len(Kids)
      /\ Visited # 0 /\ heap[Visited].kind \in kinds
  BY DEF Visiting, Visited, Null
<1>2. Top.i + 1 \in 1 .. Len(Kids)
  BY SMTT(40), <1>1, TopIs
<1>3. Visited \in 0 .. Len(heap)
  <2>1. Kids \in Seq(0 .. Len(heap))
    BY <1>1, TopIs
  <2> QED BY <1>2, <2>1 DEF Visited
<1>4. Visited \in 1 .. Len(heap)
  BY <1>1, <1>3
<1>5. heap[Visited] \in NodeType(Len(heap))
  BY <1>4 DEF TypeInv
<1> QED BY <1>1, <1>2, <1>4, <1>5 DEF Visited

\* The walk goes to the next statement.
LEMMA StepIs ==
  ASSUME TypeInv, phase = "walk"
  PROVE  /\ Step(stack) = SetTop([Top EXCEPT !.i = @ + 1])
         /\ [Top EXCEPT !.i = @ + 1] \in FrameOf(registry)
         /\ SameWalk(Top, [Top EXCEPT !.i = @ + 1])
         /\ [Top EXCEPT !.i = @ + 1].i = Top.i + 1
<1>1. Top \in FrameOf(registry)
  BY TopIs
<1>2. /\ [Top EXCEPT !.i = @ + 1] \in FrameOf(registry)
      /\ SameWalk(Top, [Top EXCEPT !.i = @ + 1])
      /\ [Top EXCEPT !.i = @ + 1].i = Top.i + 1
  BY <1>1 DEF FrameOf, SameWalk
<1>3. Step(stack) = SetTop([Top EXCEPT !.i = @ + 1])
  BY DEF Step, SetTop, WithTop, Top
<1> QED BY <1>2, <1>3

\* The top activation goes on.
LEMMA StackMoves ==
  ASSUME TypeInv, phase = "walk", ~Top.leaving, Extends(heap, heap'), Len(heap') \in Nat,
         NEW fr, fr \in FrameOf(registry), SameWalk(Top, fr), stack' = SetTop(fr)
  PROVE  StackFits(heap', registry', stack') /\ stack' # << >>
<1>1. FrameFits(heap, registry, Top) /\ Len(heap) \in Nat /\ stack # << >>
  BY TopIs
<1>2. FrameFits(heap, registry, fr) /\ ~fr.leaving
  BY <1>1 DEF FrameFits, SameWalk
<1>3. FrameFits(heap', registry', fr)
  BY <1>1, <1>2, FrameStays
<1>4. StackFits(heap, registry, stack)
  BY DEF TypeInv
<1>5. stack' = WithTop(stack, fr)
  BY DEF SetTop
<1> QED BY <1>1, <1>3, <1>4, <1>5, StackSet

\* A new activation starts at its first statement.
LEMMA FrameIs ==
  ASSUME TypeInv, NEW id \in 1 .. Len(heap), heap[id].kind \in Compound, NEW s \in Nat, NEW r
  PROVE  FrameFits(heap, r, Frame(id, s))
<1>1. << >> \in Seq(DOMAIN r) /\ id \in Nat \ {0}
  OBVIOUS
<1>2. Frame(id, s) \in FrameOf(r)
  BY <1>1 DEF Frame, FrameOf
<1> QED BY <1>2 DEF Frame, FrameFits

\* A visit that only moves on and maybe records usages or deletes something.
LEMMA VisitTypes ==
  ASSUME TypeInv, phase = "walk", ~Top.leaving, UNCHANGED <<options, heap>>,
         registry' \in Seq(EntryType(Len(heap))), currentScope' \in Nat,
         stack' = Step(stack), phase' \in Phases, freed' \subseteq 1 .. Len(heap)
  PROVE  TypeInv'
<1>1. Extends(heap, heap') /\ heap' \in Seq(NodeType(Len(heap'))) /\ Len(heap') = Len(heap) /\ Len(heap) \in Nat
  BY HeapSame, TopIs DEF TypeInv
<1>2. StackFits(heap', registry', stack') /\ stack' # << >>
  BY <1>1, StepIs, StackMoves
<1> QED BY <1>1, <1>2 DEF TypeInv

\* A new statement.
LEMMA NodeIs ==
  ASSUME NEW m \in Nat, NEW s, ShapeOK(s), NEW p \in 0 .. m, NEW w \in BOOLEAN
  PROVE  /\ Node(s, p, w) \in NodeType(m)
         /\ Node(s, p, w).kind = s.kind /\ Node(s, p, w).name = s.name /\ Node(s, p, w).uses = s.uses
         /\ Node(s, p, w).hidden = s.hidden
         /\ Node(s, p, w).parent = p /\ Node(s, p, w).kids = << >> /\ Node(s, p, w).written = w
<1>1. << >> \in Seq(0 .. m)
  OBVIOUS
<1> QED BY <1>1 DEF Node, NodeType, ShapeOK

\* The UnusedStmt the precompiler makes.
LEMMA UnusedShape ==
  ASSUME NEW x \in Names
  PROVE  ShapeOK(Shape("unused", x)) /\ Shape("unused", x).kind = "unused" /\ Shape("unused", x).name = x
BY DEF Shape, ShapeOK, StmtKinds

\* Insertion into a vector.
LEMMA InsertAtIs ==
  ASSUME NEW S, NEW list \in Seq(S), NEW k \in 1 .. Len(list) + 1, NEW id \in S
  PROVE  /\ InsertAt(list, k, id) \in Seq(S)
         /\ Len(InsertAt(list, k, id)) = Len(list) + 1
         /\ InsertAt(list, k, id)[k] = id
         /\ \A j \in 1 .. k - 1 : InsertAt(list, k, id)[j] = list[j]
         /\ \A j \in k .. Len(list) : InsertAt(list, k, id)[j + 1] = list[j]
<1> DEFINE a == SubSeq(list, 1, k - 1)
           c == SubSeq(list, k, Len(list))
           n == k - 1
           m == Len(list)
<1>1. n \in Nat /\ m \in Nat /\ n <= m /\ k = n + 1 /\ k \in Nat
  OBVIOUS
<1>2. \A j \in 1 .. m : list[j] \in S
  OBVIOUS
<1> HIDE DEF n, m
<1>3. a = SubSeq(list, 1, n) /\ c = SubSeq(list, k, m)
  BY DEF n, m
<1>4. a \in Seq(S) /\ Len(a) = n /\ \A j \in 1 .. n : a[j] = list[j]
  <2>1. 1 \in Int /\ n \in Int /\ \A j \in 1 .. n : list[j] \in S
    BY <1>1, <1>2
  <2>2. /\ SubSeq(list, 1, n) \in Seq(S)
        /\ Len(SubSeq(list, 1, n)) = IF 1 <= n THEN n - 1 + 1 ELSE 0
        /\ \A j \in 1 .. n - 1 + 1 : SubSeq(list, 1, n)[j] = list[1 + j - 1]
    BY SMTT(40), <2>1, SubSeqProperties
  <2> QED BY <1>1, <1>3, <2>2
<1>5. c \in Seq(S) /\ Len(c) = m - n /\ \A j \in 1 .. m - n : c[j] = list[n + j]
  <2>1. k \in Int /\ m \in Int /\ \A j \in k .. m : list[j] \in S
    BY <1>1, <1>2
  <2>2. /\ SubSeq(list, k, m) \in Seq(S)
        /\ Len(SubSeq(list, k, m)) = IF k <= m THEN m - k + 1 ELSE 0
        /\ \A j \in 1 .. m - k + 1 : SubSeq(list, k, m)[j] = list[k + j - 1]
    BY <2>1, SubSeqProperties
  <2> QED BY <1>1, <1>3, <2>2
<1> HIDE DEF a, c
<1>6. InsertAt(list, k, id) = a \o <<id>> \o c
  BY DEF InsertAt, a, c
<1> DEFINE b == a \o <<id>>
<1>7. b \in Seq(S) /\ Len(b) = k /\ b[k] = id /\ \A j \in 1 .. n : b[j] = list[j]
  BY <1>1, <1>4
<1> HIDE DEF b
<1>8. b \o c \in Seq(S) /\ Len(b \o c) = k + (m - n)
      /\ (\A j \in 1 .. k : (b \o c)[j] = b[j])
      /\ (\A j \in 1 .. m - n : (b \o c)[k + j] = c[j])
  <2>1. Len(b) = k /\ Len(c) = m - n /\ b \in Seq(S) /\ c \in Seq(S) /\ m - n \in Nat /\ k \in Nat
    BY <1>1, <1>5, <1>7
  <2>2. b \o c \in Seq(S) /\ Len(b \o c) = k + (m - n)
    BY SMTT(40), <2>1
  <2>3. \A j \in 1 .. k : (b \o c)[j] = b[j]
    BY <2>1
  <2>4. \A j \in 1 .. m - n : (b \o c)[k + j] = c[j]
    BY <2>1
  <2> QED BY <2>2, <2>3, <2>4
<1>9. InsertAt(list, k, id) = b \o c
  BY <1>6 DEF b
<1> DEFINE r == b \o c
<1> HIDE DEF r
<1>10. Len(r) = m + 1 /\ r \in Seq(S)
  BY <1>1, <1>8 DEF r
<1>11. r[k] = id /\ \A j \in 1 .. n : r[j] = list[j]
  BY <1>1, <1>7, <1>8 DEF r
<1>12. ASSUME NEW j \in k .. m
       PROVE  r[j + 1] = list[j]
  <2>1. j - n \in 1 .. m - n /\ k + (j - n) = j + 1 /\ n + (j - n) = j
    BY <1>1
  <2> QED BY SMTT(40), <1>5, <1>8, <2>1 DEF r
<1> QED BY <1>9, <1>10, <1>11, <1>12 DEF n, m, r

\* IndexOf finds the first place.
LEMMA IndexOfIs ==
  ASSUME NEW S, NEW list \in Seq(S), NEW id
  PROVE  /\ IndexOf(list, id) \in 0 .. Len(list)
         /\ IndexOf(list, id) # 0 => list[IndexOf(list, id)] = id
         /\ (\E k \in 1 .. Len(list) : list[k] = id) => IndexOf(list, id) # 0
<1> DEFINE P(k) == list[k] = id /\ \A j \in 1 .. k - 1 : list[j] # id
           T == {k \in 1 .. Len(list) : list[k] = id}
<1>1. Len(list) \in Nat /\ DOMAIN list = 1 .. Len(list)
  OBVIOUS
<1>2. CASE T = {}
  BY <1>1, <1>2 DEF IndexOf
<1>3. CASE T # {}
  <2>1. T \subseteq Nat
    BY <1>1
  <2>2. PICK k \in T : \A j \in T : k <= j
    <3> HIDE DEF T
    <3> QED BY <1>3, <2>1, LeastExists
  <2>3. P(k) /\ k \in DOMAIN list
    BY <1>1, <2>2
  <2>4. IndexOf(list, id) = CHOOSE i \in DOMAIN list : P(i)
    BY <1>1, <1>3 DEF IndexOf
  <2>5. IndexOf(list, id) \in DOMAIN list /\ P(IndexOf(list, id))
    <3> HIDE DEF P
    <3> QED BY <2>3, <2>4
  <2> QED BY <1>1, <2>5
<1> QED BY <1>2, <1>3

\* What is in the heap of a state fits a larger heap.
LEMMA HeapTypes ==
  ASSUME TypeInv, UNCHANGED options, heap' \in Seq(NodeType(Len(heap'))), Extends(heap, heap'),
         freed' \subseteq 1 .. Len(heap'), registry' \in Seq(EntryType(Len(heap))), currentScope' \in Nat,
         StackFits(heap', registry', stack'), phase' \in Phases, phase' = "walk" => stack' # << >>
  PROVE  TypeInv'
<1>1. Len(heap) \in Nat /\ Len(heap') \in Nat /\ Len(heap) <= Len(heap')
  BY DEF TypeInv, Extends
<1>2. registry' \in Seq(EntryType(Len(heap')))
  BY <1>1, TypesGrow
<1> QED BY <1>2 DEF TypeInv

\* Frames fit a larger heap while the registry is as it was.
LEMMA StackKept ==
  ASSUME TypeInv, Extends(heap, heap'), Len(heap') \in Nat, registry' = registry, stack' = stack
  PROVE  StackFits(heap', registry', stack')
<1>1. StackFits(heap, registry, stack) /\ Len(heap) \in Nat
  BY DEF TypeInv
<1>2. \A f \in 1 .. Len(stack) : FrameFits(heap', registry', stack[f])
  BY <1>1, FrameStays DEF StackFits
<1> QED BY <1>1, <1>2 DEF StackFits

\* Deleted statements are still statements of the heap.
LEMMA FreedGrows ==
  ASSUME TypeInv, Extends(heap, heap'), Len(heap') \in Nat, freed' = freed
  PROVE  freed' \subseteq 1 .. Len(heap')
<1>1. 1 .. Len(heap) \subseteq 1 .. Len(heap')
  BY DEF TypeInv, Extends
<1> QED BY <1>1 DEF TypeInv

\* Reveal appends a kid, the new statement, to the statement on top.
LEMMA RevealIs ==
  ASSUME TypeInv, NEW s \in Shapes, Reveal(s)
  PROVE  /\ phase = "walk" /\ UNCHANGED <<options, freed, registry, currentScope, stack, phase>>
         /\ Top.id \in 1 .. Len(heap)
         /\ Append(Kids, Len(heap) + 1) \in Seq(0 .. Len(heap) + 1)
         /\ Node(s, Top.id, TRUE) \in NodeType(Len(heap) + 1)
         /\ heap' = Grown(heap, Top.id, Append(Kids, Len(heap) + 1), Node(s, Top.id, TRUE))
<1>1. phase = "walk" /\ UNCHANGED <<options, freed, registry, currentScope, stack, phase>>
  BY DEF Reveal
<1>2. heap' = Append([heap EXCEPT ![Top.id].kids = Append(@, Len(heap) + 1)], Node(s, Top.id, TRUE))
  BY DEF Reveal
<1>3. heap' = Grown(heap, Top.id, Append(Kids, Len(heap) + 1), Node(s, Top.id, TRUE))
  BY <1>2 DEF Grown, WithKids, Kids
<1>4. Top.id \in 1 .. Len(heap) /\ Kids \in Seq(0 .. Len(heap)) /\ Len(heap) \in Nat
  BY <1>1, TopIs
<1>5. Kids \in Seq(0 .. Len(heap) + 1)
  <2>1. 0 .. Len(heap) \subseteq 0 .. Len(heap) + 1
    BY <1>4
  <2> QED BY <1>4, <2>1, SeqMonotonic
<1>6. Append(Kids, Len(heap) + 1) \in Seq(0 .. Len(heap) + 1)
  <2>1. Len(heap) + 1 \in 0 .. Len(heap) + 1
    BY <1>4
  <2> QED BY <1>5, <2>1
<1>7. Node(s, Top.id, TRUE) \in NodeType(Len(heap) + 1)
  <2>1. ShapeOK(s)
    BY ShapesAssumption
  <2>2. Len(heap) + 1 \in Nat /\ Top.id \in 0 .. Len(heap) + 1 /\ TRUE \in BOOLEAN
    BY <1>4
  <2> QED BY <2>1, <2>2, NodeIs
<1> QED BY <1>1, <1>3, <1>4, <1>6, <1>7

\* This keeps the types.
LEMMA RevealTypes ==
  ASSUME TypeInv, NEW s \in Shapes, Reveal(s)
  PROVE  TypeInv'
<1>1. /\ heap' \in Seq(NodeType(Len(heap'))) /\ Extends(heap, heap')
  BY RevealIs, HeapGrown DEF TypeInv
<1>2. Len(heap') \in Nat
  BY <1>1
<1>3. UNCHANGED <<options, freed, registry, currentScope, stack, phase>>
  BY RevealIs
<1>4. StackFits(heap', registry', stack') /\ freed' \subseteq 1 .. Len(heap')
  BY <1>1, <1>2, <1>3, StackKept, FreedGrows
<1> QED BY <1>1, <1>3, <1>4, HeapTypes DEF TypeInv

\* RevealNothing closes the block on top or appends a null branch.
LEMMA RevealNothingIs ==
  ASSUME TypeInv, RevealNothing
  PROVE  /\ phase = "walk" /\ UNCHANGED <<options, freed, registry, currentScope, phase>>
         /\ \/ /\ Here = "block" /\ ~Top.leaving /\ UNCHANGED heap
               /\ Len(Kids) <= Top.i + Top.skip
               /\ stack' = SetTop([Top EXCEPT !.closed = TRUE])
            \/ /\ Here # "block" /\ UNCHANGED stack /\ Len(Kids) = Top.i
               /\ Append(Kids, Null) \in Seq(0 .. Len(heap)) /\ Top.id \in 1 .. Len(heap)
               /\ heap' = WithKids(heap, Top.id, Append(Kids, Null))
<1>1. phase = "walk" /\ UNCHANGED <<options, freed, registry, currentScope, phase>>
  BY DEF RevealNothing
<1>2. Top.id \in 1 .. Len(heap) /\ Kids \in Seq(0 .. Len(heap)) /\ Len(heap) \in Nat
  BY <1>1, TopIs
<1>3. Append(Kids, Null) \in Seq(0 .. Len(heap))
  BY <1>2 DEF Null
<1>4. CASE /\ Here = "block" /\ ~Top.closed /\ ~Top.leaving /\ Len(Kids) <= Top.i + Top.skip
           /\ stack' = [stack EXCEPT ![Len(stack)].closed = TRUE]
           /\ UNCHANGED heap
  BY <1>1, <1>4 DEF SetTop, WithTop, Top
<1>5. CASE /\ Here # "block" /\ Len(Kids) = Top.i /\ Top.i < Arity(Here)
           /\ heap' = [heap EXCEPT ![Top.id].kids = Append(@, Null)]
           /\ UNCHANGED stack
  BY <1>1, <1>2, <1>3, <1>5 DEF WithKids, Kids
<1> QED BY <1>4, <1>5 DEF RevealNothing

\* This keeps the types.
LEMMA RevealNothingTypes ==
  ASSUME TypeInv, RevealNothing
  PROVE  TypeInv'
<1>1. phase = "walk" /\ UNCHANGED <<options, freed, registry, currentScope, phase>>
  BY RevealNothingIs
<1>2. CASE /\ ~Top.leaving /\ UNCHANGED heap
           /\ stack' = SetTop([Top EXCEPT !.closed = TRUE])
  <2>1. Extends(heap, heap') /\ heap' \in Seq(NodeType(Len(heap'))) /\ Len(heap') \in Nat
    BY <1>2, HeapSame DEF TypeInv
  <2>2. [Top EXCEPT !.closed = TRUE] \in FrameOf(registry) /\ SameWalk(Top, [Top EXCEPT !.closed = TRUE])
    <3>1. Top \in FrameOf(registry)
      BY <1>1, TopIs
    <3> QED BY <3>1 DEF FrameOf, SameWalk
  <2>3. StackFits(heap', registry', stack') /\ stack' # << >>
    BY <1>1, <1>2, <2>1, <2>2, StackMoves
  <2>4. freed' \subseteq 1 .. Len(heap')
    BY <1>1, <2>1, FreedGrows
  <2> QED BY <1>1, <2>1, <2>3, <2>4, HeapTypes DEF TypeInv
<1>3. CASE /\ UNCHANGED stack
           /\ Append(Kids, Null) \in Seq(0 .. Len(heap)) /\ Top.id \in 1 .. Len(heap)
           /\ heap' = WithKids(heap, Top.id, Append(Kids, Null))
  <2>1. Extends(heap, heap') /\ heap' \in Seq(NodeType(Len(heap')))
    BY <1>3, HeapWithKids DEF TypeInv
  <2>2. Len(heap') \in Nat
    BY <2>1
  <2>3. StackFits(heap', registry', stack') /\ freed' \subseteq 1 .. Len(heap')
    BY <1>1, <1>3, <2>1, <2>2, StackKept, FreedGrows
  <2> QED BY <1>1, <1>3, <2>1, <2>3, HeapTypes DEF TypeInv
<1> QED BY <1>2, <1>3, RevealNothingIs

\* What Touching leaves of phase.
LEMMA TouchingIs ==
  ASSUME NEW deleted, Touching(deleted), phase \in Phases
  PROVE  phase' \in Phases /\ (phase' = phase \/ (deleted /\ phase' = "crashed"))
BY DEF Touching, Phases

\* Null is passed over.
LEMMA VisitNullTypes ==
  ASSUME TypeInv, VisitNull
  PROVE  TypeInv'
<1>1. /\ phase = "walk" /\ ~Top.leaving /\ stack' = Step(stack)
      /\ UNCHANGED <<options, heap, freed, registry, currentScope, phase>>
  BY DEF VisitNull
<1> QED BY <1>1, VisitTypes DEF TypeInv

\* A declaration keeps the types.
LEMMA VisitDeclTypes ==
  ASSUME TypeInv, VisitDecl
  PROVE  TypeInv'
<1>1. /\ Visiting({"decl"}) /\ registry' = Declare(registry, Visited) /\ stack' = Step(stack)
      /\ UNCHANGED <<options, heap, freed, currentScope, phase>>
  BY DEF VisitDecl
<1>2. /\ phase = "walk" /\ ~Top.leaving
      /\ Visited \in 1 .. Len(heap) /\ heap[Visited] \in NodeType(Len(heap))
  BY <1>1, VisitedIs
<1>3. Len(heap) \in Nat
  BY <1>2, TopIs
<1>4. registry' \in Seq(EntryType(Len(heap)))
  BY <1>1, <1>2, <1>3, DeclareIs DEF TypeInv
<1> QED BY <1>1, <1>2, <1>4, VisitTypes DEF TypeInv

\* An expression statement keeps the types.
LEMMA VisitExprTypes ==
  ASSUME TypeInv, VisitExpr
  PROVE  TypeInv'
<1>1. /\ Visiting({"expr"}) /\ stack' = Step(stack)
      /\ registry' = UsedVariables(registry, heap[Visited].uses, Visited)
      /\ UNCHANGED <<options, heap, freed, currentScope, phase>>
  BY DEF VisitExpr
<1>2. phase = "walk" /\ ~Top.leaving /\ Visited \in 1 .. Len(heap) /\ Len(heap) \in Nat
  BY <1>1, VisitedIs, TopIs
<1>3. registry' \in Seq(EntryType(Len(heap)))
  BY <1>1, <1>2, UsedVariablesIs DEF TypeInv
<1> QED BY <1>1, <1>2, <1>3, VisitTypes DEF TypeInv

\* "unused x" keeps the types.
LEMMA VisitUnusedTypes ==
  ASSUME TypeInv, VisitUnused
  PROVE  TypeInv'
<1> DEFINE x == heap[Visited].name
           known == Registered(registry, x) # {}
<1>1. /\ Visiting({"unused"}) /\ stack' = Step(stack)
      /\ registry' = RemoveVariable(registry, x)
      /\ freed' = IF ~known /\ ~options.panic THEN freed \cup {Visited} ELSE freed
      /\ IF ~known /\ options.panic THEN phase' = "threw" ELSE Touching(~known)
      /\ UNCHANGED <<options, heap, currentScope>>
  BY DEF VisitUnused
<1>2. phase = "walk" /\ ~Top.leaving /\ Visited \in 1 .. Len(heap) /\ Len(heap) \in Nat
  BY <1>1, VisitedIs, TopIs
<1>3. registry' \in Seq(EntryType(Len(heap)))
  BY <1>1, <1>2, RemoveIs DEF TypeInv
<1>4. freed' \subseteq 1 .. Len(heap)
  BY <1>1, <1>2 DEF TypeInv
<1>5. phase' \in Phases
  BY <1>1, TouchingIs DEF TypeInv, Phases
<1> QED BY <1>1, <1>2, <1>3, <1>4, <1>5, VisitTypes DEF TypeInv

\* An alias keeps the types.
LEMMA VisitAliasTypes ==
  ASSUME TypeInv, VisitAlias
  PROVE  TypeInv'
<1> DEFINE x == heap[Visited].name
           dup == Registered(registry, x) # {}
<1>1. /\ Visiting({"alias"}) /\ stack' = Step(stack)
      /\ registry' = IF dup /\ options.panic THEN registry
                     ELSE Append(registry, Entry(x, Visited, FALSE))
      /\ freed' = IF dup /\ ~options.panic THEN freed \cup {Visited} ELSE freed
      /\ IF dup /\ options.panic THEN phase' = "threw" ELSE Touching(dup)
      /\ UNCHANGED <<options, heap, currentScope>>
  BY DEF VisitAlias
<1>2. /\ phase = "walk" /\ ~Top.leaving /\ Visited \in 1 .. Len(heap) /\ Len(heap) \in Nat
      /\ heap[Visited] \in NodeType(Len(heap))
  BY <1>1, VisitedIs, TopIs
<1>3. Entry(x, Visited, FALSE) \in EntryType(Len(heap))
  <2>1. x \in Names /\ FALSE \in BOOLEAN /\ Visited \in 0 .. Len(heap) /\ currentScope \in Nat
    BY <1>2 DEF NodeType, TypeInv
  <2> QED BY <1>2, <2>1, EntryIs
<1>4. registry' \in Seq(EntryType(Len(heap)))
  <2>1. registry \in Seq(EntryType(Len(heap)))
    BY DEF TypeInv
  <2> QED BY <1>1, <1>2, <1>3, <2>1, AppendIs
<1>5. freed' \subseteq 1 .. Len(heap)
  BY <1>1, <1>2 DEF TypeInv
<1>6. phase' \in Phases
  BY <1>1, TouchingIs DEF TypeInv, Phases
<1> QED BY <1>1, <1>2, <1>4, <1>5, <1>6, VisitTypes DEF TypeInv

\* What a redeclaration does.
LEMMA VisitRedeclarationIs ==
  ASSUME TypeInv, VisitRedeclaration
  PROVE  LET new == Len(heap) + 1
             K   == InsertAt(Kids, IndexOf(Kids, Visited) + 1, new)
         IN  /\ Visiting({"decl"}) /\ Registered(registry, heap[Visited].name) # {}
             /\ options.allowRedeclaration \/ ~options.panic
             /\ registry' = Declare(RemoveVariable(registry, heap[Visited].name), Visited)
             /\ registry' \in Seq(EntryType(Len(heap)))
             /\ UNCHANGED <<options, freed, currentScope>>
             /\ \/ /\ Here = "block"
                   /\ heap' = Grown(heap, Top.id, K, Node(Shape("unused", heap[Visited].name), Top.id, FALSE))
                   /\ K \in Seq(0 .. new)
                   /\ IndexOf(Kids, Visited) \in 1 .. Len(Kids)
                   /\ Node(Shape("unused", heap[Visited].name), Top.id, FALSE) \in NodeType(new)
                   /\ \E fr \in FrameOf(registry) :
                        SameWalk(Top, fr) /\ fr.i > Top.i /\ stack' = SetTop(fr)
                        /\ ((fr.skip = Top.skip /\ fr.i = Top.i + 2) \/ Slack)
                   /\ phase' \in {phase, "crashed"}
                \/ /\ Here # "block"
                   /\ stack' = Step(stack)
                   /\ UNCHANGED <<heap, phase>>
<1> DEFINE new == Len(heap) + 1
           x == heap[Visited].name
           ix == IndexOf(Kids, Visited)
           K  == InsertAt(Kids, ix + 1, new)
<1>1. /\ Visiting({"decl"}) /\ Registered(registry, x) # {}
      /\ options.allowRedeclaration \/ ~options.panic
      /\ UNCHANGED <<options, freed, currentScope>>
      /\ registry' = Declare(RemoveVariable(registry, x), Visited)
      /\ IF Here = "block"
         THEN /\ heap' = Append([heap EXCEPT ![Top.id].kids = InsertAt(@, ix + 1, new)],
                                Node(Shape("unused", x), Top.id, FALSE))
              /\ \/ /\ Slack /\ ~Top.detached
                    /\ stack' = [stack EXCEPT ![Len(stack)].i = @ + 1,
                                              ![Len(stack)].skip = @ + 1]
                    /\ phase' = phase
                 \/ /\ stack' = [stack EXCEPT ![Len(stack)].i = @ + 2,
                                              ![Len(stack)].detached = TRUE]
                    /\ phase' \in {"walk", "crashed"}
         ELSE stack' = Step(stack) /\ UNCHANGED <<heap, phase>>
  BY DEF VisitRedeclaration, Redeclaring
<1>2. /\ phase = "walk" /\ ~Top.leaving /\ Visited \in 1 .. Len(heap) /\ Len(heap) \in Nat
      /\ heap[Visited] \in NodeType(Len(heap)) /\ currentScope \in Nat
      /\ registry \in Seq(EntryType(Len(heap)))
      /\ Top.i + 1 \in 1 .. Len(Kids) /\ Visited = Kids[Top.i + 1]
  BY <1>1, VisitedIs, TopIs DEF TypeInv
<1>3. registry' \in Seq(EntryType(Len(heap)))
  <2>1. RemoveVariable(registry, x) \in Seq(EntryType(Len(heap)))
    BY <1>2, RemoveIs
  <2> QED BY <1>1, <1>2, <2>1, DeclareIs
<1>4. Kids \in Seq(0 .. new) /\ Top.id \in 1 .. Len(heap) /\ new \in 0 .. new /\ new \in Nat
  <2>1. 0 .. Len(heap) \subseteq 0 .. new
    BY <1>2
  <2>2. Kids \in Seq(0 .. Len(heap)) /\ Top.id \in 1 .. Len(heap)
    BY <1>2, TopIs
  <2>3. new \in 0 .. new /\ new \in Nat
    BY <1>2
  <2>4. Kids \in Seq(0 .. new)
    BY <2>1, <2>2, SeqMonotonic
  <2> QED BY <2>2, <2>3, <2>4
<1>5. ix \in 1 .. Len(Kids)
  <2>1. ix \in 0 .. Len(Kids) /\ ix # 0
    BY <1>2, <1>4, IndexOfIs
  <2> QED BY <2>1
<1>6. K \in Seq(0 .. new)
  <2>1. ix + 1 \in 1 .. Len(Kids) + 1
    <3>1. Len(Kids) \in Nat
      BY <1>2, TopIs
    <3> HIDE DEF ix
    <3> QED BY <1>5, <3>1
  <2> HIDE DEF ix, new
  <2> QED BY <1>4, <2>1, InsertAtIs
<1>7. Node(Shape("unused", x), Top.id, FALSE) \in NodeType(new)
  <2>1. x \in Names
    BY <1>2 DEF NodeType
  <2>2. ShapeOK(Shape("unused", x))
    BY <2>1, UnusedShape
  <2>3. Top.id \in 0 .. new
    BY SMTT(40), <1>2, <1>4
  <2> QED BY <1>4, <2>2, <2>3, NodeIs
<1>8. CASE Here # "block"
  BY <1>1, <1>3, <1>8
<1>9. CASE Here = "block"
  <2>1. heap' = Grown(heap, Top.id, K, Node(Shape("unused", x), Top.id, FALSE))
    BY <1>1, <1>9 DEF Grown, WithKids, Kids
  <2>2. phase' \in {phase, "crashed"}
    BY <1>1, <1>2, <1>9
  <2>3. Top \in FrameOf(registry) /\ Top = stack[Len(stack)] /\ Len(stack) \in 1 .. Len(stack)
        /\ stack \in Seq(FrameOf(registry)) /\ Top.i \in Nat /\ Top.skip \in Nat
    BY <1>2, TopIs DEF Top, TypeInv, StackFits
  <2> DEFINE a == [Top EXCEPT !.i = @ + 1, !.skip = @ + 1]
             b == [Top EXCEPT !.i = @ + 2, !.detached = TRUE]
  <2>4. a \in FrameOf(registry) /\ b \in FrameOf(registry) /\ SameWalk(Top, a) /\ SameWalk(Top, b)
        /\ a.i > Top.i /\ b.i > Top.i /\ b.skip = Top.skip /\ b.i = Top.i + 2
    <3>1. a \in FrameOf(registry) /\ b \in FrameOf(registry)
      <4>1. Top \in FrameOf(registry)
        BY <2>3
      <4>2. Top.i + 1 \in Nat /\ Top.i + 2 \in Nat /\ Top.skip + 1 \in Nat
        BY <2>3
      <4>3. a \in FrameOf(registry)
        BY <4>1, <4>2 DEF FrameOf
      <4>4. b \in FrameOf(registry)
        BY <4>1, <4>2 DEF FrameOf
      <4> QED BY <4>3, <4>4
    <3>2. SameWalk(Top, a) /\ SameWalk(Top, b) /\ b.skip = Top.skip
      BY <2>3 DEF FrameOf, SameWalk
    <3>3. a.i = Top.i + 1 /\ b.i = Top.i + 2
      BY <2>3 DEF FrameOf
    <3>4. a.i > Top.i /\ b.i > Top.i
      BY <2>3, <3>3
    <3> QED BY <3>1, <3>2, <3>3, <3>4
  <2>5. CASE Slack /\ stack' = [stack EXCEPT ![Len(stack)].i = @ + 1, ![Len(stack)].skip = @ + 1]
    <3>1. stack' = SetTop(a)
      BY <2>3, <2>5 DEF SetTop, WithTop
    <3> HIDE DEF a, b, K, ix, new
    <3> QED BY <1>1, <1>3, <1>5, <1>6, <1>7, <1>9, <2>1, <2>2, <2>4, <2>5, <3>1 DEF K, ix, new
  <2>6. CASE stack' = [stack EXCEPT ![Len(stack)].i = @ + 2, ![Len(stack)].detached = TRUE]
    <3>1. stack' = SetTop(b)
      BY <2>3, <2>6 DEF SetTop, WithTop
    <3> HIDE DEF a, b
    <3> QED BY <1>1, <1>3, <1>5, <1>6, <1>7, <1>9, <2>1, <2>2, <2>4, <3>1
  <2> QED BY <1>1, <1>9, <2>5, <2>6
<1> QED BY <1>8, <1>9

\* A redeclaration keeps the types.
LEMMA VisitRedeclarationTypes ==
  ASSUME TypeInv, VisitRedeclaration
  PROVE  TypeInv'
<1> DEFINE K == InsertAt(Kids, IndexOf(Kids, Visited) + 1, Len(heap) + 1)
           node == Node(Shape("unused", heap[Visited].name), Top.id, FALSE)
<1>1. /\ Visiting({"decl"}) /\ registry' \in Seq(EntryType(Len(heap)))
      /\ UNCHANGED <<options, freed, currentScope>>
      /\ \/ /\ heap' = Grown(heap, Top.id, K, node)
            /\ K \in Seq(0 .. Len(heap) + 1)
            /\ node \in NodeType(Len(heap) + 1)
            /\ \E fr \in FrameOf(registry) : SameWalk(Top, fr) /\ stack' = SetTop(fr)
            /\ phase' \in {phase, "crashed"}
         \/ /\ stack' = Step(stack)
            /\ UNCHANGED <<heap, phase>>
  BY VisitRedeclarationIs
<1> HIDE DEF K, node
<1>2. phase = "walk" /\ ~Top.leaving /\ Len(heap) \in Nat /\ Top.id \in 1 .. Len(heap)
  BY <1>1, VisitedIs, TopIs
<1>3. CASE stack' = Step(stack) /\ UNCHANGED <<heap, phase>>
  BY <1>1, <1>2, <1>3, VisitTypes DEF TypeInv
<1>4. CASE /\ heap' = Grown(heap, Top.id, K, node)
           /\ K \in Seq(0 .. Len(heap) + 1)
           /\ node \in NodeType(Len(heap) + 1)
           /\ \E fr \in FrameOf(registry) : SameWalk(Top, fr) /\ stack' = SetTop(fr)
           /\ phase' \in {phase, "crashed"}
  <2>1. /\ heap' \in Seq(NodeType(Len(heap'))) /\ Extends(heap, heap')
    BY <1>2, <1>4, HeapGrown DEF TypeInv
  <2>2. Len(heap') \in Nat
    BY <2>1
  <2>3. StackFits(heap', registry', stack') /\ stack' # << >>
    BY <1>2, <1>4, <2>1, <2>2, StackMoves
  <2>4. freed' \subseteq 1 .. Len(heap')
    BY <1>1, <2>1, <2>2, FreedGrows
  <2>5. phase' \in Phases
    BY <1>4 DEF TypeInv, Phases
  <2>6. currentScope' \in Nat /\ UNCHANGED options
    BY <1>1 DEF TypeInv
  <2> QED BY <1>1, <2>1, <2>3, <2>4, <2>5, <2>6, HeapTypes
<1> QED BY <1>1, <1>3, <1>4

\* A new activation.
LEMMA EnterTypes ==
  ASSUME TypeInv, NEW kinds, Visiting(kinds), kinds \subseteq Compound, NEW sc \in Nat,
         UNCHANGED <<options, heap, freed, phase>>, currentScope' \in Nat,
         registry' \in Seq(EntryType(Len(heap))),
         stack' = Append(Step(stack), Frame(Visited, sc))
  PROVE  TypeInv'
<1>1. phase = "walk" /\ ~Top.leaving /\ Visited \in 1 .. Len(heap) /\ heap[Visited].kind \in Compound
      /\ Len(heap) \in Nat
  BY VisitedIs, TopIs
<1>2. Extends(heap, heap') /\ heap' \in Seq(NodeType(Len(heap'))) /\ Len(heap') = Len(heap)
  BY HeapSame DEF TypeInv
<1> DEFINE fr == [Top EXCEPT !.i = @ + 1]
           st == SetTop(fr)
<1>3. Step(stack) = st /\ fr \in FrameOf(registry) /\ SameWalk(Top, fr)
  BY <1>1, StepIs
<1> HIDE DEF fr
<1>4. StackFits(heap, registry, stack) /\ stack # << >> /\ FrameFits(heap, registry, Top) /\ ~fr.leaving
  BY <1>1, <1>3, TopIs DEF TypeInv, SameWalk
<1>5. FrameFits(heap, registry, fr)
  BY <1>3, <1>4 DEF FrameFits, SameWalk
<1>6. FrameFits(heap', registry', fr)
  BY <1>1, <1>2, <1>4, <1>5, FrameStays
<1>7. StackFits(heap', registry', st) /\ st # << >>
  BY <1>1, <1>2, <1>4, <1>6, StackSet DEF SetTop
<1>8. st[Len(st)] = fr
  BY <1>4, WithTopIs DEF SetTop, StackFits
<1>9. FrameFits(heap, registry', Frame(Visited, sc))
  BY <1>1, FrameIs
<1>10. FrameFits(heap', registry', Frame(Visited, sc))
  BY <1>9
<1> HIDE DEF st
<1>11. StackFits(heap', registry', Append(st, Frame(Visited, sc))) /\ Append(st, Frame(Visited, sc)) # << >>
  BY <1>4, <1>7, <1>8, <1>10, StackPush
<1>12. stack' = Append(st, Frame(Visited, sc))
  BY <1>3
<1> QED BY <1>1, <1>2, <1>11, <1>12 DEF TypeInv

\* Going into the branches of a statement keeps the types.
LEMMA EnterBranchesTypes ==
  ASSUME TypeInv, EnterBranches
  PROVE  TypeInv'
<1>1. /\ Visiting({"if", "while", "func"})
      /\ registry' = UsedVariables(registry, heap[Visited].uses, Visited)
      /\ stack' = Append(Step(stack), Frame(Visited, currentScope))
      /\ UNCHANGED <<options, heap, freed, currentScope, phase>>
  BY DEF EnterBranches
<1>2. phase = "walk" /\ Visited \in 1 .. Len(heap) /\ Len(heap) \in Nat
  BY <1>1, VisitedIs, TopIs
<1>3. registry' \in Seq(EntryType(Len(heap))) /\ currentScope \in Nat
  BY <1>1, <1>2, UsedVariablesIs DEF TypeInv
<1>4. {"if", "while", "func"} \subseteq Compound
  BY DEF Compound
<1> QED BY <1>1, <1>3, <1>4, EnterTypes

\* Going into a block keeps the types.
LEMMA EnterBlockTypes ==
  ASSUME TypeInv, EnterBlock
  PROVE  TypeInv'
<1>1. /\ Visiting({"block"})
      /\ currentScope' = currentScope + 1
      /\ stack' = Append(Step(stack), Frame(Visited, currentScope + 1))
      /\ UNCHANGED <<options, heap, freed, registry, phase>>
  BY DEF EnterBlock
<1>2. registry' \in Seq(EntryType(Len(heap))) /\ currentScope + 1 \in Nat
  BY <1>1 DEF TypeInv
<1>3. {"block"} \subseteq Compound
  BY DEF Compound
<1> QED BY <1>1, <1>2, <1>3, EnterTypes

\* What is left on the stack when the top activation returns.
LEMMA UnderIs ==
  ASSUME TypeInv, stack # << >>, stack' = Under, Extends(heap, heap'), Len(heap') \in Nat
  PROVE  /\ StackFits(heap', registry', stack')
         /\ Len(stack') = Len(stack) - 1
         /\ Len(stack) \in Nat /\ Len(stack) >= 1
         /\ \A f \in 1 .. Len(stack') : stack'[f] = stack[f]
         /\ stack' = << >> <=> Len(stack) = 1
<1>1. StackFits(heap, registry, stack) /\ stack \in Seq(FrameOf(registry)) /\ Len(heap) \in Nat
  BY DEF TypeInv, StackFits
<1>2. stack' = DropTop(stack)
  BY DEF Under, DropTop
<1>3. StackFits(heap', registry', stack')
  BY <1>1, <1>2, StackPop
<1>4. /\ Len(stack) - 1 \in Nat /\ Len(stack') = Len(stack) - 1
      /\ \A f \in 1 .. Len(stack) - 1 : stack'[f] = stack[f]
  BY <1>1, <1>2, DropTopIs
<1>5. stack' \in Seq(FrameOf(registry'))
  BY <1>3 DEF StackFits
<1>6. Len(stack) \in Nat /\ Len(stack) >= 1
  BY <1>1
<1>7. stack' = << >> <=> Len(stack') = 0
  BY <1>5
<1> QED BY <1>3, <1>4, <1>6, <1>7

\* Only the program itself ends the walk: the rest has frames under it.
LEMMA LeaveTypes ==
  ASSUME TypeInv, phase = "walk", stack' = Under, UNCHANGED options,
         heap' \in Seq(NodeType(Len(heap'))), Extends(heap, heap'),
         freed' = freed, registry' \in Seq(EntryType(Len(heap))), currentScope' \in Nat,
         phase' \in Phases, phase' = "walk" => Len(stack) # 1
  PROVE  TypeInv'
<1>1. stack # << >> /\ Len(heap') \in Nat
  BY DEF TypeInv
<1>2. StackFits(heap', registry', stack') /\ (stack' = << >> <=> Len(stack) = 1)
  BY <1>1, UnderIs
<1>3. freed' \subseteq 1 .. Len(heap')
  BY <1>1, FreedGrows
<1> QED BY <1>2, <1>3, HeapTypes

\* The variable that is handled.
LEMMA HandlingIs ==
  ASSUME TypeInv, Handling
  PROVE  /\ phase = "walk" /\ Top.leaving /\ Here = "block" /\ Len(Top.pending) >= 1
         /\ Head(Top.pending) = Top.pending[1] /\ 1 \in DOMAIN Top.pending
         /\ Head(Top.pending) \in 1 .. Len(registry)
         /\ Remaining \in EntryType(Len(heap))
         /\ [Top EXCEPT !.pending = Tail(@)] \in FrameOf(registry)
         /\ FrameFits(heap, registry, [Top EXCEPT !.pending = Tail(@)])
         /\ [Top EXCEPT !.pending = Tail(@)].pending = Tail(Top.pending)
         /\ Top.pending \in Seq(1 .. Len(registry))
<1>1. phase = "walk" /\ Top.leaving /\ Top.pending # << >>
  BY DEF Handling
<1>2. FrameFits(heap, registry, Top) /\ Top \in FrameOf(registry)
  BY <1>1, TopIs
<1>3. Here = "block" /\ Top.pending \in Seq(DOMAIN registry)
  BY <1>1, <1>2 DEF FrameFits, FrameOf, Here
<1>4. DOMAIN registry = 1 .. Len(registry)
  BY DEF TypeInv
<1>5. /\ Head(Top.pending) = Top.pending[1] /\ 1 \in DOMAIN Top.pending
      /\ Head(Top.pending) \in 1 .. Len(registry) /\ Tail(Top.pending) \in Seq(DOMAIN registry)
      /\ Len(Top.pending) >= 1
  <2> DEFINE p == Top.pending
  <2>1. p \in Seq(DOMAIN registry) /\ p # << >>
    BY <1>1, <1>3
  <2> HIDE DEF p
  <2>2. Head(p) = p[1] /\ 1 \in DOMAIN p /\ Len(p) >= 1 /\ Tail(p) \in Seq(DOMAIN registry)
    BY <2>1
  <2>3. p[1] \in DOMAIN registry
    BY <2>1, <2>2
  <2> QED BY <1>4, <2>2, <2>3 DEF p
<1>6. Remaining \in EntryType(Len(heap))
  BY <1>5 DEF Remaining, TypeInv
<1>7. [Top EXCEPT !.pending = Tail(@)] \in FrameOf(registry)
  BY <1>2, <1>5 DEF FrameOf
<1>8. FrameFits(heap, registry, [Top EXCEPT !.pending = Tail(@)])
  BY <1>1, <1>2, <1>7 DEF FrameFits, FrameOf
<1>9. [Top EXCEPT !.pending = Tail(@)].pending = Tail(Top.pending)
  BY <1>2 DEF FrameOf
<1> QED BY <1>1, <1>3, <1>4, <1>5, <1>6, <1>7, <1>8, <1>9

\* Entry k loses its declaration.
Nulled(r, k) == [r EXCEPT ![k].declaration = Null]

\* What Nulled changes.
LEMMA NulledIs ==
  ASSUME NEW m \in Nat, NEW r \in Seq(EntryType(m)), NEW k \in 1 .. Len(r)
  PROVE  /\ Nulled(r, k) \in Seq(EntryType(m)) /\ Len(Nulled(r, k)) = Len(r)
         /\ \A j \in 1 .. Len(r) :
              /\ Nulled(r, k)[j].name = r[j].name /\ Nulled(r, k)[j].scope = r[j].scope
              /\ Nulled(r, k)[j].auto = r[j].auto /\ Nulled(r, k)[j].usage = r[j].usage
              /\ Nulled(r, k)[j].declaration = IF j = k THEN Null ELSE r[j].declaration
<1> DEFINE x == [r[k] EXCEPT !.declaration = Null]
           q == [r EXCEPT ![k].declaration = Null]
<1>1. r[k] \in EntryType(m) /\ Len(r) \in Nat
  OBVIOUS
<1>2. x \in EntryType(m) /\ x.name = r[k].name /\ x.scope = r[k].scope /\ x.auto = r[k].auto
      /\ x.usage = r[k].usage /\ x.declaration = Null
  <2>1. Null \in 0 .. m
    BY DEF Null
  <2>2. x \in EntryType(m)
    BY <1>1, <2>1 DEF EntryType
  <2> QED BY <1>1, <2>2 DEF EntryType
<1>3. q = [r EXCEPT ![k] = x]
  OBVIOUS
<1> HIDE DEF x, q
<1>4. q \in Seq(EntryType(m)) /\ Len(q) = Len(r) /\ \A j \in 1 .. Len(r) : q[j] = IF j = k THEN x ELSE r[j]
  BY <1>1, <1>2, <1>3
<1>5. Nulled(r, k) = q
  BY DEF Nulled, q
<1> QED BY <1>2, <1>4, <1>5

\* Removing a declaration.
LEMMA RemoveDeclarationIs ==
  ASSUME TypeInv, RemoveDeclaration
  PROVE  /\ Handling /\ Remaining.usage = << >>
         /\ UNCHANGED <<options, currentScope>>
         /\ \/ /\ IndexOf(Kids, Remaining.declaration) = 0 /\ phase' = "logic_error"
               /\ UNCHANGED <<heap, freed, registry, stack>>
            \/ /\ IndexOf(Kids, Remaining.declaration) \in 1 .. Len(Kids)
               /\ Kids[IndexOf(Kids, Remaining.declaration)] = Remaining.declaration
               /\ [Kids EXCEPT ![IndexOf(Kids, Remaining.declaration)] = Null] \in Seq(0 .. Len(heap))
               /\ heap' = WithKids(heap, Top.id, [Kids EXCEPT ![IndexOf(Kids, Remaining.declaration)] = Null])
               /\ freed' = freed \cup {Remaining.declaration}
               /\ registry' = [registry EXCEPT ![Head(Top.pending)].declaration = Null]
               /\ stack' = SetTop([Top EXCEPT !.pending = Tail(@)])
               /\ phase' \in Phases
               /\ phase' = phase \/ (Remaining.declaration \in freed /\ phase' = "crashed")
<1> DEFINE ix == IndexOf(Kids, Remaining.declaration)
           K  == [Kids EXCEPT ![ix] = Null]
<1>1. /\ Handling /\ Remaining.usage = << >>
      /\ UNCHANGED <<options, currentScope>>
      /\ IF ix = 0
         THEN /\ phase' = "logic_error"
              /\ UNCHANGED <<heap, freed, registry, stack>>
         ELSE /\ heap' = [heap EXCEPT ![Top.id].kids[ix] = Null]
              /\ freed' = freed \cup {Remaining.declaration}
              /\ registry' = [registry EXCEPT ![Head(Top.pending)].declaration = Null]
              /\ stack' = [stack EXCEPT ![Len(stack)].pending = Tail(@)]
              /\ Touching(Remaining.declaration \in freed)
  BY DEF RemoveDeclaration
<1>2. phase = "walk" /\ Kids \in Seq(0 .. Len(heap)) /\ Len(heap) \in Nat
  BY <1>1, TopIs DEF Handling
<1>3. ix \in 0 .. Len(Kids) /\ (ix # 0 => Kids[ix] = Remaining.declaration)
  BY <1>2, IndexOfIs
<1>4. CASE ix = 0
  BY <1>1, <1>4
<1>5. CASE ix # 0
  <2>1. heap' = [heap EXCEPT ![Top.id].kids[ix] = Null] /\ stack' = [stack EXCEPT ![Len(stack)].pending = Tail(@)]
        /\ freed' = freed \cup {Remaining.declaration}
        /\ registry' = [registry EXCEPT ![Head(Top.pending)].declaration = Null]
        /\ Touching(Remaining.declaration \in freed)
    BY <1>1, <1>5
  <2>2. heap' = WithKids(heap, Top.id, K)
    <3> HIDE DEF ix
    <3> QED BY <2>1 DEF WithKids, Kids
  <2>3. stack' = SetTop([Top EXCEPT !.pending = Tail(@)])
    BY <2>1 DEF SetTop, WithTop, Top
  <2>4. ix \in 1 .. Len(Kids)
    BY <1>3, <1>5
  <2>5. K \in Seq(0 .. Len(heap))
    <3> HIDE DEF ix
    <3>1. Null \in 0 .. Len(heap)
      BY <1>2 DEF Null
    <3> QED BY <1>2, <2>4, <3>1
  <2>6. phase' \in Phases /\ (phase' = phase \/ (Remaining.declaration \in freed /\ phase' = "crashed"))
    BY <2>1, TouchingIs DEF TypeInv
  <2> QED BY <1>1, <1>3, <2>1, <2>2, <2>3, <2>4, <2>5, <2>6
<1> QED BY <1>4, <1>5

\* The block goes on with the next variable.
LEMMA HandledStack ==
  ASSUME TypeInv, Handling, Extends(heap, heap'), Len(heap') \in Nat, Len(registry') = Len(registry),
         registry' \in Seq(EntryType(Len(heap))), stack' = SetTop([Top EXCEPT !.pending = Tail(@)])
  PROVE  StackFits(heap', registry', stack') /\ stack' # << >>
<1> DEFINE fr == [Top EXCEPT !.pending = Tail(@)]
<1>1. FrameFits(heap, registry, fr) /\ phase = "walk"
  BY HandlingIs
<1>2. StackFits(heap, registry, stack) /\ stack # << >> /\ Len(heap) \in Nat
  BY <1>1, TopIs DEF TypeInv
<1>3. DOMAIN registry \subseteq DOMAIN registry'
  BY DEF TypeInv
<1> HIDE DEF fr
<1>4. FrameFits(heap', registry', fr)
  BY <1>1, <1>2, <1>3, FrameStays
<1>5. stack' = WithTop(stack, fr)
  BY DEF fr, SetTop
<1> QED BY <1>2, <1>4, <1>5, StackSet

\* A removal keeps the types: the entry it deletes has a declaration.
LEMMA RemoveDeclarationTypes ==
  ASSUME TypeInv, PendInv, RemoveDeclaration
  PROVE  TypeInv'
<1> DEFINE k  == Head(Top.pending)
           ix == IndexOf(Kids, Remaining.declaration)
           K  == [Kids EXCEPT ![ix] = Null]
<1>1. /\ Handling /\ UNCHANGED <<options, currentScope>>
      /\ \/ /\ phase' = "logic_error"
            /\ UNCHANGED <<heap, freed, registry, stack>>
         \/ /\ K \in Seq(0 .. Len(heap))
            /\ heap' = WithKids(heap, Top.id, K)
            /\ freed' = freed \cup {Remaining.declaration}
            /\ registry' = [registry EXCEPT ![k].declaration = Null]
            /\ stack' = SetTop([Top EXCEPT !.pending = Tail(@)])
            /\ phase' \in Phases
  BY RemoveDeclarationIs
<1> HIDE DEF K
<1>2. /\ phase = "walk" /\ k \in 1 .. Len(registry) /\ k = Top.pending[1] /\ 1 \in DOMAIN Top.pending
      /\ Remaining \in EntryType(Len(heap))
  BY <1>1, HandlingIs
<1>3. Top.id \in 1 .. Len(heap) /\ Len(heap) \in Nat /\ stack # << >>
  BY <1>2, TopIs
<1>4. CASE /\ phase' = "logic_error" /\ UNCHANGED <<heap, freed, registry, stack>>
  <2>1. Extends(heap, heap') /\ heap' \in Seq(NodeType(Len(heap'))) /\ Len(heap') = Len(heap)
    BY <1>4, HeapSame DEF TypeInv
  <2> QED BY <1>1, <1>3, <1>4, <2>1 DEF TypeInv, Phases
<1>5. CASE /\ K \in Seq(0 .. Len(heap))
           /\ heap' = WithKids(heap, Top.id, K)
           /\ freed' = freed \cup {Remaining.declaration}
           /\ registry' = [registry EXCEPT ![k].declaration = Null]
           /\ stack' = SetTop([Top EXCEPT !.pending = Tail(@)])
           /\ phase' \in Phases
  <2>1. heap' \in Seq(NodeType(Len(heap'))) /\ Extends(heap, heap') /\ Len(heap') = Len(heap)
    BY <1>3, <1>5, HeapWithKids DEF TypeInv
  <2>2. registry' \in Seq(EntryType(Len(heap))) /\ Len(registry') = Len(registry)
    <3>1. registry' = Nulled(registry, k)
      BY <1>5 DEF Nulled
    <3> HIDE DEF k
    <3> QED BY <1>2, <1>3, <3>1, NulledIs DEF TypeInv
  <2>3. Remaining.declaration \in 1 .. Len(heap)
    <3>1. Remaining.declaration \in 0 .. Len(heap)
      BY <1>2 DEF EntryType
    <3>2. Remaining.declaration # Null
      BY <1>2, <1>3 DEF PendInv, Remaining
    <3> QED BY <1>3, <3>1, <3>2 DEF Null
  <2>4. freed' \subseteq 1 .. Len(heap')
    BY <1>5, <2>1, <2>3 DEF TypeInv
  <2>5. StackFits(heap', registry', stack') /\ stack' # << >>
    BY <1>1, <1>3, <1>5, <2>1, <2>2, HandledStack
  <2>6. currentScope' \in Nat
    BY <1>1 DEF TypeInv
  <2> QED BY <1>1, <1>5, <2>1, <2>2, <2>4, <2>5, <2>6, HeapTypes
<1> QED BY <1>1, <1>4, <1>5

\* Inserting a destroy.
LEMMA InsertDestroyIs ==
  ASSUME TypeInv, InsertDestroy
  PROVE  LET new  == Len(heap) + 1
             K    == InsertAt(Kids, DestroyIndex(Kids, Remaining), new)
             node == Node(Shape("unused", Remaining.name), Top.id, FALSE)
         IN  /\ Handling /\ Remaining.usage # << >>
             /\ UNCHANGED <<options, freed, registry, currentScope, phase>>
             /\ DestroyIndex(Kids, Remaining) \in 1 .. Len(Kids) + 1
             /\ heap' = Grown(heap, Top.id, K, node)
             /\ K \in Seq(0 .. new) /\ node \in NodeType(new)
             /\ stack' = SetTop([Top EXCEPT !.pending = Tail(@)])
<1> DEFINE new  == Len(heap) + 1
           di   == DestroyIndex(Kids, Remaining)
           K    == InsertAt(Kids, di, new)
           node == Node(Shape("unused", Remaining.name), Top.id, FALSE)
<1>1. /\ Handling /\ Remaining.usage # << >>
      /\ heap' = Append([heap EXCEPT ![Top.id].kids = InsertAt(@, DestroyIndex(@, Remaining), new)],
                        Node(Shape("unused", Remaining.name), Top.id, FALSE))
      /\ stack' = [stack EXCEPT ![Len(stack)].pending = Tail(@)]
      /\ UNCHANGED <<options, freed, registry, currentScope, phase>>
  BY DEF InsertDestroy
<1>2. phase = "walk" /\ Remaining \in EntryType(Len(heap))
  BY <1>1, HandlingIs
<1>3. Kids \in Seq(0 .. Len(heap)) /\ Len(heap) \in Nat /\ Top.id \in 1 .. Len(heap) /\ Len(Kids) \in Nat
  BY <1>2, TopIs
<1>4. heap' = Grown(heap, Top.id, K, node)
  BY <1>1 DEF Grown, WithKids, Kids
<1>5. stack' = SetTop([Top EXCEPT !.pending = Tail(@)])
  BY <1>1 DEF SetTop, WithTop, Top
<1>6. di \in 1 .. Len(Kids) + 1
  <2> DEFINE last == IndexOf(Kids, Remaining.usage[Len(Remaining.usage)])
  <2>1. last \in 0 .. Len(Kids)
    BY <1>3, IndexOfIs
  <2>2. di = IF Remaining.auto /\ last # 0 THEN last + 1 ELSE Len(Kids) + 1
    BY DEF DestroyIndex
  <2> HIDE DEF last, di
  <2> QED BY <1>3, <2>1, <2>2
<1>7. Kids \in Seq(0 .. new) /\ new \in 0 .. new /\ new \in Nat /\ Top.id \in 0 .. new
  <2>1. 0 .. Len(heap) \subseteq 0 .. new
    BY <1>3
  <2>2. Kids \in Seq(0 .. new)
    BY <1>3, <2>1, SeqMonotonic
  <2> QED BY <1>3, <2>2
<1>8. K \in Seq(0 .. new)
  <2> HIDE DEF di, new
  <2> QED BY <1>6, <1>7, InsertAtIs
<1>9. node \in NodeType(new)
  <2>1. ShapeOK(Shape("unused", Remaining.name))
    BY <1>2, UnusedShape DEF EntryType
  <2> QED BY <1>7, <2>1, NodeIs
<1> QED BY <1>1, <1>4, <1>5, <1>6, <1>8, <1>9

\* A destroy keeps the types.
LEMMA InsertDestroyTypes ==
  ASSUME TypeInv, InsertDestroy
  PROVE  TypeInv'
<1> DEFINE K    == InsertAt(Kids, DestroyIndex(Kids, Remaining), Len(heap) + 1)
           node == Node(Shape("unused", Remaining.name), Top.id, FALSE)
<1>1. /\ Handling
      /\ UNCHANGED <<options, freed, registry, currentScope, phase>>
      /\ heap' = Grown(heap, Top.id, K, node)
      /\ K \in Seq(0 .. Len(heap) + 1) /\ node \in NodeType(Len(heap) + 1)
      /\ stack' = SetTop([Top EXCEPT !.pending = Tail(@)])
  BY InsertDestroyIs
<1> HIDE DEF K, node
<1>2. Top.id \in 1 .. Len(heap) /\ Len(heap) \in Nat
  BY <1>1, HandlingIs, TopIs
<1>3. heap' \in Seq(NodeType(Len(heap'))) /\ Extends(heap, heap')
  BY <1>1, <1>2, HeapGrown DEF TypeInv
<1>4. Len(heap') \in Nat
  BY <1>3
<1>5. StackFits(heap', registry', stack') /\ stack' # << >>
  BY <1>1, <1>3, <1>4, HandledStack DEF TypeInv
<1>6. freed' \subseteq 1 .. Len(heap')
  BY <1>1, <1>3, <1>4, FreedGrows
<1> QED BY <1>1, <1>3, <1>5, <1>6, HeapTypes DEF TypeInv

\* The last statement of a block: what is left to do is in its registry.
LEMMA EndOfStatementsIs ==
  ASSUME TypeInv, EndOfStatements
  PROVE  LET fr == [Top EXCEPT !.leaving = TRUE, !.pending = GetVariablesInScope(registry, Top.scope)]
         IN  /\ phase = "walk" /\ Here = "block" /\ ~Top.leaving
             /\ Len(Kids) <= Top.i + Top.skip
             /\ stack' = SetTop(fr) /\ FrameFits(heap, registry, fr)
             /\ GetVariablesInScope(registry, Top.scope) \in Seq(DOMAIN registry)
             /\ phase' \in Phases
             /\ phase' = phase \/ ((\E k \in DOMAIN Kids : Kids[k] \in freed) /\ phase' = "crashed")
             /\ UNCHANGED <<options, heap, freed, registry, currentScope>>
<1> DEFINE p  == GetVariablesInScope(registry, Top.scope)
           fr == [Top EXCEPT !.leaving = TRUE, !.pending = p]
<1>1. /\ phase = "walk" /\ Here = "block" /\ ~Top.leaving /\ Len(Kids) <= Top.i + Top.skip
      /\ stack' = [stack EXCEPT ![Len(stack)].leaving = TRUE, ![Len(stack)].pending = p]
      /\ Touching(\E k \in DOMAIN Kids : Kids[k] \in freed)
      /\ UNCHANGED <<options, heap, freed, registry, currentScope>>
  BY DEF EndOfStatements
<1>2. p \in Seq(DOMAIN registry)
  BY InScopeIs DEF TypeInv
<1>3. /\ Top \in FrameOf(registry) /\ FrameFits(heap, registry, Top)
      /\ stack \in Seq(FrameOf(registry)) /\ Len(stack) \in 1 .. Len(stack)
  BY <1>1, TopIs DEF TypeInv, StackFits
<1>4. Top = stack[Len(stack)]
  BY DEF Top
<1> HIDE DEF p
<1>5. stack' = SetTop(fr)
  BY <1>1, <1>3, <1>4 DEF SetTop, WithTop
<1>6. fr \in FrameOf(registry) /\ fr.id = Top.id /\ fr.leaving
  <2>1. Top \in FrameOf(registry)
    BY <1>3
  <2>2. fr \in FrameOf(registry)
    BY <1>2, <2>1 DEF FrameOf
  <2> QED BY <2>1, <2>2 DEF FrameOf
<1> HIDE DEF fr
<1>7. FrameFits(heap, registry, fr)
  BY <1>1, <1>3, <1>6 DEF FrameFits, Here
<1>8. phase' \in Phases /\ (phase' = phase \/ ((\E k \in DOMAIN Kids : Kids[k] \in freed) /\ phase' = "crashed"))
  BY <1>1, TouchingIs DEF TypeInv
<1> QED BY <1>1, <1>2, <1>5, <1>7, <1>8 DEF p, fr

\* The end of the statements keeps the types.
LEMMA EndOfStatementsTypes ==
  ASSUME TypeInv, EndOfStatements
  PROVE  TypeInv'
<1> DEFINE fr == [Top EXCEPT !.leaving = TRUE, !.pending = GetVariablesInScope(registry, Top.scope)]
<1>1. /\ phase = "walk" /\ stack' = SetTop(fr) /\ FrameFits(heap, registry, fr) /\ phase' \in Phases
      /\ UNCHANGED <<options, heap, freed, registry, currentScope>>
  BY EndOfStatementsIs
<1> HIDE DEF fr
<1>2. Extends(heap, heap') /\ heap' \in Seq(NodeType(Len(heap'))) /\ Len(heap') = Len(heap) /\ Len(heap) \in Nat
  BY <1>1, HeapSame, TopIs DEF TypeInv
<1>3. StackFits(heap, registry, stack) /\ stack # << >>
  BY <1>1, TopIs DEF TypeInv
<1>4. FrameFits(heap', registry', fr) /\ stack' = WithTop(stack, fr)
  BY <1>1 DEF SetTop
<1>5. StackFits(heap', registry', stack') /\ stack' # << >>
  BY <1>2, <1>3, <1>4, StackSet
<1> QED BY <1>1, <1>2, <1>5 DEF TypeInv

-----------------------------------------------------------------------------
(* The tree of statements.                                                 *)

\* Parents are compound statements, allocated before their kids.
TreeOK(h) ==
  /\ Len(h) >= 1 /\ h[1].kind = "block" /\ h[1].parent = Null
  /\ \A n \in 2 .. Len(h) : h[n].parent \in 1 .. n - 1 /\ h[h[n].parent].kind \in Compound

EnclosingOf(h) ==
  CHOOSE A : A = [n \in 0 .. Len(h) |-> IF n = Null THEN {} ELSE {n} \cup A[h[n].parent]]

\* Enclosing, before and after a step.
LEMMA EnclosingIsOf ==
  Enclosing = EnclosingOf(heap) /\ Enclosing' = EnclosingOf(heap')
BY DEF Enclosing, EnclosingOf

\* The sets that with a statement have its parent.
Closed(h, C) == \A x \in C : h[x].parent # Null => h[x].parent \in C

Up(h, n) == {m \in 1 .. Len(h) : \A C \in SUBSET (1 .. Len(h)) : n \in C /\ Closed(h, C) => m \in C}

\* There is a function that satisfies the recursion.
LEMMA EnclosingExists ==
  ASSUME NEW h, h \in Seq(NodeType(Len(h)))
  PROVE  EnclosingOf(h) = [n \in 0 .. Len(h) |-> IF n = Null THEN {} ELSE {n} \cup EnclosingOf(h)[h[n].parent]]
<1> DEFINE D == 1 .. Len(h)
           F == [n \in 0 .. Len(h) |-> IF n = Null THEN {} ELSE Up(h, n)]
<1>1. Len(h) \in Nat /\ \A n \in D : h[n].parent \in 0 .. Len(h)
  <2>1. \A n \in D : h[n] \in NodeType(Len(h))
    OBVIOUS
  <2> QED BY <2>1 DEF NodeType
<1>2. ASSUME NEW n \in D
      PROVE  Up(h, n) = {n} \cup F[h[n].parent]
  <2> DEFINE p == h[n].parent
  <2>1. p \in 0 .. Len(h)
    BY <1>1
  <2>2. F[p] \subseteq D
    BY <2>1 DEF Up
  <2>3. n \in Up(h, n)
    BY DEF Up
  <2>4. ASSUME p # Null
        PROVE  F[p] \subseteq Up(h, n)
    <3>1. F[p] = Up(h, p)
      BY <2>1, <2>4
    <3>2. \A C : n \in C /\ Closed(h, C) => p \in C
      BY <2>4 DEF Closed
    <3> HIDE DEF p
    <3> QED BY <3>1, <3>2 DEF Up
  <2>5. F[p] \subseteq Up(h, n)
    BY <2>1, <2>4
  <2>6. Closed(h, {n} \cup F[p])
    <3>1. CASE p = Null
      <4>1. F[p] = {}
        BY <2>1, <3>1
      <4> QED BY <3>1, <4>1 DEF Closed
    <3>2. CASE p # Null
      <4>1. F[p] = Up(h, p) /\ p \in D
        BY <2>1, <3>2 DEF Null
      <4>2. p \in Up(h, p)
        BY <4>1 DEF Up
      <4>3. ASSUME NEW x \in Up(h, p), h[x].parent # Null
            PROVE  h[x].parent \in Up(h, p)
        <5>1. x \in D /\ h[x].parent \in D
          BY <1>1, <4>3 DEF Up, Null
        <5>2. \A C \in SUBSET D : p \in C /\ Closed(h, C) => h[x].parent \in C
          BY <4>3 DEF Up, Closed
        <5> QED BY <5>1, <5>2 DEF Up
      <4> QED BY <4>1, <4>2, <4>3 DEF Closed
    <3> QED BY <3>1, <3>2
  <2>7. {n} \cup F[p] \in SUBSET D
    BY <2>2
  <2> HIDE DEF F, p
  <2>8. Up(h, n) \subseteq {n} \cup F[p]
    BY <2>6, <2>7 DEF Up
  <2> QED BY <2>3, <2>5, <2>8 DEF p
<1>3. F = [n \in 0 .. Len(h) |-> IF n = Null THEN {} ELSE {n} \cup F[h[n].parent]]
  <2>1. \A n \in 0 .. Len(h) : n # Null => n \in D
    BY <1>1 DEF Null
  <2> QED BY <1>2, <2>1
<1> HIDE DEF F
<1> QED BY <1>3 DEF EnclosingOf

\* A statement with all that enclose it: itself, and those of its parent.
LEMMA EnclosingStep ==
  ASSUME NEW h, h \in Seq(NodeType(Len(h))), NEW n \in 1 .. Len(h)
  PROVE  /\ h[n].parent \in 0 .. Len(h)
         /\ EnclosingOf(h)[n] = {n} \cup EnclosingOf(h)[h[n].parent]
         /\ EnclosingOf(h)[0] = {}
<1>1. h[n] \in NodeType(Len(h)) /\ Len(h) \in Nat
  OBVIOUS
<1>2. h[n].parent \in 0 .. Len(h)
  BY <1>1 DEF NodeType
<1> DEFINE E == EnclosingOf(h)
<1>3. E = [m \in 0 .. Len(h) |-> IF m = Null THEN {} ELSE {m} \cup E[h[m].parent]]
  BY EnclosingExists
<1> HIDE DEF E
<1>4. 0 \in 0 .. Len(h) /\ n \in 0 .. Len(h) /\ n # 0
  BY <1>1
<1>5. E[0] = {} /\ E[n] = {n} \cup E[h[n].parent]
  BY <1>3, <1>4 DEF Null
<1> QED BY <1>2, <1>5 DEF E

\* What encloses a statement is allocated before it.
LEMMA EnclosingBefore ==
  ASSUME NEW h, h \in Seq(NodeType(Len(h))), TreeOK(h), NEW n \in 0 .. Len(h)
  PROVE  \A m \in EnclosingOf(h)[n] : m \in 1 .. n
<1> DEFINE E == EnclosingOf(h)
           bad == {x \in 0 .. Len(h) : ~\A m \in E[x] : m \in 1 .. x}
<1>1. Len(h) \in Nat
  OBVIOUS
<1>2. \A x \in 1 .. Len(h) : E[x] = {x} \cup E[h[x].parent] /\ E[0] = {} /\ h[x].parent \in 0 .. Len(h)
  BY EnclosingStep
<1>3. \A x \in 1 .. Len(h) : h[x].parent \in 0 .. x - 1
  <2>1. \A x \in 1 .. Len(h) : x = 1 \/ x \in 2 .. Len(h)
    BY <1>1
  <2> QED BY <1>1, <2>1 DEF TreeOK, Null
<1> HIDE DEF E
<1>4. ASSUME bad # {}
      PROVE  FALSE
  <2>1. bad \subseteq Nat
    BY <1>1
  <2>2. PICK x \in bad : \A y \in bad : x <= y
    <3> HIDE DEF bad
    <3> QED BY <1>4, <2>1, LeastExists
  <2>3. CASE x = 0
    <3>1. E[0] = {}
      <4>1. 1 \in 1 .. Len(h)
        BY <1>1 DEF TreeOK
      <4> QED BY <1>2, <4>1
    <3> QED BY <2>2, <2>3, <3>1
  <2>4. CASE x # 0
    <3>1. x \in 1 .. Len(h) /\ h[x].parent \in 0 .. Len(h) /\ h[x].parent < x
      BY <1>1, <1>3, <2>2, <2>4
    <3>2. h[x].parent \notin bad
      BY <2>2, <3>1
    <3>3. \A m \in E[h[x].parent] : m \in 1 .. h[x].parent
      BY <3>1, <3>2
    <3>4. \A m \in E[x] : m = x \/ m \in 1 .. h[x].parent
      BY <1>2, <3>1, <3>3
    <3>5. \A m \in E[x] : m \in 1 .. x
      BY <3>1, <3>4
    <3> QED BY <2>2, <3>5
  <2> QED BY <2>3, <2>4
<1>5. \A m \in E[n] : m \in 1 .. n
  BY <1>4
<1> QED BY <1>5 DEF E

\* New statements change nothing around the old ones.
LEMMA EnclosingStable ==
  ASSUME NEW h, h \in Seq(NodeType(Len(h))), TreeOK(h), NEW g, g \in Seq(NodeType(Len(g))),
         Extends(h, g), NEW n \in 0 .. Len(h)
  PROVE  EnclosingOf(g)[n] = EnclosingOf(h)[n]
<1> DEFINE E == EnclosingOf(h)
           G == EnclosingOf(g)
           bad == {x \in 0 .. Len(h) : E[x] # G[x]}
<1>1. Len(h) \in Nat /\ Len(g) \in Nat /\ Len(h) <= Len(g) /\ 1 <= Len(h)
  BY DEF Extends, TreeOK
<1>2. \A x \in 1 .. Len(h) : E[x] = {x} \cup E[h[x].parent] /\ E[0] = {}
  BY EnclosingStep
<1>3. \A x \in 1 .. Len(h) : G[x] = {x} \cup G[h[x].parent] /\ G[0] = {}
  <2>1. \A x \in 1 .. Len(h) : x \in 1 .. Len(g) /\ g[x].parent = h[x].parent
    BY <1>1 DEF Extends, SameNode
  <2> QED BY <2>1, EnclosingStep
<1>4. \A x \in 1 .. Len(h) : h[x].parent \in 0 .. x - 1
  <2>1. \A x \in 1 .. Len(h) : x = 1 \/ x \in 2 .. Len(h)
    BY <1>1
  <2> QED BY <1>1, <2>1 DEF TreeOK, Null
<1> HIDE DEF E, G
<1>5. ASSUME bad # {}
      PROVE  FALSE
  <2>1. bad \subseteq Nat
    BY <1>1
  <2>2. PICK x \in bad : \A y \in bad : x <= y
    <3> HIDE DEF bad
    <3> QED BY <1>5, <2>1, LeastExists
  <2>3. x # 0
    <3>1. 1 \in 1 .. Len(h)
      BY <1>1
    <3>2. E[0] = G[0]
      BY <1>2, <1>3, <3>1
    <3> QED BY <2>2, <3>2
  <2>4. x \in 1 .. Len(h) /\ h[x].parent \in 0 .. Len(h) /\ h[x].parent < x
    BY <1>1, <1>4, <2>2, <2>3
  <2>5. h[x].parent \notin bad
    BY <2>2, <2>4
  <2>6. E[h[x].parent] = G[h[x].parent]
    BY <2>4, <2>5
  <2> QED BY <1>2, <1>3, <2>2, <2>4, <2>6
<1>6. E[n] = G[n]
  BY <1>5
<1> QED BY <1>6 DEF E, G

\* The innermost block around n.
BlockIn(h, n) ==
  LET blocks == {b \in EnclosingOf(h)[n] \ {n} : h[b].kind = "block"}
  IN  CHOOSE b \in blocks : \A c \in blocks : c <= b

\* BlockOf, before and after a step.
LEMMA BlockOfIsIn ==
  ASSUME NEW n
  PROVE  BlockOf(n) = BlockIn(heap, n) /\ BlockOf(n)' = BlockIn(heap', n)
BY EnclosingIsOf DEF BlockOf, BlockIn

\* The parent, if it is a block, or else the block around the parent.
LEMMA BlockInStep ==
  ASSUME NEW h, h \in Seq(NodeType(Len(h))), TreeOK(h), NEW n \in 2 .. Len(h)
  PROVE  BlockIn(h, n) = IF h[h[n].parent].kind = "block" THEN h[n].parent ELSE BlockIn(h, h[n].parent)
<1> DEFINE E == EnclosingOf(h)
           p == h[n].parent
           B(x) == {b \in E[x] \ {x} : h[b].kind = "block"}
<1>1. p \in 1 .. n - 1 /\ n \in 1 .. Len(h) /\ p \in 1 .. Len(h) /\ Len(h) \in Nat
  BY DEF TreeOK
<1>2. E[n] = {n} \cup E[p] /\ E[p] = {p} \cup E[h[p].parent]
  BY <1>1, EnclosingStep
<1>3. \A m \in E[p] : m \in 1 .. p
  <2>1. p \in 0 .. Len(h)
    BY <1>1
  <2> QED BY <2>1, EnclosingBefore
<1> HIDE DEF E, p
<1>4. E[n] \ {n} = E[p]
  BY <1>1, <1>2, <1>3
<1>5. CASE h[p].kind = "block"
  <2>1. p \in B(n) /\ \A c \in B(n) : c <= p
    BY <1>1, <1>2, <1>3, <1>4, <1>5
  <2>2. \A b \in B(n) : (\A c \in B(n) : c <= b) => b = p
    <3>1. \A b \in B(n) : b \in Nat /\ p \in Nat /\ b <= p
      BY <1>1, <1>3, <1>4
    <3> QED BY <2>1, <3>1
  <2>3. BlockIn(h, n) = CHOOSE b \in B(n) : \A c \in B(n) : c <= b
    BY DEF BlockIn, E
  <2> HIDE DEF B
  <2>4. BlockIn(h, n) = p
    BY <2>1, <2>2, <2>3
  <2> QED BY <1>5, <2>4 DEF p
<1>6. CASE h[p].kind # "block"
  <2>1. B(n) = B(p)
    BY <1>4, <1>6
  <2>2. BlockIn(h, n) = BlockIn(h, p)
    BY <2>1 DEF BlockIn, E
  <2> QED BY <1>6, <2>2 DEF p
<1> QED BY <1>5, <1>6

\* New statements do not change the block around an old one.
LEMMA BlockInStable ==
  ASSUME NEW h, h \in Seq(NodeType(Len(h))), TreeOK(h), NEW g, g \in Seq(NodeType(Len(g))),
         Extends(h, g), NEW n \in 1 .. Len(h)
  PROVE  BlockIn(g, n) = BlockIn(h, n)
<1>1. n \in 0 .. Len(h) /\ Len(h) \in Nat
  OBVIOUS
<1>2. EnclosingOf(g)[n] = EnclosingOf(h)[n] /\ \A m \in EnclosingOf(h)[n] : m \in 1 .. Len(h)
  <2>1. \A m \in EnclosingOf(h)[n] : m \in 1 .. n
    BY <1>1, EnclosingBefore
  <2> QED BY <1>1, <2>1, EnclosingStable
<1>3. {b \in EnclosingOf(g)[n] \ {n} : g[b].kind = "block"} = {b \in EnclosingOf(h)[n] \ {n} : h[b].kind = "block"}
  BY <1>2 DEF Extends, SameNode
<1> QED BY <1>3 DEF BlockIn

\* Kids know their parent.
KidsOK(h) ==
  \A n \in 1 .. Len(h) : \A k \in 1 .. Len(h[n].kids) :
     h[n].kids[k] # Null => h[h[n].kids[k]].parent = n

\* A step changes the kids of one statement, and may give it a new one.
TreeStep(id) ==
  /\ heap' \in Seq(NodeType(Len(heap'))) /\ Extends(heap, heap')
  /\ \/ Len(heap') = Len(heap)
     \/ /\ Len(heap') = Len(heap) + 1
        /\ heap'[Len(heap) + 1].parent = id /\ heap'[Len(heap) + 1].kids = << >>
  /\ \A n \in 1 .. Len(heap) : n # id => heap'[n].kids = heap[n].kids
  /\ \A k \in 1 .. Len(heap'[id].kids) :
       \/ heap'[id].kids[k] = Null
       \/ \E j \in 1 .. Len(heap[id].kids) : heap'[id].kids[k] = heap[id].kids[j]
       \/ heap'[id].kids[k] = Len(heap) + 1 /\ Len(heap') = Len(heap) + 1

\* Such a step keeps the tree.
LEMMA TreeStays ==
  ASSUME heap \in Seq(NodeType(Len(heap))), TreeOK(heap), KidsOK(heap),
         NEW id \in 1 .. Len(heap), heap[id].kind \in Compound, TreeStep(id)
  PROVE  TreeOK(heap') /\ KidsOK(heap')
<1> DEFINE m == Len(heap)
<1>1. m \in Nat /\ Len(heap') \in Nat /\ heap' \in Seq(NodeType(Len(heap'))) /\ m >= 1
      /\ (Len(heap') = m \/ (Len(heap') = m + 1 /\ heap'[m + 1].parent = id /\ heap'[m + 1].kids = << >>))
  BY DEF TreeStep, TreeOK
<1>2. \A n \in 1 .. m : heap'[n].kind = heap[n].kind /\ heap'[n].parent = heap[n].parent
  BY DEF TreeStep, Extends, SameNode
<1>3. TreeOK(heap')
  <2>1. ASSUME NEW n \in 2 .. Len(heap')
        PROVE  heap'[n].parent \in 1 .. n - 1 /\ heap'[heap'[n].parent].kind \in Compound
    <3>1. CASE n \in 2 .. m
      <4>1. heap[n].parent \in 1 .. n - 1 /\ heap[heap[n].parent].kind \in Compound
        BY <3>1 DEF TreeOK
      <4>2. n \in 1 .. m /\ heap[n].parent \in 1 .. m
        BY <1>1, <3>1, <4>1
      <4> QED BY <1>2, <4>1, <4>2
    <3>2. CASE n = m + 1
      <4>1. heap'[n].parent = id /\ id \in 1 .. n - 1
        BY <1>1, <3>2
      <4> QED BY <1>2, <4>1
    <3> QED BY <1>1, <3>1, <3>2
  <2>2. heap'[1].kind = "block" /\ heap'[1].parent = Null /\ Len(heap') >= 1
    BY <1>1, <1>2 DEF TreeOK
  <2> QED BY <2>1, <2>2 DEF TreeOK
<1>4. ASSUME NEW n \in 1 .. Len(heap'), NEW k \in 1 .. Len(heap'[n].kids), heap'[n].kids[k] # Null
      PROVE  heap'[heap'[n].kids[k]].parent = n
  <2>0. \A x \in 1 .. m : \A j \in 1 .. Len(heap[x].kids) :
           heap[x].kids[j] # Null => heap[x].kids[j] \in 1 .. m /\ heap'[heap[x].kids[j]].parent = x
    <3> TAKE x \in 1 .. m
    <3> TAKE j \in 1 .. Len(heap[x].kids)
    <3> HAVE heap[x].kids[j] # Null
    <3>1. heap[x] \in NodeType(m)
      OBVIOUS
    <3>2. heap[x].kids \in Seq(0 .. m)
      BY <3>1 DEF NodeType
    <3>3. heap[x].kids[j] \in 0 .. m
      BY SMTT(40), <3>2
    <3>4. heap[x].kids[j] \in 1 .. m
      BY <1>1, <3>3 DEF Null
    <3>5. heap[heap[x].kids[j]].parent = x
      BY DEF KidsOK
    <3> QED BY <1>2, <3>4, <3>5
  <2>1. CASE n \in 1 .. m /\ n # id
    <3>1. heap'[n].kids = heap[n].kids
      BY <2>1 DEF TreeStep
    <3> QED BY <1>4, <2>0, <2>1, <3>1
  <2>2. CASE n = id
    <3>1. \/ heap'[id].kids[k] = Null
          \/ \E j \in 1 .. Len(heap[id].kids) : heap'[id].kids[k] = heap[id].kids[j]
          \/ heap'[id].kids[k] = m + 1 /\ Len(heap') = m + 1
      BY <2>2 DEF TreeStep
    <3>2. CASE heap'[id].kids[k] = m + 1 /\ Len(heap') = m + 1
      BY <1>1, <2>2, <3>2
    <3>3. CASE \E j \in 1 .. Len(heap[id].kids) : heap'[id].kids[k] = heap[id].kids[j]
      BY <1>4, <2>0, <2>2, <3>3
    <3> QED BY <1>4, <2>2, <3>1, <3>2, <3>3
  <2>3. CASE n = m + 1 /\ Len(heap') = m + 1
    <3>1. Len(heap'[n].kids) = 0
      BY <1>1, <2>3
    <3> QED BY <3>1
  <2> QED BY <1>1, <2>1, <2>2, <2>3
<1> QED BY <1>3, <1>4 DEF KidsOK

-----------------------------------------------------------------------------
(* The stack and the open blocks.                                          *)

Blocks(h, st) == {f \in 1 .. Len(st) : h[st[f].id].kind = "block"}

\* The stack is a path of the tree from the program down, and a frame has the
\* number of the blocks on its way for a scope.
WellStacked(h, st) ==
  /\ st # << >> => st[1].id = 1
  /\ \A f \in 2 .. Len(st) : h[st[f].id].parent = st[f - 1].id
  /\ \A f \in 1 .. Len(st) : st[f].scope = Rank(Blocks(h, st), f)

\* The first n frames walk the same statements.
SameFrames(st, s, n) == \A f \in 1 .. n : s[f].id = st[f].id /\ s[f].scope = st[f].scope

\* The ids of the frames are statements.
Walks(h, st) == Len(st) \in Nat /\ \A f \in 1 .. Len(st) : st[f].id \in 1 .. Len(h)

\* Frames that stay keep their blocks and scopes.
LEMMA RanksStay ==
  ASSUME NEW h, NEW g, Extends(h, g), NEW st, Walks(h, st), NEW s, Walks(g, s),
         NEW n \in Nat, n <= Len(st), n <= Len(s), SameFrames(st, s, n)
  PROVE  /\ \A f \in 1 .. n : f \in Blocks(h, st) <=> f \in Blocks(g, s)
         /\ \A f \in 0 .. n : Rank(Blocks(g, s), f) = Rank(Blocks(h, st), f)
<1>1. \A f \in 1 .. n : f \in Blocks(h, st) <=> f \in Blocks(g, s)
  BY SMTT(40) DEF Blocks, Walks, SameFrames, Extends, SameNode
<1>2. ASSUME NEW f \in 0 .. n
      PROVE  Rank(Blocks(g, s), f) = Rank(Blocks(h, st), f)
  <2>1. \A q \in Blocks(h, st) : q \in 1 .. Len(st)
    BY DEF Blocks
  <2>2. \A q \in Blocks(g, s) : q \in 1 .. Len(s)
    BY DEF Blocks
  <2>3. \A q : q \in Blocks(h, st) /\ q <= f <=> q \in Blocks(g, s) /\ q <= f
    <3> TAKE q
    <3>1. CASE q \in 1 .. n
      BY <1>1, <3>1
    <3>2. CASE q \notin 1 .. n
      <4>1. ~(q \in Blocks(h, st) /\ q <= f)
        BY <2>1, <3>2 DEF Walks
      <4>2. ~(q \in Blocks(g, s) /\ q <= f)
        BY <2>2, <3>2 DEF Walks
      <4> QED BY <4>1, <4>2
    <3> QED BY <3>1, <3>2
  <2>4. {q \in Blocks(h, st) : q <= f} = {q \in Blocks(g, s) : q <= f}
    BY <2>3
  <2> QED BY <2>4 DEF Rank
<1> QED BY <1>1, <1>2

\* The blocks of a stack are places in it.
LEMMA BlocksArePlaces ==
  ASSUME NEW h, NEW st, Walks(h, st)
  PROVE  /\ Places(Blocks(h, st), Len(st))
         /\ Rank(Blocks(h, st), Len(st)) = Cardinality(Blocks(h, st))
         /\ Rank(Blocks(h, st), 0) = 0
         /\ \A f \in 0 .. Len(st) : Rank(Blocks(h, st), f) \in Nat
         /\ \A f \in 1 .. Len(st) : Rank(Blocks(h, st), f) = IF h[st[f].id].kind = "block"
                                                           THEN Rank(Blocks(h, st), f - 1) + 1
                                                           ELSE Rank(Blocks(h, st), f - 1)
<1>1. Len(st) \in Nat
  BY DEF Walks
<1>2. Places(Blocks(h, st), Len(st))
  <2>1. \A q \in Blocks(h, st) : q \in 1 .. Len(st)
    BY DEF Blocks
  <2> QED BY <1>1, <2>1 DEF Places
<1>3. \A f \in 1 .. Len(st) : f \in Blocks(h, st) <=> h[st[f].id].kind = "block"
  BY DEF Blocks
<1> QED BY <1>1, <1>2, <1>3, RankStep

\* A step that keeps the frames or drops the last ones keeps the shape.
LEMMA WellStackedStays ==
  ASSUME NEW h, NEW g, Extends(h, g), NEW st, Walks(h, st), WellStacked(h, st),
         NEW s, Walks(g, s), Len(s) <= Len(st), SameFrames(st, s, Len(s)), s = << >> <=> Len(s) = 0
  PROVE  WellStacked(g, s)
<1>1. Len(s) \in Nat /\ Len(st) \in Nat
  BY DEF Walks
<1>2. \A f \in 0 .. Len(s) : Rank(Blocks(g, s), f) = Rank(Blocks(h, st), f)
  BY <1>1, RanksStay
<1>3. \A f \in 1 .. Len(s) : s[f].scope = Rank(Blocks(g, s), f)
  BY <1>1, <1>2 DEF WellStacked, SameFrames
<1>4. s # << >> => s[1].id = 1
  <2>1. ASSUME s # << >>
        PROVE  s[1].id = 1
    <3>1. 1 \in 1 .. Len(s) /\ st # << >>
      BY <1>1, <2>1
    <3> QED BY <3>1 DEF WellStacked, SameFrames
  <2> QED BY <2>1
<1>5. \A f \in 2 .. Len(s) : g[s[f].id].parent = s[f - 1].id
  <2> TAKE f \in 2 .. Len(s)
  <2>1. f \in 1 .. Len(s) /\ f - 1 \in 1 .. Len(s) /\ f \in 2 .. Len(st)
    BY <1>1
  <2>2. h[st[f].id].parent = st[f - 1].id /\ s[f].id = st[f].id /\ s[f - 1].id = st[f - 1].id
    BY <2>1 DEF WellStacked, SameFrames
  <2>3. st[f].id \in 1 .. Len(h)
    BY <1>1, <2>1 DEF Walks
  <2>4. g[st[f].id].parent = h[st[f].id].parent
    BY <2>3 DEF Extends, SameNode
  <2> QED BY <2>2, <2>4
<1> QED BY <1>3, <1>4, <1>5 DEF WellStacked

\* So does a new activation on a kid of the top one.
LEMMA WellStackedPush ==
  ASSUME NEW h, NEW st, Walks(h, st), WellStacked(h, st), st # << >>, Len(st) >= 1,
         NEW s, Walks(h, s), Len(s) = Len(st) + 1, SameFrames(st, s, Len(st)),
         h[s[Len(s)].id].parent = st[Len(st)].id,
         s[Len(s)].scope = IF h[s[Len(s)].id].kind = "block" THEN Rank(Blocks(h, st), Len(st)) + 1
                           ELSE Rank(Blocks(h, st), Len(st))
  PROVE  /\ WellStacked(h, s)
         /\ Rank(Blocks(h, s), Len(s)) = s[Len(s)].scope
<1> DEFINE n == Len(st)
<1>1. n \in Nat /\ Len(s) = n + 1 /\ n >= 1
  BY DEF Walks
<1>2. Extends(h, h)
  <2>1. Len(h) <= Len(h)
    <3>1. st[1].id \in 1 .. Len(h)
      BY <1>1 DEF Walks
    <3> QED BY <3>1
  <2> QED BY <2>1 DEF Extends, SameNode
<1>3. \A f \in 0 .. n : Rank(Blocks(h, s), f) = Rank(Blocks(h, st), f)
  BY <1>1, <1>2, RanksStay
<1>4. Rank(Blocks(h, s), n + 1) = IF h[s[n + 1].id].kind = "block" THEN Rank(Blocks(h, s), n) + 1
                                  ELSE Rank(Blocks(h, s), n)
  <2>1. n + 1 \in 1 .. Len(s) /\ (n + 1) - 1 = n
    BY <1>1
  <2> QED BY <2>1, BlocksArePlaces
<1>5. Rank(Blocks(h, s), n) = Rank(Blocks(h, st), n)
  BY <1>1, <1>3
<1>6. s[n + 1].scope = Rank(Blocks(h, s), n + 1)
  BY <1>1, <1>4, <1>5
<1>7. \A f \in 1 .. Len(s) : s[f].scope = Rank(Blocks(h, s), f)
  <2> TAKE f \in 1 .. Len(s)
  <2>1. CASE f \in 1 .. n
    BY <1>1, <1>3, <2>1 DEF WellStacked, SameFrames
  <2>2. CASE f = n + 1
    BY <1>6, <2>2
  <2> QED BY <1>1, <2>1, <2>2
<1>8. s[1].id = 1
  BY <1>1 DEF WellStacked, SameFrames
<1>9. \A f \in 2 .. Len(s) : h[s[f].id].parent = s[f - 1].id
  <2> TAKE f \in 2 .. Len(s)
  <2>1. CASE f \in 2 .. n
    <3>1. f \in 1 .. n /\ f - 1 \in 1 .. n
      BY <1>1, <2>1
    <3> QED BY <2>1, <3>1 DEF WellStacked, SameFrames
  <2>2. CASE f = n + 1
    <3>1. f - 1 = n /\ n \in 1 .. n /\ s[n].id = st[n].id
      BY <1>1, <2>2 DEF SameFrames
    <3> QED BY <1>1, <2>2, <3>1
  <2> QED BY <1>1, <2>1, <2>2
<1> QED BY <1>1, <1>6, <1>7, <1>8, <1>9 DEF WellStacked

\* n, if it is a block, or else the block around it.
Inner(h, n) == IF h[n].kind = "block" THEN n ELSE BlockIn(h, n)

\* The innermost block of a frame is one of the frames, with the same scope.
LEMMA InnermostIs ==
  ASSUME NEW h, h \in Seq(NodeType(Len(h))), TreeOK(h), NEW st, Walks(h, st), WellStacked(h, st),
         NEW n \in 1 .. Len(st)
  PROVE  \E b \in Blocks(h, st) : st[b].scope = st[n].scope /\ st[b].id = Inner(h, st[n].id)
<1> DEFINE P(f) == \E b \in Blocks(h, st) : st[b].scope = st[f].scope /\ st[b].id = Inner(h, st[f].id)
           bad == {f \in 1 .. Len(st) : ~P(f)}
<1>1. Len(st) \in Nat /\ Len(h) \in Nat
  BY DEF Walks
<1>2. ASSUME NEW f \in 1 .. Len(st), h[st[f].id].kind = "block"
      PROVE  P(f)
  BY <1>2 DEF Blocks, Inner
<1>3. ASSUME NEW f \in 2 .. Len(st), h[st[f].id].kind # "block", P(f - 1)
      PROVE  P(f)
  <2>1. f \in 1 .. Len(st) /\ f - 1 \in 1 .. Len(st)
    BY <1>1
  <2>2. st[f].id \in 1 .. Len(h) /\ st[f - 1].id \in 1 .. Len(h) /\ h[st[f].id].parent = st[f - 1].id
    BY <2>1 DEF Walks, WellStacked
  <2>3. st[f].id \in 2 .. Len(h)
    <3>1. st[f].id # 1
      BY <2>2 DEF TreeOK, Null
    <3> QED BY <1>1, <2>2, <3>1
  <2>4. Inner(h, st[f].id) = Inner(h, st[f - 1].id)
    BY <1>3, <2>2, <2>3, BlockInStep DEF Inner
  <2>5. Rank(Blocks(h, st), f) = Rank(Blocks(h, st), f - 1)
    BY <1>3, <2>1, BlocksArePlaces
  <2>6. st[f].scope = st[f - 1].scope
    BY <2>1, <2>5 DEF WellStacked
  <2> QED BY <1>3, <2>4, <2>6
<1>4. P(1)
  <2>1. 1 \in 1 .. Len(st) /\ st # << >>
    BY <1>1
  <2>2. st[1].id = 1
    BY <2>1 DEF WellStacked
  <2>3. h[st[1].id].kind = "block"
    BY <2>2 DEF TreeOK
  <2> QED BY <1>2, <2>1, <2>3
<1> HIDE DEF P
<1>5. ASSUME bad # {}
      PROVE  FALSE
  <2>1. bad \subseteq Nat
    BY <1>1
  <2>2. PICK f \in bad : \A y \in bad : f <= y
    <3> HIDE DEF bad
    <3> QED BY <1>5, <2>1, LeastExists
  <2>3. f # 1
    BY <1>4, <2>2
  <2>4. f \in 2 .. Len(st) /\ f - 1 \in 1 .. Len(st) /\ f \in 1 .. Len(st)
    BY <1>1, <2>2, <2>3
  <2>5. f - 1 \notin bad
    BY <2>2, <2>4
  <2>6. P(f - 1)
    BY <2>4, <2>5
  <2>7. P(f)
    BY <1>2, <1>3, <2>4, <2>6
  <2> QED BY <2>2, <2>7
<1>6. P(n)
  BY <1>5
<1> QED BY <1>6 DEF P

\* The entry belongs to an open block.
Housed(h, st, e) ==
  \E f \in Blocks(h, st) : st[f].scope = e.scope /\ st[f].id = BlockIn(h, e.declaration)

\* An entry stays in its block while the block is open.
LEMMA HousedStays ==
  ASSUME NEW h, h \in Seq(NodeType(Len(h))), TreeOK(h), NEW g, g \in Seq(NodeType(Len(g))),
         Extends(h, g), NEW st, Walks(h, st), NEW s, Walks(g, s),
         NEW n \in Nat, n <= Len(st), n <= Len(s), SameFrames(st, s, n),
         NEW e, e.declaration \in 1 .. Len(h), Housed(h, st, e),
         \/ n = Len(st)
         \/ /\ n = Len(st) - 1 /\ WellStacked(h, st)
            /\ h[st[Len(st)].id].kind = "block" => e.scope # st[Len(st)].scope
  PROVE  Housed(g, s, e)
<1>1. PICK f \in Blocks(h, st) : st[f].scope = e.scope /\ st[f].id = BlockIn(h, e.declaration)
  BY DEF Housed
<1>2. f \in 1 .. Len(st) /\ h[st[f].id].kind = "block" /\ Len(st) \in Nat
  BY DEF Blocks, Walks
<1>3. f \in 1 .. n
  <2>1. CASE n = Len(st)
    BY <1>2, <2>1
  <2>2. CASE n = Len(st) - 1 /\ (h[st[Len(st)].id].kind = "block" => e.scope # st[Len(st)].scope)
    <3>1. f # Len(st)
      BY <1>1, <1>2, <2>2
    <3> QED BY <1>2, <2>2, <3>1
  <2> QED BY <2>1, <2>2
<1>4. f \in Blocks(g, s)
  BY <1>3, RanksStay
<1>5. s[f].scope = e.scope /\ s[f].id = BlockIn(h, e.declaration)
  BY <1>1, <1>3 DEF SameFrames
<1>6. BlockIn(g, e.declaration) = BlockIn(h, e.declaration)
  BY BlockInStable
<1> QED BY <1>4, <1>5, <1>6 DEF Housed

-----------------------------------------------------------------------------
(* The registry of the open blocks.                                        *)

BlockInv ==
  /\ TreeOK(heap) /\ KidsOK(heap) /\ WellStacked(heap, stack)
  /\ phase \in {"walk", "done"} => currentScope = Rank(Blocks(heap, stack), Len(stack))
  /\ \A k \in 1 .. Len(registry) : registry[k].declaration # Null => Housed(heap, stack, registry[k])

\* Together with the types this is the property.
LEMMA BlockInvProperty ==
  ASSUME TypeInv, BlockInv
  PROVE  RegistryOfOpenBlocks
<1>1. Walks(heap, stack) /\ DOMAIN registry = 1 .. Len(registry) /\ DOMAIN stack = 1 .. Len(stack)
  BY DEF TypeInv, StackFits, FrameFits, Walks
<1>2. BlockFrames = Blocks(heap, stack)
  BY <1>1 DEF BlockFrames, Blocks
<1>3. phase \in {"walk", "done"} => currentScope = Cardinality(BlockFrames)
  BY <1>1, <1>2, BlocksArePlaces DEF BlockInv
<1>4. \A f \in BlockFrames : stack[f].scope = Cardinality({g \in BlockFrames : g <= f})
  BY <1>2 DEF BlockInv, WellStacked, Rank, Blocks
<1>5. \A k \in DOMAIN registry : registry[k].declaration # Null =>
         \E f \in BlockFrames : stack[f].scope = registry[k].scope /\ stack[f].id = BlockOf(registry[k].declaration)
  BY <1>1, <1>2, BlockOfIsIn DEF BlockInv, Housed
<1> QED BY <1>3, <1>4, <1>5 DEF RegistryOfOpenBlocks

\* A typed stack walks statements.
LEMMA TypeInvWalks ==
  /\ TypeInv => Walks(heap, stack) /\ stack \in Seq(FrameOf(registry)) /\ Len(heap) \in Nat
  /\ TypeInv' => Walks(heap', stack') /\ stack' \in Seq(FrameOf(registry')) /\ Len(heap') \in Nat
BY DEF TypeInv, StackFits, FrameFits, Walks

\* SetTop keeps what the frames walk.
LEMMA SetTopFrames ==
  ASSUME TypeInv, phase = "walk", NEW fr, fr.id = Top.id, fr.scope = Top.scope, stack' = SetTop(fr)
  PROVE  Len(stack') = Len(stack) /\ SameFrames(stack, stack', Len(stack))
<1>1. stack \in Seq(FrameOf(registry)) /\ stack # << >> /\ Len(stack) \in Nat /\ Top = stack[Len(stack)]
  BY TopIs, TypeInvWalks DEF Top
<1>2. /\ Len(stack') = Len(stack)
      /\ \A f \in 1 .. Len(stack) : stack'[f] = IF f = Len(stack) THEN fr ELSE stack[f]
  BY <1>1, WithTopIs DEF SetTop
<1>3. \A f \in 1 .. Len(stack) : stack'[f].id = stack[f].id /\ stack'[f].scope = stack[f].scope
  <2> TAKE f \in 1 .. Len(stack)
  <2>1. CASE f = Len(stack)
    BY <1>1, <1>2, <2>1
  <2>2. CASE f # Len(stack)
    BY <1>2, <2>2
  <2> QED BY <2>1, <2>2
<1> QED BY <1>2, <1>3 DEF SameFrames

\* A step that opens and closes no block.
LEMMA BlockInvStays ==
  ASSUME TypeInv, TypeInv', BlockInv, phase = "walk", Extends(heap, heap'), TreeOK(heap'), KidsOK(heap'),
         Len(stack') = Len(stack), SameFrames(stack, stack', Len(stack)), currentScope' = currentScope,
         registry' \in Seq(EntryType(Len(heap))),
         \A k \in 1 .. Len(registry') : registry'[k].declaration # Null => Housed(heap, stack, registry'[k])
  PROVE  BlockInv'
<1>1. /\ Walks(heap, stack) /\ Walks(heap', stack') /\ Len(stack) \in Nat
      /\ heap \in Seq(NodeType(Len(heap))) /\ heap' \in Seq(NodeType(Len(heap')))
      /\ stack' \in Seq(FrameOf(registry')) /\ TreeOK(heap) /\ WellStacked(heap, stack) /\ Len(heap) \in Nat
  BY TypeInvWalks DEF TypeInv, BlockInv, Walks
<1>2. WellStacked(heap', stack')
  <2>1. stack' = << >> <=> Len(stack') = 0
    BY <1>1
  <2> QED BY <1>1, <2>1, WellStackedStays
<1>3. Rank(Blocks(heap', stack'), Len(stack')) = Rank(Blocks(heap, stack), Len(stack))
  <2>1. Len(stack) \in 0 .. Len(stack)
    BY <1>1
  <2> QED BY <1>1, <2>1, RanksStay
<1>4. currentScope' = Rank(Blocks(heap', stack'), Len(stack'))
  BY <1>3 DEF BlockInv
<1>5. ASSUME NEW k \in 1 .. Len(registry'), registry'[k].declaration # Null
      PROVE  Housed(heap', stack', registry'[k])
  <2>1. registry'[k] \in EntryType(Len(heap))
    OBVIOUS
  <2>2. registry'[k].declaration \in 1 .. Len(heap)
    BY SMTT(40), <1>1, <1>5, <2>1 DEF EntryType, Null
  <2>3. Housed(heap, stack, registry'[k])
    BY <1>5
  <2> QED BY <1>1, <2>2, <2>3, HousedStays
<1> QED BY <1>2, <1>4, <1>5 DEF BlockInv

\* Entries that were there have their blocks.
LEMMA OldHoused ==
  ASSUME BlockInv, NEW e, NEW p \in 1 .. Len(registry), SameEntry(registry[p], e), e.declaration # Null
  PROVE  Housed(heap, stack, e)
BY DEF BlockInv, Housed, SameEntry

\* The walk visits a kid of the statement on top.
LEMMA VisitedParent ==
  ASSUME TypeInv, BlockInv, NEW kinds, Visiting(kinds)
  PROVE  heap[Visited].parent = Top.id
<1>1. /\ phase = "walk" /\ Top.i + 1 \in 1 .. Len(Kids) /\ Visited = Kids[Top.i + 1] /\ Visited \in 1 .. Len(heap)
  BY VisitedIs
<1>2. Top.id \in 1 .. Len(heap)
  BY <1>1, TopIs
<1> QED BY SMTT(40), <1>1, <1>2 DEF BlockInv, KidsOK, Kids, Null

\* A declaration has the block it is visited in.
LEMMA NewHoused ==
  ASSUME TypeInv, BlockInv, NEW kinds, Visiting(kinds), NEW e,
         e.declaration = Visited, e.scope = currentScope
  PROVE  Housed(heap, stack, e)
<1>1. /\ phase = "walk" /\ Top.i + 1 \in 1 .. Len(Kids) /\ Visited = Kids[Top.i + 1] /\ Visited \in 1 .. Len(heap)
  BY VisitedIs
<1>2. /\ Walks(heap, stack) /\ Len(stack) \in 1 .. Len(stack) /\ Len(heap) \in Nat
      /\ heap \in Seq(NodeType(Len(heap))) /\ TreeOK(heap) /\ WellStacked(heap, stack)
      /\ Top.id \in 1 .. Len(heap)
  BY <1>1, TopIs, TypeInvWalks DEF TypeInv, BlockInv
<1>3. heap[Visited].parent = Top.id
  BY VisitedParent
<1>4. Visited \in 2 .. Len(heap)
  <2>1. Visited # 1
    BY <1>2, <1>3 DEF TreeOK, Null
  <2> QED BY <1>1, <1>2, <2>1
<1>5. BlockIn(heap, Visited) = Inner(heap, Top.id)
  BY <1>2, <1>3, <1>4, BlockInStep DEF Inner
<1>6. PICK b \in Blocks(heap, stack) : stack[b].scope = Top.scope /\ stack[b].id = Inner(heap, Top.id)
  BY <1>2, InnermostIs DEF Top
<1>7. Top.scope = currentScope
  BY <1>1, <1>2 DEF BlockInv, WellStacked, Top
<1> QED BY <1>5, <1>6, <1>7 DEF Housed

\* A block or a branch statement is entered.
LEMMA BlockInvPush ==
  ASSUME TypeInv, TypeInv', BlockInv, NEW kinds, Visiting(kinds), NEW sc, UNCHANGED <<heap, phase>>,
         stack' = Append(Step(stack), Frame(Visited, sc)), currentScope' = sc,
         sc = IF heap[Visited].kind = "block" THEN currentScope + 1 ELSE currentScope,
         registry' \in Seq(EntryType(Len(heap))),
         \A k \in 1 .. Len(registry') : registry'[k].declaration # Null => Housed(heap, stack, registry'[k])
  PROVE  BlockInv'
<1>1. /\ phase = "walk" /\ Top.i + 1 \in 1 .. Len(Kids) /\ Visited = Kids[Top.i + 1] /\ Visited \in 1 .. Len(heap)
  BY VisitedIs
<1>2. /\ Walks(heap, stack) /\ Walks(heap, stack') /\ Len(stack) \in Nat /\ Len(stack) >= 1 /\ Len(heap) \in Nat
      /\ heap \in Seq(NodeType(Len(heap))) /\ TreeOK(heap) /\ WellStacked(heap, stack) /\ stack # << >>
      /\ Top.id \in 1 .. Len(heap) /\ stack \in Seq(FrameOf(registry))
  BY <1>1, TopIs, TypeInvWalks DEF TypeInv, BlockInv
<1>3. heap[Visited].parent = Top.id
  BY VisitedParent
<1> DEFINE fr == [Top EXCEPT !.i = @ + 1]
           st == SetTop(fr)
<1>4. Step(stack) = st /\ fr \in FrameOf(registry) /\ SameWalk(Top, fr)
  BY <1>1, StepIs
<1> HIDE DEF fr
<1>5. st \in Seq(FrameOf(registry)) /\ Len(st) = Len(stack)
      /\ \A f \in 1 .. Len(stack) : st[f] = IF f = Len(stack) THEN fr ELSE stack[f]
  <2>1. st = [stack EXCEPT ![Len(stack)] = fr]
    BY DEF SetTop, WithTop
  <2>2. Len(stack) \in 1 .. Len(stack)
    BY <1>2
  <2> HIDE DEF st
  <2> QED BY <1>2, <1>4, <2>1, <2>2
<1> HIDE DEF st
<1>6. /\ Len(stack') = Len(stack) + 1 /\ stack'[Len(stack) + 1] = Frame(Visited, sc)
      /\ \A f \in 1 .. Len(stack) : stack'[f] = st[f]
  <2>1. stack' = Append(st, Frame(Visited, sc))
    BY <1>4
  <2> QED BY <1>2, <1>5, <2>1
<1>7. SameFrames(stack, stack', Len(stack))
  <2> SUFFICES ASSUME NEW f \in 1 .. Len(stack)
               PROVE  stack'[f].id = stack[f].id /\ stack'[f].scope = stack[f].scope
    BY DEF SameFrames
  <2>1. CASE f = Len(stack)
    BY <1>4, <1>5, <1>6, <2>1 DEF SameWalk, Top
  <2>2. CASE f # Len(stack)
    BY <1>5, <1>6, <2>2
  <2> QED BY <2>1, <2>2
<1>8. stack'[Len(stack')].id = Visited /\ stack'[Len(stack')].scope = sc
  BY <1>6 DEF Frame
<1>9. currentScope = Rank(Blocks(heap, stack), Len(stack))
  BY <1>1 DEF BlockInv
<1>10. /\ WellStacked(heap, stack')
       /\ Rank(Blocks(heap, stack'), Len(stack')) = sc
  <2>1. heap[stack'[Len(stack')].id].parent = stack[Len(stack)].id
    BY <1>3, <1>8 DEF Top
  <2>2. stack'[Len(stack')].scope = IF heap[stack'[Len(stack')].id].kind = "block"
                                    THEN Rank(Blocks(heap, stack), Len(stack)) + 1
                                    ELSE Rank(Blocks(heap, stack), Len(stack))
    BY <1>8, <1>9
  <2>3. Len(stack') = Len(stack) + 1
    BY <1>6
  <2> QED BY <1>2, <1>7, <1>8, <2>1, <2>2, <2>3, WellStackedPush
<1>11. ASSUME NEW k \in 1 .. Len(registry'), registry'[k].declaration # Null
       PROVE  Housed(heap, stack', registry'[k])
  <2>1. registry'[k] \in EntryType(Len(heap))
    OBVIOUS
  <2>2. registry'[k].declaration \in 1 .. Len(heap)
    BY SMTT(40), <1>2, <1>11, <2>1 DEF EntryType, Null
  <2>3. Housed(heap, stack, registry'[k])
    BY <1>11
  <2>4. Extends(heap, heap)
    BY <1>2 DEF Extends, SameNode
  <2>5. Len(stack) <= Len(stack) /\ Len(stack) <= Len(stack')
    BY <1>2, <1>6
  <2> HIDE DEF fr, st
  <2> QED BY <1>2, <1>7, <2>2, <2>3, <2>4, <2>5, HousedStays
<1> QED BY <1>10, <1>11 DEF BlockInv

\* The top activation returns.
LEMMA BlockInvPop ==
  ASSUME TypeInv, TypeInv', BlockInv, phase = "walk", Extends(heap, heap'), TreeOK(heap'), KidsOK(heap'),
         stack' = Under, currentScope' = IF Here = "block" THEN currentScope - 1 ELSE currentScope,
         registry' \in Seq(EntryType(Len(heap))),
         \A k \in 1 .. Len(registry') : registry'[k].declaration # Null =>
            Housed(heap, stack, registry'[k]) /\ (Here = "block" => registry'[k].scope # Top.scope)
  PROVE  BlockInv'
<1> DEFINE n == Len(stack) - 1
<1>1. /\ Walks(heap, stack) /\ Walks(heap', stack') /\ Len(heap) \in Nat /\ Len(heap') \in Nat
      /\ heap \in Seq(NodeType(Len(heap))) /\ heap' \in Seq(NodeType(Len(heap')))
      /\ stack' \in Seq(FrameOf(registry')) /\ TreeOK(heap) /\ WellStacked(heap, stack)
      /\ stack # << >>
  BY TypeInvWalks, TopIs DEF TypeInv, BlockInv
<1>2. /\ Len(stack) \in Nat /\ Len(stack) >= 1 /\ Len(stack') = n /\ n \in Nat
      /\ \A f \in 1 .. n : stack'[f] = stack[f]
  BY <1>1, UnderIs
<1>3. SameFrames(stack, stack', n)
  BY <1>2 DEF SameFrames
<1>4. WellStacked(heap', stack')
  <2>1. stack' = << >> <=> Len(stack') = 0
    BY <1>1
  <2> HIDE DEF n
  <2>2. Len(stack') <= Len(stack)
    BY <1>2 DEF n
  <2> QED BY <1>1, <1>2, <1>3, <2>1, <2>2, WellStackedStays
<1>5. Rank(Blocks(heap', stack'), n) = Rank(Blocks(heap, stack), n)
  <2>1. n \in 0 .. n /\ n <= Len(stack) /\ n <= Len(stack')
    BY <1>2
  <2> HIDE DEF n
  <2> QED BY <1>1, <1>2, <1>3, <2>1, RanksStay
<1>6. /\ Rank(Blocks(heap, stack), n) \in Nat
      /\ Rank(Blocks(heap, stack), Len(stack)) = IF Here = "block" THEN Rank(Blocks(heap, stack), n) + 1
                                                 ELSE Rank(Blocks(heap, stack), n)
  <2>1. Len(stack) \in 1 .. Len(stack) /\ n \in 0 .. Len(stack)
    BY <1>2
  <2> QED BY <1>1, <2>1, BlocksArePlaces DEF Here, Top
<1>7. currentScope = Rank(Blocks(heap, stack), Len(stack))
  BY DEF BlockInv
<1>8. currentScope' = Rank(Blocks(heap', stack'), Len(stack'))
  <2> HIDE DEF n
  <2> QED BY <1>2, <1>5, <1>6, <1>7
<1>9. ASSUME NEW k \in 1 .. Len(registry'), registry'[k].declaration # Null
      PROVE  Housed(heap', stack', registry'[k])
  <2>1. registry'[k] \in EntryType(Len(heap))
    OBVIOUS
  <2>2. registry'[k].declaration \in 1 .. Len(heap)
    BY SMTT(40), <1>1, <1>9, <2>1 DEF EntryType, Null
  <2>3. Housed(heap, stack, registry'[k])
    BY <1>9
  <2>4. heap[stack[Len(stack)].id].kind = "block" => registry'[k].scope # stack[Len(stack)].scope
    BY <1>9 DEF Here, Top
  <2>5. n <= Len(stack) /\ n <= Len(stack') /\ n = Len(stack) - 1
    BY <1>2
  <2> HIDE DEF n
  <2> QED BY <1>1, <1>2, <1>3, <2>2, <2>3, <2>4, <2>5, HousedStays
<1> QED BY <1>4, <1>8, <1>9 DEF BlockInv

\* Other kids for the statement on top.
LEMMA WithKidsTree ==
  ASSUME heap \in Seq(NodeType(Len(heap))), NEW id \in 1 .. Len(heap), NEW K \in Seq(0 .. Len(heap)),
         heap' = WithKids(heap, id, K),
         \A k \in 1 .. Len(K) : K[k] = Null \/ \E j \in 1 .. Len(heap[id].kids) : K[k] = heap[id].kids[j]
  PROVE  TreeStep(id)
<1>1. /\ heap' \in Seq(NodeType(Len(heap'))) /\ Len(heap') = Len(heap) /\ Extends(heap, heap')
      /\ \A n \in 1 .. Len(heap) : heap'[n].kids = IF n = id THEN K ELSE heap[n].kids
  BY HeapWithKids
<1>2. heap'[id].kids = K
  BY <1>1
<1>3. \A k \in 1 .. Len(heap'[id].kids) :
         heap'[id].kids[k] = Null \/ \E j \in 1 .. Len(heap[id].kids) : heap'[id].kids[k] = heap[id].kids[j]
  BY <1>2
<1>4. \A n \in 1 .. Len(heap) : n # id => heap'[n].kids = heap[n].kids
  BY <1>1
<1> QED BY <1>1, <1>3, <1>4 DEF TreeStep

\* A new kid for it.
LEMMA GrownTree ==
  ASSUME heap \in Seq(NodeType(Len(heap))), NEW id \in 1 .. Len(heap), NEW K \in Seq(0 .. Len(heap) + 1),
         NEW node \in NodeType(Len(heap) + 1), node.parent = id, node.kids = << >>,
         heap' = Grown(heap, id, K, node),
         \A k \in 1 .. Len(K) : \/ K[k] = Len(heap) + 1
                                \/ \E j \in 1 .. Len(heap[id].kids) : K[k] = heap[id].kids[j]
  PROVE  TreeStep(id)
<1>1. /\ heap' \in Seq(NodeType(Len(heap'))) /\ Len(heap') = Len(heap) + 1 /\ Extends(heap, heap')
      /\ \A n \in 1 .. Len(heap) : heap'[n].kids = IF n = id THEN K ELSE heap[n].kids
      /\ heap'[Len(heap) + 1] = node
  BY HeapGrown
<1>2. heap'[id].kids = K
  BY <1>1
<1>3. \A k \in 1 .. Len(heap'[id].kids) :
         \/ heap'[id].kids[k] = Len(heap) + 1
         \/ \E j \in 1 .. Len(heap[id].kids) : heap'[id].kids[k] = heap[id].kids[j]
  BY <1>2
<1>4. \A n \in 1 .. Len(heap) : n # id => heap'[n].kids = heap[n].kids
  BY <1>1
<1> QED BY <1>1, <1>3, <1>4 DEF TreeStep

\* What an insertion inserts.
LEMMA InsertAtElements ==
  ASSUME NEW S, NEW list \in Seq(S), NEW k \in 1 .. Len(list) + 1, NEW id \in S
  PROVE  \A j \in 1 .. Len(InsertAt(list, k, id)) :
            InsertAt(list, k, id)[j] = id \/ \E i \in 1 .. Len(list) : InsertAt(list, k, id)[j] = list[i]
<1> DEFINE r == InsertAt(list, k, id)
<1>1. /\ Len(r) = Len(list) + 1 /\ r[k] = id
      /\ \A j \in 1 .. k - 1 : r[j] = list[j]
      /\ \A j \in k .. Len(list) : r[j + 1] = list[j]
  BY InsertAtIs
<1> HIDE DEF r
<1>2. Len(list) \in Nat
  OBVIOUS
<1>3. ASSUME NEW j \in 1 .. Len(r)
      PROVE  r[j] = id \/ \E i \in 1 .. Len(list) : r[j] = list[i]
  <2>1. CASE j < k
    <3>1. j \in 1 .. k - 1 /\ j \in 1 .. Len(list)
      BY <1>1, <1>2, <2>1
    <3> QED BY <1>1, <3>1
  <2>2. CASE j = k
    BY <1>1, <2>2
  <2>3. CASE j > k
    <3>1. j - 1 \in k .. Len(list) /\ j - 1 \in 1 .. Len(list) /\ (j - 1) + 1 = j
      BY <1>1, <1>2, <2>3
    <3> QED BY <1>1, <3>1
  <2> QED BY SMTT(40), <1>1, <1>2, <2>1, <2>2, <2>3
<1> QED BY <1>3 DEF r

\* The tree after each step that changes the heap.
LEMMA RevealTree ==
  ASSUME TypeInv, BlockInv, NEW s \in Shapes, Reveal(s)
  PROVE  TreeOK(heap') /\ KidsOK(heap') /\ TreeStep(Top.id)
<1> DEFINE K == Append(Kids, Len(heap) + 1)
           node == Node(s, Top.id, TRUE)
<1>1. /\ phase = "walk" /\ Top.id \in 1 .. Len(heap) /\ K \in Seq(0 .. Len(heap) + 1)
      /\ node \in NodeType(Len(heap) + 1) /\ heap' = Grown(heap, Top.id, K, node)
  BY RevealIs
<1>2. node.parent = Top.id /\ node.kids = << >>
  BY DEF Node
<1>3. Kids \in Seq(0 .. Len(heap)) /\ Here \in Compound /\ heap \in Seq(NodeType(Len(heap)))
  BY <1>1, TopIs DEF TypeInv
<1>4. \A k \in 1 .. Len(K) : K[k] = Len(heap) + 1 \/ \E j \in 1 .. Len(Kids) : K[k] = Kids[j]
  BY <1>3
<1> HIDE DEF K, node
<1>5. TreeStep(Top.id)
  BY <1>1, <1>2, <1>3, <1>4, GrownTree DEF Kids
<1> QED BY <1>1, <1>3, <1>5, TreeStays DEF BlockInv, Here

\* The same for a null branch, which no tree is changed by.
LEMMA NullBranchTree ==
  ASSUME TypeInv, BlockInv, phase = "walk", Append(Kids, Null) \in Seq(0 .. Len(heap)),
         heap' = WithKids(heap, Top.id, Append(Kids, Null))
  PROVE  TreeOK(heap') /\ KidsOK(heap') /\ TreeStep(Top.id)
<1> DEFINE K == Append(Kids, Null)
<1>1. /\ Kids \in Seq(0 .. Len(heap)) /\ Here \in Compound /\ heap \in Seq(NodeType(Len(heap)))
      /\ Top.id \in 1 .. Len(heap)
  BY TopIs DEF TypeInv
<1>2. \A k \in 1 .. Len(K) : K[k] = Null \/ \E j \in 1 .. Len(Kids) : K[k] = Kids[j]
  BY <1>1
<1>3. TreeStep(Top.id)
  <2> HIDE DEF K
  <2>1. heap' = WithKids(heap, Top.id, K) /\ K \in Seq(0 .. Len(heap))
    BY DEF K
  <2> QED BY <1>1, <1>2, <2>1, WithKidsTree DEF Kids
<1> QED BY <1>1, <1>3, TreeStays DEF BlockInv, Here

\* A statement inserted into the vector on top.
LEMMA InsertTree ==
  ASSUME TypeInv, BlockInv, phase = "walk", NEW at, NEW x,
         at \in 1 .. Len(Kids) + 1, Node(Shape("unused", x), Top.id, FALSE) \in NodeType(Len(heap) + 1),
         InsertAt(Kids, at, Len(heap) + 1) \in Seq(0 .. Len(heap) + 1),
         heap' = Grown(heap, Top.id, InsertAt(Kids, at, Len(heap) + 1), Node(Shape("unused", x), Top.id, FALSE))
  PROVE  TreeOK(heap') /\ KidsOK(heap') /\ TreeStep(Top.id)
<1> DEFINE K == InsertAt(Kids, at, Len(heap) + 1)
           node == Node(Shape("unused", x), Top.id, FALSE)
<1>1. /\ Kids \in Seq(0 .. Len(heap)) /\ Here \in Compound /\ heap \in Seq(NodeType(Len(heap)))
      /\ Top.id \in 1 .. Len(heap) /\ Len(heap) \in Nat
  BY TopIs DEF TypeInv
<1>2. node.parent = Top.id /\ node.kids = << >>
  BY DEF Node
<1>3. \A k \in 1 .. Len(K) : K[k] = Len(heap) + 1 \/ \E j \in 1 .. Len(Kids) : K[k] = Kids[j]
  <2>1. Kids \in Seq(0 .. Len(heap) + 1) /\ Len(heap) + 1 \in 0 .. Len(heap) + 1
    <3>1. 0 .. Len(heap) \subseteq 0 .. Len(heap) + 1 /\ Len(heap) + 1 \in 0 .. Len(heap) + 1
      BY <1>1
    <3> QED BY <1>1, <3>1, SeqMonotonic
  <2> DEFINE S == 0 .. Len(heap) + 1
             new == Len(heap) + 1
  <2>2. Kids \in Seq(S) /\ new \in S /\ at \in 1 .. Len(Kids) + 1
    BY <2>1
  <2> HIDE DEF S, new
  <2>3. \A k \in 1 .. Len(InsertAt(Kids, at, new)) :
          InsertAt(Kids, at, new)[k] = new \/ \E j \in 1 .. Len(Kids) : InsertAt(Kids, at, new)[k] = Kids[j]
    BY <2>2, InsertAtElements
  <2> QED BY <2>3 DEF new
<1>4. heap' = Grown(heap, Top.id, K, node) /\ K \in Seq(0 .. Len(heap) + 1) /\ node \in NodeType(Len(heap) + 1)
  OBVIOUS
<1> HIDE DEF K, node
<1>5. TreeStep(Top.id)
  BY <1>1, <1>2, <1>3, <1>4, GrownTree DEF Kids
<1> QED BY <1>1, <1>5, TreeStays DEF BlockInv, Here

\* A statement of the vector on top is nulled.
LEMMA NullTree ==
  ASSUME TypeInv, BlockInv, phase = "walk", NEW at \in 1 .. Len(Kids),
         [Kids EXCEPT ![at] = Null] \in Seq(0 .. Len(heap)),
         heap' = WithKids(heap, Top.id, [Kids EXCEPT ![at] = Null])
  PROVE  TreeOK(heap') /\ KidsOK(heap') /\ TreeStep(Top.id)
<1> DEFINE K == [Kids EXCEPT ![at] = Null]
<1>1. /\ Kids \in Seq(0 .. Len(heap)) /\ Here \in Compound /\ heap \in Seq(NodeType(Len(heap)))
      /\ Top.id \in 1 .. Len(heap)
  BY TopIs DEF TypeInv
<1>2. \A k \in 1 .. Len(K) : K[k] = Null \/ \E j \in 1 .. Len(Kids) : K[k] = Kids[j]
  BY <1>1
<1>3. heap' = WithKids(heap, Top.id, K) /\ K \in Seq(0 .. Len(heap))
  OBVIOUS
<1> HIDE DEF K
<1>4. TreeStep(Top.id)
  BY <1>1, <1>2, <1>3, WithKidsTree DEF Kids
<1> QED BY <1>1, <1>4, TreeStays DEF BlockInv, Here

\* Leaving a block.
LEMMA LeaveBlockIs ==
  ASSUME TypeInv, BlockInv, LeaveBlock
  PROVE  LET K == Keep(Kids, {k \in DOMAIN Kids : Kids[k] # Null})
         IN  /\ phase = "walk" /\ Top.leaving /\ Top.pending = << >> /\ Here = "block"
             /\ heap' = WithKids(heap, Top.id, K) /\ K \in Seq(0 .. Len(heap))
             /\ Selects(Kids, {k \in DOMAIN Kids : Kids[k] # Null}, K)
             /\ registry' = RemoveScope(registry, Top.scope)
             /\ registry' \in Seq(EntryType(Len(heap)))
             /\ currentScope' = currentScope - 1 /\ currentScope' \in Nat
             /\ stack' = Under
             /\ phase' = IF Len(stack) = 1 THEN "done" ELSE "walk"
             /\ UNCHANGED <<options, freed>>
             /\ heap' \in Seq(NodeType(Len(heap'))) /\ Extends(heap, heap')
             /\ TreeOK(heap') /\ KidsOK(heap') /\ TreeStep(Top.id)
<1> DEFINE L == {k \in DOMAIN Kids : Kids[k] # Null}
           K == Keep(Kids, L)
<1>1. /\ phase = "walk" /\ Top.leaving /\ Top.pending = << >>
      /\ heap' = [heap EXCEPT ![Top.id].kids = Keep(@, {k \in DOMAIN @ : @[k] # Null})]
      /\ registry' = RemoveScope(registry, Top.scope)
      /\ currentScope' = IF currentScope = Top.scope THEN currentScope - 1 ELSE currentScope
      /\ stack' = Under
      /\ phase' = IF Len(stack) = 1 THEN "done" ELSE "walk"
      /\ UNCHANGED <<options, freed>>
  BY DEF LeaveBlock
<1>2. /\ Kids \in Seq(0 .. Len(heap)) /\ Here \in Compound /\ heap \in Seq(NodeType(Len(heap)))
      /\ Top.id \in 1 .. Len(heap) /\ Len(heap) \in Nat /\ FrameFits(heap, registry, Top)
      /\ Len(stack) \in Nat /\ Len(stack) >= 1
  BY <1>1, TopIs DEF TypeInv
<1>3. Here = "block"
  BY <1>1, <1>2 DEF FrameFits, Here
<1>4. heap' = WithKids(heap, Top.id, K)
  BY <1>1 DEF WithKids, Kids
<1>5. K \in Seq(0 .. Len(heap)) /\ Selects(Kids, L, K)
  <2>1. L \subseteq DOMAIN Kids
    OBVIOUS
  <2> HIDE DEF L
  <2> QED BY <1>2, <2>1, KeepSeq
<1>6. registry' \in Seq(EntryType(Len(heap)))
  BY <1>1, <1>2, RemoveIs DEF TypeInv
<1>7. currentScope' = currentScope - 1 /\ currentScope' \in Nat
  <2>1. Walks(heap, stack) /\ Len(stack) \in 1 .. Len(stack) /\ Len(stack) - 1 \in 0 .. Len(stack)
    BY <1>2, TypeInvWalks
  <2>2. Rank(Blocks(heap, stack), Len(stack)) = Rank(Blocks(heap, stack), Len(stack) - 1) + 1
        /\ Rank(Blocks(heap, stack), Len(stack) - 1) \in Nat
    BY <1>3, <2>1, BlocksArePlaces DEF Here, Top
  <2>3. currentScope = Rank(Blocks(heap, stack), Len(stack)) /\ Top.scope = currentScope
    BY <1>1, <2>1 DEF BlockInv, WellStacked, Top
  <2> QED BY <1>1, <2>2, <2>3
<1>8. \A k \in 1 .. Len(K) : K[k] = Null \/ \E j \in 1 .. Len(Kids) : K[k] = Kids[j]
  <2>1. DOMAIN K = 1 .. Len(K) /\ DOMAIN Kids = 1 .. Len(Kids)
    BY <1>2, <1>5
  <2> HIDE DEF K
  <2> QED BY <1>5, <2>1 DEF Selects
<1> HIDE DEF K
<1>9. heap' \in Seq(NodeType(Len(heap'))) /\ Extends(heap, heap')
  BY <1>2, <1>4, <1>5, HeapWithKids
<1>10. TreeStep(Top.id)
  BY <1>2, <1>4, <1>5, <1>8, WithKidsTree DEF Kids
<1>11. TreeOK(heap') /\ KidsOK(heap')
  BY <1>2, <1>10, TreeStays DEF BlockInv, Here
<1> QED BY <1>1, <1>3, <1>4, <1>5, <1>6, <1>7, <1>9, <1>10, <1>11 DEF K

\* Leaving a block keeps the types.
LEMMA LeaveBlockTypes ==
  ASSUME TypeInv, BlockInv, LeaveBlock
  PROVE  TypeInv'
<1>1. /\ phase = "walk" /\ stack' = Under /\ UNCHANGED <<options, freed>>
      /\ heap' \in Seq(NodeType(Len(heap'))) /\ Extends(heap, heap')
      /\ registry' \in Seq(EntryType(Len(heap))) /\ currentScope' \in Nat
      /\ phase' = IF Len(stack) = 1 THEN "done" ELSE "walk"
  BY LeaveBlockIs
<1> QED BY <1>1, LeaveTypes DEF Phases

\* Leaving the branches of a statement keeps the types: it is not the program.
LEMMA LeaveBranchesTypes ==
  ASSUME TypeInv, BlockInv, LeaveBranches
  PROVE  TypeInv'
<1>1. /\ phase = "walk" /\ Here # "block" /\ stack' = Under
      /\ UNCHANGED <<options, heap, freed, registry, currentScope, phase>>
  BY DEF LeaveBranches
<1>2. Len(stack) # 1
  BY <1>1, TopIs DEF BlockInv, WellStacked, TreeOK, Here, Top
<1>3. Extends(heap, heap') /\ heap' \in Seq(NodeType(Len(heap')))
  BY <1>1, HeapSame DEF TypeInv
<1> QED BY <1>1, <1>2, <1>3, LeaveTypes DEF TypeInv

-----------------------------------------------------------------------------
(* The registry and remainingVars, step by step.                           *)

\* All entries have a declaration, in an open block.
Entries(r) == \A k \in 1 .. Len(r) : r[k].declaration # Null /\ Housed(heap, stack, r[k])

\* While no block is being left nothing has lost its declaration.
LEMMA EntriesNow ==
  ASSUME TypeInv, BlockInv, PendInv, stack # << >>, ~Top.leaving
  PROVE  Entries(registry)
<1>1. DOMAIN registry = 1 .. Len(registry)
  BY DEF TypeInv
<1> QED BY <1>1 DEF BlockInv, PendInv, Entries

\* An entry with the same declaration and scope has the same block.
LEMMA SameHoused ==
  ASSUME NEW h, NEW st, NEW x, NEW y, SameEntry(x, y), Housed(h, st, x)
  PROVE  Housed(h, st, y)
BY DEF SameEntry, Housed

\* Usages change no entry's block.
LEMMA EntriesUsed ==
  ASSUME NEW m \in Nat, NEW r \in Seq(EntryType(m)), Entries(r), NEW names, NEW id \in 1 .. m
  PROVE  Entries(UsedVariables(r, names, id))
<1> DEFINE u == UsedVariables(r, names, id)
<1>1. Len(u) = Len(r) /\ \A k \in 1 .. Len(r) : SameEntry(r[k], u[k])
  BY UsedVariablesIs
<1> HIDE DEF u
<1>2. ASSUME NEW k \in 1 .. Len(u)
      PROVE  u[k].declaration # Null /\ Housed(heap, stack, u[k])
  <2>1. SameEntry(r[k], u[k]) /\ r[k].declaration # Null /\ Housed(heap, stack, r[k])
    BY <1>1 DEF Entries
  <2>2. u[k].declaration = r[k].declaration
    BY <2>1 DEF SameEntry
  <2> QED BY <2>1, <2>2, SameHoused
<1> QED BY <1>2 DEF Entries, u

\* So does the removal of a variable.
LEMMA EntriesRemoved ==
  ASSUME NEW m \in Nat, NEW r \in Seq(EntryType(m)), Entries(r), NEW x
  PROVE  Entries(RemoveVariable(r, x))
<1> DEFINE q == RemoveVariable(r, x)
<1>1. q \in Seq(EntryType(m)) /\ Selects(r, {k \in DOMAIN r : r[k].name # x}, q)
  BY RemoveIs
<1> HIDE DEF q
<1>2. DOMAIN q = 1 .. Len(q) /\ DOMAIN r = 1 .. Len(r)
  BY <1>1
<1>3. \A k \in 1 .. Len(q) : \E p \in 1 .. Len(r) : q[k] = r[p]
  BY <1>1, <1>2 DEF Selects
<1>4. Entries(q)
  BY <1>3 DEF Entries
<1> QED BY <1>4 DEF q

\* And the entry for the statement that is visited has its block.
LEMMA EntriesAppended ==
  ASSUME TypeInv, BlockInv, NEW kinds, Visiting(kinds),
         NEW m \in Nat, NEW r \in Seq(EntryType(m)), Entries(r),
         NEW e, e \in EntryType(m), e.declaration = Visited, e.scope = currentScope
  PROVE  Entries(Append(r, e))
<1> DEFINE a == Append(r, e)
<1>1. Len(r) \in Nat /\ Len(a) = Len(r) + 1 /\ a[Len(r) + 1] = e /\ \A k \in 1 .. Len(r) : a[k] = r[k]
  BY AppendIs
<1> HIDE DEF a
<1>2. Visited \in 1 .. Len(heap) /\ Housed(heap, stack, e)
  BY VisitedIs, NewHoused
<1>3. ASSUME NEW k \in 1 .. Len(a)
      PROVE  a[k].declaration # Null /\ Housed(heap, stack, a[k])
  <2>1. CASE k \in 1 .. Len(r)
    BY <1>1, <2>1 DEF Entries
  <2>2. CASE k = Len(r) + 1
    BY <1>1, <1>2, <2>2 DEF Null
  <2> QED BY <1>1, <2>1, <2>2
<1> QED BY <1>3 DEF Entries, a

\* A declaration.
LEMMA EntriesDeclared ==
  ASSUME TypeInv, BlockInv, NEW kinds, Visiting(kinds),
         NEW r \in Seq(EntryType(Len(heap))), Entries(r)
  PROVE  Entries(Declare(r, Visited))
<1> DEFINE e == Entry(heap[Visited].name, Visited, heap[Visited].auto)
<1>1. /\ Visited \in 1 .. Len(heap) /\ Visited \in 0 .. Len(heap) /\ heap[Visited] \in NodeType(Len(heap))
      /\ Len(heap) \in Nat /\ currentScope \in Nat
  BY VisitedIs, TopIs DEF TypeInv
<1>2. e \in EntryType(Len(heap)) /\ e.declaration = Visited /\ e.scope = currentScope
  <2>1. heap[Visited].name \in Names /\ heap[Visited].auto \in BOOLEAN
    BY <1>1 DEF NodeType
  <2> QED BY <1>1, <2>1, EntryIs DEF Entry
<1>3. Declare(r, Visited) = UsedVariables(Append(r, e), heap[Visited].uses, Visited)
  BY DEF Declare
<1> HIDE DEF e
<1>4. Append(r, e) \in Seq(EntryType(Len(heap))) /\ Entries(Append(r, e))
  BY <1>1, <1>2, AppendIs, EntriesAppended
<1> QED BY <1>1, <1>3, <1>4, EntriesUsed

\* Without anything that lost its declaration there is nothing pending.
LEMMA PendClear ==
  ASSUME TypeInv', \A k \in 1 .. Len(registry') : registry'[k].declaration # Null,
         stack' # << >> => ~stack'[Len(stack')].leaving
  PROVE  PendInv'
<1>1. DOMAIN registry' = 1 .. Len(registry')
  BY DEF TypeInv
<1>2. ASSUME stack' # << >>
      PROVE  Top'.pending = << >>
  <2>1. stack' \in Seq(FrameOf(registry'))
    BY DEF TypeInv, StackFits
  <2>2. Len(stack') \in 1 .. Len(stack')
    BY <1>2, <2>1
  <2>3. FrameFits(heap', registry', stack'[Len(stack')])
    BY <2>2 DEF TypeInv, StackFits
  <2> QED BY <1>2, <2>3 DEF FrameFits, Top
<1> QED BY <1>1, <1>2 DEF PendInv

\* A step of the walk that keeps its activations.
LEMMA VisitInv ==
  ASSUME TypeInv, TypeInv', BlockInv, phase = "walk", ~Top.leaving,
         Extends(heap, heap'), TreeOK(heap'), KidsOK(heap'),
         NEW fr, SameWalk(Top, fr), stack' = SetTop(fr), currentScope' = currentScope,
         registry' \in Seq(EntryType(Len(heap))), Entries(registry')
  PROVE  BlockInv' /\ PendInv'
<1>1. Len(stack') = Len(stack) /\ SameFrames(stack, stack', Len(stack))
  BY SetTopFrames DEF SameWalk
<1>2. \A k \in 1 .. Len(registry') : registry'[k].declaration # Null /\ Housed(heap, stack, registry'[k])
  BY DEF Entries
<1>3. BlockInv'
  BY <1>1, <1>2, BlockInvStays
<1>4. stack'[Len(stack')] = fr
  <2>1. stack \in Seq(FrameOf(registry)) /\ stack # << >> /\ Len(stack) \in 1 .. Len(stack)
    BY TopIs, TypeInvWalks
  <2>2. WithTop(stack, fr)[Len(stack)] = fr
    BY <2>1, WithTopIs
  <2> QED BY <1>1, <2>2 DEF SetTop
<1>5. ~stack'[Len(stack')].leaving
  BY <1>4 DEF SameWalk
<1> QED BY <1>2, <1>3, <1>5, PendClear

\* The inductive invariant.
WalkInv == TypeInv /\ PendInv /\ BlockInv

\* Reveal.
LEMMA RevealInv ==
  ASSUME WalkInv, NEW s \in Shapes, Reveal(s)
  PROVE  WalkInv'
<1> USE DEF WalkInv
<1>1. TypeInv'
  BY RevealTypes
<1>2. phase = "walk" /\ UNCHANGED <<options, freed, registry, currentScope, stack, phase>>
  BY RevealIs
<1>3. TreeOK(heap') /\ KidsOK(heap') /\ Extends(heap, heap')
  BY RevealTree DEF TreeStep
<1>4. \A k \in 1 .. Len(registry') : registry'[k].declaration # Null => Housed(heap, stack, registry'[k])
  BY <1>2 DEF BlockInv
<1>5. Len(stack') = Len(stack) /\ SameFrames(stack, stack', Len(stack))
  BY <1>2 DEF SameFrames
<1>6. registry' \in Seq(EntryType(Len(heap)))
  BY <1>2 DEF TypeInv
<1>7. BlockInv'
  BY <1>1, <1>2, <1>3, <1>4, <1>5, <1>6, BlockInvStays
<1>8. PendInv'
  BY <1>2 DEF PendInv, Top
<1> QED BY <1>1, <1>7, <1>8

\* RevealNothing.
LEMMA RevealNothingInv ==
  ASSUME WalkInv, RevealNothing
  PROVE  WalkInv'
<1> USE DEF WalkInv
<1>1. TypeInv'
  BY RevealNothingTypes
<1>2. phase = "walk" /\ UNCHANGED <<options, freed, registry, currentScope, phase>>
  BY RevealNothingIs
<1>3. registry' \in Seq(EntryType(Len(heap))) /\ stack # << >>
  BY <1>2, TopIs DEF TypeInv
<1>4. CASE Here = "block" /\ ~Top.leaving /\ UNCHANGED heap /\ stack' = SetTop([Top EXCEPT !.closed = TRUE])
  <2>1. Entries(registry')
    BY <1>2, <1>3, <1>4, EntriesNow DEF Entries
  <2>2. Extends(heap, heap') /\ TreeOK(heap') /\ KidsOK(heap')
    BY <1>4, HeapSame DEF TypeInv, BlockInv
  <2>3. SameWalk(Top, [Top EXCEPT !.closed = TRUE])
    <3>1. Top \in FrameOf(registry)
      BY <1>2, TopIs
    <3> QED BY <3>1 DEF FrameOf, SameWalk
  <2> QED BY <1>1, <1>2, <1>3, <1>4, <2>1, <2>2, <2>3, VisitInv
<1>5. CASE /\ Here # "block" /\ UNCHANGED stack
           /\ Append(Kids, Null) \in Seq(0 .. Len(heap))
           /\ heap' = WithKids(heap, Top.id, Append(Kids, Null))
  <2>1. TreeOK(heap') /\ KidsOK(heap') /\ Extends(heap, heap')
    BY <1>2, <1>5, NullBranchTree DEF TreeStep
  <2>2. \A k \in 1 .. Len(registry') : registry'[k].declaration # Null => Housed(heap, stack, registry'[k])
    BY <1>2 DEF BlockInv
  <2>3. Len(stack') = Len(stack) /\ SameFrames(stack, stack', Len(stack))
    BY <1>5 DEF SameFrames
  <2>4. BlockInv'
    BY <1>1, <1>2, <1>3, <2>1, <2>2, <2>3, BlockInvStays
  <2>5. PendInv'
    BY <1>2, <1>5 DEF PendInv, Top
  <2> QED BY <1>1, <2>4, <2>5
<1> QED BY <1>4, <1>5, RevealNothingIs

\* A visit that leaves the heap alone.
LEMMA PlainVisitInv ==
  ASSUME WalkInv, TypeInv', phase = "walk", ~Top.leaving, UNCHANGED <<heap, currentScope>>, stack' = Step(stack),
         registry' \in Seq(EntryType(Len(heap))), Entries(registry')
  PROVE  WalkInv'
<1>1. Extends(heap, heap') /\ TreeOK(heap') /\ KidsOK(heap')
  BY HeapSame DEF WalkInv, TypeInv, BlockInv
<1>2. stack' = SetTop([Top EXCEPT !.i = @ + 1]) /\ SameWalk(Top, [Top EXCEPT !.i = @ + 1])
  BY StepIs DEF WalkInv
<1> QED BY <1>1, <1>2, VisitInv DEF WalkInv

\* Null.
LEMMA VisitNullInv ==
  ASSUME WalkInv, VisitNull
  PROVE  WalkInv'
<1>1. /\ phase = "walk" /\ ~Top.leaving /\ stack' = Step(stack)
      /\ UNCHANGED <<options, heap, freed, registry, currentScope, phase>>
  BY DEF VisitNull
<1>2. Entries(registry') /\ registry' \in Seq(EntryType(Len(heap)))
  BY <1>1, TopIs, EntriesNow DEF WalkInv, Entries, TypeInv
<1> QED BY <1>1, <1>2, VisitNullTypes, PlainVisitInv DEF WalkInv

\* A declaration.
LEMMA VisitDeclInv ==
  ASSUME WalkInv, VisitDecl
  PROVE  WalkInv'
<1>1. /\ Visiting({"decl"}) /\ registry' = Declare(registry, Visited) /\ stack' = Step(stack)
      /\ UNCHANGED <<heap, currentScope>>
  BY DEF VisitDecl
<1>2. /\ phase = "walk" /\ ~Top.leaving /\ Visited \in 1 .. Len(heap) /\ Len(heap) \in Nat
      /\ heap[Visited] \in NodeType(Len(heap)) /\ stack # << >>
      /\ registry \in Seq(EntryType(Len(heap))) /\ currentScope \in Nat
  BY <1>1, VisitedIs, TopIs DEF WalkInv, TypeInv
<1>3. Entries(registry)
  BY <1>2, EntriesNow DEF WalkInv
<1>4. Entries(registry') /\ registry' \in Seq(EntryType(Len(heap)))
  BY <1>1, <1>2, <1>3, EntriesDeclared, DeclareIs DEF WalkInv
<1> QED BY <1>1, <1>2, <1>4, VisitDeclTypes, PlainVisitInv DEF WalkInv

\* An expression statement.
LEMMA VisitExprInv ==
  ASSUME WalkInv, VisitExpr
  PROVE  WalkInv'
<1>1. /\ Visiting({"expr"}) /\ stack' = Step(stack) /\ UNCHANGED <<heap, currentScope>>
      /\ registry' = UsedVariables(registry, heap[Visited].uses, Visited)
  BY DEF VisitExpr
<1>2. /\ phase = "walk" /\ ~Top.leaving /\ Visited \in 1 .. Len(heap) /\ Len(heap) \in Nat
      /\ stack # << >> /\ registry \in Seq(EntryType(Len(heap)))
  BY <1>1, VisitedIs, TopIs DEF WalkInv, TypeInv
<1>3. Entries(registry)
  BY <1>2, EntriesNow DEF WalkInv
<1>4. Entries(registry') /\ registry' \in Seq(EntryType(Len(heap)))
  BY <1>1, <1>2, <1>3, EntriesUsed, UsedVariablesIs
<1> QED BY <1>1, <1>2, <1>4, VisitExprTypes, PlainVisitInv DEF WalkInv

\* "unused x".
LEMMA VisitUnusedInv ==
  ASSUME WalkInv, VisitUnused
  PROVE  WalkInv'
<1>1. /\ Visiting({"unused"}) /\ stack' = Step(stack) /\ UNCHANGED <<heap, currentScope>>
      /\ registry' = RemoveVariable(registry, heap[Visited].name)
  BY DEF VisitUnused
<1>2. /\ phase = "walk" /\ ~Top.leaving /\ Len(heap) \in Nat
      /\ stack # << >> /\ registry \in Seq(EntryType(Len(heap)))
  BY <1>1, VisitedIs, TopIs DEF WalkInv, TypeInv
<1>3. Entries(registry)
  BY <1>2, EntriesNow DEF WalkInv
<1>4. Entries(registry') /\ registry' \in Seq(EntryType(Len(heap)))
  BY <1>1, <1>2, <1>3, EntriesRemoved, RemoveIs
<1> QED BY <1>1, <1>2, <1>4, VisitUnusedTypes, PlainVisitInv DEF WalkInv

\* An alias.
LEMMA VisitAliasInv ==
  ASSUME WalkInv, VisitAlias
  PROVE  WalkInv'
<1> DEFINE e == Entry(heap[Visited].name, Visited, FALSE)
<1>1. /\ Visiting({"alias"}) /\ stack' = Step(stack) /\ UNCHANGED <<heap, currentScope>>
      /\ registry' = registry \/ registry' = Append(registry, e)
  BY DEF VisitAlias
<1>2. /\ phase = "walk" /\ ~Top.leaving /\ Visited \in 0 .. Len(heap) /\ Len(heap) \in Nat
      /\ heap[Visited] \in NodeType(Len(heap)) /\ stack # << >>
      /\ registry \in Seq(EntryType(Len(heap))) /\ currentScope \in Nat
  BY <1>1, VisitedIs, TopIs DEF WalkInv, TypeInv
<1>3. Entries(registry)
  BY <1>2, EntriesNow DEF WalkInv
<1>4. e \in EntryType(Len(heap)) /\ e.declaration = Visited /\ e.scope = currentScope
  <2>1. heap[Visited].name \in Names /\ FALSE \in BOOLEAN
    BY <1>2 DEF NodeType
  <2> QED BY <1>2, <2>1, EntryIs DEF Entry
<1> HIDE DEF e
<1>5. Entries(Append(registry, e)) /\ Append(registry, e) \in Seq(EntryType(Len(heap)))
  BY <1>1, <1>2, <1>3, <1>4, EntriesAppended, AppendIs DEF WalkInv
<1>6. Entries(registry') /\ registry' \in Seq(EntryType(Len(heap)))
  BY <1>1, <1>2, <1>3, <1>5
<1> QED BY <1>1, <1>2, <1>6, VisitAliasTypes, PlainVisitInv DEF WalkInv

\* remainingVars are all the variables of the scope, each once.
LEMMA InScopeOnce ==
  ASSUME NEW S, NEW r \in Seq(S), NEW c
  PROVE  \A j, l \in DOMAIN GetVariablesInScope(r, c) :
            GetVariablesInScope(r, c)[j] = GetVariablesInScope(r, c)[l] => j = l
<1> DEFINE id == [k \in 1 .. Len(r) |-> k]
           K  == {k \in DOMAIN r : r[k].scope = c}
           N  == Cardinality(K)
           p  == GetVariablesInScope(r, c)
<1>1. Len(r) \in Nat /\ DOMAIN r = 1 .. Len(r) /\ \A k \in 1 .. Len(r) : id[k] = k
  OBVIOUS
<1>2. p = Keep(id, K) /\ Places(K, Len(r))
  <2>1. \A q \in K : q \in 1 .. Len(r)
    BY <1>1
  <2>2. Places(K, Len(r))
    BY <1>1, <2>1 DEF Places
  <2> QED BY <1>1, <2>2 DEF GetVariablesInScope
<1>3. \A k \in K : k \in 1 .. Len(r)
  BY <1>1
<1> HIDE DEF id, K, N
<1>4. PICK place : KeptBy(id, K, place)
  BY <1>1, <1>2, KeepPlaces
<1>5. /\ N \in Nat /\ place \in [1 .. N -> K] /\ p = [k \in 1 .. N |-> id[place[k]]]
      /\ \A j, k \in 1 .. N : j < k => place[j] < place[k]
  BY <1>1, <1>2, <1>4, KeepPlaces DEF KeptBy, N
<1> HIDE DEF p
<1>6. DOMAIN p = 1 .. N /\ \A k \in 1 .. N : p[k] = place[k] /\ place[k] \in 1 .. Len(r)
  <2>1. \A k \in 1 .. N : place[k] \in K
    BY <1>5
  <2> QED BY <1>1, <1>3, <1>5, <2>1
<1>7. ASSUME NEW j \in 1 .. N, NEW l \in 1 .. N, p[j] = p[l]
      PROVE  j = l
  <2>1. place[j] = place[l] /\ place[j] \in Nat
    BY <1>1, <1>6, <1>7
  <2>2. ~(j < l) /\ ~(l < j)
    BY <1>5, <2>1
  <2> QED BY <1>5, <2>2
<1> QED BY <1>6, <1>7 DEF p

\* A redeclaration.
LEMMA VisitRedeclarationInv ==
  ASSUME WalkInv, VisitRedeclaration
  PROVE  WalkInv'
<1> DEFINE at == IndexOf(Kids, Visited) + 1
           x  == heap[Visited].name
           K  == InsertAt(Kids, at, Len(heap) + 1)
           node == Node(Shape("unused", x), Top.id, FALSE)
<1>1. TypeInv /\ TypeInv' /\ BlockInv /\ PendInv
  BY VisitRedeclarationTypes DEF WalkInv
<1>2. /\ Visiting({"decl"}) /\ currentScope' = currentScope
      /\ registry' = Declare(RemoveVariable(registry, x), Visited)
      /\ registry' \in Seq(EntryType(Len(heap)))
      /\ \/ /\ heap' = Grown(heap, Top.id, K, node)
            /\ K \in Seq(0 .. Len(heap) + 1) /\ IndexOf(Kids, Visited) \in 1 .. Len(Kids)
            /\ node \in NodeType(Len(heap) + 1)
            /\ \E fr \in FrameOf(registry) : SameWalk(Top, fr) /\ stack' = SetTop(fr)
         \/ stack' = Step(stack) /\ UNCHANGED heap
  BY <1>1, VisitRedeclarationIs
<1>3. /\ phase = "walk" /\ ~Top.leaving /\ Visited \in 1 .. Len(heap) /\ Len(heap) \in Nat
      /\ stack # << >> /\ registry \in Seq(EntryType(Len(heap))) /\ Kids \in Seq(0 .. Len(heap))
  BY <1>1, <1>2, VisitedIs, TopIs DEF TypeInv
<1>4. Entries(registry)
  BY <1>1, <1>3, EntriesNow
<1>5. Entries(registry')
  <2>1. Entries(RemoveVariable(registry, x)) /\ RemoveVariable(registry, x) \in Seq(EntryType(Len(heap)))
    BY <1>3, <1>4, EntriesRemoved, RemoveIs
  <2> QED BY <1>1, <1>2, <2>1, EntriesDeclared
<1>6. CASE stack' = Step(stack) /\ UNCHANGED heap
  BY <1>1, <1>2, <1>3, <1>5, <1>6, PlainVisitInv DEF WalkInv
<1>7. CASE /\ heap' = Grown(heap, Top.id, K, node)
           /\ K \in Seq(0 .. Len(heap) + 1) /\ IndexOf(Kids, Visited) \in 1 .. Len(Kids)
           /\ node \in NodeType(Len(heap) + 1)
           /\ \E fr \in FrameOf(registry) : SameWalk(Top, fr) /\ stack' = SetTop(fr)
  <2>1. at \in 1 .. Len(Kids) + 1
    BY <1>3, <1>7
  <2> HIDE DEF at
  <2>2. TreeOK(heap') /\ KidsOK(heap') /\ Extends(heap, heap')
    BY <1>1, <1>3, <1>7, <2>1, InsertTree DEF TreeStep
  <2> QED BY <1>1, <1>2, <1>3, <1>5, <1>7, <2>2, VisitInv DEF WalkInv
<1> QED BY <1>2, <1>6, <1>7

\* A new activation.
LEMMA EnterInv ==
  ASSUME WalkInv, TypeInv', NEW kinds, Visiting(kinds), NEW sc, UNCHANGED <<heap, phase>>,
         stack' = Append(Step(stack), Frame(Visited, sc)), currentScope' = sc,
         sc = IF heap[Visited].kind = "block" THEN currentScope + 1 ELSE currentScope,
         registry' \in Seq(EntryType(Len(heap))), Entries(registry')
  PROVE  WalkInv'
<1>1. BlockInv'
  BY BlockInvPush DEF WalkInv, Entries
<1>2. ~stack'[Len(stack')].leaving
  <2>1. phase = "walk" /\ ~Top.leaving /\ stack \in Seq(FrameOf(registry)) /\ Len(stack) \in 1 .. Len(stack)
    BY VisitedIs, TopIs, TypeInvWalks DEF WalkInv
  <2>2. stack' = Append(SetTop([Top EXCEPT !.i = @ + 1]), Frame(Visited, sc))
        /\ [Top EXCEPT !.i = @ + 1] \in FrameOf(registry)
    BY <2>1, StepIs DEF WalkInv
  <2>3. SetTop([Top EXCEPT !.i = @ + 1]) \in Seq(FrameOf(registry))
    BY <2>1, <2>2 DEF SetTop, WithTop
  <2>4. stack'[Len(stack')] = Frame(Visited, sc)
    BY <2>2, <2>3
  <2> QED BY <2>4 DEF Frame
<1>3. PendInv'
  BY <1>2, PendClear DEF Entries
<1> QED BY <1>1, <1>3 DEF WalkInv

\* The branches of a statement.
LEMMA EnterBranchesInv ==
  ASSUME WalkInv, EnterBranches
  PROVE  WalkInv'
<1>1. /\ Visiting({"if", "while", "func"}) /\ UNCHANGED <<heap, currentScope, phase>>
      /\ registry' = UsedVariables(registry, heap[Visited].uses, Visited)
      /\ stack' = Append(Step(stack), Frame(Visited, currentScope))
  BY DEF EnterBranches
<1>2. /\ phase = "walk" /\ ~Top.leaving /\ Visited \in 1 .. Len(heap) /\ Len(heap) \in Nat
      /\ stack # << >> /\ registry \in Seq(EntryType(Len(heap))) /\ heap[Visited].kind # "block"
  <2>1. heap[Visited].kind \in {"if", "while", "func"}
    BY <1>1 DEF Visiting, Visited
  <2>2. phase = "walk" /\ ~Top.leaving /\ Visited \in 1 .. Len(heap) /\ stack # << >>
    BY <1>1, VisitedIs, TopIs DEF WalkInv
  <2>3. Len(heap) \in Nat /\ registry \in Seq(EntryType(Len(heap)))
    BY DEF WalkInv, TypeInv
  <2> QED BY <2>1, <2>2, <2>3
<1>3. Entries(registry)
  BY <1>2, EntriesNow DEF WalkInv
<1>4. Entries(registry') /\ registry' \in Seq(EntryType(Len(heap)))
  BY <1>1, <1>2, <1>3, EntriesUsed, UsedVariablesIs
<1>5. TypeInv'
  BY EnterBranchesTypes DEF WalkInv
<1> QED BY <1>1, <1>2, <1>4, <1>5, EnterInv

\* A block.
LEMMA EnterBlockInv ==
  ASSUME WalkInv, EnterBlock
  PROVE  WalkInv'
<1>1. /\ Visiting({"block"}) /\ currentScope' = currentScope + 1 /\ UNCHANGED <<heap, registry, phase>>
      /\ stack' = Append(Step(stack), Frame(Visited, currentScope + 1))
  BY DEF EnterBlock
<1>2. /\ phase = "walk" /\ ~Top.leaving /\ stack # << >> /\ registry \in Seq(EntryType(Len(heap)))
      /\ heap[Visited].kind = "block"
  <2>1. heap[Visited].kind \in {"block"}
    BY <1>1 DEF Visiting, Visited
  <2>2. phase = "walk" /\ ~Top.leaving /\ stack # << >>
    BY <1>1, VisitedIs, TopIs DEF WalkInv
  <2>3. registry \in Seq(EntryType(Len(heap)))
    BY DEF WalkInv, TypeInv
  <2> QED BY <2>1, <2>2, <2>3
<1>3. Entries(registry)
  BY <1>2, EntriesNow DEF WalkInv
<1>4. Entries(registry') /\ registry' \in Seq(EntryType(Len(heap)))
  BY <1>1, <1>2, <1>3
<1>5. TypeInv'
  BY EnterBlockTypes DEF WalkInv
<1> QED BY <1>1, <1>2, <1>4, <1>5, EnterInv

\* Out of the branches again.
LEMMA LeaveBranchesInv ==
  ASSUME WalkInv, LeaveBranches
  PROVE  WalkInv'
<1>1. /\ phase = "walk" /\ Here # "block" /\ stack' = Under
      /\ UNCHANGED <<options, heap, freed, registry, currentScope, phase>>
  BY DEF LeaveBranches
<1>2. TypeInv'
  BY LeaveBranchesTypes DEF WalkInv
<1>3. ~Top.leaving /\ stack # << >> /\ registry \in Seq(EntryType(Len(heap)))
  BY <1>1, TopIs DEF FrameFits, Here, WalkInv, TypeInv
<1>4. Entries(registry)
  BY <1>3, EntriesNow DEF WalkInv
<1>5. Extends(heap, heap') /\ TreeOK(heap') /\ KidsOK(heap') /\ Len(heap') \in Nat
  BY <1>1, <1>2, HeapSame, TypeInvWalks DEF WalkInv, TypeInv, BlockInv
<1>6. BlockInv'
  BY <1>1, <1>2, <1>3, <1>4, <1>5, BlockInvPop DEF WalkInv, Entries
<1>7. stack' # << >> => ~stack'[Len(stack')].leaving
  <2>1. /\ Len(stack') = Len(stack) - 1 /\ Len(stack) \in Nat /\ Len(stack) >= 1
        /\ \A f \in 1 .. Len(stack') : stack'[f] = stack[f]
        /\ stack' = << >> <=> Len(stack) = 1
    BY <1>1, <1>3, <1>5, UnderIs DEF WalkInv
  <2>2. ASSUME stack' # << >>
        PROVE  ~stack'[Len(stack')].leaving
    <3>1. Len(stack') \in 1 .. Len(stack') /\ Len(stack') \in 1 .. Len(stack) /\ Len(stack') < Len(stack)
      BY <2>1, <2>2
    <3>2. ~stack[Len(stack')].leaving
      BY <3>1 DEF WalkInv, TypeInv, StackFits
    <3> QED BY <2>1, <3>1, <3>2
  <2> QED BY <2>2
<1>8. PendInv'
  BY <1>1, <1>2, <1>4, <1>7, PendClear DEF Entries
<1> QED BY <1>2, <1>6, <1>8 DEF WalkInv

\* The innermost activation after SetTop.
LEMMA NewTop ==
  ASSUME TypeInv, phase = "walk", NEW fr, stack' = SetTop(fr)
  PROVE  stack' # << >> /\ Top' = fr
<1>1. stack \in Seq(FrameOf(registry)) /\ Len(stack) >= 1
  BY TopIs DEF TypeInv, StackFits
<1>2. DOMAIN stack' = 1 .. Len(stack) /\ Len(stack') = Len(stack) /\ stack'[Len(stack)] = fr
  BY <1>1 DEF SetTop, WithTop
<1> QED BY <1>1, <1>2 DEF Top

\* The end of a block's statements.
LEMMA EndOfStatementsInv ==
  ASSUME WalkInv, EndOfStatements
  PROVE  WalkInv'
<1> DEFINE p  == GetVariablesInScope(registry, Top.scope)
           fr == [Top EXCEPT !.leaving = TRUE, !.pending = p]
<1>1. TypeInv /\ TypeInv' /\ BlockInv /\ PendInv
  BY EndOfStatementsTypes DEF WalkInv
<1>2. /\ phase = "walk" /\ ~Top.leaving /\ stack' = SetTop(fr)
      /\ UNCHANGED <<heap, registry, currentScope>>
  BY <1>1, EndOfStatementsIs
<1>3. Top \in FrameOf(registry) /\ stack # << >>
  BY <1>1, <1>2, TopIs
<1>4. fr.id = Top.id /\ fr.scope = Top.scope /\ fr.leaving /\ fr.pending = p
  BY <1>3 DEF FrameOf
<1> HIDE DEF fr
<1>5. Entries(registry)
  BY <1>1, <1>2, <1>3, EntriesNow
<1>6. registry \in Seq(EntryType(Len(heap))) /\ DOMAIN registry = 1 .. Len(registry)
  BY <1>1 DEF TypeInv
<1>7. BlockInv'
  <2>1. Len(stack') = Len(stack) /\ SameFrames(stack, stack', Len(stack))
    BY <1>1, <1>2, <1>4, SetTopFrames
  <2>2. Extends(heap, heap') /\ TreeOK(heap') /\ KidsOK(heap')
    BY <1>1, <1>2, HeapSame DEF BlockInv, TypeInv
  <2> QED BY <1>1, <1>2, <1>5, <1>6, <2>1, <2>2, BlockInvStays DEF Entries
<1>8. stack' # << >> /\ Top' = fr
  BY <1>1, <1>2, NewTop
<1>9. /\ p \in Seq(1 .. Len(registry)) /\ \A j \in DOMAIN p : registry[p[j]].scope = Top.scope
      /\ \A j, l \in DOMAIN p : p[j] = p[l] => j = l
  BY <1>6, InScopeIs, InScopeOnce
<1> HIDE DEF p
<1>10. PendInv'
  <2>1. \A k \in DOMAIN registry : registry[k].declaration # Null
    BY <1>5, <1>6 DEF Entries
  <2>2. \A j \in DOMAIN p : p[j] \in DOMAIN registry
    BY <1>6, <1>9
  <2>3. Top'.pending = p /\ Top'.scope = Top.scope /\ registry' = registry
    BY <1>2, <1>4, <1>8
  <2> QED BY <1>9, <2>1, <2>2, <2>3 DEF PendInv
<1> QED BY <1>1, <1>7, <1>10 DEF WalkInv

\* What is left of remainingVars after its first.
LEMMA TailOnce ==
  ASSUME NEW S, NEW p \in Seq(S), Len(p) >= 1, \A j, l \in DOMAIN p : p[j] = p[l] => j = l
  PROVE  /\ \A j \in DOMAIN Tail(p) : j + 1 \in DOMAIN p /\ Tail(p)[j] = p[j + 1] /\ Tail(p)[j] # Head(p)
         /\ \A j, l \in DOMAIN Tail(p) : Tail(p)[j] = Tail(p)[l] => j = l
<1>1. DOMAIN p = 1 .. Len(p) /\ Len(p) \in Nat /\ Head(p) = p[1] /\ 1 \in DOMAIN p
  OBVIOUS
<1>2. DOMAIN Tail(p) = 1 .. Len(p) - 1 /\ \A j \in 1 .. Len(p) - 1 : Tail(p)[j] = p[j + 1]
  BY <1>1
<1>3. \A j \in 1 .. Len(p) - 1 : j + 1 \in DOMAIN p /\ j + 1 # 1
  BY <1>1
<1>4. \A j \in DOMAIN Tail(p) : j + 1 \in DOMAIN p /\ Tail(p)[j] = p[j + 1] /\ Tail(p)[j] # Head(p)
  BY <1>1, <1>2, <1>3
<1>5. ASSUME NEW j \in DOMAIN Tail(p), NEW l \in DOMAIN Tail(p), Tail(p)[j] = Tail(p)[l]
      PROVE  j = l
  <2>1. j + 1 = l + 1
    BY <1>4, <1>5
  <2>2. j \in Nat /\ l \in Nat
    BY <1>1, <1>2
  <2> QED BY <2>1, <2>2
<1> QED BY <1>4, <1>5

\* The next of remainingVars has been handled; at most its own entry has lost
\* its declaration.
LEMMA HandledPending ==
  ASSUME TypeInv, PendInv, Handling, stack' = SetTop([Top EXCEPT !.pending = Tail(@)]),
         DOMAIN registry' = DOMAIN registry,
         \A k \in DOMAIN registry : registry'[k].scope = registry[k].scope,
         \A k \in DOMAIN registry : k # Head(Top.pending) =>
            registry'[k].declaration = registry[k].declaration
  PROVE  PendInv'
<1> DEFINE fr == [Top EXCEPT !.pending = Tail(@)]
           p  == Top.pending
<1>1. /\ phase = "walk" /\ Top.leaving /\ p \in Seq(1 .. Len(registry)) /\ Len(p) >= 1
      /\ fr.pending = Tail(p) /\ 1 \in DOMAIN p /\ Head(p) = p[1] /\ Head(p) \in 1 .. Len(registry)
  BY HandlingIs
<1>2. Top \in FrameOf(registry) /\ stack # << >>
  BY <1>1, TopIs
<1>3. fr.scope = Top.scope /\ fr.leaving = Top.leaving
  BY <1>2 DEF FrameOf
<1>4. stack' # << >> /\ Top' = fr
  BY <1>1, NewTop
<1> HIDE DEF fr
<1>5. DOMAIN registry = 1 .. Len(registry)
  BY DEF TypeInv
<1>6. ASSUME NEW k \in DOMAIN registry', registry'[k].declaration = Null
      PROVE  stack' # << >> /\ Top'.leaving /\ registry'[k].scope = Top'.scope
  <2>1. CASE k = Head(p)
    <3>1. registry[k].scope = Top.scope
      BY <1>1, <1>2, <2>1 DEF PendInv
    <3> QED BY <1>1, <1>3, <1>4, <1>6, <3>1
  <2>2. CASE k # Head(p)
    <3>1. registry[k].declaration = Null
      BY <1>6, <2>2
    <3>2. registry[k].scope = Top.scope
      BY <1>6, <3>1 DEF PendInv
    <3> QED BY <1>1, <1>3, <1>4, <1>6, <3>2
  <2> QED BY <2>1, <2>2
<1>7. \A j, l \in DOMAIN p : p[j] = p[l] => j = l
  BY <1>2 DEF PendInv
<1>8. /\ \A j \in DOMAIN Tail(p) : j + 1 \in DOMAIN p /\ Tail(p)[j] = p[j + 1] /\ Tail(p)[j] # Head(p)
      /\ \A j, l \in DOMAIN Tail(p) : Tail(p)[j] = Tail(p)[l] => j = l
  <2> HIDE DEF p
  <2> QED BY <1>1, <1>7, TailOnce
<1>9. ASSUME NEW j \in DOMAIN Tail(p)
      PROVE  registry'[Tail(p)[j]].declaration # Null /\ registry'[Tail(p)[j]].scope = Top.scope
  <2>1. j + 1 \in DOMAIN p /\ Tail(p)[j] = p[j + 1] /\ Tail(p)[j] # Head(p)
    BY <1>8
  <2>2. registry[p[j + 1]].declaration # Null /\ registry[p[j + 1]].scope = Top.scope
    BY <1>2, <2>1 DEF PendInv
  <2>3. p[j + 1] \in DOMAIN registry
    <3>1. p \in Seq(1 .. Len(registry)) /\ j + 1 \in DOMAIN p
      BY <1>1, <2>1
    <3> HIDE DEF p
    <3>2. p[j + 1] \in 1 .. Len(registry)
      BY <3>1
    <3> QED BY <1>5, <3>2
  <2> QED BY <2>1, <2>2, <2>3
<1>10. Top'.pending = Tail(p) /\ Top'.scope = Top.scope
  BY <1>1, <1>3, <1>4
<1> QED BY <1>6, <1>8, <1>9, <1>10 DEF PendInv

\* A declaration nobody used goes.
LEMMA RemoveDeclarationInv ==
  ASSUME WalkInv, RemoveDeclaration
  PROVE  WalkInv'
<1> DEFINE at == IndexOf(Kids, Remaining.declaration)
           K  == [Kids EXCEPT ![at] = Null]
           k0 == Head(Top.pending)
           fr == [Top EXCEPT !.pending = Tail(@)]
<1>1. TypeInv /\ TypeInv' /\ BlockInv /\ PendInv /\ Handling /\ phase = "walk" /\ currentScope' = currentScope
  BY RemoveDeclarationTypes, RemoveDeclarationIs, HandlingIs DEF WalkInv
<1>2. \/ UNCHANGED <<heap, registry, stack>>
      \/ /\ at \in 1 .. Len(Kids) /\ K \in Seq(0 .. Len(heap)) /\ heap' = WithKids(heap, Top.id, K)
         /\ registry' = Nulled(registry, k0) /\ stack' = SetTop(fr)
  BY <1>1, RemoveDeclarationIs DEF Nulled
<1>3. CASE UNCHANGED <<heap, registry, stack>>
  <2>1. phase' \in {"walk", "done"} => phase \in {"walk", "done"}
    BY <1>1
  <2>2. BlockInv'
    BY <1>1, <1>3, <2>1 DEF BlockInv
  <2>3. PendInv'
    BY <1>1, <1>3 DEF PendInv, Top
  <2> QED BY <1>1, <2>2, <2>3 DEF WalkInv
<1>4. CASE /\ at \in 1 .. Len(Kids) /\ K \in Seq(0 .. Len(heap)) /\ heap' = WithKids(heap, Top.id, K)
           /\ registry' = Nulled(registry, k0) /\ stack' = SetTop(fr)
  <2>1. k0 \in 1 .. Len(registry)
    BY <1>1, HandlingIs
  <2>2. Len(heap) \in Nat /\ registry \in Seq(EntryType(Len(heap))) /\ DOMAIN registry = 1 .. Len(registry)
    BY <1>1 DEF TypeInv
  <2>3. Top \in FrameOf(registry) /\ stack # << >>
    BY <1>1, TopIs
  <2>4. fr.id = Top.id /\ fr.scope = Top.scope
    BY <2>3 DEF FrameOf
  <2> HIDE DEF fr, k0, at
  <2>5. TreeOK(heap') /\ KidsOK(heap') /\ Extends(heap, heap')
    BY <1>1, <1>4, NullTree DEF TreeStep
  <2> HIDE DEF K
  <2>6. /\ registry' \in Seq(EntryType(Len(heap))) /\ Len(registry') = Len(registry)
        /\ \A j \in 1 .. Len(registry) :
             /\ registry'[j].name = registry[j].name /\ registry'[j].scope = registry[j].scope
             /\ registry'[j].auto = registry[j].auto
             /\ registry'[j].declaration = IF j = k0 THEN Null ELSE registry[j].declaration
    BY <1>4, <2>1, <2>2, NulledIs
  <2>7. \A j \in 1 .. Len(registry') : registry'[j].declaration # Null => Housed(heap, stack, registry'[j])
    <3>1. ASSUME NEW j \in 1 .. Len(registry'), registry'[j].declaration # Null
          PROVE  Housed(heap, stack, registry'[j])
      <4>1. j \in 1 .. Len(registry) /\ SameEntry(registry[j], registry'[j])
        BY <2>6, <3>1 DEF SameEntry
      <4> QED BY <1>1, <3>1, <4>1, OldHoused
    <3> QED BY <3>1
  <2>8. Len(stack') = Len(stack) /\ SameFrames(stack, stack', Len(stack))
    BY <1>1, <1>4, <2>4, SetTopFrames
  <2>9. BlockInv'
    BY <1>1, <2>5, <2>6, <2>7, <2>8, BlockInvStays
  <2>10. PendInv'
    <3>1. DOMAIN registry' = DOMAIN registry
      BY <2>2, <2>6
    <3>2. \A k \in DOMAIN registry : registry'[k].scope = registry[k].scope
      BY <2>2, <2>6
    <3>3. \A k \in DOMAIN registry : k # k0 => registry'[k].declaration = registry[k].declaration
      BY <2>2, <2>6
    <3> QED BY <1>1, <1>4, <3>1, <3>2, <3>3, HandledPending DEF fr, k0
  <2> QED BY <1>1, <2>9, <2>10 DEF WalkInv
<1> QED BY <1>2, <1>3, <1>4

\* A variable that was used is destroyed.
LEMMA InsertDestroyInv ==
  ASSUME WalkInv, InsertDestroy
  PROVE  WalkInv'
<1> DEFINE at   == DestroyIndex(Kids, Remaining)
           K    == InsertAt(Kids, at, Len(heap) + 1)
           node == Node(Shape("unused", Remaining.name), Top.id, FALSE)
           fr   == [Top EXCEPT !.pending = Tail(@)]
<1>1. TypeInv /\ TypeInv' /\ BlockInv /\ PendInv
  BY InsertDestroyTypes DEF WalkInv
<1>2. /\ Handling /\ UNCHANGED <<registry, currentScope, phase>>
      /\ at \in 1 .. Len(Kids) + 1 /\ heap' = Grown(heap, Top.id, K, node)
      /\ K \in Seq(0 .. Len(heap) + 1) /\ node \in NodeType(Len(heap) + 1) /\ stack' = SetTop(fr)
  BY <1>1, InsertDestroyIs
<1>3. phase = "walk"
  BY <1>2 DEF Handling
<1>4. Top \in FrameOf(registry) /\ registry \in Seq(EntryType(Len(heap)))
  BY <1>1, <1>3, TopIs DEF TypeInv
<1>5. fr.id = Top.id /\ fr.scope = Top.scope
  BY <1>4 DEF FrameOf
<1>6. PendInv'
  BY <1>1, <1>2, HandledPending
<1> HIDE DEF fr, at
<1>7. TreeOK(heap') /\ KidsOK(heap') /\ Extends(heap, heap')
  BY <1>1, <1>2, <1>3, InsertTree DEF TreeStep
<1> HIDE DEF K, node
<1>8. Len(stack') = Len(stack) /\ SameFrames(stack, stack', Len(stack))
  BY <1>1, <1>2, <1>3, <1>5, SetTopFrames
<1>9. \A k \in 1 .. Len(registry') : registry'[k].declaration # Null => Housed(heap, stack, registry'[k])
  BY <1>1, <1>2 DEF BlockInv
<1>10. BlockInv'
  BY <1>1, <1>2, <1>3, <1>4, <1>7, <1>8, <1>9, BlockInvStays
<1> QED BY <1>1, <1>6, <1>10 DEF WalkInv

\* The end of a block.
LEMMA LeaveBlockInv ==
  ASSUME WalkInv, LeaveBlock
  PROVE  WalkInv'
<1> DEFINE K == Keep(Kids, {k \in DOMAIN Kids : Kids[k] # Null})
           R == {k \in DOMAIN registry : registry[k].scope # Top.scope}
<1>1. TypeInv /\ TypeInv' /\ BlockInv /\ PendInv
  BY LeaveBlockTypes DEF WalkInv
<1>2. /\ phase = "walk" /\ Here = "block" /\ registry' = RemoveScope(registry, Top.scope)
      /\ registry' \in Seq(EntryType(Len(heap))) /\ currentScope' = currentScope - 1
      /\ stack' = Under /\ Extends(heap, heap') /\ TreeOK(heap') /\ KidsOK(heap')
  BY <1>1, LeaveBlockIs
<1>3. registry \in Seq(EntryType(Len(heap))) /\ DOMAIN registry = 1 .. Len(registry)
      /\ DOMAIN registry' = 1 .. Len(registry')
  BY <1>1, <1>2 DEF TypeInv
<1>4. Selects(registry, R, registry')
  <2>1. R \subseteq DOMAIN registry
    OBVIOUS
  <2> QED BY <1>2, <1>3, <2>1, KeepSeq DEF RemoveScope
<1>5. ASSUME NEW k \in 1 .. Len(registry')
      PROVE  /\ registry'[k].declaration # Null /\ Housed(heap, stack, registry'[k])
             /\ registry'[k].scope # Top.scope
  <2>1. PICK p \in R : registry'[k] = registry[p]
    BY <1>3, <1>4 DEF Selects
  <2>2. registry[p].declaration # Null
    BY <1>1, <2>1 DEF PendInv
  <2> QED BY <1>1, <1>3, <2>1, <2>2 DEF BlockInv
<1>6. BlockInv'
  BY <1>1, <1>2, <1>5, BlockInvPop
<1>7. stack' # << >> => ~stack'[Len(stack')].leaving
  <2>1. stack # << >> /\ Len(heap') \in Nat
    BY <1>1, <1>2, TopIs DEF TypeInv
  <2>2. /\ Len(stack') = Len(stack) - 1 /\ Len(stack) \in Nat /\ Len(stack) >= 1
        /\ \A f \in 1 .. Len(stack') : stack'[f] = stack[f]
        /\ stack' = << >> <=> Len(stack) = 1
    BY <1>1, <1>2, <2>1, UnderIs
  <2>3. ASSUME stack' # << >>
        PROVE  ~stack'[Len(stack')].leaving
    <3>1. Len(stack') \in 1 .. Len(stack') /\ Len(stack') \in 1 .. Len(stack) /\ Len(stack') < Len(stack)
      BY <2>2, <2>3
    <3>2. ~stack[Len(stack')].leaving
      BY <1>1, <3>1 DEF TypeInv, StackFits
    <3> QED BY <2>2, <3>1, <3>2
  <2> QED BY <2>3
<1>8. PendInv'
  BY <1>1, <1>5, <1>7, PendClear
<1> QED BY <1>1, <1>6, <1>8 DEF WalkInv

\* A redeclaration that is an error.
LEMMA ThrowRedeclarationInv ==
  ASSUME WalkInv, ThrowRedeclaration
  PROVE  WalkInv'
<1>1. UNCHANGED <<options, heap, freed, registry, currentScope, stack>> /\ phase' = "threw"
  BY DEF ThrowRedeclaration
<1>2. TypeInv'
  BY <1>1 DEF WalkInv, TypeInv, Phases
<1>3. BlockInv'
  BY <1>1 DEF WalkInv, BlockInv
<1>4. PendInv'
  BY <1>1 DEF WalkInv, PendInv, Top
<1> QED BY <1>2, <1>3, <1>4 DEF WalkInv

\* Nothing happens.
LEMMA StutterInv ==
  ASSUME WalkInv, UNCHANGED vars
  PROVE  WalkInv'
<1>1. UNCHANGED <<options, heap, freed, registry, currentScope, stack, phase>>
  BY DEF vars
<1>2. TypeInv'
  BY <1>1 DEF WalkInv, TypeInv
<1>3. BlockInv'
  BY <1>1 DEF WalkInv, BlockInv
<1>4. PendInv'
  BY <1>1 DEF WalkInv, PendInv, Top
<1> QED BY <1>2, <1>3, <1>4 DEF WalkInv

\* The program's block is entered.
LEMMA InitInv ==
  ASSUME Init
  PROVE  WalkInv
<1> DEFINE s == Shape("block", CHOOSE x \in Names : TRUE)
           n == heap[1]
           f == stack[1]
<1>1. /\ heap = <<Node(s, Null, TRUE)>> /\ freed = {} /\ registry = << >> /\ currentScope = 1
      /\ stack = <<Frame(1, 1)>> /\ phase = "walk" /\ options \in OptionSets
  BY DEF Init
<1>2. s.kind = "block" /\ s.name \in Names /\ s.auto = FALSE /\ s.uses = {} /\ s.hidden = {}
  BY NamesAssumption DEF Shape
<1> HIDE DEF s
<1>3. n = Node(s, Null, TRUE) /\ f = Frame(1, 1)
  BY <1>1
<1>4. Len(heap) = 1 /\ Len(stack) = 1 /\ Len(registry) = 0 /\ DOMAIN registry = {}
  BY <1>1
<1>5. /\ n.kind = "block" /\ n.parent = 0 /\ n.kids = << >> /\ n \in NodeType(1)
  <2>1. n = [kind |-> "block", name |-> s.name, auto |-> FALSE, uses |-> {}, hidden |-> {},
             kids |-> << >>, parent |-> 0, written |-> TRUE]
    BY <1>2, <1>3 DEF Node, Null
  <2>2. << >> \in Seq(0 .. 1) /\ 0 \in 0 .. 1 /\ {} \in SUBSET Names /\ "block" \in StmtKinds
    BY DEF StmtKinds
  <2> QED BY <1>2, <2>1, <2>2 DEF NodeType
<1>6. /\ f.id = 1 /\ f.scope = 1 /\ f.leaving = FALSE /\ f.pending = << >> /\ f \in FrameOf(registry)
  BY <1>3 DEF Frame, FrameOf
<1>7. heap = <<n>> /\ stack = <<f>>
  BY <1>1, <1>3
<1>8. Top = f /\ 1 .. Len(heap) = {1} /\ 1 .. Len(stack) = {1} /\ 2 .. Len(heap) = {} /\ 2 .. Len(stack) = {}
      /\ 1 .. Len(registry) = {}
  BY <1>4 DEF Top
<1>9. heap[f.id] = n
  BY <1>6
<1> HIDE DEF n, f
<1>10. TypeInv
  <2>1. heap \in Seq(NodeType(Len(heap)))
    BY <1>4, <1>5, <1>7
  <2>2. FrameFits(heap, registry, f)
    BY <1>5, <1>6, <1>8, <1>9 DEF FrameFits, Compound
  <2>3. stack \in Seq(FrameOf(registry))
    BY <1>6, <1>7
  <2>4. \A g \in 1 .. Len(stack) : stack[g] = f /\ g = 1
    BY <1>7, <1>8
  <2>5. StackFits(heap, registry, stack)
    BY <1>4, <2>2, <2>3, <2>4 DEF StackFits
  <2>6. registry \in Seq(EntryType(Len(heap))) /\ freed \subseteq 1 .. Len(heap) /\ currentScope \in Nat
    BY <1>1
  <2>7. phase \in Phases /\ (phase = "walk" => stack # << >>)
    BY <1>1, <1>7 DEF Phases
  <2> QED BY <1>1, <2>1, <2>5, <2>6, <2>7 DEF TypeInv
<1>11. PendInv
  BY <1>4, <1>6, <1>8 DEF PendInv
<1>12. BlockInv
  <2>1. heap[1] = n /\ stack[1] = f
    BY <1>7
  <2>2. TreeOK(heap)
    BY <1>4, <1>5, <1>8, <2>1 DEF TreeOK, Null
  <2>3. KidsOK(heap)
    <3>1. \A k \in 1 .. Len(n.kids) : FALSE
      BY <1>5
    <3> QED BY <1>8, <2>1, <3>1 DEF KidsOK
  <2>4. Blocks(heap, stack) = {1}
    BY <1>5, <1>8, <1>9, <2>1 DEF Blocks
  <2>5. Rank(Blocks(heap, stack), 1) = 1
    <3>1. {q \in Blocks(heap, stack) : q <= 1} = {1}
      BY <2>4
    <3> QED BY <3>1, FS_Singleton DEF Rank
  <2>6. WellStacked(heap, stack)
    BY <1>6, <1>8, <2>1, <2>5 DEF WellStacked
  <2> QED BY <1>1, <1>4, <1>8, <2>2, <2>3, <2>5, <2>6 DEF BlockInv
<1> QED BY <1>10, <1>11, <1>12 DEF WalkInv

\* Every step keeps the invariant.
LEMMA NextInv ==
  ASSUME WalkInv, [Next]_vars
  PROVE  WalkInv'
<1>1. ASSUME NEW s \in Shapes, Reveal(s)
      PROVE  WalkInv'
  BY <1>1, RevealInv
<1>2. CASE RevealNothing
  BY <1>2, RevealNothingInv
<1>3. CASE VisitNull
  BY <1>3, VisitNullInv
<1>4. CASE VisitDecl
  BY <1>4, VisitDeclInv
<1>5. CASE ThrowRedeclaration
  BY <1>5, ThrowRedeclarationInv
<1>6. CASE VisitRedeclaration
  BY <1>6, VisitRedeclarationInv
<1>7. CASE VisitUnused
  BY <1>7, VisitUnusedInv
<1>8. CASE VisitAlias
  BY <1>8, VisitAliasInv
<1>9. CASE VisitExpr
  BY <1>9, VisitExprInv
<1>10. CASE EnterBranches
  BY <1>10, EnterBranchesInv
<1>11. CASE LeaveBranches
  BY <1>11, LeaveBranchesInv
<1>12. CASE EnterBlock
  BY <1>12, EnterBlockInv
<1>13. CASE EndOfStatements
  BY <1>13, EndOfStatementsInv
<1>14. CASE RemoveDeclaration
  BY <1>14, RemoveDeclarationInv
<1>15. CASE InsertDestroy
  BY <1>15, InsertDestroyInv
<1>16. CASE LeaveBlock
  BY <1>16, LeaveBlockInv
<1>17. CASE UNCHANGED vars
  BY <1>17, StutterInv
<1> QED
  BY <1>1, <1>2, <1>3, <1>4, <1>5, <1>6, <1>7, <1>8, <1>9, <1>10, <1>11, <1>12, <1>13, <1>14,
     <1>15, <1>16, <1>17 DEF Next

\* The walk keeps its invariant.
LEMMA WalkInvariant == Spec => []WalkInv
<1>1. Init => WalkInv
  BY InitInv
<1>2. WalkInv /\ [Next]_vars => WalkInv'
  BY NextInv
<1> QED BY <1>1, <1>2, PTL DEF Spec

\* Statements, entries and frames keep their shapes, and remainingVars stay
\* inside the registry, in every run of the walk on every program.
THEOREM WalkTypes == Spec => []TypeOK
<1>1. WalkInv => TypeOK
  BY TypeInvTypeOK DEF WalkInv
<1> QED BY <1>1, WalkInvariant, PTL

\* The scope counter counts the open blocks and every registry entry belongs
\* to the open block its scope stands for, whatever the program declares again
\* and wherever its blocks are nested.
THEOREM ScopesAreOpenBlocks == Spec => []RegistryOfOpenBlocks
<1>1. WalkInv => RegistryOfOpenBlocks
  BY BlockInvProperty DEF WalkInv
<1> QED BY <1>1, WalkInvariant, PTL
=============================================================================
