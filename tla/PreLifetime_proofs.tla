------------------------- MODULE PreLifetime_proofs -------------------------
(***************************************************************************)
(* What becomes of the declarations the precompiler walks over: they are   *)
(* found in their blocks, nothing deleted stays in the tree, and what is   *)
(* deleted nobody uses.                                                    *)
(*                                                                         *)
(* The walk meets a statement once: what it has registered, entered or     *)
(* given kids is behind it (Met, Behind).  From this follow that an entry  *)
(* of the registry is the only one of its declaration, that the            *)
(* declaration is still in its block, and that nulling it leaves none      *)
(* behind.                                                                 *)
(*                                                                         *)
(* A name in a statement means the declaration its text says (RefersIn).   *)
(* Once the statement has been visited, the entry of that declaration has  *)
(* the statement among its usages (Known), so an entry without usages, at  *)
(* the end of its block, is one nothing refers to; and nothing will, for   *)
(* what the source still says is outside that block (Unused, Gone).        *)
(*                                                                         *)
(* The lists stay in the order of the source (InOrder).  Each declaration  *)
(* is cared for (Cared): deleted, still to be visited, destroyed by the    *)
(* source, held by an entry, or settled, that is, an inserted destroy of   *)
(* its name follows all that may use it.  At the end no entry is left.     *)
(***************************************************************************)
EXTENDS PreCompiler_proofs

-----------------------------------------------------------------------------
(* Registries made from others.                                            *)

\* Usages are only added.
MoreUsage(x, y) == \A j \in 1 .. Len(x.usage) : \E l \in 1 .. Len(y.usage) : y.usage[l] = x.usage[j]

\* y is entry x, maybe with more usages.
SameVariable(x, y) == SameEntry(x, y) /\ MoreUsage(x, y)

\* Entries of q stand at different places of r.
PlacedIn(r, q, place) ==
  /\ place \in [1 .. Len(q) -> 1 .. Len(r)]
  /\ \A j, k \in 1 .. Len(q) : place[j] = place[k] => j = k
  /\ \A k \in 1 .. Len(q) : SameVariable(r[place[k]], q[k])

\* q is r without some entries, maybe with more usages.
Derived(r, q) == Len(q) \in Nat /\ \E place : PlacedIn(r, q, place)

\* q is such a registry with the entry e after it; if new, no other entry has
\* its name.
Added(m, r, q, e, new) ==
  \E s \in Seq(EntryType(m)) :
     /\ Derived(r, s) /\ Derived(Append(s, e), q)
     /\ new => \A k \in 1 .. Len(s) : s[k].declaration # Null => s[k].name # e.name

\* Each entry has a declaration of its own.
RegOnce(r) ==
  \A k, l \in 1 .. Len(r) : r[k].declaration # Null /\ r[k].declaration = r[l].declaration => k = l

\* Each name has at most one entry.
NameOnce(r) ==
  \A k, l \in 1 .. Len(r) :
     r[k].declaration # Null /\ r[l].declaration # Null /\ r[k].name = r[l].name => k = l

\* A variable is itself.
LEMMA SameVariableIs ==
  /\ \A x : SameVariable(x, x)
  /\ \A x, y, z : SameVariable(x, y) /\ SameVariable(y, z) => SameVariable(x, z)
<1>1. \A x : SameVariable(x, x)
  BY DEF SameVariable, SameEntry, MoreUsage
<1>2. ASSUME NEW x, NEW y, NEW z, SameVariable(x, y), SameVariable(y, z)
      PROVE  SameVariable(x, z)
  <2>1. SameEntry(x, z)
    BY <1>2 DEF SameVariable, SameEntry
  <2>2. MoreUsage(x, y) /\ MoreUsage(y, z)
    BY <1>2 DEF SameVariable
  <2>3. MoreUsage(x, z)
    <3> SUFFICES ASSUME NEW j \in 1 .. Len(x.usage)
                 PROVE  \E l \in 1 .. Len(z.usage) : z.usage[l] = x.usage[j]
      BY DEF MoreUsage
    <3>1. PICK l \in 1 .. Len(y.usage) : y.usage[l] = x.usage[j]
      BY <2>2 DEF MoreUsage
    <3>2. PICK m \in 1 .. Len(z.usage) : z.usage[m] = y.usage[l]
      BY <2>2 DEF MoreUsage
    <3> QED BY <3>1, <3>2
  <2> QED BY <2>1, <2>3 DEF SameVariable
<1> QED BY <1>1, <1>2

\* A registry is derived from itself and what is derived from a derived one.
LEMMA DerivedSame ==
  ASSUME NEW S, NEW r \in Seq(S)
  PROVE  Derived(r, r)
<1>1. PlacedIn(r, r, [k \in 1 .. Len(r) |-> k])
  BY SameVariableIs DEF PlacedIn
<1> QED BY <1>1 DEF Derived

\* A registry derived from a derived one.
LEMMA DerivedTwice ==
  ASSUME NEW r, NEW s, NEW q, Derived(r, s), Derived(s, q)
  PROVE  Derived(r, q)
<1>1. PICK f : PlacedIn(r, s, f)
  BY DEF Derived
<1>2. PICK g : PlacedIn(s, q, g)
  BY DEF Derived
<1> DEFINE h == [k \in 1 .. Len(q) |-> f[g[k]]]
<1>3. \A k \in 1 .. Len(q) : h[k] = f[g[k]] /\ g[k] \in 1 .. Len(s) /\ f[g[k]] \in 1 .. Len(r)
  BY <1>1, <1>2 DEF PlacedIn
<1>4. h \in [1 .. Len(q) -> 1 .. Len(r)]
  BY <1>3
<1> HIDE DEF h
<1>5. ASSUME NEW j \in 1 .. Len(q), NEW k \in 1 .. Len(q), h[j] = h[k]
      PROVE  j = k
  <2>1. g[j] = g[k]
    BY <1>1, <1>3, <1>5 DEF PlacedIn
  <2> QED BY <1>2, <2>1 DEF PlacedIn
<1>6. ASSUME NEW k \in 1 .. Len(q)
      PROVE  SameVariable(r[h[k]], q[k])
  <2>1. SameVariable(r[f[g[k]]], s[g[k]]) /\ SameVariable(s[g[k]], q[k])
    BY <1>1, <1>2, <1>3 DEF PlacedIn
  <2> QED BY <1>3, <2>1, SameVariableIs
<1>7. PlacedIn(r, q, h)
  BY <1>4, <1>5, <1>6 DEF PlacedIn
<1> QED BY <1>7 DEF Derived

\* What the entries of a derived registry are.
LEMMA DerivedIs ==
  ASSUME NEW r, NEW q, Derived(r, q)
  PROVE  /\ \A k \in 1 .. Len(q) : \E p \in 1 .. Len(r) : SameVariable(r[p], q[k])
         /\ RegOnce(r) => RegOnce(q)
         /\ NameOnce(r) => NameOnce(q)
<1>1. PICK place : PlacedIn(r, q, place)
  BY DEF Derived
<1>2. \A k \in 1 .. Len(q) : place[k] \in 1 .. Len(r) /\ SameVariable(r[place[k]], q[k])
  BY <1>1 DEF PlacedIn
<1>3. \A k \in 1 .. Len(q) :
         /\ r[place[k]].declaration = q[k].declaration /\ r[place[k]].name = q[k].name
  BY <1>2 DEF SameVariable, SameEntry
<1>4. ASSUME RegOnce(r), NEW k \in 1 .. Len(q), NEW l \in 1 .. Len(q),
             q[k].declaration # Null, q[k].declaration = q[l].declaration
      PROVE  k = l
  <2>1. place[k] = place[l]
    BY <1>2, <1>3, <1>4 DEF RegOnce
  <2> QED BY <1>1, <2>1 DEF PlacedIn
<1>5. ASSUME NameOnce(r), NEW k \in 1 .. Len(q), NEW l \in 1 .. Len(q),
             q[k].declaration # Null, q[l].declaration # Null, q[k].name = q[l].name
      PROVE  k = l
  <2>1. place[k] = place[l]
    BY <1>2, <1>3, <1>5 DEF NameOnce
  <2> QED BY <1>1, <2>1 DEF PlacedIn
<1> QED BY <1>2, <1>4, <1>5 DEF RegOnce, NameOnce

\* And those of one with another entry.
LEMMA AddedIs ==
  ASSUME NEW m \in Nat, NEW r, NEW q, NEW e \in EntryType(m), NEW new, Added(m, r, q, e, new)
  PROVE  /\ \A k \in 1 .. Len(q) : \/ \E p \in 1 .. Len(r) : SameVariable(r[p], q[k])
                                   \/ SameVariable(e, q[k])
         /\ RegOnce(r) /\ (\A p \in 1 .. Len(r) : r[p].declaration # e.declaration) => RegOnce(q)
         /\ NameOnce(r) /\ new => NameOnce(q)
<1>1. PICK s \in Seq(EntryType(m)) :
         /\ Derived(r, s) /\ Derived(Append(s, e), q)
         /\ new => \A k \in 1 .. Len(s) : s[k].declaration # Null => s[k].name # e.name
  BY DEF Added
<1> DEFINE t == Append(s, e)
<1>2. Len(t) = Len(s) + 1 /\ Len(s) \in Nat /\ (\A k \in 1 .. Len(s) : t[k] = s[k]) /\ t[Len(s) + 1] = e
  BY AppendIs
<1>3. Derived(t, q)
  BY <1>1
<1> HIDE DEF t
<1>4. \A k \in 1 .. Len(s) : \E p \in 1 .. Len(r) : SameVariable(r[p], s[k])
  BY <1>1, DerivedIs
<1>5. \A k \in 1 .. Len(q) : \E p \in 1 .. Len(t) : SameVariable(t[p], q[k])
  BY <1>3, DerivedIs
<1>6. ASSUME NEW k \in 1 .. Len(q)
      PROVE  (\E p \in 1 .. Len(r) : SameVariable(r[p], q[k])) \/ SameVariable(e, q[k])
  <2>1. PICK p \in 1 .. Len(t) : SameVariable(t[p], q[k])
    BY <1>5
  <2>2. CASE p \in 1 .. Len(s)
    <3>1. PICK l \in 1 .. Len(r) : SameVariable(r[l], s[p])
      BY <1>4, <2>2
    <3>2. t[p] = s[p]
      BY <1>2, <2>2
    <3> QED BY <2>1, <3>1, <3>2, SameVariableIs
  <2>3. CASE p = Len(s) + 1
    BY <1>2, <2>1, <2>3
  <2> QED BY <1>2, <2>2, <2>3
<1>7. ASSUME NEW k \in 1 .. Len(t)
      PROVE  k \in 1 .. Len(s) \/ k = Len(s) + 1
  BY <1>2
<1>8. ASSUME RegOnce(r), \A p \in 1 .. Len(r) : r[p].declaration # e.declaration
      PROVE  RegOnce(q)
  <2>1. RegOnce(s)
    BY <1>1, <1>8, DerivedIs
  <2>2. \A k \in 1 .. Len(s) : s[k].declaration # e.declaration
    BY <1>4, <1>8 DEF SameVariable, SameEntry
  <2>3. ASSUME NEW k \in 1 .. Len(t), NEW l \in 1 .. Len(t),
               t[k].declaration # Null, t[k].declaration = t[l].declaration
        PROVE  k = l
    <3>1. CASE k \in 1 .. Len(s) /\ l \in 1 .. Len(s)
      <4>1. s[k].declaration # Null /\ s[k].declaration = s[l].declaration
        BY <1>2, <2>3, <3>1
      <4> QED BY <2>1, <3>1, <4>1 DEF RegOnce
    <3>2. CASE k = Len(s) + 1 /\ l = Len(s) + 1
      BY <3>2
    <3>3. CASE k \in 1 .. Len(s) /\ l = Len(s) + 1
      <4>1. t[k] = s[k] /\ t[l] = e
        BY <1>2, <3>3
      <4> QED BY <2>2, <2>3, <3>3, <4>1
    <3>4. CASE k = Len(s) + 1 /\ l \in 1 .. Len(s)
      <4>1. t[l] = s[l] /\ t[k] = e
        BY <1>2, <3>4
      <4> QED BY <2>2, <2>3, <3>4, <4>1
    <3> QED BY <1>7, <3>1, <3>2, <3>3, <3>4
  <2>4. RegOnce(t)
    BY <2>3 DEF RegOnce
  <2> QED BY <1>3, <2>4, DerivedIs
<1>9. ASSUME NameOnce(r), new
      PROVE  NameOnce(q)
  <2>1. NameOnce(s)
    BY <1>1, <1>9, DerivedIs
  <2>2. \A k \in 1 .. Len(s) : s[k].declaration # Null => s[k].name # e.name
    BY <1>1, <1>9
  <2>3. ASSUME NEW k \in 1 .. Len(t), NEW l \in 1 .. Len(t),
               t[k].declaration # Null, t[l].declaration # Null, t[k].name = t[l].name
        PROVE  k = l
    <3>1. CASE k \in 1 .. Len(s) /\ l \in 1 .. Len(s)
      <4>1. s[k].declaration # Null /\ s[l].declaration # Null /\ s[k].name = s[l].name
        BY <1>2, <2>3, <3>1
      <4> QED BY <2>1, <3>1, <4>1 DEF NameOnce
    <3>2. CASE k = Len(s) + 1 /\ l = Len(s) + 1
      BY <3>2
    <3>3. CASE k \in 1 .. Len(s) /\ l = Len(s) + 1
      <4>1. t[k] = s[k] /\ t[l] = e
        BY <1>2, <3>3
      <4> QED BY <2>2, <2>3, <3>3, <4>1
    <3>4. CASE k = Len(s) + 1 /\ l \in 1 .. Len(s)
      <4>1. t[l] = s[l] /\ t[k] = e
        BY <1>2, <3>4
      <4> QED BY <2>2, <2>3, <3>4, <4>1
    <3> QED BY <1>7, <3>1, <3>2, <3>3, <3>4
  <2>4. NameOnce(t)
    BY <2>3 DEF NameOnce
  <2> QED BY <1>3, <2>4, DerivedIs
<1> QED BY <1>6, <1>8, <1>9

\* What Keep keeps of a registry is derived from it.
LEMMA DerivedKept ==
  ASSUME NEW S, NEW r \in Seq(S), NEW keep, keep \subseteq DOMAIN r
  PROVE  Derived(r, Keep(r, keep))
<1> DEFINE N == Cardinality(keep)
           q == Keep(r, keep)
<1>1. Len(r) \in Nat /\ DOMAIN r = 1 .. Len(r)
  OBVIOUS
<1>2. Places(keep, Len(r)) /\ \A k \in keep : k \in 1 .. Len(r)
  BY <1>1 DEF Places
<1> HIDE DEF N, q
<1>3. PICK place : KeptBy(r, keep, place)
  BY <1>1, <1>2, KeepPlaces
<1>4. /\ N \in Nat /\ place \in [1 .. N -> keep] /\ q = [k \in 1 .. N |-> r[place[k]]]
      /\ \A j, k \in 1 .. N : j < k => place[j] < place[k]
  BY <1>1, <1>2, <1>3, KeepPlaces DEF KeptBy, N, q
<1>5. Len(q) = N /\ \A k \in 1 .. N : q[k] = r[place[k]] /\ place[k] \in 1 .. Len(r)
  <2>1. \A k \in 1 .. N : place[k] \in keep
    BY <1>4
  <2> QED BY <1>1, <1>2, <1>4, <2>1
<1>6. ASSUME NEW j \in 1 .. N, NEW k \in 1 .. N, place[j] = place[k]
      PROVE  j = k
  <2>1. ~(j < k) /\ ~(k < j)
    BY <1>1, <1>4, <1>5, <1>6
  <2> QED BY <1>4, <2>1
<1>7. place \in [1 .. N -> 1 .. Len(r)]
  BY <1>4, <1>5
<1>8. PlacedIn(r, q, place)
  BY <1>5, <1>6, <1>7, SameVariableIs DEF PlacedIn
<1> QED BY <1>4, <1>5, <1>8 DEF Derived, q

\* Statement id is among the usages of x.
UsedBy(x, id) == \E l \in 1 .. Len(x.usage) : x.usage[l] = id

\* UsedVariables derives a registry in which the variables of the names that
\* are registered are used by the statement.
LEMMA DerivedUsed ==
  ASSUME NEW m \in Nat, NEW r \in Seq(EntryType(m)), NEW names, NEW id \in 1 .. m
  PROVE  /\ Derived(r, UsedVariables(r, names, id))
         /\ \A k \in 1 .. Len(r) :
              (\E x \in names : Registered(r, x) # {} /\ k = First(r, x)) =>
                 UsedBy(UsedVariables(r, names, id)[k], id)
<1> DEFINE q == UsedVariables(r, names, id)
<1>1. /\ Len(r) \in Nat /\ Len(q) = Len(r) /\ \A k \in 1 .. Len(r) : SameEntry(r[k], q[k])
  BY UsedVariablesIs
<1>2. ASSUME NEW k \in 1 .. Len(r)
      PROVE  /\ MoreUsage(r[k], q[k])
             /\ (\E x \in names : Registered(r, x) # {} /\ k = First(r, x)) => UsedBy(q[k], id)
  <2>1. r[k] \in EntryType(m) /\ r[k].usage \in Seq(1 .. m) /\ k \in DOMAIN r
    <3>1. r[k] \in EntryType(m) /\ k \in DOMAIN r
      OBVIOUS
    <3> QED BY <3>1 DEF EntryType
  <2>2. CASE \E x \in names : Registered(r, x) # {} /\ k = First(r, x)
    <3>1. q[k] = [r[k] EXCEPT !.usage = Append(@, id)]
      BY <2>1, <2>2 DEF UsedVariables
    <3>2. q[k].usage = Append(r[k].usage, id)
      BY <2>1, <3>1 DEF EntryType
    <3>3. /\ Len(q[k].usage) = Len(r[k].usage) + 1 /\ q[k].usage[Len(r[k].usage) + 1] = id
          /\ \A j \in 1 .. Len(r[k].usage) : q[k].usage[j] = r[k].usage[j]
          /\ Len(r[k].usage) \in Nat
      BY <2>1, <3>2
    <3>4. MoreUsage(r[k], q[k])
      <4>1. \A j \in 1 .. Len(r[k].usage) : j \in 1 .. Len(q[k].usage)
        BY <3>3
      <4> QED BY <3>3, <4>1 DEF MoreUsage
    <3>5. UsedBy(q[k], id)
      <4>1. Len(r[k].usage) + 1 \in 1 .. Len(q[k].usage)
        BY <3>3
      <4> QED BY <3>3, <4>1 DEF UsedBy
    <3> QED BY <3>4, <3>5
  <2>3. CASE ~\E x \in names : Registered(r, x) # {} /\ k = First(r, x)
    <3>1. q[k] = r[k]
      BY <2>1, <2>3 DEF UsedVariables
    <3> QED BY <2>3, <3>1 DEF MoreUsage
  <2> QED BY <2>2, <2>3
<1> HIDE DEF q
<1>3. PlacedIn(r, q, [k \in 1 .. Len(r) |-> k])
  BY <1>1, <1>2 DEF PlacedIn, SameVariable
<1>4. Derived(r, q)
  BY <1>1, <1>3 DEF Derived
<1> QED BY <1>2, <1>4 DEF q

\* Declare adds an entry for its declaration.
LEMMA DeclareAdded ==
  ASSUME NEW m \in Nat, NEW r, NEW s \in Seq(EntryType(m)), Derived(r, s), NEW id \in 1 .. m,
         heap[id] \in NodeType(m), currentScope \in Nat, NEW new,
         new => \A k \in 1 .. Len(s) : s[k].declaration # Null => s[k].name # heap[id].name
  PROVE  Added(m, r, Declare(s, id), Entry(heap[id].name, id, heap[id].auto), new)
<1> DEFINE e == Entry(heap[id].name, id, heap[id].auto)
           t == Append(s, e)
<1>1. e \in EntryType(m) /\ e.name = heap[id].name
  <2>1. heap[id].name \in Names /\ heap[id].auto \in BOOLEAN
    BY DEF NodeType
  <2>2. id \in 0 .. m
    OBVIOUS
  <2>3. e \in EntryType(m)
    BY <2>1, <2>2, EntryIs
  <2> QED BY <2>3 DEF Entry
<1>2. t \in Seq(EntryType(m)) /\ Declare(s, id) = UsedVariables(t, heap[id].uses, id)
  BY <1>1 DEF Declare
<1> HIDE DEF t, e
<1>3. Derived(t, Declare(s, id))
  BY <1>2, DerivedUsed
<1> QED BY <1>1, <1>3 DEF Added, t, e

-----------------------------------------------------------------------------
(* The walk and the tree.                                                  *)

\* No statement occurs twice in a list.
OnceSeq(K) == \A j, k \in 1 .. Len(K) : K[j] # Null /\ K[j] = K[k] => j = k

Once(h) == \A n \in 1 .. Len(h) : OnceSeq(h[n].kids)

\* x is in the list K, or behind place i of it.
In(K, x)       == \E j \in 1 .. Len(K) : K[j] = x
Later(K, i, x) == \E j \in 1 .. Len(K) : j > i /\ K[j] = x

\* A statement is among the kids of its parent.
Listed(h, d) == In(h[h[d].parent].kids, d)

\* An entry is about a statement that declares its name, in its place.
Declares(h, e) ==
  /\ h[e.declaration].kind \in {"decl", "alias"}
  /\ e.name = h[e.declaration].name
  /\ Listed(h, e.declaration)

EntriesOK(h, r) == \A k \in 1 .. Len(r) : r[k].declaration # Null => Declares(h, r[k])

\* Activation fr has not come to statement n yet.
Ahead(h, fr, n) == ~fr.leaving /\ Later(h[fr.id].kids, fr.i, n)

Behind(h, st, n) == \A f \in 1 .. Len(st) : ~Ahead(h, st[f], n)

\* A statement the walk has come to.
Met(h, st, r, n) ==
  \/ \E k \in 1 .. Len(r) : r[k].declaration = n
  \/ \E f \in 1 .. Len(st) : st[f].id = n
  \/ h[n].kids # << >>

MetInv(h, st, r) == \A n \in 1 .. Len(h) : Met(h, st, r, n) => Behind(h, st, n)

\* What holds of the tree and the registry in every program.
LifeInv ==
  /\ WalkInv
  /\ Once(heap) /\ RegOnce(registry) /\ EntriesOK(heap, registry)
  /\ MetInv(heap, stack, registry)

\* The activations are on different statements.
LEMMA StackOnce ==
  ASSUME NEW h, TreeOK(h), NEW st, Walks(h, st), WellStacked(h, st),
         NEW f \in 1 .. Len(st), NEW g \in 1 .. Len(st), f < g
  PROVE  st[f].id < st[g].id
<1> DEFINE S == {m \in 1 .. Len(st) : f < m /\ ~(st[f].id < st[m].id)}
<1> SUFFICES ASSUME ~(st[f].id < st[g].id) PROVE FALSE
  OBVIOUS
<1>1. Len(st) \in Nat /\ \A m \in 1 .. Len(st) : st[m].id \in 1 .. Len(h) /\ st[m].id \in Nat
  BY DEF Walks
<1>2. g \in S
  OBVIOUS
<1>3. S \subseteq Nat
  BY <1>1
<1> HIDE DEF S
<1>4. PICK m \in S : \A n \in S : m <= n
  BY <1>2, <1>3, LeastExists
<1>5. m \in 2 .. Len(st) /\ m - 1 \in 1 .. Len(st) /\ f <= m - 1 /\ ~(st[f].id < st[m].id)
  BY <1>1, <1>4 DEF S
<1>6. st[m - 1].id < st[m].id
  <2>1. h[st[m].id].parent = st[m - 1].id
    BY <1>5 DEF WellStacked
  <2>2. st[m].id \in 1 .. Len(h) /\ st[m - 1].id \in 1 .. Len(h)
    BY <1>1, <1>5
  <2>3. st[m].id # 1
    BY <2>1, <2>2 DEF TreeOK, Null
  <2>4. st[m].id \in 2 .. Len(h)
    BY <2>2, <2>3
  <2>5. h[st[m].id].parent \in 1 .. st[m].id - 1
    BY <2>4 DEF TreeOK
  <2> QED BY <2>1, <2>4, <2>5
<1>7. CASE f = m - 1
  BY <1>5, <1>6, <1>7
<1>8. CASE f # m - 1
  <2>1. m - 1 \in S
    <3>1. f < m - 1
      BY <1>5, <1>8
    <3>2. ~(st[f].id < st[m - 1].id)
      BY SMTT(40), <1>1, <1>5, <1>6
    <3> QED BY <1>5, <3>1, <3>2 DEF S
  <2>2. m <= m - 1
    BY <1>4, <2>1
  <2> QED BY <1>5, <2>2
<1> QED BY <1>7, <1>8

\* The activations below the top are elsewhere.
LEMMA BelowElsewhere ==
  ASSUME TypeInv, BlockInv, phase = "walk", NEW f \in 1 .. Len(stack), f < Len(stack)
  PROVE  stack[f].id \in 1 .. Len(heap) /\ stack[f].id # Top.id
<1>1. TreeOK(heap) /\ Walks(heap, stack) /\ WellStacked(heap, stack)
  BY TypeInvWalks DEF BlockInv
<1>2. Len(stack) \in 1 .. Len(stack) /\ stack[f].id \in 1 .. Len(heap) /\ Top.id \in 1 .. Len(heap)
  BY <1>1, TopIs DEF Walks
<1>3. stack[f].id < stack[Len(stack)].id
  BY <1>1, <1>2, StackOnce
<1> QED BY <1>2, <1>3 DEF Top

\* n is behind the activations below the top.
Below(n) == \A f \in 1 .. Len(stack) : f < Len(stack) => ~Ahead(heap, stack[f], n)

\* What all activations have behind them, those below and the top have.
LEMMA BehindIsBelow ==
  ASSUME TypeInv, phase = "walk", NEW n, Behind(heap, stack, n)
  PROVE  Below(n) /\ ~Ahead(heap, Top, n)
<1>1. Len(stack) \in 1 .. Len(stack)
  BY TopIs
<1> QED BY <1>1 DEF Behind, Below, Top

\* The statement being visited is a kid of the top only.
LEMMA VisitedBelow ==
  ASSUME TypeInv, BlockInv, NEW kinds, Visiting(kinds)
  PROVE  Below(Visited) /\ Ahead(heap, Top, Visited) /\ In(Kids, Visited)
<1>1. /\ phase = "walk" /\ ~Top.leaving /\ Top.i + 1 \in 1 .. Len(Kids) /\ Visited = Kids[Top.i + 1]
      /\ Visited \in 1 .. Len(heap)
  BY VisitedIs
<1>2. heap[Visited].parent = Top.id
  BY VisitedParent
<1>3. ASSUME NEW f \in 1 .. Len(stack), f < Len(stack), Ahead(heap, stack[f], Visited)
      PROVE  FALSE
  <2>1. stack[f].id \in 1 .. Len(heap) /\ stack[f].id # Top.id
    BY <1>1, <1>3, BelowElsewhere
  <2>2. PICK j \in 1 .. Len(heap[stack[f].id].kids) : heap[stack[f].id].kids[j] = Visited
    BY <1>3 DEF Ahead, Later
  <2>3. KidsOK(heap) /\ Visited # Null
    BY <1>1 DEF BlockInv, Null
  <2>4. heap[Visited].parent = stack[f].id
    BY <2>1, <2>2, <2>3 DEF KidsOK
  <2> QED BY <1>2, <2>1, <2>4
<1>4. Ahead(heap, Top, Visited)
  <2>1. Top.i \in Nat /\ Top.i + 1 > Top.i
    BY SMTT(40), <1>1, TopIs
  <2> QED BY <1>1, <2>1 DEF Ahead, Later, Kids
<1> QED BY <1>1, <1>3, <1>4 DEF Below, In

\* Steps that change the top, push or pop an activation.
LEMMA BehindTop ==
  ASSUME TypeInv, BlockInv, phase = "walk", NEW fr, stack' = SetTop(fr),
         \A m \in 1 .. Len(heap) : m # Top.id => heap'[m].kids = heap[m].kids,
         NEW n, Below(n), ~Ahead(heap', fr, n)
  PROVE  Behind(heap', stack', n)
<1>1. stack \in Seq(FrameOf(registry)) /\ stack # << >>
  BY TopIs, TypeInvWalks
<1>2. Len(stack') = Len(stack) /\ \A f \in 1 .. Len(stack) : stack'[f] = IF f = Len(stack) THEN fr ELSE stack[f]
  BY <1>1, WithTopIs DEF SetTop
<1>3. ASSUME NEW f \in 1 .. Len(stack), f # Len(stack)
      PROVE  ~Ahead(heap', stack[f], n)
  <2>1. f < Len(stack)
    BY <1>1, <1>3
  <2>2. stack[f].id \in 1 .. Len(heap) /\ stack[f].id # Top.id
    BY <2>1, BelowElsewhere
  <2> QED BY <2>1, <2>2 DEF Below, Ahead
<1> QED BY <1>2, <1>3 DEF Behind

\* What is behind the activations stays behind them when one is added.
LEMMA BehindPush ==
  ASSUME TypeInv, BlockInv, phase = "walk", NEW fr \in FrameOf(registry), NEW v, NEW sc,
         stack' = Append(SetTop(fr), Frame(v, sc)), heap' = heap, heap[v].kids = << >>,
         NEW n, Below(n), ~Ahead(heap, fr, n)
  PROVE  Behind(heap', stack', n)
<1>1. stack \in Seq(FrameOf(registry)) /\ stack # << >> /\ Len(stack) \in Nat
  BY TopIs, TypeInvWalks
<1> DEFINE st == SetTop(fr)
<1>2. /\ Len(st) = Len(stack) /\ st \in Seq(FrameOf(registry))
      /\ \A f \in 1 .. Len(stack) : st[f] = IF f = Len(stack) THEN fr ELSE stack[f]
  <2>1. st \in Seq(FrameOf(registry))
    BY <1>1 DEF SetTop, WithTop
  <2> QED BY <1>1, <2>1, WithTopIs DEF SetTop
<1> HIDE DEF st
<1>3. Len(stack') = Len(stack) + 1 /\ stack'[Len(stack) + 1] = Frame(v, sc)
      /\ \A f \in 1 .. Len(stack) : stack'[f] = st[f]
  BY <1>1, <1>2 DEF st
<1>4. ~Ahead(heap', Frame(v, sc), n)
  <2>1. ~Later(<< >>, 0, n)
    BY DEF Later
  <2> QED BY <2>1 DEF Ahead, Frame
<1>5. ASSUME NEW f \in 1 .. Len(stack')
      PROVE  ~Ahead(heap', stack'[f], n)
  <2>1. f \in 1 .. Len(stack) \/ f = Len(stack) + 1
    BY <1>1, <1>3
  <2>2. CASE f = Len(stack) + 1
    BY <1>3, <1>4, <2>2
  <2>3. CASE f \in 1 .. Len(stack) /\ f = Len(stack)
    BY <1>2, <1>3, <2>3
  <2>4. CASE f \in 1 .. Len(stack) /\ f # Len(stack)
    <3>1. stack'[f] = stack[f] /\ f < Len(stack)
      BY <1>1, <1>2, <1>3, <2>4
    <3> QED BY <2>4, <3>1 DEF Below
  <2> QED BY <2>1, <2>2, <2>3, <2>4
<1> QED BY <1>5 DEF Behind

\* The same when the top returns.
LEMMA BehindPop ==
  ASSUME TypeInv, BlockInv, phase = "walk", stack' = Under,
         Extends(heap, heap'), Len(heap') \in Nat,
         \A m \in 1 .. Len(heap) : m # Top.id => heap'[m].kids = heap[m].kids,
         NEW n, Below(n)
  PROVE  Behind(heap', stack', n)
<1>1. stack # << >>
  BY TopIs
<1>2. /\ Len(stack') = Len(stack) - 1 /\ Len(stack) \in Nat
      /\ \A f \in 1 .. Len(stack') : stack'[f] = stack[f]
  BY <1>1, UnderIs
<1>3. ASSUME NEW f \in 1 .. Len(stack')
      PROVE  ~Ahead(heap', stack'[f], n)
  <2>1. f \in 1 .. Len(stack) /\ f < Len(stack) /\ stack'[f] = stack[f]
    BY <1>2
  <2>2. stack[f].id \in 1 .. Len(heap) /\ stack[f].id # Top.id
    BY <2>1, BelowElsewhere
  <2> QED BY <2>1, <2>2 DEF Below, Ahead
<1> QED BY <1>3 DEF Behind

\* The declarations of q are some of r, and v.
OnlyNew(r, q, v) ==
  \A k \in 1 .. Len(q) :
     \/ q[k].declaration \in {Null, v}
     \/ \E p \in 1 .. Len(r) : r[p].declaration = q[k].declaration

\* The top, which becomes fr, gets no statement before it but v.
NotAhead(fr, v) == \A n \in 1 .. Len(heap) : n = v \/ ~Ahead(heap, Top, n) => ~Ahead(heap', fr, n)

\* A statement that is met now was met before, or is v or the top.
LEMMA MetBefore ==
  ASSUME LifeInv, phase = "walk", NEW v \in 1 .. Len(heap), Below(v), OnlyNew(registry, registry', v),
         \A m \in 1 .. Len(heap) : m # Top.id => heap'[m].kids = heap[m].kids,
         \A f \in 1 .. Len(stack') : stack'[f].id = v \/ \E g \in 1 .. Len(stack) : stack'[f].id = stack[g].id,
         NEW n \in 1 .. Len(heap), Met(heap', stack', registry', n)
  PROVE  Below(n) /\ (n = v \/ ~Ahead(heap, Top, n))
<1>1. TypeInv /\ MetInv(heap, stack, registry)
  BY DEF LifeInv, WalkInv
<1>2. Met(heap, stack, registry, n) => Below(n) /\ ~Ahead(heap, Top, n)
  BY <1>1, BehindIsBelow DEF MetInv
<1>3. CASE \E k \in 1 .. Len(registry') : registry'[k].declaration = n
  <2>1. n = v \/ \E p \in 1 .. Len(registry) : registry[p].declaration = n
    BY <1>3 DEF OnlyNew, Null
  <2> QED BY <1>2, <2>1 DEF Met
<1>4. CASE \E f \in 1 .. Len(stack') : stack'[f].id = n
  <2>1. n = v \/ \E g \in 1 .. Len(stack) : stack[g].id = n
    BY <1>4
  <2> QED BY <1>2, <2>1 DEF Met
<1>5. CASE heap'[n].kids # << >>
  <2>1. CASE n # Top.id
    <3>1. heap[n].kids # << >>
      BY <1>5, <2>1
    <3> QED BY <1>2, <3>1 DEF Met
  <2>2. CASE n = Top.id
    <3>1. Len(stack) \in 1 .. Len(stack) /\ stack[Len(stack)].id = n
      BY <1>1, <2>2, TopIs DEF Top
    <3> QED BY <1>2, <3>1 DEF Met
  <2> QED BY <2>1, <2>2
<1> QED BY <1>3, <1>4, <1>5 DEF Met

\* A new statement has not been met.
LEMMA NewUnmet ==
  ASSUME LifeInv, TreeStep(Top.id), registry' \in Seq(EntryType(Len(heap))), NEW v \in 1 .. Len(heap),
         \A f \in 1 .. Len(stack') : stack'[f].id = v \/ \E g \in 1 .. Len(stack) : stack'[f].id = stack[g].id,
         NEW n \in 1 .. Len(heap'), Met(heap', stack', registry', n)
  PROVE  n \in 1 .. Len(heap)
<1>1. Len(heap) \in Nat /\ \A g \in 1 .. Len(stack) : stack[g].id \in 1 .. Len(heap)
  BY TypeInvWalks DEF LifeInv, WalkInv, Walks
<1>2. CASE \E k \in 1 .. Len(registry') : registry'[k].declaration = n
  <2>1. PICK k \in 1 .. Len(registry') : registry'[k].declaration = n
    BY <1>2
  <2>2. registry'[k] \in EntryType(Len(heap))
    OBVIOUS
  <2>3. n \in 0 .. Len(heap)
    BY <2>1, <2>2 DEF EntryType
  <2> QED BY <1>1, <2>3
<1>3. CASE \E f \in 1 .. Len(stack') : stack'[f].id = n
  BY <1>1, <1>3
<1>4. CASE heap'[n].kids # << >>
  BY <1>1, <1>4 DEF TreeStep
<1> QED BY <1>2, <1>3, <1>4 DEF Met

\* MetInv after a step at the top, and when an activation is pushed or popped.
LEMMA MetTop ==
  ASSUME LifeInv, phase = "walk", TreeStep(Top.id), registry' \in Seq(EntryType(Len(heap))),
         NEW v \in 1 .. Len(heap), Below(v), OnlyNew(registry, registry', v),
         NEW fr, fr.id = Top.id, stack' = SetTop(fr), NotAhead(fr, v)
  PROVE  MetInv(heap', stack', registry')
<1>1. TypeInv /\ BlockInv
  BY DEF LifeInv, WalkInv
<1>2. stack \in Seq(FrameOf(registry)) /\ stack # << >> /\ Top = stack[Len(stack)]
  BY <1>1, TopIs, TypeInvWalks DEF Top
<1>3. Len(stack') = Len(stack) /\ \A f \in 1 .. Len(stack) : stack'[f] = IF f = Len(stack) THEN fr ELSE stack[f]
  BY <1>2, WithTopIs DEF SetTop
<1>4. \A f \in 1 .. Len(stack') : stack'[f].id = v \/ \E g \in 1 .. Len(stack) : stack'[f].id = stack[g].id
  BY <1>2, <1>3
<1>5. \A m \in 1 .. Len(heap) : m # Top.id => heap'[m].kids = heap[m].kids
  BY DEF TreeStep
<1>6. ASSUME NEW n \in 1 .. Len(heap'), Met(heap', stack', registry', n)
      PROVE  Behind(heap', stack', n)
  <2>1. n \in 1 .. Len(heap)
    BY <1>4, <1>6, NewUnmet
  <2>2. Below(n) /\ (n = v \/ ~Ahead(heap, Top, n))
    BY <1>4, <1>5, <1>6, <2>1, MetBefore
  <2>3. ~Ahead(heap', fr, n)
    BY <2>1, <2>2 DEF NotAhead
  <2> QED BY <1>1, <1>5, <2>2, <2>3, BehindTop
<1> QED BY <1>6 DEF MetInv

\* The activation that is added, on a statement v of the top, makes v met.
LEMMA MetPush ==
  ASSUME LifeInv, phase = "walk", heap' = heap, registry' \in Seq(EntryType(Len(heap))),
         NEW v \in 1 .. Len(heap), Below(v), Ahead(heap, Top, v), OnlyNew(registry, registry', v),
         NEW fr \in FrameOf(registry), fr.id = Top.id, NEW sc,
         stack' = Append(SetTop(fr), Frame(v, sc)), NotAhead(fr, v)
  PROVE  MetInv(heap', stack', registry')
<1>1. TypeInv /\ BlockInv /\ MetInv(heap, stack, registry)
  BY DEF LifeInv, WalkInv
<1>2. stack \in Seq(FrameOf(registry)) /\ stack # << >> /\ Top = stack[Len(stack)] /\ Len(stack) \in Nat
  BY <1>1, TopIs, TypeInvWalks DEF Top
<1>3. /\ Len(SetTop(fr)) = Len(stack) /\ SetTop(fr) \in Seq(FrameOf(registry))
      /\ \A f \in 1 .. Len(stack) : SetTop(fr)[f] = IF f = Len(stack) THEN fr ELSE stack[f]
  <2>1. SetTop(fr) \in Seq(FrameOf(registry))
    BY <1>2 DEF SetTop, WithTop
  <2> QED BY <1>2, <2>1, WithTopIs DEF SetTop
<1>4. Len(stack') = Len(stack) + 1 /\ stack'[Len(stack) + 1] = Frame(v, sc)
      /\ \A f \in 1 .. Len(stack) : stack'[f] = SetTop(fr)[f]
  BY <1>2, <1>3
<1>5. \A f \in 1 .. Len(stack') : stack'[f].id = v \/ \E g \in 1 .. Len(stack) : stack'[f].id = stack[g].id
  <2>1. ASSUME NEW f \in 1 .. Len(stack')
        PROVE  stack'[f].id = v \/ \E g \in 1 .. Len(stack) : stack'[f].id = stack[g].id
    <3>1. CASE f = Len(stack) + 1
      BY <1>4, <3>1 DEF Frame
    <3>2. CASE f # Len(stack) + 1
      <4>1. f \in 1 .. Len(stack)
        BY <1>2, <1>4, <3>2
      <4>2. stack'[f].id = stack[f].id
        BY <1>2, <1>3, <1>4, <4>1
      <4> QED BY <4>1, <4>2
    <3> QED BY <3>1, <3>2
  <2> QED BY <2>1
<1>6. heap[v].kids = << >>
  <2>1. ~Behind(heap, stack, v)
    BY <1>1, BehindIsBelow
  <2> QED BY <1>1, <2>1 DEF MetInv, Met
<1>7. ASSUME NEW n \in 1 .. Len(heap'), Met(heap', stack', registry', n)
      PROVE  Behind(heap', stack', n)
  <2>1. \A m \in 1 .. Len(heap) : m # Top.id => heap'[m].kids = heap[m].kids
    OBVIOUS
  <2>2. Below(n) /\ (n = v \/ ~Ahead(heap, Top, n))
    BY <1>5, <1>7, <2>1, MetBefore
  <2>3. ~Ahead(heap, fr, n)
    BY <1>7, <2>2 DEF NotAhead
  <2> QED BY <1>1, <1>6, <2>2, <2>3, BehindPush
<1> QED BY <1>7 DEF MetInv

\* What was met is met when the top returns.
LEMMA MetPop ==
  ASSUME LifeInv, phase = "walk", TreeStep(Top.id), registry' \in Seq(EntryType(Len(heap))),
         OnlyNew(registry, registry', Null), stack' = Under
  PROVE  MetInv(heap', stack', registry')
<1>1. TypeInv /\ BlockInv /\ MetInv(heap, stack, registry)
  BY DEF LifeInv, WalkInv
<1>2. stack # << >> /\ Top.id \in 1 .. Len(heap) /\ Top = stack[Len(stack)] /\ Len(stack) \in 1 .. Len(stack)
  BY <1>1, TopIs DEF Top
<1>3. Extends(heap, heap') /\ Len(heap') \in Nat
  BY DEF TreeStep
<1>4. /\ Len(stack') = Len(stack) - 1 /\ Len(stack) \in Nat
      /\ \A f \in 1 .. Len(stack') : stack'[f] = stack[f]
  BY <1>1, <1>2, <1>3, UnderIs
<1>5. \A f \in 1 .. Len(stack') : stack'[f].id = Top.id \/ \E g \in 1 .. Len(stack) : stack'[f].id = stack[g].id
  <2>1. \A f \in 1 .. Len(stack') : f \in 1 .. Len(stack)
    BY <1>4
  <2> QED BY <1>4, <2>1
<1>6. Below(Top.id)
  <2>1. Met(heap, stack, registry, Top.id)
    BY <1>2 DEF Met
  <2> QED BY <1>1, <1>2, <2>1, BehindIsBelow DEF MetInv
<1>7. OnlyNew(registry, registry', Top.id)
  BY DEF OnlyNew
<1>8. \A m \in 1 .. Len(heap) : m # Top.id => heap'[m].kids = heap[m].kids
  BY DEF TreeStep
<1>9. ASSUME NEW n \in 1 .. Len(heap'), Met(heap', stack', registry', n)
      PROVE  Behind(heap', stack', n)
  <2>1. n \in 1 .. Len(heap)
    BY <1>2, <1>5, <1>9, NewUnmet
  <2>2. Below(n)
    BY <1>2, <1>5, <1>6, <1>7, <1>8, <1>9, <2>1, MetBefore
  <2> QED BY <1>1, <1>3, <1>8, <2>2, BehindPop
<1> QED BY <1>9 DEF MetInv

-----------------------------------------------------------------------------
(* Entries and lists.                                                      *)

\* A derived registry has entries for the same declarations.
LEMMA EntriesDerived ==
  ASSUME NEW h, NEW r, NEW q, EntriesOK(h, r), Derived(r, q), NEW v
  PROVE  EntriesOK(h, q) /\ OnlyNew(r, q, v)
<1>1. \A k \in 1 .. Len(q) : \E p \in 1 .. Len(r) : SameEntry(r[p], q[k])
  BY DerivedIs DEF SameVariable
<1>2. ASSUME NEW k \in 1 .. Len(q)
      PROVE  /\ q[k].declaration # Null => Declares(h, q[k])
             /\ \E p \in 1 .. Len(r) : r[p].declaration = q[k].declaration
  <2>1. PICK p \in 1 .. Len(r) : SameEntry(r[p], q[k])
    BY <1>1
  <2>2. r[p].declaration = q[k].declaration /\ r[p].name = q[k].name
    BY <2>1 DEF SameEntry
  <2>3. r[p].declaration # Null => Declares(h, r[p])
    BY DEF EntriesOK
  <2> QED BY <2>2, <2>3 DEF Declares
<1> QED BY <1>2 DEF EntriesOK, OnlyNew

\* One with another entry has one more.
LEMMA EntriesAdded ==
  ASSUME NEW h, NEW m \in Nat, NEW r, NEW q, EntriesOK(h, r), NEW e \in EntryType(m), NEW new,
         Added(m, r, q, e, new), Declares(h, e)
  PROVE  EntriesOK(h, q) /\ OnlyNew(r, q, e.declaration)
<1>1. \A k \in 1 .. Len(q) : (\E p \in 1 .. Len(r) : SameEntry(r[p], q[k])) \/ SameEntry(e, q[k])
  BY AddedIs DEF SameVariable
<1>2. ASSUME NEW k \in 1 .. Len(q)
      PROVE  /\ q[k].declaration # Null => Declares(h, q[k])
             /\ \/ q[k].declaration = e.declaration
                \/ \E p \in 1 .. Len(r) : r[p].declaration = q[k].declaration
  <2>1. CASE \E p \in 1 .. Len(r) : SameEntry(r[p], q[k])
    <3>1. PICK p \in 1 .. Len(r) : SameEntry(r[p], q[k])
      BY <2>1
    <3>2. r[p].declaration = q[k].declaration /\ r[p].name = q[k].name
      BY <3>1 DEF SameEntry
    <3>3. r[p].declaration # Null => Declares(h, r[p])
      BY DEF EntriesOK
    <3> QED BY <3>2, <3>3 DEF Declares
  <2>2. CASE SameEntry(e, q[k])
    <3>1. e.declaration = q[k].declaration /\ e.name = q[k].name
      BY <2>2 DEF SameEntry
    <3> QED BY <3>1 DEF Declares
  <2> QED BY <1>1, <2>1, <2>2
<1> QED BY <1>2 DEF EntriesOK, OnlyNew

\* All of K but x is in L.
Stays(K, L, x) == \A y \in 1 .. Len(heap) : y # x /\ In(K, y) => In(L, y)

\* A step that takes at most x out of the top's list keeps the declarations of
\* the others in their places.
LEMMA EntriesKept ==
  ASSUME TypeInv, BlockInv, TreeStep(Top.id), NEW q \in Seq(EntryType(Len(heap))), EntriesOK(heap, q),
         NEW x, Stays(Kids, heap'[Top.id].kids, x),
         \A k \in 1 .. Len(q) : q[k].declaration # Null => q[k].declaration # x
  PROVE  EntriesOK(heap', q)
<1>1. Extends(heap, heap') /\ TreeOK(heap) /\ Len(heap) \in Nat
  BY SMTT(40) DEF TreeStep, TypeInv, BlockInv
<1>2. ASSUME NEW k \in 1 .. Len(q), q[k].declaration # Null
      PROVE  Declares(heap', q[k])
  <2> DEFINE d == q[k].declaration
             p == heap[d].parent
  <2>1. Declares(heap, q[k])
    BY <1>2 DEF EntriesOK
  <2>2. d \in 1 .. Len(heap)
    <3>1. q[k] \in EntryType(Len(heap))
      OBVIOUS
    <3> QED BY <1>1, <1>2, <3>1 DEF EntryType, Null
  <2>3. d \in 2 .. Len(heap)
    BY <1>1, <2>1, <2>2 DEF Declares, TreeOK
  <2>4. p \in 1 .. Len(heap)
    <3>1. p \in 1 .. d - 1
      BY <1>1, <2>3 DEF TreeOK
    <3> QED BY <1>1, <2>3, <3>1
  <2>5. SameNode(heap[d], heap'[d])
    BY <1>1, <2>2 DEF Extends
  <2>6. In(heap[p].kids, d)
    BY <2>1 DEF Declares, Listed
  <2>7. In(heap'[p].kids, d)
    <3>1. CASE p = Top.id
      <4>1. In(Kids, d) /\ d # x
        BY <1>2, <2>6, <3>1 DEF Kids
      <4> QED BY <2>2, <3>1, <4>1 DEF Stays
    <3>2. CASE p # Top.id
      <4>1. heap'[p].kids = heap[p].kids
        BY <2>4, <3>2 DEF TreeStep
      <4> QED BY <2>6, <4>1
    <3> QED BY <3>1, <3>2
  <2> QED BY <2>1, <2>5, <2>7 DEF Declares, Listed, SameNode
<1> QED BY <1>2 DEF EntriesOK

\* Lists without repetitions.
LEMMA OnceKept ==
  ASSUME Once(heap), TreeStep(Top.id), OnceSeq(heap'[Top.id].kids), Len(heap) \in Nat
  PROVE  Once(heap')
<1>1. ASSUME NEW n \in 1 .. Len(heap')
      PROVE  OnceSeq(heap'[n].kids)
  <2>1. CASE n = Top.id
    BY <2>1
  <2>2. CASE n # Top.id /\ n \in 1 .. Len(heap)
    <3>1. heap'[n].kids = heap[n].kids
      BY <2>2 DEF TreeStep
    <3> QED BY <2>2, <3>1 DEF Once
  <2>3. CASE n # Top.id /\ n \notin 1 .. Len(heap)
    <3>1. n = Len(heap) + 1 /\ heap'[n].kids = << >>
      BY <2>3 DEF TreeStep
    <3> QED BY <3>1 DEF OnceSeq
  <2> QED BY <2>1, <2>2, <2>3
<1> QED BY <1>1 DEF Once

\* What appending x, which is not in it, does to a list.
LEMMA AppendList ==
  ASSUME NEW S, NEW K \in Seq(S), OnceSeq(K), NEW x, x = Null \/ ~In(K, x), NEW i \in Nat
  PROVE  /\ OnceSeq(Append(K, x))
         /\ \A y : In(K, y) => In(Append(K, x), y)
         /\ \A y : y # x /\ Later(Append(K, x), i, y) => Later(K, i, y)
<1> DEFINE L == Append(K, x)
<1>1. Len(K) \in Nat /\ Len(L) = Len(K) + 1 /\ L[Len(K) + 1] = x /\ \A j \in 1 .. Len(K) : L[j] = K[j]
  OBVIOUS
<1> HIDE DEF L
<1>2. \A j \in 1 .. Len(L) : j \in 1 .. Len(K) \/ j = Len(K) + 1
  BY <1>1
<1>3. \A j \in 1 .. Len(K) : j \in 1 .. Len(L)
  BY <1>1
<1>4. ASSUME NEW j \in 1 .. Len(L), NEW k \in 1 .. Len(L), L[j] # Null, L[j] = L[k]
      PROVE  j = k
  <2>1. CASE j \in 1 .. Len(K) /\ k \in 1 .. Len(K)
    BY <1>1, <1>4, <2>1 DEF OnceSeq
  <2>2. CASE j = Len(K) + 1 /\ k \in 1 .. Len(K)
    BY <1>1, <1>4, <2>2 DEF In
  <2>3. CASE j \in 1 .. Len(K) /\ k = Len(K) + 1
    BY <1>1, <1>4, <2>3 DEF In
  <2> QED BY <1>2, <2>1, <2>2, <2>3
<1>5. ASSUME NEW y, In(K, y)
      PROVE  In(L, y)
  BY <1>1, <1>3, <1>5 DEF In
<1>6. ASSUME NEW y, y # x, Later(L, i, y)
      PROVE  Later(K, i, y)
  <2>1. PICK j \in 1 .. Len(L) : j > i /\ L[j] = y
    BY <1>6 DEF Later
  <2>2. j \in 1 .. Len(K)
    BY <1>1, <1>2, <1>6, <2>1
  <2> QED BY <1>1, <2>1, <2>2 DEF Later
<1> QED BY <1>4, <1>5, <1>6 DEF OnceSeq, L

\* L is K with x at place at.
InsertedAt(K, at, x, L) ==
  /\ Len(L) = Len(K) + 1 /\ L[at] = x
  /\ \A j \in 1 .. at - 1 : L[j] = K[j]
  /\ \A j \in at .. Len(K) : L[j + 1] = K[j]

\* InsertAt inserts.
LEMMA InsertAtInserts ==
  ASSUME NEW S, NEW K \in Seq(S), NEW at \in 1 .. Len(K) + 1, NEW x \in S
  PROVE  InsertedAt(K, at, x, InsertAt(K, at, x))
<1>1. /\ Len(InsertAt(K, at, x)) = Len(K) + 1
      /\ InsertAt(K, at, x)[at] = x
  BY InsertAtIs
<1>2. \A j \in 1 .. at - 1 : InsertAt(K, at, x)[j] = K[j]
  BY InsertAtIs
<1>3. \A j \in at .. Len(K) : InsertAt(K, at, x)[j + 1] = K[j]
  BY InsertAtIs
<1> QED BY <1>1, <1>2, <1>3 DEF InsertedAt

\* What inserting x, which is not in it, does to a list.
LEMMA InsertList ==
  ASSUME NEW S, NEW K \in Seq(S), OnceSeq(K), NEW at \in 1 .. Len(K) + 1, NEW x \in S, ~In(K, x), NEW i \in Nat
  PROVE  /\ OnceSeq(InsertAt(K, at, x)) /\ Len(InsertAt(K, at, x)) = Len(K) + 1
         /\ In(InsertAt(K, at, x), x)
         /\ \A y : In(K, y) => In(InsertAt(K, at, x), y)
         /\ \A y : In(InsertAt(K, at, x), y) => y = x \/ In(K, y)
         /\ \A y : y # x /\ Later(InsertAt(K, at, x), i + 1, y) => Later(K, i, y)
<1> DEFINE L == InsertAt(K, at, x)
<1>1. /\ Len(K) \in Nat /\ Len(L) = Len(K) + 1 /\ L[at] = x
      /\ \A j \in 1 .. at - 1 : L[j] = K[j]
      /\ \A j \in at .. Len(K) : L[j + 1] = K[j]
  <2>1. Len(K) \in Nat
    OBVIOUS
  <2>2. InsertedAt(K, at, x, L)
    BY InsertAtInserts
  <2> HIDE DEF L
  <2> QED BY <2>1, <2>2 DEF InsertedAt
<1> HIDE DEF L
<1> DEFINE old(j) == IF j < at THEN j ELSE j - 1
           new(j) == IF j < at THEN j ELSE j + 1
<1>2. ASSUME NEW j \in 1 .. Len(L), j # at
      PROVE  old(j) \in 1 .. Len(K) /\ L[j] = K[old(j)]
  <2>1. CASE j < at
    BY <1>1, <2>1
  <2>2. CASE ~(j < at)
    <3>1. j - 1 \in at .. Len(K) /\ j - 1 \in 1 .. Len(K) /\ (j - 1) + 1 = j
      BY <1>1, <1>2, <2>2
    <3> QED BY <1>1, <2>2, <3>1
  <2> QED BY <2>1, <2>2
<1>3. ASSUME NEW j \in 1 .. Len(K)
      PROVE  new(j) \in 1 .. Len(L) /\ L[new(j)] = K[j]
  BY <1>1
<1>4. ASSUME NEW j \in 1 .. Len(L), j # at
      PROVE  L[j] # x
  BY <1>2, <1>4 DEF In
<1>5. ASSUME NEW j \in 1 .. Len(L), NEW k \in 1 .. Len(L), L[j] # Null, L[j] = L[k]
      PROVE  j = k
  <2>1. CASE j = at \/ k = at
    BY <1>1, <1>4, <1>5, <2>1
  <2>2. CASE j # at /\ k # at
    <3>1. old(j) = old(k)
      BY <1>2, <1>5, <2>2 DEF OnceSeq
    <3> QED BY <1>1, <2>2, <3>1
  <2> QED BY <2>1, <2>2
<1>6. ASSUME NEW y, In(K, y)
      PROVE  In(L, y)
  BY <1>3, <1>6 DEF In
<1>7. ASSUME NEW y, In(L, y), y # x
      PROVE  In(K, y)
  <2>1. PICK j \in 1 .. Len(L) : L[j] = y
    BY <1>7 DEF In
  <2>2. j # at
    BY <1>1, <1>7, <2>1
  <2> QED BY <1>2, <2>1, <2>2 DEF In
<1>8. ASSUME NEW y, y # x, Later(L, i + 1, y)
      PROVE  Later(K, i, y)
  <2>1. PICK j \in 1 .. Len(L) : j > i + 1 /\ L[j] = y
    BY <1>8 DEF Later
  <2>2. j # at
    BY <1>1, <1>8, <2>1
  <2>3. old(j) > i /\ old(j) \in 1 .. Len(K) /\ K[old(j)] = y
    BY <1>1, <1>2, <2>1, <2>2
  <2> QED BY <2>3 DEF Later
<1>9. In(L, x)
  <2>1. at \in 1 .. Len(L)
    BY <1>1
  <2> QED BY <1>1, <2>1 DEF In
<1> QED BY <1>1, <1>5, <1>6, <1>7, <1>8, <1>9 DEF OnceSeq, L

\* What nulling a place does to a list.
LEMMA NullList ==
  ASSUME NEW S, NEW K \in Seq(S), OnceSeq(K), NEW at \in 1 .. Len(K), K[at] # Null
  PROVE  /\ OnceSeq([K EXCEPT ![at] = Null])
         /\ ~In([K EXCEPT ![at] = Null], K[at])
         /\ \A y : y # K[at] /\ In(K, y) => In([K EXCEPT ![at] = Null], y)
         /\ \A y : In([K EXCEPT ![at] = Null], y) => y = Null \/ In(K, y)
<1> DEFINE L == [K EXCEPT ![at] = Null]
<1>1. Len(L) = Len(K) /\ \A j \in 1 .. Len(K) : L[j] = IF j = at THEN Null ELSE K[j]
  OBVIOUS
<1> HIDE DEF L
<1>2. OnceSeq(L)
  BY <1>1 DEF OnceSeq
<1>3. ~In(L, K[at])
  BY <1>1 DEF In, OnceSeq
<1>4. \A y : y # K[at] /\ In(K, y) => In(L, y)
  BY <1>1 DEF In
<1>5. \A y : In(L, y) => y = Null \/ In(K, y)
  BY <1>1 DEF In
<1> QED BY <1>2, <1>3, <1>4, <1>5 DEF L

\* What dropping the nulled places does to a list.
LEMMA FixList ==
  ASSUME NEW S, NEW K \in Seq(S), OnceSeq(K)
  PROVE  /\ OnceSeq(Keep(K, {k \in DOMAIN K : K[k] # Null}))
         /\ \A y : y # Null /\ In(K, y) => In(Keep(K, {k \in DOMAIN K : K[k] # Null}), y)
         /\ \A y : In(Keep(K, {k \in DOMAIN K : K[k] # Null}), y) => y # Null /\ In(K, y)
<1> DEFINE keep == {k \in DOMAIN K : K[k] # Null}
           N    == Cardinality(keep)
           L    == Keep(K, keep)
<1>1. Len(K) \in Nat /\ DOMAIN K = 1 .. Len(K) /\ keep \subseteq DOMAIN K
      /\ \A k \in keep : k \in 1 .. Len(K) /\ K[k] # Null
  OBVIOUS
<1>2. Selects(K, keep, L) /\ L \in Seq(S)
  BY <1>1, KeepSeq
<1>3. Places(keep, Len(K))
  BY <1>1 DEF Places
<1>4. \A y : In(K, y) /\ y # Null => \E k \in keep : K[k] = y
  BY <1>1 DEF In
<1> HIDE DEF keep, N, L
<1>5. PICK place : KeptBy(K, keep, place)
  BY <1>1, <1>3, KeepPlaces
<1>6. /\ N \in Nat /\ place \in [1 .. N -> keep] /\ L = [k \in 1 .. N |-> K[place[k]]]
      /\ \A j, k \in 1 .. N : j < k => place[j] < place[k]
  BY <1>1, <1>3, <1>5, KeepPlaces DEF KeptBy, N, L
<1>7. Len(L) = N /\ DOMAIN L = 1 .. Len(L)
      /\ \A k \in 1 .. N : L[k] = K[place[k]] /\ place[k] \in 1 .. Len(K) /\ K[place[k]] # Null
  <2>1. \A k \in 1 .. N : place[k] \in keep
    BY <1>6
  <2> QED BY <1>1, <1>6, <2>1
<1>8. ASSUME NEW j \in 1 .. N, NEW k \in 1 .. N, L[j] = L[k]
      PROVE  j = k
  <2>1. place[j] = place[k]
    BY <1>7, <1>8 DEF OnceSeq
  <2>2. ~(j < k) /\ ~(k < j)
    BY <1>1, <1>6, <1>7, <2>1
  <2> QED BY <1>6, <2>2
<1>9. OnceSeq(L)
  BY <1>7, <1>8 DEF OnceSeq
<1>10. ASSUME NEW y, y # Null, In(K, y)
       PROVE  In(L, y)
  <2>1. PICK k \in keep : K[k] = y
    BY <1>4, <1>10
  <2>2. PICK j \in DOMAIN L : L[j] = K[k]
    BY <1>2 DEF Selects
  <2> QED BY <1>7, <2>1, <2>2 DEF In
<1>11. \A y : In(L, y) => y # Null /\ In(K, y)
  BY <1>7 DEF In
<1> QED BY <1>9, <1>10, <1>11 DEF L, keep

-----------------------------------------------------------------------------
(* Steps keep LifeInv.                                                     *)

\* A step at the top.
LEMMA LifeTop ==
  ASSUME LifeInv, WalkInv', phase = "walk", TreeStep(Top.id), registry' \in Seq(EntryType(Len(heap))),
         NEW v \in 1 .. Len(heap), Below(v), OnlyNew(registry, registry', v),
         NEW fr, fr.id = Top.id, stack' = SetTop(fr), NotAhead(fr, v),
         OnceSeq(heap'[Top.id].kids), NEW x, Stays(Kids, heap'[Top.id].kids, x),
         EntriesOK(heap, registry'), RegOnce(registry'),
         \A k \in 1 .. Len(registry') : registry'[k].declaration # Null => registry'[k].declaration # x
  PROVE  LifeInv'
<1>1. TypeInv /\ BlockInv /\ Once(heap) /\ Len(heap) \in Nat
  BY TypeInvWalks DEF LifeInv, WalkInv
<1>2. MetInv(heap', stack', registry')
  BY MetTop
<1>3. EntriesOK(heap', registry')
  BY <1>1, EntriesKept
<1>4. Once(heap')
  BY <1>1, OnceKept
<1> QED BY <1>2, <1>3, <1>4 DEF LifeInv

\* A step that keeps the tree is such a step.
LEMMA SameTree ==
  ASSUME TypeInv, phase = "walk", heap' = heap, Once(heap)
  PROVE  /\ TreeStep(Top.id) /\ OnceSeq(heap'[Top.id].kids)
         /\ Stays(Kids, heap'[Top.id].kids, Null)
<1>1. heap \in Seq(NodeType(Len(heap))) /\ Top.id \in 1 .. Len(heap)
  BY TopIs DEF TypeInv
<1>2. Extends(heap, heap') /\ heap' \in Seq(NodeType(Len(heap'))) /\ Len(heap') = Len(heap)
  BY <1>1, HeapSame
<1>3. \A k \in 1 .. Len(heap'[Top.id].kids) :
         \E j \in 1 .. Len(heap[Top.id].kids) : heap'[Top.id].kids[k] = heap[Top.id].kids[j]
  OBVIOUS
<1>4. TreeStep(Top.id)
  BY <1>2, <1>3 DEF TreeStep
<1>5. Stays(Kids, heap'[Top.id].kids, Null)
  BY DEF Stays, Kids
<1>6. OnceSeq(heap'[Top.id].kids)
  BY <1>1 DEF Once
<1> QED BY <1>4, <1>5, <1>6

\* The top itself has been met.
LEMMA TopMet ==
  ASSUME LifeInv, phase = "walk"
  PROVE  Below(Top.id) /\ ~Ahead(heap, Top, Top.id) /\ Top.id \in 1 .. Len(heap)
<1>1. TypeInv /\ MetInv(heap, stack, registry)
  BY DEF LifeInv, WalkInv
<1>2. Top.id \in 1 .. Len(heap) /\ Len(stack) \in 1 .. Len(stack) /\ Top = stack[Len(stack)]
  BY <1>1, TopIs DEF Top
<1>3. Behind(heap, stack, Top.id)
  BY <1>1, <1>2 DEF MetInv, Met
<1> QED BY <1>1, <1>2, <1>3, BehindIsBelow

\* The statement being visited has not.
LEMMA VisitedUnmet ==
  ASSUME LifeInv, NEW kinds, Visiting(kinds)
  PROVE  /\ \A p \in 1 .. Len(registry) : registry[p].declaration # Visited
         /\ \A f \in 1 .. Len(stack) : stack[f].id # Visited
         /\ heap[Visited].kids = << >>
<1>1. TypeInv /\ BlockInv /\ MetInv(heap, stack, registry)
  BY DEF LifeInv, WalkInv
<1>2. phase = "walk" /\ Visited \in 1 .. Len(heap)
  BY <1>1, VisitedIs
<1>3. Ahead(heap, Top, Visited)
  BY <1>1, VisitedBelow
<1>4. ~Behind(heap, stack, Visited)
  BY <1>1, <1>2, <1>3, BehindIsBelow
<1>5. ~Met(heap, stack, registry, Visited)
  BY <1>1, <1>2, <1>4 DEF MetInv
<1> QED BY <1>5 DEF Met

\* The walk goes on in the same list.
Advances(fr) ==
  /\ fr.id = Top.id
  /\ fr.leaving \/ (fr.leaving = Top.leaving /\ fr.i \in Nat /\ fr.i >= Top.i)

\* The statement an activation has passed is not ahead of it.
LEMMA AdvancesIs ==
  ASSUME TypeInv, phase = "walk", NEW fr, Advances(fr), heap' = heap, NEW v, ~Ahead(heap, fr, v)
  PROVE  NotAhead(fr, v)
<1>1. Top.i \in Nat /\ Len(Kids) \in Nat
  BY TopIs
<1>2. \A n : Later(heap[Top.id].kids, fr.i, n) /\ fr.i \in Nat /\ fr.i >= Top.i => Later(heap[Top.id].kids, Top.i, n)
  BY <1>1 DEF Later, Kids
<1>3. \A n : Ahead(heap, fr, n) => Ahead(heap, Top, n)
  BY <1>2 DEF Ahead, Advances
<1> QED BY <1>3 DEF NotAhead

\* Only variables go or are used.
LEMMA LifeSame ==
  ASSUME LifeInv, WalkInv', phase = "walk", heap' = heap, registry' \in Seq(EntryType(Len(heap))),
         Derived(registry, registry'), NEW fr, Advances(fr), stack' = SetTop(fr)
  PROVE  LifeInv'
<1>1. TypeInv /\ RegOnce(registry) /\ EntriesOK(heap, registry) /\ Once(heap)
  BY DEF LifeInv, WalkInv
<1>2. TreeStep(Top.id) /\ OnceSeq(heap'[Top.id].kids) /\ Stays(Kids, heap'[Top.id].kids, Null)
  BY <1>1, SameTree
<1>3. RegOnce(registry') /\ EntriesOK(heap, registry') /\ OnlyNew(registry, registry', Top.id)
  BY <1>1, DerivedIs, EntriesDerived
<1>4. Below(Top.id) /\ ~Ahead(heap, Top, Top.id) /\ Top.id \in 1 .. Len(heap)
  BY TopMet
<1>5. ~Ahead(heap, fr, Top.id)
  <2>1. Top.i \in Nat /\ Len(Kids) \in Nat
    BY <1>1, TopIs
  <2>2. \A n : Later(heap[Top.id].kids, fr.i, n) /\ fr.i \in Nat /\ fr.i >= Top.i => Later(heap[Top.id].kids, Top.i, n)
    BY <2>1 DEF Later, Kids
  <2> QED BY <1>4, <2>2 DEF Ahead, Advances
<1>6. NotAhead(fr, Top.id)
  BY <1>1, <1>5, AdvancesIs
<1>7. fr.id = Top.id
  BY DEF Advances
<1> QED BY <1>2, <1>3, <1>4, <1>6, <1>7, LifeTop

\* A statement occurs only where it is.
LEMMA OnceLater ==
  ASSUME NEW K, OnceSeq(K), NEW p \in 1 .. Len(K), K[p] # Null, NEW i \in Nat, Len(K) \in Nat, p <= i
  PROVE  ~Later(K, i, K[p])
BY DEF OnceSeq, Later

\* After the step the statement being visited is behind.
LEMMA VisitedDone ==
  ASSUME LifeInv, NEW kinds, Visiting(kinds), heap' = heap
  PROVE  LET fr == [Top EXCEPT !.i = @ + 1]
         IN  /\ Advances(fr) /\ NotAhead(fr, Visited) /\ fr \in FrameOf(registry) /\ fr.id = Top.id
             /\ Step(stack) = SetTop(fr)
<1> DEFINE fr == [Top EXCEPT !.i = @ + 1]
<1>1. TypeInv /\ BlockInv /\ Once(heap)
  BY DEF LifeInv, WalkInv
<1>2. /\ phase = "walk" /\ Top.i + 1 \in 1 .. Len(Kids) /\ Visited = Kids[Top.i + 1]
      /\ Visited \in 1 .. Len(heap)
  BY <1>1, VisitedIs
<1>3. /\ Step(stack) = SetTop(fr) /\ fr \in FrameOf(registry) /\ fr.i = Top.i + 1
      /\ fr.id = Top.id /\ fr.leaving = Top.leaving
  BY <1>1, <1>2, StepIs DEF SameWalk
<1>4. Top.i \in Nat /\ Top.id \in 1 .. Len(heap) /\ Len(Kids) \in Nat
  BY <1>1, <1>2, TopIs
<1> HIDE DEF fr
<1>5. Advances(fr)
  BY <1>3, <1>4 DEF Advances
<1>6. ~Later(Kids, fr.i, Visited)
  <2>1. OnceSeq(Kids) /\ Visited # Null
    BY <1>1, <1>2, <1>4 DEF Once, Kids, Null
  <2>2. Top.i + 1 <= fr.i /\ fr.i \in Nat
    BY <1>3, <1>4
  <2> QED BY <1>2, <1>4, <2>1, <2>2, OnceLater
<1>7. ~Ahead(heap, fr, Visited)
  BY <1>3, <1>6 DEF Ahead, Kids
<1>8. NotAhead(fr, Visited)
  BY <1>1, <1>2, <1>5, <1>7, AdvancesIs
<1> QED BY <1>3, <1>5, <1>8 DEF fr

\* A declaration in a place.
LEMMA VisitedDeclares ==
  ASSUME LifeInv, NEW kinds, Visiting(kinds), kinds \subseteq {"decl", "alias"}, NEW a
  PROVE  Declares(heap, Entry(heap[Visited].name, Visited, a))
<1>1. TypeInv /\ BlockInv
  BY DEF LifeInv, WalkInv
<1>2. heap[Visited].kind \in {"decl", "alias"}
  BY <1>1, VisitedIs
<1>3. heap[Visited].parent = Top.id /\ In(Kids, Visited)
  BY <1>1, VisitedParent, VisitedBelow
<1> QED BY <1>2, <1>3 DEF Declares, Entry, Listed, Kids

\* A variable is added.
LEMMA LifeAdded ==
  ASSUME LifeInv, WalkInv', NEW kinds, Visiting(kinds), kinds \subseteq {"decl", "alias"},
         heap' = heap, registry' \in Seq(EntryType(Len(heap))), NEW a \in BOOLEAN, NEW new,
         Added(Len(heap), registry, registry', Entry(heap[Visited].name, Visited, a), new), stack' = Step(stack)
  PROVE  LifeInv'
<1> DEFINE fr == [Top EXCEPT !.i = @ + 1]
           e  == Entry(heap[Visited].name, Visited, a)
<1>1. /\ TypeInv /\ BlockInv /\ RegOnce(registry) /\ EntriesOK(heap, registry) /\ Once(heap)
      /\ Len(heap) \in Nat /\ currentScope \in Nat
  BY TypeInvWalks DEF LifeInv, WalkInv, TypeInv
<1>2. phase = "walk" /\ Visited \in 1 .. Len(heap) /\ heap[Visited] \in NodeType(Len(heap))
  BY <1>1, VisitedIs
<1>3. TreeStep(Top.id) /\ OnceSeq(heap'[Top.id].kids) /\ Stays(Kids, heap'[Top.id].kids, Null)
  BY <1>1, <1>2, SameTree
<1>4. e \in EntryType(Len(heap)) /\ e.declaration = Visited
  <2>1. heap[Visited].name \in Names /\ Visited \in 0 .. Len(heap)
    BY <1>1, <1>2 DEF NodeType
  <2>2. e \in EntryType(Len(heap))
    BY <1>1, <2>1, EntryIs
  <2> QED BY <2>2 DEF Entry
<1>5. Declares(heap, e)
  BY VisitedDeclares
<1>6. NotAhead(fr, Visited) /\ fr.id = Top.id /\ Step(stack) = SetTop(fr)
  BY VisitedDone
<1>7. Added(Len(heap), registry, registry', e, new)
  OBVIOUS
<1> HIDE DEF e, fr
<1>8. \A p \in 1 .. Len(registry) : registry[p].declaration # e.declaration
  BY <1>4, VisitedUnmet
<1>9. RegOnce(registry')
  BY <1>1, <1>4, <1>7, <1>8, AddedIs
<1>10. EntriesOK(heap, registry') /\ OnlyNew(registry, registry', Visited)
  BY <1>1, <1>4, <1>5, <1>7, EntriesAdded
<1>11. Below(Visited)
  BY <1>1, VisitedBelow
<1> QED BY <1>2, <1>3, <1>6, <1>9, <1>10, <1>11, LifeTop

\* Visits that only use or forget variables.
LEMMA LifeVisitNull ==
  ASSUME LifeInv, WalkInv', VisitNull
  PROVE  LifeInv'
<1> DEFINE fr == [Top EXCEPT !.i = @ + 1]
<1>1. phase = "walk" /\ stack' = Step(stack) /\ UNCHANGED <<heap, registry>>
  BY DEF VisitNull
<1>2. TypeInv /\ registry \in Seq(EntryType(Len(heap)))
  BY DEF LifeInv, WalkInv, TypeInv
<1>3. Step(stack) = SetTop(fr) /\ fr.i = Top.i + 1 /\ fr.id = Top.id /\ fr.leaving = Top.leaving
  BY <1>1, <1>2, StepIs DEF SameWalk
<1>4. Top.i \in Nat
  BY <1>1, <1>2, TopIs
<1> HIDE DEF fr
<1>5. Advances(fr)
  BY <1>3, <1>4 DEF Advances
<1>6. Derived(registry, registry')
  BY <1>1, <1>2, DerivedSame
<1> QED BY <1>1, <1>2, <1>3, <1>5, <1>6, LifeSame

\* A visit that adds no variable keeps the invariant.
LEMMA LifeVisit ==
  ASSUME LifeInv, WalkInv', NEW kinds, Visiting(kinds), heap' = heap, stack' = Step(stack),
         registry' \in Seq(EntryType(Len(heap))), Derived(registry, registry')
  PROVE  LifeInv'
<1> DEFINE fr == [Top EXCEPT !.i = @ + 1]
<1>1. phase = "walk"
  BY DEF Visiting
<1>2. Advances(fr) /\ Step(stack) = SetTop(fr)
  BY VisitedDone
<1> HIDE DEF fr
<1> QED BY <1>1, <1>2, LifeSame

\* VisitExpr keeps it.
LEMMA LifeVisitExpr ==
  ASSUME LifeInv, WalkInv', VisitExpr
  PROVE  LifeInv'
<1>1. /\ Visiting({"expr"}) /\ heap' = heap /\ stack' = Step(stack)
      /\ registry' = UsedVariables(registry, heap[Visited].uses, Visited)
  BY DEF VisitExpr
<1>2. TypeInv /\ registry \in Seq(EntryType(Len(heap))) /\ Len(heap) \in Nat
  BY DEF LifeInv, WalkInv, TypeInv
<1>3. Visited \in 1 .. Len(heap)
  BY <1>1, <1>2, VisitedIs
<1>4. registry' \in Seq(EntryType(Len(heap))) /\ Derived(registry, registry')
  BY <1>1, <1>2, <1>3, UsedVariablesIs, DerivedUsed
<1> QED BY <1>1, <1>4, LifeVisit

\* RemoveVariable forgets the entries of the name.
LEMMA DerivedRemoved ==
  ASSUME NEW m \in Nat, NEW r \in Seq(EntryType(m)), NEW x
  PROVE  /\ Derived(r, RemoveVariable(r, x)) /\ RemoveVariable(r, x) \in Seq(EntryType(m))
         /\ \A k \in 1 .. Len(RemoveVariable(r, x)) : RemoveVariable(r, x)[k].name # x
<1> DEFINE K == {k \in DOMAIN r : r[k].name # x}
           q == RemoveVariable(r, x)
<1>1. Derived(r, q)
  <2>1. K \subseteq DOMAIN r /\ q = Keep(r, K)
    BY DEF RemoveVariable
  <2> HIDE DEF K, q
  <2> QED BY <2>1, DerivedKept
<1>2. q \in Seq(EntryType(m)) /\ Selects(r, K, q)
  BY RemoveIs
<1> HIDE DEF q
<1>3. \A k \in 1 .. Len(q) : q[k].name # x
  <2>1. \A k \in DOMAIN q : \E p \in K : q[k] = r[p]
    BY <1>2 DEF Selects
  <2>2. DOMAIN q = 1 .. Len(q)
    BY <1>2
  <2> QED BY <2>1, <2>2
<1> QED BY <1>1, <1>2, <1>3 DEF q

\* VisitUnused keeps it: entries go.
LEMMA LifeVisitUnused ==
  ASSUME LifeInv, WalkInv', VisitUnused
  PROVE  LifeInv'
<1>1. /\ Visiting({"unused"}) /\ heap' = heap /\ stack' = Step(stack)
      /\ registry' = RemoveVariable(registry, heap[Visited].name)
  BY DEF VisitUnused
<1>2. registry \in Seq(EntryType(Len(heap))) /\ Len(heap) \in Nat
  BY DEF LifeInv, WalkInv, TypeInv
<1>3. registry' \in Seq(EntryType(Len(heap))) /\ Derived(registry, registry')
  BY <1>1, <1>2, DerivedRemoved
<1> QED BY <1>1, <1>3, LifeVisit

\* VisitDecl keeps it: the entry is of the statement that is passed.
LEMMA LifeVisitDecl ==
  ASSUME LifeInv, WalkInv', VisitDecl
  PROVE  LifeInv'
<1>1. /\ Visiting({"decl"}) /\ heap' = heap /\ stack' = Step(stack)
      /\ registry' = Declare(registry, Visited)
  BY DEF VisitDecl
<1>2. TypeInv /\ registry \in Seq(EntryType(Len(heap))) /\ Len(heap) \in Nat /\ currentScope \in Nat
  BY DEF LifeInv, WalkInv, TypeInv
<1>3. Visited \in 1 .. Len(heap) /\ heap[Visited] \in NodeType(Len(heap))
  BY <1>1, <1>2, VisitedIs
<1>4. registry' \in Seq(EntryType(Len(heap))) /\ Derived(registry, registry)
  BY <1>1, <1>2, <1>3, DeclareIs, DerivedSame
<1>5. Added(Len(heap), registry, registry', Entry(heap[Visited].name, Visited, heap[Visited].auto), FALSE)
  BY <1>1, <1>2, <1>3, <1>4, DeclareAdded
<1>6. heap[Visited].auto \in BOOLEAN
  BY <1>3 DEF NodeType
<1> QED BY <1>1, <1>4, <1>5, <1>6, LifeAdded

\* VisitAlias keeps it, as VisitDecl does.
LEMMA LifeVisitAlias ==
  ASSUME LifeInv, WalkInv', VisitAlias
  PROVE  LifeInv'
<1> DEFINE e == Entry(heap[Visited].name, Visited, FALSE)
<1>1. /\ Visiting({"alias"}) /\ heap' = heap /\ stack' = Step(stack)
      /\ registry' = registry \/ registry' = Append(registry, e)
  BY DEF VisitAlias
<1>2. /\ TypeInv /\ registry \in Seq(EntryType(Len(heap))) /\ Len(heap) \in Nat /\ currentScope \in Nat
      /\ Derived(registry, registry)
  BY DerivedSame DEF LifeInv, WalkInv, TypeInv
<1>3. CASE registry' = registry
  BY <1>1, <1>2, <1>3, LifeVisit
<1>4. CASE registry' = Append(registry, e)
  <2>1. Visited \in 1 .. Len(heap) /\ heap[Visited] \in NodeType(Len(heap))
    BY <1>1, <1>2, VisitedIs
  <2>2. e \in EntryType(Len(heap))
    <3>1. heap[Visited].name \in Names /\ Visited \in 0 .. Len(heap) /\ FALSE \in BOOLEAN
      BY <1>2, <2>1 DEF NodeType
    <3> QED BY <1>2, <3>1, EntryIs
  <2> HIDE DEF e
  <2>3. registry' \in Seq(EntryType(Len(heap)))
    BY <1>2, <1>4, <2>2, AppendIs
  <2>4. Derived(registry', registry')
    BY <2>3, DerivedSame
  <2>5. Added(Len(heap), registry, registry', e, FALSE)
    BY <1>2, <1>4, <2>4 DEF Added
  <2>6. FALSE \in BOOLEAN
    OBVIOUS
  <2> QED BY <1>1, <2>3, <2>5, <2>6, LifeAdded DEF e
<1> QED BY <1>1, <1>3, <1>4

\* A statement is entered.
LEMMA LifeEnter ==
  ASSUME LifeInv, WalkInv', NEW kinds, Visiting(kinds), heap' = heap,
         registry' \in Seq(EntryType(Len(heap))), Derived(registry, registry'),
         NEW sc, stack' = Append(Step(stack), Frame(Visited, sc))
  PROVE  LifeInv'
<1> DEFINE fr == [Top EXCEPT !.i = @ + 1]
<1>1. TypeInv /\ BlockInv /\ RegOnce(registry) /\ EntriesOK(heap, registry) /\ Once(heap)
  BY DEF LifeInv, WalkInv
<1>2. phase = "walk" /\ Visited \in 1 .. Len(heap)
  BY <1>1, VisitedIs
<1>3. NotAhead(fr, Visited) /\ fr \in FrameOf(registry) /\ fr.id = Top.id /\ Step(stack) = SetTop(fr)
  BY VisitedDone
<1> HIDE DEF fr
<1>4. Below(Visited) /\ Ahead(heap, Top, Visited)
  BY <1>1, VisitedBelow
<1>5. RegOnce(registry') /\ EntriesOK(heap, registry') /\ OnlyNew(registry, registry', Visited)
  BY <1>1, DerivedIs, EntriesDerived
<1>6. MetInv(heap', stack', registry')
  BY <1>2, <1>3, <1>4, <1>5, MetPush
<1> QED BY <1>1, <1>5, <1>6 DEF LifeInv

\* EnterBranches keeps it.
LEMMA LifeEnterBranches ==
  ASSUME LifeInv, WalkInv', EnterBranches
  PROVE  LifeInv'
<1>1. /\ Visiting({"if", "while", "func"}) /\ heap' = heap
      /\ registry' = UsedVariables(registry, heap[Visited].uses, Visited)
      /\ stack' = Append(Step(stack), Frame(Visited, currentScope))
  BY DEF EnterBranches
<1>2. TypeInv /\ registry \in Seq(EntryType(Len(heap))) /\ Len(heap) \in Nat
  BY DEF LifeInv, WalkInv, TypeInv
<1>3. Visited \in 1 .. Len(heap)
  BY <1>1, <1>2, VisitedIs
<1>4. registry' \in Seq(EntryType(Len(heap))) /\ Derived(registry, registry')
  BY <1>1, <1>2, <1>3, UsedVariablesIs, DerivedUsed
<1> QED BY <1>1, <1>4, LifeEnter

\* EnterBlock keeps it.
LEMMA LifeEnterBlock ==
  ASSUME LifeInv, WalkInv', EnterBlock
  PROVE  LifeInv'
<1>1. /\ Visiting({"block"}) /\ UNCHANGED <<heap, registry>>
      /\ stack' = Append(Step(stack), Frame(Visited, currentScope + 1))
  BY DEF EnterBlock
<1>2. registry' \in Seq(EntryType(Len(heap))) /\ Derived(registry, registry')
  BY <1>1, DerivedSame DEF LifeInv, WalkInv, TypeInv
<1> QED BY <1>1, <1>2, LifeEnter

\* A statement is left.
LEMMA LifePop ==
  ASSUME LifeInv, WalkInv', phase = "walk", TreeStep(Top.id), stack' = Under,
         registry' \in Seq(EntryType(Len(heap))), Derived(registry, registry'),
         OnceSeq(heap'[Top.id].kids), Stays(Kids, heap'[Top.id].kids, Null)
  PROVE  LifeInv'
<1>1. TypeInv /\ BlockInv /\ RegOnce(registry) /\ EntriesOK(heap, registry) /\ Once(heap) /\ Len(heap) \in Nat
  BY TypeInvWalks DEF LifeInv, WalkInv
<1>2. RegOnce(registry') /\ EntriesOK(heap, registry') /\ OnlyNew(registry, registry', Null)
  BY <1>1, DerivedIs, EntriesDerived
<1>3. MetInv(heap', stack', registry')
  BY <1>2, MetPop
<1>4. EntriesOK(heap', registry')
  BY <1>1, <1>2, EntriesKept
<1>5. Once(heap')
  BY <1>1, OnceKept
<1> QED BY <1>2, <1>3, <1>4, <1>5 DEF LifeInv

\* LeaveBranches keeps it.
LEMMA LifeLeaveBranches ==
  ASSUME LifeInv, WalkInv', LeaveBranches
  PROVE  LifeInv'
<1>1. phase = "walk" /\ stack' = Under /\ UNCHANGED <<heap, registry>>
  BY DEF LeaveBranches
<1>2. TypeInv /\ Once(heap) /\ registry' \in Seq(EntryType(Len(heap))) /\ Derived(registry, registry')
  BY <1>1, DerivedSame DEF LifeInv, WalkInv, TypeInv
<1>3. TreeStep(Top.id) /\ OnceSeq(heap'[Top.id].kids) /\ Stays(Kids, heap'[Top.id].kids, Null)
  BY <1>1, <1>2, SameTree
<1> QED BY <1>1, <1>2, <1>3, LifePop

\* LeaveBlock keeps it: the nulls go from the list, the entries of the scope from
\* the registry.
LEMMA LifeLeaveBlock ==
  ASSUME LifeInv, WalkInv', LeaveBlock
  PROVE  LifeInv'
<1> DEFINE K == Keep(Kids, {k \in DOMAIN Kids : Kids[k] # Null})
           R == {k \in DOMAIN registry : registry[k].scope # Top.scope}
<1>1. TypeInv /\ BlockInv /\ Once(heap) /\ registry \in Seq(EntryType(Len(heap)))
  BY DEF LifeInv, WalkInv, TypeInv
<1>2. /\ phase = "walk" /\ stack' = Under /\ heap' = WithKids(heap, Top.id, K) /\ K \in Seq(0 .. Len(heap))
      /\ registry' = RemoveScope(registry, Top.scope) /\ registry' \in Seq(EntryType(Len(heap)))
      /\ TreeStep(Top.id)
  BY <1>1, LeaveBlockIs
<1>3. Kids \in Seq(0 .. Len(heap)) /\ Top.id \in 1 .. Len(heap) /\ Len(heap) \in Nat
      /\ heap \in Seq(NodeType(Len(heap)))
  BY <1>1, <1>2, TopIs DEF TypeInv
<1>4. OnceSeq(Kids)
  BY <1>1, <1>3 DEF Once, Kids
<1>5. OnceSeq(K) /\ \A y : y # Null /\ In(Kids, y) => In(K, y)
  BY <1>3, <1>4, FixList
<1>6. Derived(registry, registry')
  <2>1. R \subseteq DOMAIN registry /\ registry' = Keep(registry, R)
    BY <1>2 DEF RemoveScope
  <2> HIDE DEF R
  <2> QED BY <1>1, <2>1, DerivedKept
<1> HIDE DEF K
<1>7. heap'[Top.id].kids = K
  BY <1>2, <1>3, HeapWithKids
<1>8. Stays(Kids, heap'[Top.id].kids, Null)
  BY <1>5, <1>7 DEF Stays
<1> QED BY <1>2, <1>5, <1>6, <1>7, <1>8, LifePop

\* EndOfStatements keeps it: the tree and the registry stay.
LEMMA LifeEndOfStatements ==
  ASSUME LifeInv, WalkInv', EndOfStatements
  PROVE  LifeInv'
<1> DEFINE fr == [Top EXCEPT !.leaving = TRUE, !.pending = GetVariablesInScope(registry, Top.scope)]
<1>1. TypeInv /\ registry \in Seq(EntryType(Len(heap)))
  BY DEF LifeInv, WalkInv, TypeInv
<1>2. phase = "walk" /\ stack' = SetTop(fr) /\ UNCHANGED <<heap, registry>>
  BY <1>1, EndOfStatementsIs
<1>3. Top \in FrameOf(registry)
  BY <1>1, <1>2, TopIs
<1>4. Advances(fr)
  BY <1>3 DEF FrameOf, Advances
<1>5. registry' \in Seq(EntryType(Len(heap))) /\ Derived(registry, registry')
  BY <1>1, <1>2, DerivedSame
<1> HIDE DEF fr
<1> QED BY <1>2, <1>4, <1>5, LifeSame

\* A new statement is in no list.
LEMMA NewInNone ==
  ASSUME NEW m \in Nat, NEW K \in Seq(0 .. m)
  PROVE  ~In(K, m + 1)
<1>1. \A j \in 1 .. Len(K) : K[j] \in 0 .. m
  OBVIOUS
<1> QED BY <1>1 DEF In

\* A list of the top that gets a new statement, or null, at its end.
LEMMA LifeAppend ==
  ASSUME LifeInv, WalkInv', phase = "walk", TreeStep(Top.id), stack' = stack, registry' = registry,
         NEW x, x = Null \/ x = Len(heap) + 1, heap'[Top.id].kids = Append(Kids, x)
  PROVE  LifeInv'
<1>1. /\ TypeInv /\ BlockInv /\ RegOnce(registry) /\ EntriesOK(heap, registry) /\ Once(heap)
      /\ registry' \in Seq(EntryType(Len(heap)))
  BY DEF LifeInv, WalkInv, TypeInv
<1>2. /\ Kids \in Seq(0 .. Len(heap)) /\ Top.id \in 1 .. Len(heap) /\ Len(heap) \in Nat
      /\ Top.i \in Nat /\ stack # << >>
  BY <1>1, TopIs
<1>3. OnceSeq(Kids)
  BY <1>1, <1>2 DEF Once, Kids
<1>4. x = Null \/ ~In(Kids, x)
  BY <1>2, NewInNone
<1>5. /\ OnceSeq(Append(Kids, x)) /\ \A y : In(Kids, y) => In(Append(Kids, x), y)
      /\ \A y : y # x /\ Later(Append(Kids, x), Top.i, y) => Later(Kids, Top.i, y)
  BY <1>2, <1>3, <1>4, AppendList
<1>6. Stays(Kids, heap'[Top.id].kids, Null)
  BY <1>5 DEF Stays
<1>7. stack' = SetTop(Top)
  <2>1. stack \in Seq(FrameOf(registry))
    BY <1>1, TypeInvWalks
  <2> QED BY <2>1 DEF SetTop, WithTop, Top
<1>8. NotAhead(Top, Top.id)
  <2>1. Below(Top.id) /\ ~Ahead(heap, Top, Top.id)
    BY TopMet
  <2>2. ASSUME NEW n \in 1 .. Len(heap), ~Ahead(heap, Top, n)
        PROVE  ~Ahead(heap', Top, n)
    <3>1. n # x
      BY <1>2 DEF Null
    <3> QED BY <1>5, <2>2, <3>1 DEF Ahead, Kids
  <2> QED BY <2>1, <2>2 DEF NotAhead
<1>9. OnlyNew(registry, registry', Top.id) /\ Below(Top.id)
  BY TopMet DEF OnlyNew
<1> QED BY <1>1, <1>2, <1>5, <1>6, <1>7, <1>8, <1>9, LifeTop

\* Reveal keeps it: the new statement is ahead of the top only.
LEMMA LifeReveal ==
  ASSUME LifeInv, WalkInv', NEW s \in Shapes, Reveal(s)
  PROVE  LifeInv'
<1> DEFINE K    == Append(Kids, Len(heap) + 1)
           node == Node(s, Top.id, TRUE)
<1>1. TypeInv /\ BlockInv /\ heap \in Seq(NodeType(Len(heap)))
  BY DEF LifeInv, WalkInv, TypeInv
<1>2. /\ phase = "walk" /\ UNCHANGED <<registry, stack>> /\ Top.id \in 1 .. Len(heap)
      /\ K \in Seq(0 .. Len(heap) + 1) /\ node \in NodeType(Len(heap) + 1)
      /\ heap' = Grown(heap, Top.id, K, node)
  BY <1>1, RevealIs
<1>3. TreeStep(Top.id)
  BY <1>1, RevealTree
<1> HIDE DEF K, node
<1>4. heap'[Top.id].kids = K
  BY <1>1, <1>2, HeapGrown
<1> QED BY <1>2, <1>3, <1>4, LifeAppend DEF K

\* RevealNothing keeps it.
LEMMA LifeRevealNothing ==
  ASSUME LifeInv, WalkInv', RevealNothing
  PROVE  LifeInv'
<1> DEFINE K  == Append(Kids, Null)
           fr == [Top EXCEPT !.closed = TRUE]
<1>1. TypeInv /\ BlockInv /\ heap \in Seq(NodeType(Len(heap))) /\ registry \in Seq(EntryType(Len(heap)))
  BY DEF LifeInv, WalkInv, TypeInv
<1>2. /\ phase = "walk" /\ registry' = registry
      /\ \/ UNCHANGED heap /\ stack' = SetTop(fr)
         \/ UNCHANGED stack /\ K \in Seq(0 .. Len(heap)) /\ Top.id \in 1 .. Len(heap)
            /\ heap' = WithKids(heap, Top.id, K)
  BY <1>1, RevealNothingIs
<1>3. CASE UNCHANGED heap /\ stack' = SetTop(fr)
  <2>1. Top \in FrameOf(registry)
    BY <1>1, <1>2, TopIs
  <2>2. fr.id = Top.id /\ fr.leaving = Top.leaving /\ fr.i = Top.i /\ Top.i \in Nat
    BY <2>1 DEF FrameOf
  <2> HIDE DEF fr
  <2>3. Advances(fr)
    BY <2>2 DEF Advances
  <2>4. registry' \in Seq(EntryType(Len(heap))) /\ Derived(registry, registry')
    BY <1>1, <1>2, DerivedSame
  <2> QED BY <1>2, <1>3, <2>3, <2>4, LifeSame
<1>4. CASE UNCHANGED stack /\ K \in Seq(0 .. Len(heap)) /\ Top.id \in 1 .. Len(heap)
           /\ heap' = WithKids(heap, Top.id, K)
  <2>1. TreeStep(Top.id)
    BY <1>1, <1>2, <1>4, NullBranchTree
  <2> HIDE DEF K
  <2>2. heap'[Top.id].kids = K
    BY <1>1, <1>4, HeapWithKids
  <2> QED BY <1>2, <1>4, <2>1, <2>2, LifeAppend DEF K
<1> QED BY <1>2, <1>3, <1>4

\* A statement is inserted into the list of the top.
LEMMA LifeInsertDestroy ==
  ASSUME LifeInv, WalkInv', InsertDestroy
  PROVE  LifeInv'
<1> DEFINE at   == DestroyIndex(Kids, Remaining)
           K    == InsertAt(Kids, at, Len(heap) + 1)
           node == Node(Shape("unused", Remaining.name), Top.id, FALSE)
           fr   == [Top EXCEPT !.pending = Tail(@)]
<1>1. /\ TypeInv /\ BlockInv /\ RegOnce(registry) /\ EntriesOK(heap, registry) /\ Once(heap)
      /\ registry \in Seq(EntryType(Len(heap))) /\ heap \in Seq(NodeType(Len(heap)))
  BY DEF LifeInv, WalkInv, TypeInv
<1>2. /\ Handling /\ registry' = registry
      /\ at \in 1 .. Len(Kids) + 1 /\ heap' = Grown(heap, Top.id, K, node)
      /\ K \in Seq(0 .. Len(heap) + 1) /\ node \in NodeType(Len(heap) + 1) /\ stack' = SetTop(fr)
  BY <1>1, InsertDestroyIs
<1>3. phase = "walk" /\ Top.leaving
  BY <1>2 DEF Handling
<1>4. /\ Top \in FrameOf(registry) /\ Kids \in Seq(0 .. Len(heap)) /\ Len(heap) \in Nat
      /\ Top.id \in 1 .. Len(heap)
  BY <1>1, <1>3, TopIs
<1>5. fr.id = Top.id /\ fr.leaving
  BY <1>3, <1>4 DEF FrameOf
<1> HIDE DEF fr, at
<1>6. TreeStep(Top.id)
  BY <1>1, <1>2, <1>3, InsertTree
<1>7. OnceSeq(K) /\ \A y : In(Kids, y) => In(K, y)
  <2>1. OnceSeq(Kids) /\ ~In(Kids, Len(heap) + 1)
    BY <1>1, <1>4, NewInNone DEF Once, Kids
  <2>2. Kids \in Seq(0 .. Len(heap) + 1) /\ Len(heap) + 1 \in 0 .. Len(heap) + 1 /\ 0 \in Nat
    BY <1>4
  <2> QED BY SMTT(40), <1>2, <2>1, <2>2, InsertList
<1> HIDE DEF K, node
<1>8. heap'[Top.id].kids = K
  BY <1>1, <1>2, <1>4, HeapGrown
<1>9. Stays(Kids, heap'[Top.id].kids, Null)
  BY <1>7, <1>8 DEF Stays
<1>10. NotAhead(fr, Top.id)
  BY <1>5 DEF NotAhead, Ahead
<1>11. OnlyNew(registry, registry', Top.id) /\ Below(Top.id)
  BY <1>2, <1>3, TopMet DEF OnlyNew
<1> QED BY <1>1, <1>2, <1>3, <1>4, <1>5, <1>6, <1>7, <1>8, <1>9, <1>10, <1>11, LifeTop

\* A nulled entry.
LEMMA NulledEntries ==
  ASSUME NEW h, NEW m \in Nat, NEW r \in Seq(EntryType(m)), NEW k0 \in 1 .. Len(r), NEW v,
         RegOnce(r), EntriesOK(h, r)
  PROVE  /\ RegOnce(Nulled(r, k0)) /\ EntriesOK(h, Nulled(r, k0)) /\ OnlyNew(r, Nulled(r, k0), v)
         /\ Nulled(r, k0) \in Seq(EntryType(m))
         /\ \A k \in 1 .. Len(Nulled(r, k0)) :
              Nulled(r, k0)[k].declaration # Null => Nulled(r, k0)[k].declaration # r[k0].declaration
<1> DEFINE q == Nulled(r, k0)
<1>1. /\ q \in Seq(EntryType(m)) /\ Len(q) = Len(r)
      /\ \A j \in 1 .. Len(r) :
           /\ q[j].name = r[j].name /\ q[j].declaration = IF j = k0 THEN Null ELSE r[j].declaration
  BY SMTT(40), NulledIs
<1> HIDE DEF q
<1>2. RegOnce(q)
  BY <1>1 DEF RegOnce
<1>3. ASSUME NEW k \in 1 .. Len(q), q[k].declaration # Null
      PROVE  Declares(h, q[k]) /\ q[k].declaration # r[k0].declaration
  <2>1. k \in 1 .. Len(r) /\ k # k0 /\ q[k].declaration = r[k].declaration /\ q[k].name = r[k].name
    BY <1>1, <1>3
  <2>2. Declares(h, r[k])
    BY <1>3, <2>1 DEF EntriesOK
  <2> QED BY <1>3, <2>1, <2>2 DEF Declares, RegOnce
<1>4. OnlyNew(r, q, v)
  BY <1>1 DEF OnlyNew
<1> QED BY <1>1, <1>2, <1>3, <1>4 DEF EntriesOK, q

\* RemoveDeclaration keeps it: entry and list lose the declaration together.
LEMMA LifeRemoveDeclaration ==
  ASSUME LifeInv, WalkInv', RemoveDeclaration
  PROVE  LifeInv'
<1> DEFINE d  == Remaining.declaration
           at == IndexOf(Kids, d)
           K  == [Kids EXCEPT ![at] = Null]
           k0 == Head(Top.pending)
           fr == [Top EXCEPT !.pending = Tail(@)]
<1>1. /\ TypeInv /\ BlockInv /\ PendInv /\ RegOnce(registry) /\ EntriesOK(heap, registry) /\ Once(heap)
      /\ registry \in Seq(EntryType(Len(heap))) /\ heap \in Seq(NodeType(Len(heap)))
  BY DEF LifeInv, WalkInv, TypeInv
<1>2. /\ Handling
      /\ \/ UNCHANGED <<heap, registry, stack>>
         \/ /\ at \in 1 .. Len(Kids) /\ Kids[at] = d /\ K \in Seq(0 .. Len(heap))
            /\ heap' = WithKids(heap, Top.id, K)
            /\ registry' = Nulled(registry, k0) /\ stack' = SetTop(fr)
  BY <1>1, RemoveDeclarationIs DEF Nulled
<1>3. CASE UNCHANGED <<heap, registry, stack>>
  BY <1>3 DEF LifeInv
<1>4. CASE /\ at \in 1 .. Len(Kids) /\ Kids[at] = d /\ K \in Seq(0 .. Len(heap))
           /\ heap' = WithKids(heap, Top.id, K)
           /\ registry' = Nulled(registry, k0) /\ stack' = SetTop(fr)
  <2>1. phase = "walk" /\ Top.leaving /\ k0 \in 1 .. Len(registry) /\ 1 \in DOMAIN Top.pending /\ k0 = Top.pending[1]
    BY <1>1, <1>2, HandlingIs
  <2>2. /\ Top \in FrameOf(registry) /\ Kids \in Seq(0 .. Len(heap)) /\ Len(heap) \in Nat
        /\ Top.id \in 1 .. Len(heap) /\ stack # << >>
    BY <1>1, <2>1, TopIs
  <2>3. fr.id = Top.id /\ fr.leaving
    BY <2>1, <2>2 DEF FrameOf
  <2>4. d # Null /\ d = registry[k0].declaration
    BY <1>1, <2>1, <2>2 DEF PendInv, Remaining
  <2> HIDE DEF fr, at, d, k0
  <2>5. TreeStep(Top.id)
    BY <1>1, <1>4, <2>1, NullTree
  <2>6. OnceSeq(K) /\ \A y : y # d /\ In(Kids, y) => In(K, y)
    <3>1. OnceSeq(Kids)
      BY <1>1, <2>2 DEF Once, Kids
    <3> QED BY <1>4, <2>2, <2>4, <3>1, NullList
  <2> HIDE DEF K
  <2>7. heap'[Top.id].kids = K
    BY <1>1, <1>4, <2>2, HeapWithKids
  <2>8. Stays(Kids, heap'[Top.id].kids, d)
    BY <2>6, <2>7 DEF Stays
  <2>9. NotAhead(fr, Top.id)
    BY <2>3 DEF NotAhead, Ahead
  <2>10. /\ RegOnce(registry') /\ EntriesOK(heap, registry') /\ OnlyNew(registry, registry', Top.id)
         /\ registry' \in Seq(EntryType(Len(heap)))
         /\ \A k \in 1 .. Len(registry') : registry'[k].declaration # Null => registry'[k].declaration # d
    BY <1>1, <1>4, <2>1, <2>2, <2>4, NulledEntries
  <2>11. Below(Top.id)
    BY <2>1, TopMet
  <2> QED BY <1>4, <2>1, <2>2, <2>3, <2>5, <2>6, <2>7, <2>8, <2>9, <2>10, <2>11, LifeTop
<1> QED BY <1>2, <1>3, <1>4

\* A redeclaration in a block: the walk goes on behind the new declaration and
\* does not come to it again.
LEMMA LifeVisitRedeclaration ==
  ASSUME LifeInv, WalkInv', VisitRedeclaration
  PROVE  LifeInv'
<1> DEFINE x    == heap[Visited].name
           e    == Entry(x, Visited, heap[Visited].auto)
           r0   == RemoveVariable(registry, x)
           ix   == IndexOf(Kids, Visited)
           K    == InsertAt(Kids, ix + 1, Len(heap) + 1)
           node == Node(Shape("unused", x), Top.id, FALSE)
<1>1. /\ TypeInv /\ BlockInv /\ RegOnce(registry) /\ EntriesOK(heap, registry) /\ Once(heap)
      /\ registry \in Seq(EntryType(Len(heap))) /\ heap \in Seq(NodeType(Len(heap)))
      /\ Len(heap) \in Nat /\ currentScope \in Nat
  BY DEF LifeInv, WalkInv, TypeInv
<1>2. /\ Visiting({"decl"}) /\ registry' = Declare(r0, Visited) /\ registry' \in Seq(EntryType(Len(heap)))
      /\ \/ /\ heap' = Grown(heap, Top.id, K, node) /\ K \in Seq(0 .. Len(heap) + 1)
            /\ ix \in 1 .. Len(Kids) /\ node \in NodeType(Len(heap) + 1)
            /\ \E fr \in FrameOf(registry) : SameWalk(Top, fr) /\ fr.i > Top.i /\ stack' = SetTop(fr)
         \/ stack' = Step(stack) /\ UNCHANGED heap
  BY <1>1, VisitRedeclarationIs
<1>3. /\ phase = "walk" /\ Top.i + 1 \in 1 .. Len(Kids) /\ Visited = Kids[Top.i + 1]
      /\ Visited \in 1 .. Len(heap) /\ heap[Visited] \in NodeType(Len(heap))
  BY <1>1, <1>2, VisitedIs
<1>4. Derived(registry, r0) /\ r0 \in Seq(EntryType(Len(heap))) /\ \A k \in 1 .. Len(r0) : r0[k].name # x
  BY <1>1, DerivedRemoved
<1>5. heap[Visited].auto \in BOOLEAN /\ x \in Names
  BY <1>3 DEF NodeType
<1> HIDE DEF r0, ix
<1>6. Added(Len(heap), registry, registry', e, TRUE)
  BY <1>1, <1>2, <1>3, <1>4, DeclareAdded
<1>7. CASE stack' = Step(stack) /\ UNCHANGED heap
  BY <1>2, <1>5, <1>6, <1>7, LifeAdded
<1>8. ASSUME heap' = Grown(heap, Top.id, K, node), K \in Seq(0 .. Len(heap) + 1),
             ix \in 1 .. Len(Kids), node \in NodeType(Len(heap) + 1),
             NEW fr \in FrameOf(registry), SameWalk(Top, fr), fr.i > Top.i, stack' = SetTop(fr)
      PROVE  LifeInv'
  <2>1. /\ Kids \in Seq(0 .. Len(heap)) /\ Top.id \in 1 .. Len(heap) /\ Top.i \in Nat /\ Len(Kids) \in Nat
        /\ fr.i \in Nat /\ fr.id = Top.id
    BY <1>1, <1>3, <1>8, TopIs DEF FrameOf, SameWalk
  <2>2. OnceSeq(Kids) /\ ~In(Kids, Len(heap) + 1) /\ Visited # Null
    <3>1. OnceSeq(Kids)
      BY <1>1, <2>1 DEF Once, Kids
    <3>2. ~In(Kids, Len(heap) + 1)
      BY <1>1, <2>1, NewInNone
    <3>3. Visited # Null
      BY <1>1, <1>3 DEF Null
    <3> QED BY <3>1, <3>2, <3>3
  <2>3. ix = Top.i + 1
    <3>1. Kids[ix] = Visited
      BY <1>8, <2>1, IndexOfIs DEF ix
    <3> QED BY <1>3, <1>8, <2>2, <3>1 DEF OnceSeq
  <2> DEFINE n0 == Len(Kids)
             i0 == Top.i
  <2>19. n0 \in Nat /\ i0 \in Nat /\ i0 + 1 \in 1 .. n0 /\ ix = i0 + 1
    BY <1>3, <2>1, <2>3
  <2> HIDE DEF n0, i0
  <2>4. /\ ix + 1 \in 1 .. n0 + 1 /\ i0 + 1 \in Nat /\ n0 + 1 \in Nat /\ i0 + 1 \in 1 .. (ix + 1) - 1
        /\ i0 + 1 \in 1 .. n0 + 1 /\ i0 + 1 <= i0 + 1
    BY <2>19
  <2> DEFINE S   == 0 .. Len(heap) + 1
             new == Len(heap) + 1
             at  == ix + 1
  <2>17. Kids \in Seq(S) /\ new \in S
    BY <1>1, <2>1
  <2>18. at \in 1 .. Len(Kids) + 1 /\ ~In(Kids, new) /\ at = Top.i + 1 + 1 /\ K = InsertAt(Kids, at, new)
    BY <2>2, <2>3, <2>4 DEF n0
  <2> HIDE DEF S, K
  <2>5. /\ OnceSeq(K) /\ Len(K) = Len(Kids) + 1 /\ \A y : In(Kids, y) => In(K, y)
        /\ \A y : y # new /\ Later(K, Top.i + 1, y) => Later(Kids, Top.i, y)
    BY <2>1, <2>2, <2>17, <2>18, InsertList
  <2>6. K[Top.i + 1] = Visited
    <3>1. \A j \in 1 .. at - 1 : K[j] = Kids[j]
      BY <2>17, <2>18, InsertAtIs
    <3>2. Top.i + 1 \in 1 .. at - 1
      BY <2>4 DEF i0
    <3> QED BY <1>3, <3>1, <3>2
  <2>7. TreeStep(Top.id)
    BY <1>1, <1>3, <1>8, <2>18, InsertTree DEF K
  <2> HIDE DEF node
  <2>8. heap'[Top.id].kids = K
    BY <1>1, <1>8, <2>1, HeapGrown
  <2>9. NotAhead(fr, Visited)
    <3>1. \A y : Later(K, fr.i, y) => Later(K, Top.i + 1, y)
      BY SMTT(40), <1>8, <2>1 DEF Later
    <3>2. ~Later(K, Top.i + 1, Visited)
      <4>1. Top.i + 1 \in 1 .. Len(K) /\ Top.i + 1 \in Nat /\ Top.i + 1 <= Top.i + 1 /\ Len(K) \in Nat
        BY <2>4, <2>5 DEF i0, n0
      <4> QED BY <2>2, <2>5, <2>6, <4>1, OnceLater
    <3>3. ASSUME NEW n \in 1 .. Len(heap), n = Visited \/ ~Ahead(heap, Top, n)
          PROVE  ~Ahead(heap', fr, n)
      <4>1. CASE n = Visited
        BY <2>1, <2>8, <3>1, <3>2, <4>1 DEF Ahead
      <4>2. CASE ~Ahead(heap, Top, n)
        <5>1. n # Len(heap) + 1
          BY <1>1
        <5>2. Later(K, fr.i, n) => Later(Kids, Top.i, n)
          BY <2>5, <3>1, <5>1
        <5>3. fr.leaving = Top.leaving
          BY <1>8 DEF SameWalk
        <5> QED BY <2>1, <2>8, <4>2, <5>2, <5>3 DEF Ahead, Kids
      <4> QED BY <3>3, <4>1, <4>2
    <3> QED BY <3>3 DEF NotAhead
  <2>10. e \in EntryType(Len(heap)) /\ e.declaration = Visited
    <3>1. Visited \in 0 .. Len(heap)
      BY <1>1, <1>3
    <3>2. e \in EntryType(Len(heap))
      BY <1>1, <1>5, <3>1, EntryIs
    <3> QED BY <3>2 DEF Entry
  <2>11. Declares(heap, e)
    BY <1>2, VisitedDeclares
  <2>12. \A p \in 1 .. Len(registry) : registry[p].declaration # Visited
    BY <1>2, VisitedUnmet
  <2> HIDE DEF e
  <2>13. RegOnce(registry')
    BY <1>1, <1>6, <2>10, <2>12, AddedIs
  <2>14. EntriesOK(heap, registry') /\ OnlyNew(registry, registry', Visited)
    BY <1>1, <1>6, <2>10, <2>11, EntriesAdded
  <2>15. Below(Visited)
    BY <1>1, <1>2, VisitedBelow
  <2>16. Stays(Kids, heap'[Top.id].kids, Null)
    BY <2>5, <2>8 DEF Stays
  <2> QED BY <1>2, <1>3, <1>8, <2>1, <2>5, <2>7, <2>8, <2>9, <2>13, <2>14, <2>15, <2>16, LifeTop
<1> QED BY <1>2, <1>7, <1>8

\* Steps that leave the tree, the registry and the stack alone.
LEMMA LifeStill ==
  ASSUME LifeInv, WalkInv', UNCHANGED <<heap, registry, stack>>
  PROVE  LifeInv'
BY DEF LifeInv

\* A program that has just been opened.
LEMMA LifeInit ==
  ASSUME Init
  PROVE  LifeInv
<1> DEFINE n == Node(Shape("block", CHOOSE x \in Names : TRUE), Null, TRUE)
<1>1. WalkInv
  BY InitInv
<1>2. /\ heap = <<n>> /\ registry = << >> /\ stack = <<Frame(1, 1)>>
      /\ n.kids = << >>
  BY DEF Init, Node
<1> HIDE DEF n
<1>3. Len(heap) = 1 /\ heap[1] = n /\ Len(registry) = 0 /\ 1 .. Len(heap) = {1} /\ 1 .. Len(registry) = {}
  BY <1>2
<1>4. Once(heap)
  BY <1>2, <1>3 DEF Once, OnceSeq
<1>5. RegOnce(registry) /\ EntriesOK(heap, registry)
  BY <1>3 DEF RegOnce, EntriesOK
<1>6. \A y : ~Later(<< >>, 0, y)
  BY DEF Later
<1>7. Len(stack) = 1 /\ stack[1] = Frame(1, 1) /\ 1 .. Len(stack) = {1}
  BY <1>2
<1>8. \A y : ~Ahead(heap, stack[1], y)
  <2>1. stack[1].id = 1 /\ stack[1].i = 0
    BY <1>7 DEF Frame
  <2> QED BY <1>2, <1>3, <1>6, <2>1 DEF Ahead
<1>9. MetInv(heap, stack, registry)
  BY <1>7, <1>8 DEF MetInv, Behind
<1> QED BY <1>1, <1>4, <1>5, <1>9 DEF LifeInv

\* Every step keeps the invariant.
LEMMA LifeNext ==
  ASSUME LifeInv, [Next]_vars
  PROVE  LifeInv'
<1>0. WalkInv'
  <2>1. WalkInv
    BY DEF LifeInv
  <2> QED BY <2>1, NextInv
<1>1. ASSUME NEW s \in Shapes, Reveal(s)
      PROVE  LifeInv'
  BY <1>0, <1>1, LifeReveal
<1>2. CASE RevealNothing
  BY <1>0, <1>2, LifeRevealNothing
<1>3. CASE VisitNull
  BY <1>0, <1>3, LifeVisitNull
<1>4. CASE VisitDecl
  BY <1>0, <1>4, LifeVisitDecl
<1>5. CASE ThrowRedeclaration
  BY <1>0, <1>5, LifeStill DEF ThrowRedeclaration
<1>6. CASE VisitRedeclaration
  BY <1>0, <1>6, LifeVisitRedeclaration
<1>7. CASE VisitUnused
  BY <1>0, <1>7, LifeVisitUnused
<1>8. CASE VisitAlias
  BY <1>0, <1>8, LifeVisitAlias
<1>9. CASE VisitExpr
  BY <1>0, <1>9, LifeVisitExpr
<1>10. CASE EnterBranches
  BY <1>0, <1>10, LifeEnterBranches
<1>11. CASE LeaveBranches
  BY <1>0, <1>11, LifeLeaveBranches
<1>12. CASE EnterBlock
  BY <1>0, <1>12, LifeEnterBlock
<1>13. CASE EndOfStatements
  BY <1>0, <1>13, LifeEndOfStatements
<1>14. CASE RemoveDeclaration
  BY <1>0, <1>14, LifeRemoveDeclaration
<1>15. CASE InsertDestroy
  BY <1>0, <1>15, LifeInsertDestroy
<1>16. CASE LeaveBlock
  BY <1>0, <1>16, LifeLeaveBlock
<1>17. CASE UNCHANGED vars
  BY <1>0, <1>17, LifeStill DEF vars
<1> QED
  BY <1>1, <1>2, <1>3, <1>4, <1>5, <1>6, <1>7, <1>8, <1>9, <1>10, <1>11, <1>12, <1>13, <1>14,
     <1>15, <1>16, <1>17 DEF Next

\* The walk keeps its invariant.
LEMMA LifeInvariant == Spec => []LifeInv
<1>1. Init => LifeInv
  BY LifeInit
<1>2. LifeInv /\ [Next]_vars => LifeInv'
  BY LifeNext
<1> QED BY <1>1, <1>2, PTL DEF Spec

-----------------------------------------------------------------------------
(* Declarations in their blocks.                                           *)

\* Declarations are statements of blocks.
InBlocks(h) == \A n \in 2 .. Len(h) : h[n].kind \in {"decl", "alias"} => h[h[n].parent].kind = "block"

HomeInv == LifeInv /\ InBlocks(heap) /\ DeclarationInItsBlock

\* The variable of a remaining entry is declared in the block that is left.
LEMMA RemainingHome ==
  ASSUME LifeInv, Handling
  PROVE  /\ Remaining = registry[Top.pending[1]] /\ Top.pending[1] \in 1 .. Len(registry)
         /\ Remaining.declaration \in 2 .. Len(heap)
         /\ BlockIn(heap, Remaining.declaration) = Top.id
         /\ Declares(heap, Remaining)
<1> DEFINE k == Top.pending[1]
           d == Remaining.declaration
<1>1. /\ TypeInv /\ PendInv /\ BlockInv /\ EntriesOK(heap, registry) /\ registry \in Seq(EntryType(Len(heap)))
      /\ Len(heap) \in Nat /\ Walks(heap, stack) /\ TreeOK(heap) /\ WellStacked(heap, stack)
  BY TypeInvWalks DEF LifeInv, WalkInv, TypeInv, BlockInv
<1>2. /\ Remaining = registry[k] /\ k \in 1 .. Len(registry) /\ 1 \in DOMAIN Top.pending /\ Here = "block"
      /\ phase = "walk"
  BY <1>1, HandlingIs DEF Remaining
<1>3. stack # << >> /\ Len(stack) \in 1 .. Len(stack) /\ Top = stack[Len(stack)] /\ Len(stack) \in Nat
  BY <1>1, <1>2, TopIs DEF Top
<1>4. registry[k].declaration # Null /\ registry[k].scope = Top.scope
  BY <1>1, <1>2, <1>3 DEF PendInv
<1> HIDE DEF k
<1>5. Declares(heap, Remaining)
  BY <1>1, <1>2, <1>4 DEF EntriesOK
<1>6. d \in 1 .. Len(heap)
  <2>1. registry[k] \in EntryType(Len(heap))
    BY <1>1, <1>2
  <2> QED BY <1>1, <1>2, <1>4, <2>1 DEF EntryType, Null
<1>7. d \in 2 .. Len(heap)
  BY <1>1, <1>5, <1>6 DEF Declares, TreeOK
<1>8. PICK f \in Blocks(heap, stack) : stack[f].scope = Top.scope /\ stack[f].id = BlockIn(heap, d)
  BY <1>1, <1>2, <1>4 DEF BlockInv, Housed
<1>9. Len(stack) \in Blocks(heap, stack) /\ f \in 1 .. Len(stack)
  BY <1>2, <1>3 DEF Blocks, Here
<1>10. f = Len(stack)
  <2>1. Places(Blocks(heap, stack), Len(stack)) /\ Rank(Blocks(heap, stack), f) \in Nat
    <3>1. f \in 0 .. Len(stack)
      BY <1>9
    <3> QED BY <1>1, <3>1, BlocksArePlaces
  <2>2. Rank(Blocks(heap, stack), f) = Rank(Blocks(heap, stack), Len(stack))
    BY <1>1, <1>3, <1>8, <1>9 DEF WellStacked
  <2>3. f \in 0 .. Len(stack) /\ Len(stack) \in 0 .. Len(stack)
    BY <1>3, <1>9
  <2>4. ~(f < Len(stack))
    <3>1. f < Len(stack) => Rank(Blocks(heap, stack), f) < Rank(Blocks(heap, stack), Len(stack))
      BY <1>3, <1>9, <2>1, <2>3, RankGrows
    <3> QED BY <2>1, <2>2, <3>1
  <2> QED BY <1>9, <2>4
<1> QED BY <1>2, <1>3, <1>5, <1>7, <1>8, <1>10 DEF k

\* So it is there.
LEMMA RemainingThere ==
  ASSUME LifeInv, Handling, InBlocks(heap)
  PROVE  IndexOf(Kids, Remaining.declaration) # 0
<1> DEFINE d == Remaining.declaration
<1>1. d \in 2 .. Len(heap) /\ BlockIn(heap, d) = Top.id /\ Declares(heap, Remaining)
  BY RemainingHome
<1>2. TypeInv /\ TreeOK(heap) /\ heap \in Seq(NodeType(Len(heap))) /\ phase = "walk"
  BY DEF LifeInv, WalkInv, TypeInv, BlockInv, Handling
<1>3. heap[d].kind \in {"decl", "alias"} /\ In(heap[heap[d].parent].kids, d)
  BY <1>1 DEF Declares, Listed
<1> HIDE DEF d
<1>4. heap[d].parent = Top.id
  BY <1>1, <1>2, <1>3, BlockInStep DEF InBlocks
<1>5. \E j \in 1 .. Len(Kids) : Kids[j] = d
  BY <1>3, <1>4 DEF In, Kids
<1>6. Kids \in Seq(0 .. Len(heap))
  BY <1>2, TopIs
<1> QED BY <1>5, <1>6, IndexOfIs DEF d

\* Declarations stay in blocks if a new one is in one.
LEMMA InBlocksStays ==
  ASSUME InBlocks(heap), TreeOK(heap), Extends(heap, heap'), Len(heap) \in Nat,
         \/ Len(heap') = Len(heap)
         \/ /\ Len(heap') = Len(heap) + 1 /\ heap'[Len(heap) + 1].parent = Top.id
            /\ Top.id \in 1 .. Len(heap)
            /\ heap'[Len(heap) + 1].kind \in {"decl", "alias"} => Here = "block"
  PROVE  InBlocks(heap')
<1>1. ASSUME NEW n \in 2 .. Len(heap'), heap'[n].kind \in {"decl", "alias"}
      PROVE  heap'[heap'[n].parent].kind = "block"
  <2>1. CASE n \in 2 .. Len(heap)
    <3>1. heap[n].parent \in 1 .. n - 1 /\ n \in 1 .. Len(heap)
      BY <2>1 DEF TreeOK
    <3>2. heap[n].parent \in 1 .. Len(heap)
      BY <2>1, <3>1
    <3>3. heap'[n].kind = heap[n].kind /\ heap'[n].parent = heap[n].parent
      BY <3>1 DEF Extends, SameNode
    <3>4. heap[heap[n].parent].kind = "block"
      BY <1>1, <2>1, <3>3 DEF InBlocks
    <3> QED BY <3>2, <3>3, <3>4 DEF Extends, SameNode
  <2>2. CASE n \notin 2 .. Len(heap)
    <3>1. n = Len(heap) + 1 /\ heap'[n].parent = Top.id /\ Top.id \in 1 .. Len(heap) /\ Here = "block"
      BY <1>1, <2>2
    <3>2. heap[Top.id].kind = "block"
      BY <3>1 DEF Here
    <3> QED BY <3>1, <3>2 DEF Extends, SameNode
  <2> QED BY <2>1, <2>2
<1> QED BY <1>1 DEF InBlocks

\* A new statement of the source is what is expected, an inserted one
\* declares nothing.
LEMMA InBlocksNext ==
  ASSUME ~BareDecl, LifeInv, InBlocks(heap), [Next]_vars
  PROVE  InBlocks(heap')
<1>1. /\ TypeInv /\ BlockInv /\ TreeOK(heap) /\ heap \in Seq(NodeType(Len(heap))) /\ Len(heap) \in Nat
      /\ phase = "walk" => Top.id \in 1 .. Len(heap)
  BY TopIs DEF LifeInv, WalkInv, TypeInv, BlockInv
<1>2. CASE heap' = heap
  BY <1>2
<1>3. ASSUME NEW s \in Shapes, Reveal(s)
      PROVE  InBlocks(heap')
  <2> DEFINE K    == Append(Kids, Len(heap) + 1)
             node == Node(s, Top.id, TRUE)
  <2>1. /\ phase = "walk" /\ K \in Seq(0 .. Len(heap) + 1) /\ node \in NodeType(Len(heap) + 1)
        /\ heap' = Grown(heap, Top.id, K, node)
    BY <1>1, <1>3, RevealIs
  <2>2. node.kind = s.kind /\ node.parent = Top.id
    BY DEF Node
  <2>3. s.kind \in {"decl", "alias"} => Here = "block"
    BY <1>3 DEF Reveal, Expected
  <2> HIDE DEF K, node
  <2>4. Extends(heap, heap') /\ Len(heap') = Len(heap) + 1 /\ heap'[Len(heap) + 1] = node
    BY <1>1, <2>1, HeapGrown
  <2> QED BY <1>1, <2>1, <2>2, <2>3, <2>4, InBlocksStays
<1>4. ASSUME NEW K \in Seq(0 .. Len(heap)), phase = "walk", heap' = WithKids(heap, Top.id, K)
      PROVE  InBlocks(heap')
  <2>1. Extends(heap, heap') /\ Len(heap') = Len(heap)
    BY <1>1, <1>4, HeapWithKids
  <2> QED BY <1>1, <2>1, InBlocksStays
<1>5. ASSUME NEW K \in Seq(0 .. Len(heap) + 1), NEW x, phase = "walk",
             Node(Shape("unused", x), Top.id, FALSE) \in NodeType(Len(heap) + 1),
             heap' = Grown(heap, Top.id, K, Node(Shape("unused", x), Top.id, FALSE))
      PROVE  InBlocks(heap')
  <2> DEFINE node == Node(Shape("unused", x), Top.id, FALSE)
  <2>1. node.kind = "unused" /\ node.parent = Top.id /\ node \in NodeType(Len(heap) + 1)
    BY <1>5 DEF Node, Shape
  <2>2. heap' = Grown(heap, Top.id, K, node) /\ Top.id \in 1 .. Len(heap)
    BY <1>1, <1>5
  <2> HIDE DEF node
  <2>3. Extends(heap, heap') /\ Len(heap') = Len(heap) + 1 /\ heap'[Len(heap) + 1] = node
    <3>1. heap \in Seq(NodeType(Len(heap)))
      BY <1>1
    <3> QED BY <2>1, <2>2, <3>1, HeapGrown
  <2> QED BY <1>1, <1>5, <2>1, <2>3, InBlocksStays
<1>6. CASE RevealNothing
  BY <1>1, <1>2, <1>4, <1>6, RevealNothingIs
<1>7. CASE VisitRedeclaration
  <2>1. phase = "walk"
    BY <1>7 DEF VisitRedeclaration, Redeclaring, Visiting
  <2> QED BY <1>1, <1>2, <1>5, <1>7, <2>1, VisitRedeclarationIs
<1>8. CASE RemoveDeclaration
  <2>1. phase = "walk"
    BY <1>8 DEF RemoveDeclaration, Handling
  <2> QED BY <1>1, <1>2, <1>4, <1>8, <2>1, RemoveDeclarationIs
<1>9. CASE InsertDestroy
  <2>1. phase = "walk"
    BY <1>9 DEF InsertDestroy, Handling
  <2> QED BY <1>1, <1>5, <1>9, <2>1, InsertDestroyIs
<1>10. CASE LeaveBlock
  BY <1>1, <1>4, <1>10, LeaveBlockIs
<1>11. CASE UNCHANGED vars
  BY <1>2, <1>11 DEF vars
<1> QED
  BY <1>2, <1>3, <1>6, <1>7, <1>8, <1>9, <1>10, <1>11
  DEF Next, VisitNull, VisitDecl, ThrowRedeclaration, VisitUnused, VisitAlias, VisitExpr,
      EnterBranches, LeaveBranches, EnterBlock, EndOfStatements

\* Only a declaration that is not found ends the process with a logic_error.
LEMMA FoundNext ==
  ASSUME HomeInv, [Next]_vars
  PROVE  DeclarationInItsBlock'
<1>1. phase # "logic_error"
  BY DEF HomeInv, DeclarationInItsBlock
<1>2. \A deleted : Touching(deleted) => phase' # "logic_error"
  BY <1>1 DEF Touching
<1>3. CASE RemoveDeclaration
  <2>1. IndexOf(Kids, Remaining.declaration) # 0
    BY <1>3, RemainingThere DEF RemoveDeclaration, HomeInv
  <2> QED BY <1>2, <1>3, <2>1 DEF RemoveDeclaration, DeclarationInItsBlock
<1>4. CASE VisitRedeclaration
  BY <1>1, <1>4 DEF VisitRedeclaration, DeclarationInItsBlock
<1>5. CASE VisitUnused
  BY <1>1, <1>2, <1>5 DEF VisitUnused, DeclarationInItsBlock
<1>6. CASE VisitAlias
  BY <1>1, <1>2, <1>6 DEF VisitAlias, DeclarationInItsBlock
<1>7. CASE EndOfStatements
  BY <1>2, <1>7 DEF EndOfStatements, DeclarationInItsBlock
<1>8. CASE ThrowRedeclaration \/ LeaveBlock
  BY <1>8 DEF ThrowRedeclaration, LeaveBlock, DeclarationInItsBlock
<1>9. ASSUME phase' = phase
      PROVE  DeclarationInItsBlock'
  BY <1>1, <1>9 DEF DeclarationInItsBlock
<1> QED
  BY <1>3, <1>4, <1>5, <1>6, <1>7, <1>8, <1>9
  DEF Next, vars, Reveal, RevealNothing, VisitNull, VisitDecl, VisitExpr,
      EnterBranches, LeaveBranches, EnterBlock, InsertDestroy

\* As long as the declarations of a program are statements of blocks, the
\* declaration of a remaining variable is found in the block that is left:
\* the logic_error of blockstmt.hpp is never thrown.  (It is when a declaration
\* is a branch of its own, which the parser accepts.)
THEOREM DeclarationsAreFound == ~BareDecl => (Spec => []DeclarationInItsBlock)
<1> SUFFICES ASSUME ~BareDecl PROVE Spec => []DeclarationInItsBlock
  OBVIOUS
<1> DEFINE Inv == InBlocks(heap) /\ DeclarationInItsBlock
<1>1. Init => Inv
  <2> SUFFICES ASSUME Init PROVE Inv
    OBVIOUS
  <2>1. Len(heap) = 1 /\ 2 .. Len(heap) = {} /\ phase = "walk"
    BY DEF Init
  <2> QED BY <2>1 DEF InBlocks, DeclarationInItsBlock
<1>2. LifeInv /\ Inv /\ [Next]_vars => Inv'
  <2> SUFFICES ASSUME LifeInv, Inv, [Next]_vars PROVE Inv'
    OBVIOUS
  <2>1. InBlocks(heap')
    BY InBlocksNext
  <2> QED BY <2>1, FoundNext DEF HomeInv
<1>3. Inv => DeclarationInItsBlock
  OBVIOUS
<1> HIDE DEF Inv
<1> QED BY <1>1, <1>2, <1>3, LifeInvariant, PTL DEF Spec

-----------------------------------------------------------------------------
(* Lists that are walked to their ends.  A program that never declares     *)
(* a name again, or a vector that always moves when it grows, keeps every  *)
(* activation one statement behind its list at most: no end iterator is    *)
(* left behind.                                                            *)

Skipless == ~Redeclare \/ ~Slack

\* Activation fr has come to the end of its list, or has one statement to go.
Drained(h, fr) == fr.skip = 0 /\ ~fr.leaving /\ Len(h[fr.id].kids) = fr.i

Queued(h, fr) == fr.skip = 0 /\ (~fr.leaving => Len(h[fr.id].kids) \in {fr.i, fr.i + 1})

QueueInv(h, st) ==
  \A f \in 1 .. Len(st) : /\ f < Len(st) => Drained(h, st[f])
                          /\ f = Len(st) => Queued(h, st[f])

\* Activation fr has no statement to go.
Idle(h, fr) == fr.leaving \/ Len(h[fr.id].kids) <= fr.i \/ h[fr.id].kids[fr.i + 1] = Null

\* Statement u has just been revealed, and is one the programs may have.
Fresh(h, r, u) ==
  /\ u = Len(h)
  /\ ~Redeclare /\ h[u].kind \in {"decl", "alias"} => Registered(r, h[u].name) = {}
  /\ ~UnknownUnused /\ h[u].kind = "unused" => Registered(r, h[u].name) # {}

FreshTop(h, r, st) ==
  st # << >> => \/ Idle(h, st[Len(st)])
                \/ Fresh(h, r, h[st[Len(st)].id].kids[st[Len(st)].i + 1])

PlainInv == QueueInv(heap, stack) /\ FreshTop(heap, registry, stack)

\* A list at its end has no statement to go.
LEMMA DrainedIdle ==
  ASSUME NEW h, NEW fr, fr.i \in Nat, Drained(h, fr)
  PROVE  Idle(h, fr) /\ Queued(h, fr)
BY DEF Drained, Idle, Queued

\* A step at the top.
LEMMA PlainTop ==
  ASSUME LifeInv, PlainInv, phase = "walk",
         \A m \in 1 .. Len(heap) : m # Top.id => heap'[m].kids = heap[m].kids,
         NEW fr, stack' = SetTop(fr), Queued(heap', fr),
         Idle(heap', fr) \/ Fresh(heap', registry', heap'[fr.id].kids[fr.i + 1])
  PROVE  PlainInv'
<1>1. TypeInv /\ BlockInv
  BY DEF LifeInv, WalkInv
<1>2. stack \in Seq(FrameOf(registry)) /\ stack # << >> /\ Len(stack) \in 1 .. Len(stack)
  BY <1>1, TopIs, TypeInvWalks
<1>3. Len(stack') = Len(stack) /\ \A f \in 1 .. Len(stack) : stack'[f] = IF f = Len(stack) THEN fr ELSE stack[f]
  BY <1>2, WithTopIs DEF SetTop
<1>4. ASSUME NEW f \in 1 .. Len(stack), f < Len(stack)
      PROVE  Drained(heap', stack'[f])
  <2>1. stack[f].id \in 1 .. Len(heap) /\ stack[f].id # Top.id
    BY <1>1, <1>4, BelowElsewhere
  <2>2. Drained(heap, stack[f]) /\ stack'[f] = stack[f]
    BY <1>2, <1>3, <1>4 DEF PlainInv, QueueInv
  <2> QED BY <2>1, <2>2 DEF Drained
<1>5. stack'[Len(stack')] = fr
  BY <1>2, <1>3
<1>6. QueueInv(heap', stack')
  BY <1>2, <1>3, <1>4, <1>5 DEF QueueInv
<1>7. FreshTop(heap', registry', stack')
  BY <1>5 DEF FreshTop
<1> QED BY <1>6, <1>7 DEF PlainInv

\* A step that enters a statement.
LEMMA PlainPush ==
  ASSUME LifeInv, PlainInv, phase = "walk", heap' = heap,
         NEW fr \in FrameOf(registry), Drained(heap, fr), NEW v, heap[v].kids = << >>, NEW sc,
         stack' = Append(SetTop(fr), Frame(v, sc))
  PROVE  PlainInv'
<1>1. TypeInv /\ BlockInv
  BY DEF LifeInv, WalkInv
<1>2. stack \in Seq(FrameOf(registry)) /\ stack # << >> /\ Len(stack) \in Nat /\ Len(stack) \in 1 .. Len(stack)
  BY <1>1, TopIs, TypeInvWalks
<1>3. /\ Len(SetTop(fr)) = Len(stack) /\ SetTop(fr) \in Seq(FrameOf(registry))
      /\ \A f \in 1 .. Len(stack) : SetTop(fr)[f] = IF f = Len(stack) THEN fr ELSE stack[f]
  <2>1. SetTop(fr) \in Seq(FrameOf(registry))
    BY <1>2 DEF SetTop, WithTop
  <2> QED BY <1>2, <2>1, WithTopIs DEF SetTop
<1>4. Len(stack') = Len(stack) + 1 /\ stack'[Len(stack) + 1] = Frame(v, sc)
      /\ \A f \in 1 .. Len(stack) : stack'[f] = SetTop(fr)[f]
  BY <1>2, <1>3
<1>5. ASSUME NEW f \in 1 .. Len(stack)
      PROVE  Drained(heap, stack'[f])
  <2>1. CASE f = Len(stack)
    BY <1>3, <1>4, <2>1
  <2>2. CASE f # Len(stack)
    <3>1. f < Len(stack) /\ stack'[f] = stack[f]
      BY <1>2, <1>3, <1>4, <2>2
    <3> QED BY <3>1 DEF PlainInv, QueueInv
  <2> QED BY <2>1, <2>2
<1>6. Queued(heap, Frame(v, sc)) /\ Idle(heap, Frame(v, sc))
  <2>1. Len(heap[v].kids) = 0
    OBVIOUS
  <2> QED BY <2>1 DEF Queued, Idle, Frame
<1>7. stack'[Len(stack')] = Frame(v, sc) /\ \A f \in 1 .. Len(stack') : f < Len(stack') => f \in 1 .. Len(stack)
  BY <1>2, <1>4
<1>8. QueueInv(heap', stack')
  BY <1>5, <1>6, <1>7 DEF QueueInv
<1>9. FreshTop(heap', registry', stack')
  BY <1>6, <1>7 DEF FreshTop
<1> QED BY <1>8, <1>9 DEF PlainInv

\* A step that leaves one.
LEMMA PlainPop ==
  ASSUME LifeInv, PlainInv, phase = "walk", stack' = Under,
         Extends(heap, heap'), Len(heap') \in Nat,
         \A m \in 1 .. Len(heap) : m # Top.id => heap'[m].kids = heap[m].kids
  PROVE  PlainInv'
<1>1. TypeInv /\ BlockInv
  BY DEF LifeInv, WalkInv
<1>2. stack # << >> /\ stack \in Seq(FrameOf(registry))
  BY <1>1, TopIs, TypeInvWalks
<1>3. /\ Len(stack') = Len(stack) - 1 /\ Len(stack) \in Nat
      /\ \A f \in 1 .. Len(stack') : stack'[f] = stack[f]
  BY <1>1, <1>2, UnderIs
<1>4. ASSUME NEW f \in 1 .. Len(stack')
      PROVE  Drained(heap', stack'[f]) /\ Queued(heap', stack'[f]) /\ Idle(heap', stack'[f])
  <2>1. f \in 1 .. Len(stack) /\ f < Len(stack) /\ stack'[f] = stack[f]
    BY <1>3
  <2>2. stack[f].id \in 1 .. Len(heap) /\ stack[f].id # Top.id
    BY <1>1, <2>1, BelowElsewhere
  <2>3. Drained(heap, stack[f])
    BY <2>1 DEF PlainInv, QueueInv
  <2>4. Drained(heap', stack'[f])
    BY <2>1, <2>2, <2>3 DEF Drained
  <2>5. stack'[f].i \in Nat
    <3>1. stack[f] \in FrameOf(registry)
      BY <1>2, <2>1
    <3> QED BY <2>1, <3>1 DEF FrameOf
  <2> QED BY <2>4, <2>5, DrainedIdle
<1>5. QueueInv(heap', stack')
  BY <1>4 DEF QueueInv
<1>6. FreshTop(heap', registry', stack')
  <2>1. stack' # << >> => Len(stack') \in 1 .. Len(stack')
    BY <1>1, <1>2, <1>3, UnderIs
  <2> QED BY <1>4, <2>1 DEF FreshTop
<1> QED BY <1>5, <1>6 DEF PlainInv

\* What is known of the top.
LEMMA TopPlain ==
  ASSUME LifeInv, PlainInv, phase = "walk"
  PROVE  /\ Top.skip = 0 /\ Top.i \in Nat /\ Len(Kids) \in Nat
         /\ ~Top.leaving => Len(Kids) \in {Top.i, Top.i + 1}
         /\ Idle(heap, Top) \/ Fresh(heap, registry, Visited)
         /\ stack' = stack => stack' = SetTop(Top)
<1>1. TypeInv
  BY DEF LifeInv, WalkInv
<1>2. /\ stack # << >> /\ Len(stack) \in 1 .. Len(stack) /\ Top = stack[Len(stack)]
      /\ Top.i \in Nat /\ Len(Kids) \in Nat /\ stack \in Seq(FrameOf(registry))
  BY <1>1, TopIs, TypeInvWalks DEF Top
<1>3. Queued(heap, Top)
  BY <1>2 DEF PlainInv, QueueInv
<1>4. Idle(heap, Top) \/ Fresh(heap, registry, Visited)
  BY <1>2 DEF PlainInv, FreshTop, Visited, Kids
<1>5. stack = SetTop(Top)
  BY <1>2 DEF SetTop, WithTop
<1> QED BY <1>2, <1>3, <1>4, <1>5 DEF Queued, Kids

\* A statement that is visited is the new one, and the last.
LEMMA VisitedPlain ==
  ASSUME LifeInv, PlainInv, NEW kinds, Visiting(kinds)
  PROVE  Fresh(heap, registry, Visited) /\ Len(Kids) = Top.i + 1
<1>1. TypeInv /\ phase = "walk" /\ ~Top.leaving /\ Top.i + 1 \in 1 .. Len(Kids) /\ Visited # Null
  BY VisitedIs DEF LifeInv, WalkInv, Visiting, Visited
<1>2. /\ Top.i \in Nat /\ Len(Kids) \in {Top.i, Top.i + 1}
      /\ Idle(heap, Top) \/ Fresh(heap, registry, Visited)
  BY <1>1, TopPlain
<1>3. Len(Kids) = Top.i + 1
  BY <1>1, <1>2
<1>4. ~Idle(heap, Top)
  BY <1>1, <1>2, <1>3 DEF Idle, Kids, Visited
<1> QED BY <1>2, <1>3, <1>4

\* The walk comes to the end of the list.
LEMMA StepDrains ==
  ASSUME LifeInv, PlainInv, phase = "walk", ~Top.leaving, Top.i + Top.skip < Len(Kids)
  PROVE  \E fr \in FrameOf(registry) : Drained(heap, fr) /\ Step(stack) = SetTop(fr) /\ fr.id = Top.id
<1> DEFINE fr == [Top EXCEPT !.i = @ + 1]
<1>1. TypeInv
  BY DEF LifeInv, WalkInv
<1>2. Top.skip = 0 /\ Top.i \in Nat /\ Len(Kids) \in {Top.i, Top.i + 1}
  BY TopPlain
<1>3. Len(Kids) = Top.i + 1
  BY <1>2
<1>4. /\ Step(stack) = SetTop(fr) /\ fr \in FrameOf(registry) /\ SameWalk(Top, fr) /\ fr.i = Top.i + 1
      /\ Top \in FrameOf(registry)
  BY <1>1, StepIs, TopIs
<1>5. fr.skip = Top.skip
  BY <1>4 DEF FrameOf
<1> HIDE DEF fr
<1>6. Drained(heap, fr) /\ fr.id = Top.id
  BY <1>2, <1>3, <1>4, <1>5 DEF Drained, SameWalk, Kids
<1> QED BY <1>4, <1>6

\* So it does when a statement is visited.
LEMMA PlainVisit ==
  ASSUME LifeInv, PlainInv, phase = "walk", ~Top.leaving, Top.i + Top.skip < Len(Kids),
         heap' = heap, stack' = Step(stack)
  PROVE  PlainInv'
<1>1. PICK fr \in FrameOf(registry) : Drained(heap, fr) /\ Step(stack) = SetTop(fr) /\ fr.id = Top.id
  BY StepDrains
<1>2. Idle(heap, fr) /\ Queued(heap, fr)
  <2>1. fr.i \in Nat
    BY DEF FrameOf
  <2> QED BY <1>1, <2>1, DrainedIdle
<1>3. \A m \in 1 .. Len(heap) : m # Top.id => heap'[m].kids = heap[m].kids
  OBVIOUS
<1> QED BY <1>1, <1>2, <1>3, PlainTop

\* Or entered.
LEMMA PlainEnter ==
  ASSUME LifeInv, PlainInv, NEW kinds, Visiting(kinds), heap' = heap, NEW sc,
         stack' = Append(Step(stack), Frame(Visited, sc))
  PROVE  PlainInv'
<1>1. phase = "walk" /\ ~Top.leaving /\ Top.i + Top.skip < Len(Kids)
  BY DEF Visiting
<1>2. PICK fr \in FrameOf(registry) : Drained(heap, fr) /\ Step(stack) = SetTop(fr)
  BY <1>1, StepDrains
<1>3. heap[Visited].kids = << >>
  BY VisitedUnmet
<1> QED BY <1>1, <1>2, <1>3, PlainPush

\* The next statement of the source.
LEMMA PlainReveal ==
  ASSUME LifeInv, PlainInv, NEW s \in Shapes, Reveal(s)
  PROVE  PlainInv'
<1> DEFINE new  == Len(heap) + 1
           K    == Append(Kids, new)
           node == Node(s, Top.id, TRUE)
<1>1. /\ TypeInv /\ heap \in Seq(NodeType(Len(heap))) /\ Len(heap) \in Nat
  BY TypeInvWalks DEF LifeInv, WalkInv, TypeInv
<1>2. /\ phase = "walk" /\ UNCHANGED <<registry, stack>> /\ Top.id \in 1 .. Len(heap)
      /\ K \in Seq(0 .. Len(heap) + 1) /\ node \in NodeType(Len(heap) + 1)
      /\ heap' = Grown(heap, Top.id, K, node)
  BY <1>1, RevealIs
<1>3. node.kind = s.kind /\ node.name = s.name
  BY DEF Node
<1>4. /\ Top.skip = 0 /\ Top.i \in Nat /\ Len(Kids) \in Nat /\ stack' = SetTop(Top)
      /\ ~Top.leaving => Len(Kids) \in {Top.i, Top.i + 1}
  BY <1>2, TopPlain
<1>5. ~Top.leaving /\ Len(Kids) = Top.i
  <2>1. Top.leaving => Here = "block"
    BY <1>1, <1>2, TopIs DEF FrameFits, Here
  <2>2. \/ ~Top.leaving /\ Len(Kids) <= Top.i + Top.skip
        \/ Here # "block" /\ Len(Kids) = Top.i
    BY DEF Reveal
  <2> QED BY <1>4, <2>1, <2>2
<1>6. Len(K) = Top.i + 1 /\ K[Top.i + 1] = new
  <2>1. Kids \in Seq(0 .. Len(heap))
    BY <1>1, <1>2, TopIs
  <2> QED BY <1>5, <2>1
<1>7. /\ s.kind \in {"decl", "alias"} => Redeclare \/ Registered(registry, s.name) = {}
      /\ s.kind = "unused" => UnknownUnused \/ Registered(registry, s.name) # {}
  BY DEF Reveal, Expected
<1> HIDE DEF K, node
<1>8. /\ Len(heap') = new /\ heap'[new] = node
      /\ \A n \in 1 .. Len(heap) : heap'[n].kids = IF n = Top.id THEN K ELSE heap[n].kids
  BY <1>1, <1>2, HeapGrown
<1>9. heap'[Top.id].kids = K
  BY <1>2, <1>8
<1>10. Queued(heap', Top)
  BY <1>4, <1>6, <1>9 DEF Queued
<1>11. Fresh(heap', registry', heap'[Top.id].kids[Top.i + 1])
  <2>1. heap'[Top.id].kids[Top.i + 1] = new
    BY <1>6, <1>9
  <2>2. heap'[new].kind = s.kind /\ heap'[new].name = s.name /\ registry' = registry /\ Len(heap') = new
    BY <1>2, <1>3, <1>8
  <2> HIDE DEF new
  <2>3. Fresh(heap', registry', new)
    BY <1>7, <2>2 DEF Fresh
  <2> QED BY <2>1, <2>3
<1> QED BY <1>2, <1>4, <1>8, <1>10, <1>11, PlainTop

\* Or none.
LEMMA PlainRevealNothing ==
  ASSUME LifeInv, PlainInv, RevealNothing
  PROVE  PlainInv'
<1> DEFINE K  == Append(Kids, Null)
           fr == [Top EXCEPT !.closed = TRUE]
<1>1. /\ TypeInv /\ heap \in Seq(NodeType(Len(heap))) /\ Len(heap) \in Nat
  BY TypeInvWalks DEF LifeInv, WalkInv, TypeInv
<1>2. /\ phase = "walk" /\ registry' = registry
      /\ \/ /\ Here = "block" /\ ~Top.leaving /\ UNCHANGED heap
            /\ Len(Kids) <= Top.i + Top.skip /\ stack' = SetTop(fr)
         \/ /\ Here # "block" /\ UNCHANGED stack /\ Len(Kids) = Top.i
            /\ K \in Seq(0 .. Len(heap)) /\ Top.id \in 1 .. Len(heap)
            /\ heap' = WithKids(heap, Top.id, K)
  BY <1>1, RevealNothingIs
<1>3. /\ Top.skip = 0 /\ Top.i \in Nat /\ Len(Kids) \in Nat /\ (stack' = stack => stack' = SetTop(Top))
      /\ ~Top.leaving => Len(Kids) \in {Top.i, Top.i + 1}
  BY <1>2, TopPlain
<1>4. Top \in FrameOf(registry) /\ Kids \in Seq(0 .. Len(heap)) /\ Top.id \in 1 .. Len(heap)
      /\ (Top.leaving => Here = "block")
  BY <1>1, <1>2, TopIs DEF FrameFits, Here
<1>5. CASE /\ Here = "block" /\ ~Top.leaving /\ UNCHANGED heap
           /\ Len(Kids) <= Top.i + Top.skip /\ stack' = SetTop(fr)
  <2>1. fr.id = Top.id /\ fr.i = Top.i /\ fr.skip = Top.skip /\ fr.leaving = Top.leaving
    BY <1>4 DEF FrameOf
  <2> HIDE DEF fr
  <2>2. Len(Kids) = Top.i
    BY <1>3, <1>5
  <2>3. Queued(heap', fr) /\ Idle(heap', fr)
    BY <1>3, <1>5, <2>1, <2>2 DEF Queued, Idle, Kids
  <2> QED BY <1>2, <1>5, <2>3, PlainTop
<1>6. CASE /\ Here # "block" /\ UNCHANGED stack /\ Len(Kids) = Top.i
           /\ K \in Seq(0 .. Len(heap)) /\ Top.id \in 1 .. Len(heap)
           /\ heap' = WithKids(heap, Top.id, K)
  <2>1. Len(K) = Top.i + 1 /\ K[Top.i + 1] = Null
    BY <1>4, <1>6
  <2> HIDE DEF K
  <2>2. \A n \in 1 .. Len(heap) : heap'[n].kids = IF n = Top.id THEN K ELSE heap[n].kids
    BY <1>1, <1>6, HeapWithKids
  <2>3. heap'[Top.id].kids = K
    BY <1>6, <2>2
  <2>4. Queued(heap', Top) /\ Idle(heap', Top)
    BY <1>3, <2>1, <2>3 DEF Queued, Idle
  <2> QED BY <1>2, <1>3, <1>6, <2>2, <2>4, PlainTop
<1> QED BY <1>2, <1>5, <1>6

\* A redeclaration, into a vector without capacity.
LEMMA PlainRedeclaration ==
  ASSUME Skipless, LifeInv, PlainInv, VisitRedeclaration
  PROVE  PlainInv'
<1> DEFINE x    == heap[Visited].name
           ix   == IndexOf(Kids, Visited)
           K    == InsertAt(Kids, ix + 1, Len(heap) + 1)
           node == Node(Shape("unused", x), Top.id, FALSE)
<1>1. /\ TypeInv /\ heap \in Seq(NodeType(Len(heap))) /\ Len(heap) \in Nat
  BY TypeInvWalks DEF LifeInv, WalkInv, TypeInv
<1>2. /\ Visiting({"decl"}) /\ Registered(registry, x) # {}
      /\ \/ /\ heap' = Grown(heap, Top.id, K, node) /\ K \in Seq(0 .. Len(heap) + 1)
            /\ ix \in 1 .. Len(Kids) /\ node \in NodeType(Len(heap) + 1)
            /\ \E fr \in FrameOf(registry) : /\ SameWalk(Top, fr) /\ stack' = SetTop(fr)
                                             /\ ((fr.skip = Top.skip /\ fr.i = Top.i + 2) \/ Slack)
         \/ stack' = Step(stack) /\ UNCHANGED heap
  BY <1>1, VisitRedeclarationIs
<1>3. /\ phase = "walk" /\ ~Top.leaving /\ Top.i + Top.skip < Len(Kids)
  BY <1>2 DEF Visiting
<1>4. Fresh(heap, registry, Visited) /\ Len(Kids) = Top.i + 1 /\ heap[Visited].kind = "decl"
  BY <1>1, <1>2, VisitedPlain, VisitedIs
<1>5. ~Slack
  BY <1>2, <1>4 DEF Fresh, Skipless
<1>6. CASE stack' = Step(stack) /\ UNCHANGED heap
  BY <1>3, <1>6, PlainVisit
<1>7. ASSUME heap' = Grown(heap, Top.id, K, node), K \in Seq(0 .. Len(heap) + 1),
             ix \in 1 .. Len(Kids), node \in NodeType(Len(heap) + 1),
             NEW fr \in FrameOf(registry), SameWalk(Top, fr), stack' = SetTop(fr),
             fr.skip = Top.skip, fr.i = Top.i + 2
      PROVE  PlainInv'
  <2>1. /\ Kids \in Seq(0 .. Len(heap)) /\ Top.id \in 1 .. Len(heap) /\ Top.i \in Nat /\ Len(Kids) \in Nat
        /\ Top.skip = 0 /\ fr.i \in Nat
    BY <1>1, <1>3, TopIs, TopPlain DEF FrameOf
  <2>2. \A y \in 0 .. Len(heap) : y \in 0 .. Len(heap) + 1
    BY <1>1
  <2>3. Kids \in Seq(0 .. Len(heap) + 1) /\ Len(heap) + 1 \in 0 .. Len(heap) + 1
    <3>1. Len(heap) + 1 \in 0 .. Len(heap) + 1
      BY <1>1
    <3> QED BY <2>1, <2>2, <3>1, SeqMonotonic
  <2> HIDE DEF ix
  <2>4. ix + 1 \in 1 .. Len(Kids) + 1
    BY <1>7, <2>1
  <2>5. Len(K) = Len(Kids) + 1
    <3> DEFINE at == ix + 1
               S  == 0 .. Len(heap) + 1
               n  == Len(heap) + 1
               L  == InsertAt(Kids, at, n)
    <3>1. at \in 1 .. Len(Kids) + 1 /\ Kids \in Seq(S) /\ n \in S /\ L = InsertAt(Kids, at, n) /\ K = L
      BY <2>3, <2>4
    <3> HIDE DEF K, L, at, S, n
    <3>2. Len(L) = Len(Kids) + 1
      BY <3>1, InsertAtIs
    <3> QED BY <3>1, <3>2
  <2> HIDE DEF K, node
  <2>6. \A n \in 1 .. Len(heap) : heap'[n].kids = IF n = Top.id THEN K ELSE heap[n].kids
    BY SMTT(40), <1>1, <1>7, <2>1, HeapGrown
  <2>7. Len(heap'[fr.id].kids) = fr.i
    <3>1. fr.id = Top.id
      BY <1>7 DEF SameWalk
    <3>2. heap'[fr.id].kids = K
      BY <2>1, <2>6, <3>1
    <3>3. Len(K) = Top.i + 1 + 1 /\ fr.i = Top.i + 2 /\ Top.i \in Nat
      BY <1>4, <1>7, <2>1, <2>5
    <3> QED BY <3>2, <3>3
  <2>8. Drained(heap', fr)
    BY <1>3, <1>7, <2>1, <2>7 DEF Drained, SameWalk
  <2>9. Queued(heap', fr) /\ Idle(heap', fr)
    BY <2>1, <2>8, DrainedIdle
  <2>10. \A m \in 1 .. Len(heap) : m # Top.id => heap'[m].kids = heap[m].kids
    BY <2>6
  <2> QED BY <1>3, <1>7, <2>9, <2>10, PlainTop
<1> HIDE DEF K, node, ix
<1> QED BY <1>2, <1>5, <1>6, <1>7

\* What a step of a block that is left does.
LEMMA PlainLeaving ==
  ASSUME LifeInv, PlainInv, phase = "walk",
         \A m \in 1 .. Len(heap) : m # Top.id => heap'[m].kids = heap[m].kids,
         NEW fr, fr.leaving, fr.skip = Top.skip, stack' = SetTop(fr)
  PROVE  PlainInv'
<1>1. Queued(heap', fr) /\ Idle(heap', fr)
  BY TopPlain DEF Queued, Idle
<1> QED BY <1>1, PlainTop

\* Every step keeps the lists drained.
LEMMA PlainNext ==
  ASSUME Skipless, LifeInv, PlainInv, [Next]_vars
  PROVE  PlainInv'
<1>1. /\ TypeInv /\ heap \in Seq(NodeType(Len(heap))) /\ Len(heap) \in Nat /\ BlockInv
  BY TypeInvWalks DEF LifeInv, WalkInv, TypeInv
<1>2. phase = "walk" => Top \in FrameOf(registry) /\ Top.id \in 1 .. Len(heap)
  BY <1>1, TopIs
<1>3. CASE UNCHANGED <<heap, registry, stack>>
  BY <1>3 DEF PlainInv
<1>4. ASSUME phase = "walk", ~Top.leaving, Top.i + Top.skip < Len(Kids), heap' = heap, stack' = Step(stack)
      PROVE  PlainInv'
  BY <1>4, PlainVisit
<1>5. CASE VisitNull
  BY <1>4, <1>5 DEF VisitNull
<1>6. CASE VisitDecl
  BY <1>4, <1>6 DEF VisitDecl, Visiting
<1>7. CASE VisitUnused
  BY <1>4, <1>7 DEF VisitUnused, Visiting
<1>8. CASE VisitAlias
  BY <1>4, <1>8 DEF VisitAlias, Visiting
<1>9. CASE VisitExpr
  BY <1>4, <1>9 DEF VisitExpr, Visiting
<1>10. CASE EnterBranches
  BY <1>10, PlainEnter DEF EnterBranches
<1>11. CASE EnterBlock
  BY <1>11, PlainEnter DEF EnterBlock
<1>12. CASE LeaveBranches
  <2>1. phase = "walk" /\ stack' = Under /\ heap' = heap
    BY <1>12 DEF LeaveBranches
  <2>2. Extends(heap, heap') /\ Len(heap') \in Nat
    BY <1>1, <2>1, HeapSame
  <2> QED BY <2>1, <2>2, PlainPop
<1>13. CASE LeaveBlock
  <2>1. phase = "walk" /\ stack' = Under /\ TreeStep(Top.id)
    BY <1>1, <1>13, LeaveBlockIs
  <2>2. /\ Extends(heap, heap') /\ Len(heap') \in Nat
        /\ \A m \in 1 .. Len(heap) : m # Top.id => heap'[m].kids = heap[m].kids
    BY <1>1, <2>1 DEF TreeStep
  <2> QED BY <2>1, <2>2, PlainPop
<1>14. CASE EndOfStatements
  <2> DEFINE fr == [Top EXCEPT !.leaving = TRUE, !.pending = GetVariablesInScope(registry, Top.scope)]
  <2>1. phase = "walk" /\ stack' = SetTop(fr) /\ heap' = heap
    BY <1>1, <1>14, EndOfStatementsIs
  <2>2. fr.leaving /\ fr.skip = Top.skip
    BY <1>2, <2>1 DEF FrameOf
  <2> HIDE DEF fr
  <2> QED BY <2>1, <2>2, PlainLeaving
<1> DEFINE fr == [Top EXCEPT !.pending = Tail(@)]
<1>15. Handling => phase = "walk" /\ fr.leaving /\ fr.skip = Top.skip
  BY <1>2 DEF FrameOf, Handling
<1> HIDE DEF fr
<1>16. CASE RemoveDeclaration
  <2>1. ASSUME NEW K \in Seq(0 .. Len(heap)), Handling, heap' = WithKids(heap, Top.id, K), stack' = SetTop(fr)
        PROVE  PlainInv'
    <3>1. phase = "walk" /\ Top.id \in 1 .. Len(heap)
      BY <1>2, <1>15, <2>1
    <3>2. \A m \in 1 .. Len(heap) : m # Top.id => heap'[m].kids = heap[m].kids
      BY <1>1, <2>1, <3>1, HeapWithKids
    <3> QED BY <1>15, <2>1, <3>1, <3>2, PlainLeaving
  <2> QED BY <1>1, <1>3, <1>16, <2>1, RemoveDeclarationIs DEF fr
<1>17. CASE InsertDestroy
  <2>1. ASSUME NEW K \in Seq(0 .. Len(heap) + 1), Handling, NEW node \in NodeType(Len(heap) + 1),
               heap' = Grown(heap, Top.id, K, node), stack' = SetTop(fr)
        PROVE  PlainInv'
    <3>1. phase = "walk" /\ Top.id \in 1 .. Len(heap)
      BY <1>2, <1>15, <2>1
    <3>2. \A m \in 1 .. Len(heap) : m # Top.id => heap'[m].kids = heap[m].kids
      BY <1>1, <2>1, <3>1, HeapGrown
    <3> QED BY <1>15, <2>1, <3>1, <3>2, PlainLeaving
  <2> QED BY <1>1, <1>17, <2>1, InsertDestroyIs DEF fr
<1> QED
  BY <1>3, <1>5, <1>6, <1>7, <1>8, <1>9, <1>10, <1>11, <1>12, <1>13, <1>14, <1>16, <1>17,
     PlainReveal, PlainRevealNothing, PlainRedeclaration
  DEF Next, vars, ThrowRedeclaration

\* A program that has just been opened.
LEMMA PlainInit ==
  ASSUME Init
  PROVE  PlainInv
<1> DEFINE n == Node(Shape("block", CHOOSE x \in Names : TRUE), Null, TRUE)
<1>1. heap = <<n>> /\ stack = <<Frame(1, 1)>> /\ n.kids = << >>
  BY DEF Init, Node
<1> HIDE DEF n
<1>2. Len(stack) = 1 /\ 1 .. Len(stack) = {1} /\ stack[1] = Frame(1, 1) /\ heap[1] = n /\ Len(n.kids) = 0
  BY <1>1
<1>3. Queued(heap, stack[1]) /\ Idle(heap, stack[1])
  BY <1>2 DEF Queued, Idle, Frame
<1> QED BY <1>2, <1>3 DEF PlainInv, QueueInv, FreshTop

-----------------------------------------------------------------------------
(* Deleted statements leave the tree.                                      *)

\* No error is ignored: either errors end the process, or programs have none.
NoErrorIgnored == (\A o \in OptionSets : o.panic) \/ (~Redeclare /\ ~UnknownUnused)

\* What has been deleted is in no list.
Unlisted(h, fd) == \A n \in 1 .. Len(h) : \A x \in fd : ~In(h[n].kids, x)

\* Every step that changes the tree changes the list of the top.
LEMMA TreeNext ==
  ASSUME LifeInv, [Next]_vars
  PROVE  heap' = heap \/ (phase = "walk" /\ Top.id \in 1 .. Len(heap) /\ TreeStep(Top.id))
<1>1. TypeInv /\ BlockInv /\ (phase = "walk" => Top.id \in 1 .. Len(heap))
  BY TopIs DEF LifeInv, WalkInv
<1> DEFINE Goal == phase = "walk" /\ TreeStep(Top.id)
<1>2. ASSUME NEW s \in Shapes, Reveal(s)
      PROVE  Goal
  BY <1>1, <1>2, RevealTree DEF Reveal
<1>3. CASE RevealNothing
  BY <1>1, <1>3, RevealNothingIs, NullBranchTree
<1>4. CASE VisitRedeclaration
  <2> DEFINE ix == IndexOf(Kids, Visited)
             at == ix + 1
  <2>1. /\ phase = "walk"
        /\ \/ UNCHANGED heap
           \/ /\ heap' = Grown(heap, Top.id, InsertAt(Kids, at, Len(heap) + 1),
                               Node(Shape("unused", heap[Visited].name), Top.id, FALSE))
              /\ InsertAt(Kids, at, Len(heap) + 1) \in Seq(0 .. Len(heap) + 1)
              /\ ix \in 1 .. Len(Kids)
              /\ Node(Shape("unused", heap[Visited].name), Top.id, FALSE) \in NodeType(Len(heap) + 1)
    BY <1>1, <1>4, VisitRedeclarationIs DEF Visiting
  <2>2. Len(Kids) \in Nat
    BY <1>1, <2>1, TopIs
  <2> HIDE DEF ix
  <2>3. ix \in 1 .. Len(Kids) => at \in 1 .. Len(Kids) + 1
    BY <2>2
  <2> HIDE DEF at
  <2> QED BY <1>1, <2>1, <2>3, InsertTree
<1>5. CASE RemoveDeclaration
  <2>1. phase = "walk"
    BY <1>5 DEF RemoveDeclaration, Handling
  <2> QED BY <1>1, <1>5, <2>1, RemoveDeclarationIs, NullTree
<1>6. CASE InsertDestroy
  <2>1. phase = "walk"
    BY <1>6 DEF InsertDestroy, Handling
  <2> QED BY <1>1, <1>6, <2>1, InsertDestroyIs, InsertTree
<1>7. CASE LeaveBlock
  BY <1>1, <1>7, LeaveBlockIs
<1> QED
  BY <1>1, <1>2, <1>3, <1>4, <1>5, <1>6, <1>7
  DEF Next, vars, VisitNull, VisitDecl, ThrowRedeclaration, VisitUnused, VisitAlias, VisitExpr,
      EnterBranches, LeaveBranches, EnterBlock, EndOfStatements

\* Lists get no deleted statements.
LEMMA UnlistedStays ==
  ASSUME LifeInv, [Next]_vars, Unlisted(heap, freed)
  PROVE  Unlisted(heap', freed)
<1>1. freed \subseteq 1 .. Len(heap) /\ Len(heap) \in Nat
  BY TypeInvWalks DEF LifeInv, WalkInv, TypeInv
<1>2. CASE heap' = heap
  BY <1>2
<1>3. CASE Top.id \in 1 .. Len(heap) /\ TreeStep(Top.id)
  <2>1. ASSUME NEW n \in 1 .. Len(heap'), NEW x \in freed, In(heap'[n].kids, x)
        PROVE  FALSE
    <3>1. CASE n = Top.id
      <4>1. PICK k \in 1 .. Len(heap'[n].kids) : heap'[n].kids[k] = x
        BY <2>1 DEF In
      <4>2. x # Null /\ x # Len(heap) + 1
        BY <1>1 DEF Null
      <4>3. \E j \in 1 .. Len(heap[n].kids) : x = heap[n].kids[j]
        BY <1>3, <3>1, <4>1, <4>2 DEF TreeStep
      <4>4. In(heap[n].kids, x)
        BY <4>3 DEF In
      <4> QED BY <1>3, <3>1, <4>4 DEF Unlisted
    <3>2. CASE n # Top.id /\ n \in 1 .. Len(heap)
      <4>1. heap'[n].kids = heap[n].kids
        BY <1>3, <3>2 DEF TreeStep
      <4> QED BY <2>1, <3>2, <4>1 DEF Unlisted
    <3>3. CASE n # Top.id /\ n \notin 1 .. Len(heap)
      <4>1. heap'[n].kids = << >>
        BY <1>1, <1>3, <3>3 DEF TreeStep
      <4> QED BY <2>1, <4>1 DEF In
    <3> QED BY <3>1, <3>2, <3>3
  <2> QED BY <2>1 DEF Unlisted
<1> QED BY <1>2, <1>3, TreeNext

\* A statement of a list is in that one only.
LEMMA ListedHere ==
  ASSUME KidsOK(heap), Top.id \in 1 .. Len(heap), NEW d, d # Null, In(Kids, d),
         NEW n \in 1 .. Len(heap), In(heap[n].kids, d)
  PROVE  n = Top.id
<1>1. PICK j \in 1 .. Len(Kids) : Kids[j] = d
  BY DEF In
<1>2. PICK k \in 1 .. Len(heap[n].kids) : heap[n].kids[k] = d
  BY DEF In
<1>3. heap[d].parent = Top.id
  BY <1>1 DEF KidsOK, Kids
<1>4. heap[d].parent = n
  BY <1>2 DEF KidsOK
<1> QED BY <1>3, <1>4

\* Removing a declaration nulls the only place it is in.
LEMMA RemovedUnlisted ==
  ASSUME LifeInv, RemoveDeclaration, freed' # freed
  PROVE  /\ freed' = freed \cup {Remaining.declaration}
         /\ \A n \in 1 .. Len(heap') : ~In(heap'[n].kids, Remaining.declaration)
<1> DEFINE d  == Remaining.declaration
           at == IndexOf(Kids, d)
           K  == [Kids EXCEPT ![at] = Null]
<1>1. /\ TypeInv /\ BlockInv /\ KidsOK(heap) /\ Once(heap) /\ heap \in Seq(NodeType(Len(heap)))
  BY DEF LifeInv, WalkInv, TypeInv, BlockInv
<1>2. /\ Handling /\ at \in 1 .. Len(Kids) /\ Kids[at] = d /\ K \in Seq(0 .. Len(heap))
      /\ heap' = WithKids(heap, Top.id, K) /\ freed' = freed \cup {d}
  BY <1>1, RemoveDeclarationIs
<1>3. d \in 2 .. Len(heap)
  BY <1>2, RemainingHome
<1>4. /\ Kids \in Seq(0 .. Len(heap)) /\ Len(heap) \in Nat /\ Top.id \in 1 .. Len(heap)
  BY <1>1, <1>2, TopIs DEF Handling
<1>5. d # Null
  BY <1>3, <1>4 DEF Null
<1> HIDE DEF d, at
<1>6. ~In(K, d)
  <2>1. OnceSeq(Kids)
    BY <1>1, <1>4 DEF Once, Kids
  <2> QED BY <1>2, <1>4, <1>5, <2>1, NullList
<1>7. In(Kids, d)
  BY <1>2 DEF In
<1> HIDE DEF K
<1>8. Len(heap') = Len(heap) /\ \A n \in 1 .. Len(heap) : heap'[n].kids = IF n = Top.id THEN K ELSE heap[n].kids
  BY <1>1, <1>2, <1>4, HeapWithKids
<1>9. ASSUME NEW n \in 1 .. Len(heap')
      PROVE  ~In(heap'[n].kids, d)
  BY <1>1, <1>4, <1>5, <1>6, <1>7, <1>8, ListedHere
<1> QED BY <1>2, <1>9 DEF d

\* Nothing is deleted for an error.
LEMMA NothingDeleted ==
  ASSUME NoErrorIgnored, LifeInv, Skipless => PlainInv, VisitUnused \/ VisitAlias
  PROVE  freed' = freed
<1>1. TypeInv /\ options \in OptionSets
  BY DEF LifeInv, WalkInv, TypeInv
<1>2. CASE options.panic
  BY <1>2 DEF VisitUnused, VisitAlias
<1>3. CASE ~Redeclare /\ ~UnknownUnused
  <2>1. Visiting({"unused", "alias"}) /\ PlainInv
    BY <1>3 DEF Skipless, VisitUnused, VisitAlias, Visiting
  <2>2. Fresh(heap, registry, Visited)
    BY <2>1, VisitedPlain
  <2>3. CASE VisitUnused
    <3>1. heap[Visited].kind = "unused"
      BY <1>1, <2>3, VisitedIs DEF VisitUnused
    <3> QED BY <1>3, <2>2, <2>3, <3>1 DEF VisitUnused, Fresh
  <2>4. CASE VisitAlias
    <3>1. heap[Visited].kind = "alias"
      BY SMTT(40), <1>1, <2>4, VisitedIs DEF VisitAlias
    <3> QED BY <1>3, <2>2, <2>4, <3>1 DEF VisitAlias, Fresh
  <2> QED BY <2>3, <2>4
<1> QED BY <1>1, <1>2, <1>3 DEF NoErrorIgnored

\* Only RemoveDeclaration deletes.
LEMMA FreedNext ==
  ASSUME NoErrorIgnored, LifeInv, Skipless => PlainInv, [Next]_vars
  PROVE  freed' = freed \/ RemoveDeclaration
BY NothingDeleted
DEF Next, vars, Reveal, RevealNothing, VisitNull, VisitDecl, ThrowRedeclaration, VisitRedeclaration,
    VisitExpr, EnterBranches, LeaveBranches, EnterBlock, EndOfStatements, InsertDestroy, LeaveBlock

\* What is deleted leaves the tree.
LEMMA UnlistedNext ==
  ASSUME NoErrorIgnored, LifeInv, Skipless => PlainInv, Unlisted(heap, freed), [Next]_vars
  PROVE  Unlisted(heap', freed')
<1>1. Unlisted(heap', freed)
  BY UnlistedStays
<1>2. CASE freed' = freed
  BY <1>1, <1>2
<1>3. CASE RemoveDeclaration /\ freed' # freed
  BY <1>1, <1>3, RemovedUnlisted DEF Unlisted
<1> QED BY <1>2, <1>3, FreedNext

\* Statements in lists have not been deleted.
LEMMA UnlistedProperty ==
  ASSUME TypeInv, Unlisted(heap, freed)
  PROVE  NoFreedStatement
<1>1. ASSUME NEW n \in DOMAIN heap, NEW k \in DOMAIN heap[n].kids
      PROVE  heap[n].kids[k] \notin freed
  <2>1. n \in 1 .. Len(heap) /\ heap[n] \in NodeType(Len(heap))
    <3>1. heap \in Seq(NodeType(Len(heap)))
      BY DEF TypeInv
    <3> QED BY <3>1
  <2>2. k \in 1 .. Len(heap[n].kids)
    <3>1. heap[n].kids \in Seq(0 .. Len(heap))
      BY <2>1 DEF NodeType
    <3> QED BY <3>1
  <2>3. In(heap[n].kids, heap[n].kids[k])
    BY <2>2 DEF In
  <2> QED BY <2>1, <2>3 DEF Unlisted
<1> QED BY <1>1 DEF NoFreedStatement

\* The walk deletes what it takes out of the tree and nothing else, unless it
\* goes on after an error: then the erroneous statement is deleted and stays.
THEOREM NothingFreedStays == NoErrorIgnored => (Spec => []NoFreedStatement)
<1> SUFFICES ASSUME NoErrorIgnored PROVE Spec => []NoFreedStatement
  OBVIOUS
<1> DEFINE Inv == (Skipless => PlainInv) /\ Unlisted(heap, freed)
<1>1. Init => Inv
  <2> SUFFICES ASSUME Init PROVE Inv
    OBVIOUS
  <2>1. freed = {}
    BY DEF Init
  <2> QED BY <2>1, PlainInit DEF Unlisted
<1>2. LifeInv /\ Inv /\ [Next]_vars => Inv'
  <2> SUFFICES ASSUME LifeInv, Inv, [Next]_vars PROVE Inv'
    OBVIOUS
  <2>1. Skipless => PlainInv'
    BY PlainNext
  <2>2. Unlisted(heap', freed')
    BY UnlistedNext
  <2> QED BY <2>1, <2>2 DEF Skipless
<1>3. LifeInv /\ Inv => NoFreedStatement
  BY UnlistedProperty DEF LifeInv, WalkInv
<1> HIDE DEF Inv
<1> QED BY <1>1, <1>2, <1>3, LifeInvariant, PTL DEF Spec

-----------------------------------------------------------------------------
(* What names mean.                                                        *)

\* The declarations statement u can see the name of d by, in the tree h.
VisibleIn(h, u, d) ==
  {n \in 1 .. Len(h) : /\ h[n].written /\ h[n].kind = "decl" /\ n <= u /\ h[n].name = h[d].name
                       /\ BlockIn(h, n) \in EnclosingOf(h)[u]}

RefersIn(h, u, d) ==
  /\ h[u].written
  /\ h[d].name \in h[u].uses
  /\ d \in VisibleIn(h, u, d)
  /\ \A n \in VisibleIn(h, u, d) : n <= d

\* Refers, of the tree.
LEMMA RefersIsIn ==
  ASSUME TypeInv, NEW u, NEW d
  PROVE  Refers(u, d) <=> RefersIn(heap, u, d)
<1>1. DOMAIN heap = 1 .. Len(heap)
  <2>1. heap \in Seq(NodeType(Len(heap)))
    BY DEF TypeInv
  <2> QED BY <2>1
<1>2. \A n : BlockOf(n) = BlockIn(heap, n)
  BY BlockOfIsIn
<1>3. Enclosing = EnclosingOf(heap)
  BY EnclosingIsOf
<1>4. {n \in Decls : n <= u /\ heap[n].name = heap[d].name /\ BlockOf(n) \in Enclosing[u]} = VisibleIn(heap, u, d)
  BY <1>1, <1>2, <1>3 DEF Decls, Written, VisibleIn
<1> QED BY <1>4 DEF Refers, Means, RefersIn

\* What a name means does not change when the tree grows.
LEMMA RefersStays ==
  ASSUME NEW h, h \in Seq(NodeType(Len(h))), TreeOK(h), NEW g, g \in Seq(NodeType(Len(g))),
         Extends(h, g), NEW u \in 1 .. Len(h), NEW d \in 1 .. Len(g), RefersIn(g, u, d)
  PROVE  RefersIn(h, u, d) /\ d \in 1 .. Len(h)
<1>1. Len(h) \in Nat /\ Len(g) \in Nat /\ Len(h) <= Len(g) /\ \A n \in 1 .. Len(h) : SameNode(h[n], g[n])
  BY DEF Extends
<1>2. d <= u /\ d \in 1 .. Len(h)
  <2>1. d <= u
    BY DEF RefersIn, VisibleIn
  <2> QED BY <1>1, <2>1
<1>3. EnclosingOf(g)[u] = EnclosingOf(h)[u]
  <2>1. u \in 0 .. Len(h)
    BY <1>1
  <2> QED BY <2>1, EnclosingStable
<1>4. \A n \in 1 .. Len(h) : BlockIn(g, n) = BlockIn(h, n)
  BY BlockInStable
<1>5. \A n \in 1 .. Len(h) : /\ h[n].written = g[n].written /\ h[n].kind = g[n].kind
                             /\ h[n].name = g[n].name /\ h[n].uses = g[n].uses
  BY <1>1 DEF SameNode
<1>6. \A n \in 1 .. Len(h) : n \in VisibleIn(h, u, d) <=> n \in VisibleIn(g, u, d)
  <2>1. \A n \in 1 .. Len(h) : n \in 1 .. Len(g)
    BY <1>1
  <2> QED BY <1>2, <1>3, <1>4, <1>5, <2>1 DEF VisibleIn
<1>7. \A n \in VisibleIn(h, u, d) : n \in 1 .. Len(h)
  BY DEF VisibleIn
<1> QED BY <1>2, <1>5, <1>6, <1>7 DEF RefersIn

\* What encloses the statement of an activation is the statement of one below.
LEMMA StackEncloses ==
  ASSUME NEW h, h \in Seq(NodeType(Len(h))), TreeOK(h), NEW st, Walks(h, st), WellStacked(h, st),
         NEW n \in 1 .. Len(st), NEW m \in EnclosingOf(h)[st[n].id]
  PROVE  \E f \in 1 .. Len(st) : st[f].id = m
<1> DEFINE E == EnclosingOf(h)
           ok(x) == \A y \in E[st[x].id] : \E f \in 1 .. Len(st) : st[f].id = y
           bad == {x \in 1 .. Len(st) : ~ok(x)}
<1>1. Len(st) \in Nat /\ (\A x \in 1 .. Len(st) : st[x].id \in 1 .. Len(h)) /\ st # << >>
  BY DEF Walks
<1>2. \A x \in 1 .. Len(st) : E[st[x].id] = {st[x].id} \cup E[h[st[x].id].parent] /\ E[0] = {}
  BY <1>1, EnclosingStep
<1>3. st[1].id = 1 /\ h[1].parent = 0
  BY <1>1 DEF WellStacked, TreeOK, Null
<1> HIDE DEF E
<1> SUFFICES ASSUME bad # {} PROVE FALSE
  BY DEF E
<1>4. bad \subseteq Nat
  BY <1>1
<1> HIDE DEF bad
<1>5. PICK x \in bad : \A y \in bad : x <= y
  BY <1>4, LeastExists
<1>6. x \in 1 .. Len(st) /\ ~ok(x)
  BY <1>5 DEF bad
<1>7. CASE x = 1
  <2>1. E[st[x].id] = {st[x].id}
    BY <1>2, <1>3, <1>6, <1>7
  <2> QED BY <1>6, <2>1
<1>8. CASE x # 1
  <2>1. x - 1 \in 1 .. Len(st) /\ x \in 2 .. Len(st) /\ ~(x <= x - 1)
    BY <1>1, <1>6, <1>8
  <2>2. ok(x - 1)
    BY <1>5, <2>1 DEF bad
  <2>3. E[st[x].id] = {st[x].id} \cup E[st[x - 1].id]
    BY <1>2, <1>6, <2>1 DEF WellStacked
  <2> QED BY <1>6, <2>2, <2>3
<1> QED BY <1>7, <1>8

\* The block around a statement is before it.
LEMMA BlockInBefore ==
  ASSUME NEW h, h \in Seq(NodeType(Len(h))), TreeOK(h), NEW n \in 2 .. Len(h)
  PROVE  BlockIn(h, n) \in 1 .. n - 1
<1> DEFINE bad == {x \in 2 .. Len(h) : BlockIn(h, x) \notin 1 .. x - 1}
<1>1. Len(h) \in Nat /\ bad \subseteq Nat
  OBVIOUS
<1> SUFFICES ASSUME bad # {} PROVE FALSE
  OBVIOUS
<1> HIDE DEF bad
<1>2. PICK x \in bad : \A y \in bad : x <= y
  BY <1>1, LeastExists
<1>3. x \in 2 .. Len(h) /\ BlockIn(h, x) \notin 1 .. x - 1
  BY <1>2 DEF bad
<1> DEFINE p == h[x].parent
<1>4. p \in 1 .. x - 1 /\ BlockIn(h, x) = IF h[p].kind = "block" THEN p ELSE BlockIn(h, p)
  BY <1>3, BlockInStep DEF TreeOK
<1> HIDE DEF p
<1>5. h[p].kind # "block"
  BY <1>3, <1>4
<1>6. p \in 2 .. Len(h) /\ ~(x <= p) /\ \A y \in 1 .. p - 1 : y \in 1 .. x - 1
  BY <1>1, <1>3, <1>4, <1>5 DEF TreeOK
<1>7. BlockIn(h, p) \in 1 .. p - 1
  BY <1>2, <1>6 DEF bad
<1> QED BY <1>3, <1>4, <1>5, <1>6, <1>7

-----------------------------------------------------------------------------
(* Usages are recorded.                                                    *)

\* Blocks, aliases and destroys mention no names where the walk looks.
NoUses(h) == \A n \in 1 .. Len(h) : h[n].kind \in {"block", "alias", "unused"} => h[n].uses = {}

\* No program has a name where the walk does not look.
NothingHidden == \A s \in Shapes : s.hidden = {}
HiddenNone(h) == \A n \in 1 .. Len(h) : h[n].hidden = {}

\* The declarations removed have no use the walk could have recorded.
NoKnownUse == phase = "done" => \A d \in Decls \cap freed : UsesOf(d) = {}

\* A statement of branches has no more of them than its kind has.
BranchesFit(h) == \A n \in 1 .. Len(h) : h[n].kind # "block" => Len(h[n].kids) <= Arity(h[n].kind)

\* What statement u refers to knows it.
KnownAs(h, e, u) ==
  e.declaration # Null /\ h[e.declaration].kind = "decl" /\ RefersIn(h, u, e.declaration) => UsedBy(e, u)

Known(h, r, u) == \A k \in 1 .. Len(r) : KnownAs(h, r[k], u)

\* Statement u is the one the walk is about to visit.
Waiting(h, st, u) == st # << >> /\ ~Idle(h, st[Len(st)]) /\ u = Len(h)

UsesKnown(h, r, st) == \A u \in 1 .. Len(h) : Waiting(h, st, u) \/ Known(h, r, u)

\* No statement refers to d.
Unused(h, d) == h[d].kind = "decl" => \A u \in 1 .. Len(h) : ~RefersIn(h, u, d)

\* The block around d is being left, or has been.
Gone(h, st, d) == \A f \in 1 .. Len(st) : st[f].id = BlockIn(h, d) => st[f].leaving

FreedUnused(h, fd, st) == \A d \in fd : d \in 2 .. Len(h) /\ Unused(h, d) /\ Gone(h, st, d)

UsageInv ==
  /\ NoUses(heap) /\ BranchesFit(heap)
  /\ NameOnce(registry)
  /\ UsesKnown(heap, registry, stack)
  /\ FreedUnused(heap, freed, stack)

\* What is known stays so when the tree grows and a variable is used more.
LEMMA KnownAsStays ==
  ASSUME NEW h, h \in Seq(NodeType(Len(h))), TreeOK(h), NEW g, g \in Seq(NodeType(Len(g))), Extends(h, g),
         NEW u \in 1 .. Len(h), NEW x, NEW y, y.declaration \in 0 .. Len(g), SameVariable(x, y), KnownAs(h, x, u)
  PROVE  KnownAs(g, y, u)
<1> DEFINE d == y.declaration
<1>1. x.declaration = d /\ MoreUsage(x, y)
  BY DEF SameVariable, SameEntry
<1>2. \A id : UsedBy(x, id) => UsedBy(y, id)
  BY <1>1 DEF UsedBy, MoreUsage
<1>3. ASSUME d # Null, g[d].kind = "decl", RefersIn(g, u, d)
      PROVE  UsedBy(y, u)
  <2>1. d \in 1 .. Len(g)
    BY <1>3 DEF Null
  <2>2. RefersIn(h, u, d) /\ d \in 1 .. Len(h)
    BY <1>3, <2>1, RefersStays
  <2>3. h[d].kind = "decl"
    BY <1>3, <2>2 DEF Extends, SameNode
  <2> QED BY <1>1, <1>2, <1>3, <2>2, <2>3 DEF KnownAs
<1> QED BY <1>3 DEF KnownAs

\* A statement refers to nothing that comes after it.
LEMMA KnownLater ==
  ASSUME NEW h, NEW u \in Nat, NEW e, e.declaration \in Nat, ~(e.declaration <= u)
  PROVE  KnownAs(h, e, u)
BY DEF KnownAs, RefersIn, VisibleIn

\* Nor does one without names, or one the source does not have.
LEMMA KnownNothing ==
  ASSUME NEW h, NEW u, ~h[u].written \/ h[u].uses = {}
  PROVE  /\ \A r : Known(h, r, u)
         /\ \A d : ~RefersIn(h, u, d)
BY DEF Known, KnownAs, RefersIn

\* The only entry of a name is its first.
LEMMA OnlyFirst ==
  ASSUME NEW S, NEW r \in Seq(S), NameOnce(r), NEW k \in 1 .. Len(r), r[k].declaration # Null
  PROVE  Registered(r, r[k].name) # {} /\ k = First(r, r[k].name)
<1> DEFINE R == Registered(r, r[k].name)
<1>1. R = {k}
  BY DEF Registered, NameOnce
<1>2. \A j \in R : (\A i \in R : j <= i) => j = k
  BY <1>1
<1>3. k \in R /\ \A i \in R : k <= i
  BY <1>1
<1> HIDE DEF R
<1>4. (CHOOSE j \in R : \A i \in R : j <= i) = k
  BY <1>2, <1>3
<1> QED BY <1>3, <1>4 DEF First, R

\* UsedVariables records what a statement refers to.
LEMMA KnownUsed ==
  ASSUME NEW h, NEW m \in Nat, NEW r \in Seq(EntryType(m)), NameOnce(r), EntriesOK(h, r), NEW u \in 1 .. m
  PROVE  Known(h, UsedVariables(r, h[u].uses, u), u)
<1> DEFINE q == UsedVariables(r, h[u].uses, u)
<1>1. /\ Len(q) = Len(r) /\ \A k \in 1 .. Len(r) : SameEntry(r[k], q[k])
      /\ \A k \in 1 .. Len(r) :
           (\E x \in h[u].uses : Registered(r, x) # {} /\ k = First(r, x)) => UsedBy(q[k], u)
  BY UsedVariablesIs, DerivedUsed
<1> HIDE DEF q
<1>2. ASSUME NEW k \in 1 .. Len(q), q[k].declaration # Null, RefersIn(h, u, q[k].declaration)
      PROVE  UsedBy(q[k], u)
  <2>1. k \in 1 .. Len(r) /\ r[k].declaration = q[k].declaration
    BY <1>1 DEF SameEntry
  <2>2. r[k].name = h[r[k].declaration].name
    BY <1>2, <2>1 DEF EntriesOK, Declares
  <2>3. r[k].name \in h[u].uses
    BY <1>2, <2>1, <2>2 DEF RefersIn
  <2>4. Registered(r, r[k].name) # {} /\ k = First(r, r[k].name)
    BY <1>2, <2>1, OnlyFirst
  <2> QED BY <1>1, <2>1, <2>3, <2>4
<1> QED BY <1>2 DEF Known, KnownAs, q

\* Every entry of q is one of r, maybe used more.
Older(r, q, k) == \E p \in 1 .. Len(r) : SameVariable(r[p], q[k])

\* What was known stays known.
LEMMA KnownStays ==
  ASSUME LifeInv, heap' \in Seq(NodeType(Len(heap'))), Extends(heap, heap'), Len(heap') \in Nat,
         registry' \in Seq(EntryType(Len(heap'))), NEW u \in 1 .. Len(heap), Known(heap, registry, u),
         \A k \in 1 .. Len(registry') :
            registry'[k].declaration \in 1 .. u => Older(registry, registry', k)
  PROVE  Known(heap', registry', u)
<1>1. heap \in Seq(NodeType(Len(heap))) /\ TreeOK(heap) /\ Len(heap) \in Nat
  BY DEF LifeInv, WalkInv, TypeInv, BlockInv
<1>2. ASSUME NEW k \in 1 .. Len(registry')
      PROVE  KnownAs(heap', registry'[k], u)
  <2>1. registry'[k].declaration \in 0 .. Len(heap')
    <3>1. registry'[k] \in EntryType(Len(heap'))
      OBVIOUS
    <3> QED BY <3>1 DEF EntryType
  <2>2. CASE registry'[k].declaration \in 1 .. u
    <3>1. PICK p \in 1 .. Len(registry) : SameVariable(registry[p], registry'[k])
      BY <2>2 DEF Older
    <3>2. KnownAs(heap, registry[p], u)
      BY DEF Known
    <3> DEFINE x == registry[p]
               y == registry'[k]
    <3>3. y.declaration \in 0 .. Len(heap') /\ SameVariable(x, y) /\ KnownAs(heap, x, u)
      BY <2>1, <3>1, <3>2
    <3> HIDE DEF x, y
    <3>4. KnownAs(heap', y, u)
      BY <1>1, <3>3, KnownAsStays
    <3> QED BY <3>4 DEF y
  <2>3. CASE registry'[k].declaration \notin 1 .. u
    <3>1. registry'[k].declaration = Null \/ ~(registry'[k].declaration <= u)
      BY <1>1, <2>1, <2>3 DEF Null
    <3>2. u \in Nat /\ registry'[k].declaration \in Nat
      BY <1>1, <2>1
    <3> QED BY <3>1, <3>2, KnownLater DEF KnownAs
  <2> QED BY <2>2, <2>3
<1> QED BY <1>2 DEF Known

\* A step that visits nothing.
LEMMA UsesStay ==
  ASSUME LifeInv, UsesKnown(heap, registry, stack),
         heap' \in Seq(NodeType(Len(heap'))), Extends(heap, heap'), Len(heap') \in Nat,
         registry' \in Seq(EntryType(Len(heap'))),
         \A k \in 1 .. Len(registry') :
            registry'[k].declaration # Null => Older(registry, registry', k),
         \A u \in 1 .. Len(heap') : \/ Waiting(heap', stack', u)
                                    \/ u \in 1 .. Len(heap) /\ ~Waiting(heap, stack, u)
                                    \/ ~heap'[u].written
  PROVE  UsesKnown(heap', registry', stack')
<1>1. ASSUME NEW u \in 1 .. Len(heap'), ~Waiting(heap', stack', u)
      PROVE  Known(heap', registry', u)
  <2>1. CASE ~heap'[u].written
    BY <2>1, KnownNothing
  <2>2. CASE u \in 1 .. Len(heap) /\ ~Waiting(heap, stack, u)
    <3>1. Known(heap, registry, u)
      BY <2>2 DEF UsesKnown
    <3>2. \A k \in 1 .. Len(registry') :
            registry'[k].declaration \in 1 .. u => Older(registry, registry', k)
      BY DEF Null
    <3> QED BY <2>2, <3>1, <3>2, KnownStays
  <2> QED BY <1>1, <2>1, <2>2
<1> QED BY <1>1 DEF UsesKnown

\* A visit, after which the statement visited is known too.
LEMMA UsesVisit ==
  ASSUME LifeInv, PlainInv, UsesKnown(heap, registry, stack), NEW kinds, Visiting(kinds),
         heap' \in Seq(NodeType(Len(heap'))), Extends(heap, heap'), Len(heap') \in Nat,
         registry' \in Seq(EntryType(Len(heap))), Known(heap, registry', Visited),
         \A k \in 1 .. Len(registry') :
            registry'[k].declaration # Visited => Older(registry, registry', k),
         \A u \in 1 .. Len(heap') : u \notin 1 .. Len(heap) => ~heap'[u].written
  PROVE  UsesKnown(heap', registry', stack')
<1>1. /\ heap \in Seq(NodeType(Len(heap))) /\ TreeOK(heap) /\ Len(heap) \in Nat /\ Len(heap) <= Len(heap')
      /\ TypeInv
  BY DEF LifeInv, WalkInv, TypeInv, BlockInv, Extends
<1>2. Visited = Len(heap) /\ Visited \in 1 .. Len(heap)
  BY <1>1, VisitedPlain, VisitedIs DEF Fresh
<1>3. registry' \in Seq(EntryType(Len(heap')))
  BY <1>1, TypesGrow
<1>4. ASSUME NEW u \in 1 .. Len(heap')
      PROVE  Known(heap', registry', u)
  <2>1. CASE u \notin 1 .. Len(heap)
    BY <2>1, KnownNothing
  <2>2. CASE u = Visited
    <3>1. ASSUME NEW k \in 1 .. Len(registry')
          PROVE  KnownAs(heap', registry'[k], u)
      <4> DEFINE y == registry'[k]
      <4>1. KnownAs(heap, y, u)
        BY <2>2 DEF Known
      <4>2. y.declaration \in 0 .. Len(heap')
        <5>1. registry'[k] \in EntryType(Len(heap'))
          BY <1>3
        <5> QED BY <5>1 DEF EntryType
      <4>3. SameVariable(y, y)
        BY SameVariableIs
      <4> HIDE DEF y
      <4>4. u \in 1 .. Len(heap)
        BY <1>2, <2>2
      <4>5. KnownAs(heap', y, u)
        BY <1>1, <4>1, <4>2, <4>3, <4>4, KnownAsStays
      <4> QED BY <4>5 DEF y
    <3> QED BY <3>1 DEF Known
  <2>3. CASE u \in 1 .. Len(heap) /\ u # Visited
    <3>1. Known(heap, registry, u)
      BY <1>2, <2>3 DEF UsesKnown, Waiting
    <3>2. \A k \in 1 .. Len(registry') :
            registry'[k].declaration \in 1 .. u => Older(registry, registry', k)
      BY <1>1, <1>2, <2>3
    <3> QED BY <1>3, <2>3, <3>1, <3>2, KnownStays
  <2> QED BY <2>1, <2>2, <2>3
<1> QED BY <1>4 DEF UsesKnown

\* A derived registry is older.
LEMMA DerivedOlder ==
  ASSUME NEW r, NEW q, Derived(r, q)
  PROVE  \A k \in 1 .. Len(q) : Older(r, q, k)
BY DerivedIs DEF Older

\* So is one with an entry for the statement visited, otherwise.
LEMMA AddedOlder ==
  ASSUME NEW m \in Nat, NEW r, NEW q, NEW e \in EntryType(m), NEW new, Added(m, r, q, e, new)
  PROVE  \A k \in 1 .. Len(q) : q[k].declaration # e.declaration => Older(r, q, k)
BY AddedIs DEF Older, SameVariable, SameEntry

\* An inserted statement.
LEMMA InsertedIs ==
  ASSUME heap \in Seq(NodeType(Len(heap))), NEW id \in 1 .. Len(heap), NEW K \in Seq(0 .. Len(heap) + 1),
         NEW node \in NodeType(Len(heap) + 1), heap' = Grown(heap, id, K, node),
         NEW x, node = Node(Shape("unused", x), id, FALSE)
  PROVE  /\ Len(heap') = Len(heap) + 1
         /\ heap'[Len(heap) + 1].uses = {} /\ ~heap'[Len(heap) + 1].written
         /\ heap'[Len(heap) + 1].hidden = {}
<1>1. Len(heap') = Len(heap) + 1 /\ heap'[Len(heap) + 1] = node
  BY HeapGrown
<1>2. node.uses = {} /\ ~node.written /\ node.hidden = {}
  BY DEF Node, Shape
<1> QED BY <1>1, <1>2

\* A new statement is revealed where the walk goes on, or inserted.
LEMMA NewStatement ==
  ASSUME LifeInv, PlainInv, [Next]_vars, Len(heap') # Len(heap)
  PROVE  /\ Len(heap') = Len(heap) + 1
         /\ heap'[Len(heap) + 1].kind \in {"block", "alias", "unused"} => heap'[Len(heap) + 1].uses = {}
         /\ NothingHidden => heap'[Len(heap) + 1].hidden = {}
         /\ heap'[Len(heap) + 1].written => ~Top.leaving /\ \E s \in Shapes : Reveal(s)
<1> DEFINE Goal ==
         /\ Len(heap') = Len(heap) + 1
         /\ heap'[Len(heap) + 1].kind \in {"block", "alias", "unused"} => heap'[Len(heap) + 1].uses = {}
         /\ NothingHidden => heap'[Len(heap) + 1].hidden = {}
         /\ heap'[Len(heap) + 1].written => ~Top.leaving /\ \E s \in Shapes : Reveal(s)
<1> SUFFICES Goal
  OBVIOUS
<1>1. /\ TypeInv /\ heap \in Seq(NodeType(Len(heap))) /\ Len(heap) \in Nat /\ BlockInv
      /\ phase = "walk" => Top.id \in 1 .. Len(heap) /\ (Top.leaving => Here = "block")
  BY TypeInvWalks, TopIs DEF LifeInv, WalkInv, TypeInv, FrameFits, Here
<1>2. ASSUME NEW s \in Shapes, Reveal(s)
      PROVE  Goal
  <2> DEFINE K    == Append(Kids, Len(heap) + 1)
             node == Node(s, Top.id, TRUE)
  <2>1. /\ phase = "walk" /\ K \in Seq(0 .. Len(heap) + 1) /\ node \in NodeType(Len(heap) + 1)
        /\ heap' = Grown(heap, Top.id, K, node)
    BY <1>1, <1>2, RevealIs
  <2>2. node.kind = s.kind /\ node.uses = s.uses /\ node.hidden = s.hidden
    BY DEF Node
  <2>3. /\ s.kind \in {"block", "alias", "unused"} => s.uses = {}
        /\ NothingHidden => s.hidden = {}
    BY ShapesAssumption DEF ShapeOK, NothingHidden
  <2>4. ~Top.leaving
    BY <1>1, <1>2, <2>1 DEF Reveal
  <2> HIDE DEF K, node
  <2>5. Len(heap') = Len(heap) + 1 /\ heap'[Len(heap) + 1] = node
    BY <1>1, <2>1, HeapGrown
  <2> QED BY <1>2, <2>2, <2>3, <2>4, <2>5
<1>3. ASSUME NEW K \in Seq(0 .. Len(heap) + 1), NEW x, phase = "walk",
             Node(Shape("unused", x), Top.id, FALSE) \in NodeType(Len(heap) + 1),
             heap' = Grown(heap, Top.id, K, Node(Shape("unused", x), Top.id, FALSE))
      PROVE  Goal
  <2> DEFINE node == Node(Shape("unused", x), Top.id, FALSE)
  <2>1. heap \in Seq(NodeType(Len(heap))) /\ Top.id \in 1 .. Len(heap) /\ node \in NodeType(Len(heap) + 1)
        /\ heap' = Grown(heap, Top.id, K, node) /\ node = Node(Shape("unused", x), Top.id, FALSE)
    BY <1>1, <1>3
  <2> HIDE DEF node
  <2>2. /\ Len(heap') = Len(heap) + 1 /\ heap'[Len(heap) + 1].uses = {} /\ ~heap'[Len(heap) + 1].written
        /\ heap'[Len(heap) + 1].hidden = {}
    BY <2>1, InsertedIs
  <2> QED BY <2>2
<1>4. ASSUME NEW K \in Seq(0 .. Len(heap)), phase = "walk", heap' = WithKids(heap, Top.id, K)
      PROVE  FALSE
  BY <1>1, <1>4, HeapWithKids
<1>5. heap' # heap
  OBVIOUS
<1> HIDE DEF Goal
<1>6. CASE RevealNothing
  BY <1>1, <1>4, <1>5, <1>6, RevealNothingIs
<1>7. CASE VisitRedeclaration
  <2>1. phase = "walk"
    BY <1>7 DEF VisitRedeclaration, Redeclaring, Visiting
  <2> QED BY <1>1, <1>3, <1>5, <1>7, <2>1, VisitRedeclarationIs
<1>8. CASE RemoveDeclaration
  <2>1. phase = "walk"
    BY <1>8 DEF RemoveDeclaration, Handling
  <2> QED BY <1>1, <1>4, <1>5, <1>8, <2>1, RemoveDeclarationIs
<1>9. CASE InsertDestroy
  <2>1. phase = "walk"
    BY <1>9 DEF InsertDestroy, Handling
  <2> QED BY <1>1, <1>3, <1>9, <2>1, InsertDestroyIs
<1>10. CASE LeaveBlock
  BY <1>1, <1>4, <1>10, LeaveBlockIs
<1> QED
  BY <1>2, <1>5, <1>6, <1>7, <1>8, <1>9, <1>10
  DEF Next, vars, VisitNull, VisitDecl, ThrowRedeclaration, VisitUnused, VisitAlias, VisitExpr,
      EnterBranches, LeaveBranches, EnterBlock, EndOfStatements

\* Blocks, aliases and destroys stay without names.
LEMMA NoUsesNext ==
  ASSUME LifeInv, PlainInv, NoUses(heap), [Next]_vars
  PROVE  NoUses(heap')
<1>1. Extends(heap, heap') /\ Len(heap) \in Nat /\ Len(heap') \in Nat
  <2>1. heap \in Seq(NodeType(Len(heap)))
    BY DEF LifeInv, WalkInv, TypeInv
  <2> QED BY <2>1, TreeNext, HeapSame DEF TreeStep
<1>2. ASSUME NEW n \in 1 .. Len(heap'), heap'[n].kind \in {"block", "alias", "unused"}
      PROVE  heap'[n].uses = {}
  <2>1. CASE n \in 1 .. Len(heap)
    BY <1>1, <1>2, <2>1 DEF NoUses, Extends, SameNode
  <2>2. CASE n \notin 1 .. Len(heap)
    <3>1. Len(heap') # Len(heap)
      BY <2>2
    <3>2. n = Len(heap) + 1
      BY <1>1, <2>2, <3>1, NewStatement
    <3> QED BY <1>2, <3>1, <3>2, NewStatement
  <2> QED BY <2>1, <2>2
<1> QED BY <1>2 DEF NoUses

\* Nothing hidden comes into the tree.
LEMMA HiddenNext ==
  ASSUME NothingHidden, LifeInv, PlainInv, HiddenNone(heap), [Next]_vars
  PROVE  HiddenNone(heap')
<1>1. Extends(heap, heap') /\ Len(heap) \in Nat /\ Len(heap') \in Nat
  <2>1. heap \in Seq(NodeType(Len(heap)))
    BY DEF LifeInv, WalkInv, TypeInv
  <2> QED BY <2>1, TreeNext, HeapSame DEF TreeStep
<1>2. ASSUME NEW n \in 1 .. Len(heap')
      PROVE  heap'[n].hidden = {}
  <2>1. CASE n \in 1 .. Len(heap)
    BY <1>1, <1>2, <2>1 DEF HiddenNone, Extends, SameNode
  <2>2. CASE n \notin 1 .. Len(heap)
    <3>1. Len(heap') # Len(heap)
      BY <2>2
    <3>2. n = Len(heap) + 1
      BY <1>1, <2>2, <3>1, NewStatement
    <3> QED BY <3>1, <3>2, NewStatement
  <2> QED BY <2>1, <2>2
<1> QED BY <1>2 DEF HiddenNone

\* Lists of branches only grow while a branch is missing.
LEMMA BranchesFitNext ==
  ASSUME LifeInv, BranchesFit(heap), [Next]_vars
  PROVE  BranchesFit(heap')
<1>1. /\ TypeInv /\ heap \in Seq(NodeType(Len(heap))) /\ Len(heap) \in Nat
      /\ phase = "walk" => Top.id \in 1 .. Len(heap) /\ Len(Kids) \in Nat /\ Kids \in Seq(0 .. Len(heap))
                           /\ Top.i \in Nat /\ (Top.leaving => Here = "block")
  BY TypeInvWalks, TopIs DEF LifeInv, WalkInv, TypeInv, FrameFits, Here
<1>2. \A kind : Arity(kind) \in Nat
  BY DEF Arity
<1>3. ASSUME phase = "walk", Here # "block", heap' # heap
      PROVE  Len(heap'[Top.id].kids) <= Arity(Here)
  <2>1. ASSUME NEW x, Len(Kids) = Top.i, Top.i < Arity(Here), heap'[Top.id].kids = Append(Kids, x)
        PROVE  Len(heap'[Top.id].kids) <= Arity(Here)
    <3>1. Len(Append(Kids, x)) = Top.i + 1
      BY <1>1, <1>3, <2>1
    <3> QED BY <1>1, <1>2, <1>3, <2>1, <3>1
  <2>2. CASE \E s \in Shapes : Reveal(s)
    <3>1. PICK s \in Shapes : Reveal(s)
      BY <2>2
    <3>2. Len(Kids) = Top.i /\ Top.i < Arity(Here)
      BY <1>3, <3>1 DEF Reveal
    <3> DEFINE K    == Append(Kids, Len(heap) + 1)
               node == Node(s, Top.id, TRUE)
    <3>3. K \in Seq(0 .. Len(heap) + 1) /\ node \in NodeType(Len(heap) + 1) /\ heap' = Grown(heap, Top.id, K, node)
      BY <1>1, <3>1, RevealIs
    <3> HIDE DEF K, node
    <3>4. heap'[Top.id].kids = K
      BY <1>1, <1>3, <3>3, HeapGrown
    <3> QED BY <2>1, <3>2, <3>4 DEF K
  <2>3. CASE RevealNothing
    <3> DEFINE K == Append(Kids, Null)
    <3>1. Len(Kids) = Top.i /\ Top.i < Arity(Here)
      BY <1>3, <2>3 DEF RevealNothing
    <3>2. K \in Seq(0 .. Len(heap)) /\ heap' = WithKids(heap, Top.id, K)
      BY <1>1, <1>3, <2>3, RevealNothingIs
    <3> HIDE DEF K
    <3>3. heap'[Top.id].kids = K
      BY <1>1, <1>3, <3>2, HeapWithKids
    <3> QED BY <2>1, <3>1, <3>3 DEF K
  <2>4. Top.leaving => FALSE
    BY <1>1, <1>3
  <2> QED
    BY <1>3, <2>2, <2>3, <2>4
    DEF Next, vars, VisitNull, VisitDecl, ThrowRedeclaration, VisitRedeclaration, VisitUnused, VisitAlias,
        VisitExpr, EnterBranches, LeaveBranches, EnterBlock, EndOfStatements, RemoveDeclaration,
        InsertDestroy, LeaveBlock, Handling
<1>4. CASE heap' = heap
  BY <1>4
<1>5. CASE heap' # heap
  <2>1. phase = "walk" /\ Top.id \in 1 .. Len(heap) /\ TreeStep(Top.id)
    BY <1>5, TreeNext
  <2>2. ASSUME NEW n \in 1 .. Len(heap'), heap'[n].kind # "block"
        PROVE  Len(heap'[n].kids) <= Arity(heap'[n].kind)
    <3>1. CASE n \notin 1 .. Len(heap)
      <4>1. heap'[n].kids = << >>
        BY <1>1, <2>1, <3>1 DEF TreeStep
      <4> QED BY <1>2, <4>1
    <3>2. CASE n \in 1 .. Len(heap) /\ n # Top.id
      <4>1. heap'[n].kids = heap[n].kids /\ heap'[n].kind = heap[n].kind
        BY <2>1, <3>2 DEF TreeStep, Extends, SameNode
      <4> QED BY <2>2, <3>2, <4>1 DEF BranchesFit
    <3>3. CASE n = Top.id
      <4>1. heap'[n].kind = Here
        BY <2>1, <3>3 DEF TreeStep, Extends, SameNode, Here
      <4> QED BY <1>3, <1>5, <2>1, <2>2, <3>3, <4>1
    <3> QED BY <3>1, <3>2, <3>3
  <2> QED BY <2>2 DEF BranchesFit
<1> QED BY <1>4, <1>5

\* Activation fr was there before the step, and is being left if it was; or
\* its statement, which is the last one and has no parts yet, is just entered.
OldFrame(fr) ==
  \/ \E g \in 1 .. Len(stack) : fr.id = stack[g].id /\ (stack[g].leaving => fr.leaving)
  \/ fr.id = Len(heap) /\ heap'[Len(heap)].kids = << >>

\* Activations of an altered top.
LEMMA FramesSet ==
  ASSUME TypeInv, phase = "walk", NEW fr, fr.id = Top.id, Top.leaving => fr.leaving
  PROVE  /\ Len(SetTop(fr)) = Len(stack)
         /\ \A f \in 1 .. Len(stack) : OldFrame(SetTop(fr)[f])
<1>1. stack \in Seq(FrameOf(registry)) /\ stack # << >> /\ Len(stack) \in 1 .. Len(stack) /\ Top = stack[Len(stack)]
  BY TopIs, TypeInvWalks DEF Top
<1>2. /\ Len(SetTop(fr)) = Len(stack)
      /\ \A f \in 1 .. Len(stack) : SetTop(fr)[f] = IF f = Len(stack) THEN fr ELSE stack[f]
  BY <1>1, WithTopIs DEF SetTop
<1>3. ASSUME NEW f \in 1 .. Len(stack)
      PROVE  OldFrame(SetTop(fr)[f])
  <2>1. SetTop(fr)[f].id = stack[f].id /\ (stack[f].leaving => SetTop(fr)[f].leaving)
    BY <1>1, <1>2
  <2> QED BY <2>1 DEF OldFrame
<1> QED BY <1>2, <1>3

\* Every step keeps activations, alters the top, enters the last statement or
\* returns.
LEMMA FramesNext ==
  ASSUME LifeInv, PlainInv, [Next]_vars
  PROVE  \A f \in 1 .. Len(stack') : OldFrame(stack'[f])
<1> DEFINE Goal == \A f \in 1 .. Len(stack') : OldFrame(stack'[f])
<1> SUFFICES Goal
  OBVIOUS
<1>1. TypeInv /\ phase = "walk" => Top \in FrameOf(registry) /\ stack # << >>
  BY TopIs
<1>2. TypeInv
  BY DEF LifeInv, WalkInv
<1>3. CASE stack' = stack
  BY <1>3 DEF OldFrame
<1>4. ASSUME phase = "walk", NEW fr, fr.id = Top.id, Top.leaving => fr.leaving, stack' = SetTop(fr)
      PROVE  Goal
  BY <1>2, <1>4, FramesSet
<1>5. phase = "walk" /\ ~Top.leaving => \E fr : fr.id = Top.id /\ ~Top.leaving /\ Step(stack) = SetTop(fr)
  BY <1>2, StepIs DEF SameWalk
<1>6. ASSUME phase = "walk", ~Top.leaving, stack' = Step(stack)
      PROVE  Goal
  BY <1>4, <1>5, <1>6
<1>7. ASSUME NEW kinds, Visiting(kinds), NEW sc, stack' = Append(Step(stack), Frame(Visited, sc)), heap' = heap
      PROVE  Goal
  <2>1. phase = "walk" /\ ~Top.leaving
    BY <1>7 DEF Visiting
  <2>2. PICK fr : fr.id = Top.id /\ Step(stack) = SetTop(fr)
    BY <1>5, <2>1
  <2>3. Len(SetTop(fr)) = Len(stack) /\ \A f \in 1 .. Len(stack) : OldFrame(SetTop(fr)[f])
    BY <1>2, <2>1, <2>2, FramesSet
  <2>4. Frame(Visited, sc).id = Len(heap) /\ heap'[Len(heap)].kids = << >>
    BY <1>7, VisitedPlain, VisitedUnmet DEF Fresh, Frame
  <2>5. \A f \in 1 .. Len(stack') : (stack'[f] = SetTop(fr)[f] /\ f \in 1 .. Len(stack)) \/ stack'[f] = Frame(Visited, sc)
    <3>1. Step(stack) \in Seq(FrameOf(registry))
      <4>1. stack \in Seq(FrameOf(registry)) /\ stack # << >>
        BY <1>2, <2>1, TopIs, TypeInvWalks
      <4>2. [Top EXCEPT !.i = @ + 1] \in FrameOf(registry) /\ Step(stack) = SetTop([Top EXCEPT !.i = @ + 1])
        BY <1>2, <2>1, StepIs
      <4> QED BY <4>1, <4>2 DEF SetTop, WithTop
    <3>2. Len(stack') = Len(Step(stack)) + 1 /\ Len(Step(stack)) \in Nat
          /\ \A f \in 1 .. Len(stack') : stack'[f] = IF f = Len(Step(stack)) + 1 THEN Frame(Visited, sc) ELSE Step(stack)[f]
      BY <1>7, <3>1
    <3> QED BY <2>2, <2>3, <3>2
  <2> QED BY <2>3, <2>4, <2>5 DEF OldFrame
<1>8. ASSUME phase = "walk", stack' = Under
      PROVE  Goal
  <2>1. stack \in Seq(FrameOf(registry)) /\ Len(stack) >= 1 /\ stack # << >>
    BY <1>2, <1>8, TopIs, TypeInvWalks
  <2>2. Len(stack') = Len(stack) - 1 /\ \A f \in 1 .. Len(stack') : stack'[f] = stack[f]
    BY <1>8, <2>1, DropTopIs DEF Under, DropTop
  <2>3. \A f \in 1 .. Len(stack') : f \in 1 .. Len(stack)
    BY <2>1, <2>2
  <2> QED BY <2>2, <2>3 DEF OldFrame
<1> HIDE DEF Goal
<1>9. CASE RevealNothing
  <2>1. [Top EXCEPT !.closed = TRUE].id = Top.id /\ [Top EXCEPT !.closed = TRUE].leaving = Top.leaving
        /\ phase = "walk"
    BY <1>1, <1>2, <1>9 DEF FrameOf, RevealNothing
  <2> QED BY <1>2, <1>3, <1>4, <1>9, <2>1, RevealNothingIs
<1>10. CASE VisitRedeclaration
  <2>1. phase = "walk" /\ ~Top.leaving
    BY <1>10 DEF VisitRedeclaration, Redeclaring, Visiting
  <2>2. stack' = Step(stack) \/ \E fr \in FrameOf(registry) : SameWalk(Top, fr) /\ stack' = SetTop(fr)
    BY <1>2, <1>10, VisitRedeclarationIs
  <2> QED BY <1>4, <1>6, <2>1, <2>2 DEF SameWalk
<1>11. CASE EndOfStatements
  <2> DEFINE fr == [Top EXCEPT !.leaving = TRUE, !.pending = GetVariablesInScope(registry, Top.scope)]
  <2>1. phase = "walk" /\ stack' = SetTop(fr)
    BY <1>2, <1>11, EndOfStatementsIs
  <2>2. fr.leaving /\ fr.id = Top.id
    BY <1>1, <1>2, <2>1 DEF FrameOf
  <2> HIDE DEF fr
  <2> QED BY <1>4, <2>1, <2>2
<1>12. CASE RemoveDeclaration \/ InsertDestroy
  <2> DEFINE fr == [Top EXCEPT !.pending = Tail(@)]
  <2>1. phase = "walk" /\ (stack' = stack \/ stack' = SetTop(fr))
    BY <1>2, <1>12, RemoveDeclarationIs, InsertDestroyIs DEF RemoveDeclaration, InsertDestroy, Handling
  <2>2. fr.leaving = Top.leaving /\ fr.id = Top.id
    BY <1>1, <1>2, <2>1 DEF FrameOf
  <2> HIDE DEF fr
  <2> QED BY <1>3, <1>4, <2>1, <2>2
<1>13. CASE LeaveBlock \/ LeaveBranches
  BY <1>8, <1>13 DEF LeaveBlock, LeaveBranches
<1>14. CASE EnterBranches \/ EnterBlock
  BY <1>7, <1>14 DEF EnterBranches, EnterBlock
<1> QED
  BY <1>3, <1>6, <1>9, <1>10, <1>11, <1>12, <1>13, <1>14
  DEF Next, vars, Reveal, VisitNull, VisitDecl, ThrowRedeclaration, VisitUnused, VisitAlias, VisitExpr, Visiting

\* The block around a deleted declaration is left.
LEMMA GoneStays ==
  ASSUME LifeInv, PlainInv, [Next]_vars, NEW d \in 2 .. Len(heap), Gone(heap, stack, d)
  PROVE  Gone(heap', stack', d) /\ d \in 2 .. Len(heap')
<1>1. /\ heap \in Seq(NodeType(Len(heap))) /\ TreeOK(heap) /\ Len(heap) \in Nat
  BY DEF LifeInv, WalkInv, TypeInv, BlockInv
<1>2. /\ heap' \in Seq(NodeType(Len(heap'))) /\ Extends(heap, heap') /\ Len(heap) <= Len(heap') /\ Len(heap') \in Nat
  BY <1>1, TreeNext, HeapSame DEF TreeStep, Extends
<1>3. BlockIn(heap', d) = BlockIn(heap, d) /\ BlockIn(heap, d) \in 1 .. d - 1
  <2>1. d \in 1 .. Len(heap)
    BY <1>1
  <2> QED BY <1>1, <1>2, <2>1, BlockInStable, BlockInBefore
<1>4. ASSUME NEW f \in 1 .. Len(stack'), stack'[f].id = BlockIn(heap', d)
      PROVE  stack'[f].leaving
  <2>1. stack'[f].id # Len(heap)
    BY <1>1, <1>3, <1>4
  <2>2. PICK g \in 1 .. Len(stack) : stack'[f].id = stack[g].id /\ (stack[g].leaving => stack'[f].leaving)
    BY <2>1, FramesNext DEF OldFrame
  <2> QED BY <1>3, <1>4, <2>2 DEF Gone
<1> QED BY <1>1, <1>2, <1>4 DEF Gone

\* The tree after a step.
LEMMA HeapNext ==
  ASSUME LifeInv, [Next]_vars
  PROVE  /\ heap \in Seq(NodeType(Len(heap))) /\ TreeOK(heap) /\ Len(heap) \in Nat
         /\ heap' \in Seq(NodeType(Len(heap'))) /\ Extends(heap, heap') /\ Len(heap') \in Nat
         /\ registry \in Seq(EntryType(Len(heap))) /\ TypeInv /\ EntriesOK(heap, registry)
         /\ currentScope \in Nat
<1>1. heap \in Seq(NodeType(Len(heap))) /\ TreeOK(heap) /\ Len(heap) \in Nat
  BY DEF LifeInv, WalkInv, TypeInv, BlockInv
<1>2. heap' \in Seq(NodeType(Len(heap'))) /\ Extends(heap, heap') /\ Len(heap') \in Nat
  BY <1>1, TreeNext, HeapSame DEF TreeStep
<1> QED BY <1>1, <1>2 DEF LifeInv, WalkInv, TypeInv

\* Once the block of a declaration is being left nothing new refers to it:
\* what is revealed is not in that block.
LEMMA GoneRefers ==
  ASSUME LifeInv, PlainInv, [Next]_vars, NEW d \in 2 .. Len(heap), Gone(heap, stack, d),
         NEW u \in 1 .. Len(heap'), RefersIn(heap', u, d)
  PROVE  u \in 1 .. Len(heap) /\ RefersIn(heap, u, d)
<1>1. /\ heap \in Seq(NodeType(Len(heap))) /\ TreeOK(heap) /\ Len(heap) \in Nat
      /\ Walks(heap, stack) /\ WellStacked(heap, stack) /\ StackFits(heap, registry, stack) /\ TypeInv
  BY TypeInvWalks DEF LifeInv, WalkInv, TypeInv, BlockInv
<1>2. /\ heap' \in Seq(NodeType(Len(heap'))) /\ Extends(heap, heap') /\ Len(heap') \in Nat /\ TreeOK(heap')
  <2>1. TreeOK(heap')
    BY NextInv DEF LifeInv, WalkInv, BlockInv
  <2> QED BY <1>1, <2>1, TreeNext, HeapSame DEF TreeStep
<1>3. d \in 1 .. Len(heap) /\ d \in 1 .. Len(heap') /\ heap'[d].kind = heap[d].kind
  BY <1>1, <1>2 DEF Extends, SameNode
<1>4. CASE u \in 1 .. Len(heap)
  BY <1>1, <1>2, <1>3, <1>4, RefersStays
<1>5. CASE u \notin 1 .. Len(heap)
  <2>1. Len(heap') # Len(heap) /\ heap'[u].written
    BY <1>5 DEF RefersIn
  <2>2. u = Len(heap) + 1 /\ ~Top.leaving /\ \E s \in Shapes : Reveal(s)
    BY <1>1, <1>5, <2>1, NewStatement
  <2>3. phase = "walk" /\ heap' # heap
    BY <2>1, <2>2 DEF Reveal
  <2>4. heap'[u].parent = Top.id /\ Top.id \in 1 .. Len(heap)
    BY <2>1, <2>2, <2>3, TreeNext DEF TreeStep
  <2>5. BlockIn(heap', d) = BlockIn(heap, d) /\ BlockIn(heap, d) \in 1 .. d - 1
    BY <1>1, <1>2, <1>3, BlockInStable, BlockInBefore
  <2>6. BlockIn(heap', d) \in EnclosingOf(heap')[u]
    BY DEF RefersIn, VisibleIn
  <2>7. EnclosingOf(heap')[u] = {u} \cup EnclosingOf(heap')[Top.id]
    BY <1>2, <2>4, EnclosingStep
  <2>8. EnclosingOf(heap')[Top.id] = EnclosingOf(heap)[Top.id]
    <3>1. Top.id \in 0 .. Len(heap)
      BY <1>1, <2>4
    <3> QED BY <1>1, <1>2, <3>1, EnclosingStable
  <2>9. BlockIn(heap, d) # u
    BY <1>1, <1>3, <2>2, <2>5
  <2>10. BlockIn(heap, d) \in EnclosingOf(heap)[Top.id]
    BY <2>5, <2>6, <2>7, <2>8, <2>9
  <2>11. Len(stack) \in 1 .. Len(stack) /\ Top = stack[Len(stack)] /\ Len(stack) \in Nat
    BY <1>1, <2>3, TopIs DEF Top
  <2>12. PICK f \in 1 .. Len(stack) : stack[f].id = BlockIn(heap, d)
    BY <1>1, <2>10, <2>11, StackEncloses
  <2>13. stack[f].leaving
    BY <2>12 DEF Gone
  <2>14. f = Len(stack)
    BY <1>1, <2>11, <2>12, <2>13 DEF StackFits
  <2> QED BY <2>2, <2>11, <2>13, <2>14
<1> QED BY <1>4, <1>5

\* Nothing refers to a deleted declaration.
LEMMA UnusedStays ==
  ASSUME LifeInv, PlainInv, [Next]_vars, NEW d \in 2 .. Len(heap), Gone(heap, stack, d), Unused(heap, d)
  PROVE  Unused(heap', d)
<1>1. heap'[d].kind = heap[d].kind
  BY HeapNext DEF Extends, SameNode
<1> QED BY <1>1, GoneRefers DEF Unused

\* What a step keeps of the usages.
UsesNext == NameOnce(registry') /\ UsesKnown(heap', registry', stack')

\* A step while no statement is waiting, which adds none.
LEMMA UsesIdle ==
  ASSUME LifeInv, PlainInv, UsesKnown(heap, registry, stack), [Next]_vars, phase = "walk", Idle(heap, Top),
         Len(heap') = Len(heap) \/ \A s \in Shapes : ~Reveal(s),
         registry' \in Seq(EntryType(Len(heap))),
         \A k \in 1 .. Len(registry') : registry'[k].declaration # Null => Older(registry, registry', k)
  PROVE  UsesKnown(heap', registry', stack')
<1>1. /\ heap' \in Seq(NodeType(Len(heap'))) /\ Extends(heap, heap') /\ Len(heap') \in Nat /\ Len(heap) \in Nat
  BY HeapNext
<1>2. \A u : ~Waiting(heap, stack, u)
  BY DEF Waiting, Top
<1>3. \A u \in 1 .. Len(heap') : u \in 1 .. Len(heap) \/ ~heap'[u].written
  <2>1. CASE Len(heap') = Len(heap)
    BY <2>1
  <2>2. CASE Len(heap') # Len(heap)
    <3>1. Len(heap') = Len(heap) + 1 /\ ~heap'[Len(heap) + 1].written
      BY <2>2, NewStatement
    <3> QED BY <1>1, <3>1
  <2> QED BY <2>1, <2>2
<1>4. \A u \in 1 .. Len(heap') : \/ Waiting(heap', stack', u)
                                 \/ u \in 1 .. Len(heap) /\ ~Waiting(heap, stack, u)
                                 \/ ~heap'[u].written
  BY <1>2, <1>3
<1>5. registry' \in Seq(EntryType(Len(heap')))
  <2>1. Len(heap) <= Len(heap')
    BY <1>1 DEF Extends
  <2> QED BY <1>1, <2>1, TypesGrow
<1> QED BY <1>1, <1>4, <1>5, UsesStay

\* A visit that adds no variable.
LEMMA UsesVisited ==
  ASSUME LifeInv, PlainInv, NameOnce(registry), UsesKnown(heap, registry, stack), [Next]_vars,
         NEW kinds, Visiting(kinds), heap' = heap,
         registry' \in Seq(EntryType(Len(heap))), Derived(registry, registry'),
         Known(heap, registry', Visited)
  PROVE  UsesNext
<1>1. NameOnce(registry') /\ \A k \in 1 .. Len(registry') : Older(registry, registry', k)
  BY DerivedIs, DerivedOlder
<1>2. heap' \in Seq(NodeType(Len(heap'))) /\ Extends(heap, heap') /\ Len(heap') \in Nat
  BY HeapNext
<1>3. \A u \in 1 .. Len(heap') : u \notin 1 .. Len(heap) => ~heap'[u].written
  OBVIOUS
<1>4. UsesKnown(heap', registry', stack')
  BY <1>1, <1>2, <1>3, UsesVisit
<1> QED BY <1>1, <1>4 DEF UsesNext

\* No statement is revealed while there is one to visit.
LEMMA VisitingReveals ==
  ASSUME TypeInv, NEW kinds, Visiting(kinds)
  PROVE  \A s \in Shapes : ~Reveal(s)
<1>1. Top.i \in Nat /\ Top.skip \in Nat /\ Len(Kids) \in Nat
  BY TopIs DEF Visiting
<1>2. ~(Len(Kids) <= Top.i + Top.skip) /\ Len(Kids) # Top.i
  BY <1>1 DEF Visiting
<1> QED BY <1>2 DEF Reveal

\* A visit that adds one.
LEMMA UsesAdded ==
  ASSUME LifeInv, PlainInv, NameOnce(registry), UsesKnown(heap, registry, stack), [Next]_vars,
         NEW kinds, Visiting(kinds), kinds \subseteq {"decl", "alias"},
         registry' \in Seq(EntryType(Len(heap))), NEW a \in BOOLEAN,
         Added(Len(heap), registry, registry', Entry(heap[Visited].name, Visited, a), TRUE),
         Known(heap, registry', Visited)
  PROVE  UsesNext
<1> DEFINE e == Entry(heap[Visited].name, Visited, a)
<1>1. /\ TypeInv /\ currentScope \in Nat /\ Len(heap) \in Nat /\ Len(heap') \in Nat
      /\ heap' \in Seq(NodeType(Len(heap'))) /\ Extends(heap, heap')
  BY HeapNext
<1>2. Visited \in 1 .. Len(heap) /\ heap[Visited] \in NodeType(Len(heap))
  BY <1>1, VisitedIs
<1>3. e \in EntryType(Len(heap)) /\ e.declaration = Visited
  <2>1. heap[Visited].name \in Names /\ Visited \in 0 .. Len(heap)
    BY <1>1, <1>2 DEF NodeType
  <2>2. e \in EntryType(Len(heap))
    BY <1>1, <2>1, EntryIs
  <2> QED BY <2>2 DEF Entry
<1>4. Added(Len(heap), registry, registry', e, TRUE)
  OBVIOUS
<1> HIDE DEF e
<1>5. NameOnce(registry') /\ \A k \in 1 .. Len(registry') :
         registry'[k].declaration # Visited => Older(registry, registry', k)
  BY <1>1, <1>3, <1>4, AddedIs, AddedOlder
<1>6. \A u \in 1 .. Len(heap') : u \notin 1 .. Len(heap) => ~heap'[u].written
  <2>1. CASE Len(heap') = Len(heap)
    BY <2>1
  <2>2. CASE Len(heap') # Len(heap)
    <3>1. Len(heap') = Len(heap) + 1 /\ ~heap'[Len(heap) + 1].written
      <4>1. \A s \in Shapes : ~Reveal(s)
        BY <1>1, VisitingReveals
      <4> QED BY <2>2, <4>1, NewStatement
    <3> QED BY <1>1, <3>1
  <2> QED BY <2>1, <2>2
<1>7. UsesKnown(heap', registry', stack')
  BY <1>1, <1>5, <1>6, UsesVisit
<1> QED BY <1>5, <1>7 DEF UsesNext

\* After Declare the names of the initialiser are known.
LEMMA KnownDeclared ==
  ASSUME LifeInv, NEW r \in Seq(EntryType(Len(heap))), NameOnce(r), EntriesOK(heap, r),
         NEW kinds, Visiting(kinds), kinds \subseteq {"decl", "alias"},
         \A k \in 1 .. Len(r) : r[k].declaration # Null => r[k].name # heap[Visited].name
  PROVE  Known(heap, Declare(r, Visited), Visited)
<1> DEFINE e == Entry(heap[Visited].name, Visited, heap[Visited].auto)
           t == Append(r, e)
<1>1. TypeInv /\ currentScope \in Nat /\ Len(heap) \in Nat
  BY TypeInvWalks DEF LifeInv, WalkInv, TypeInv
<1>2. Visited \in 1 .. Len(heap) /\ heap[Visited] \in NodeType(Len(heap))
  BY <1>1, VisitedIs
<1>3. e \in EntryType(Len(heap)) /\ e.name = heap[Visited].name
  <2>1. heap[Visited].name \in Names /\ Visited \in 0 .. Len(heap) /\ heap[Visited].auto \in BOOLEAN
    BY <1>1, <1>2 DEF NodeType
  <2>2. e \in EntryType(Len(heap))
    BY <1>1, <2>1, EntryIs
  <2> QED BY <2>2 DEF Entry
<1>4. Declares(heap, e)
  BY VisitedDeclares
<1>5. Declare(r, Visited) = UsedVariables(t, heap[Visited].uses, Visited)
  BY DEF Declare
<1> HIDE DEF e
<1>6. /\ t \in Seq(EntryType(Len(heap))) /\ Len(t) = Len(r) + 1 /\ Len(r) \in Nat
      /\ t[Len(r) + 1] = e /\ \A k \in 1 .. Len(r) : t[k] = r[k]
  BY <1>1, <1>3, AppendIs
<1> HIDE DEF t
<1>7. \A k \in 1 .. Len(t) : k \in 1 .. Len(r) \/ k = Len(r) + 1
  BY <1>6
<1>8. EntriesOK(heap, t)
  BY <1>4, <1>6, <1>7 DEF EntriesOK
<1>9. NameOnce(t)
  <2>1. ASSUME NEW k \in 1 .. Len(t), NEW l \in 1 .. Len(t),
               t[k].declaration # Null, t[l].declaration # Null, t[k].name = t[l].name
        PROVE  k = l
    <3>1. CASE k \in 1 .. Len(r) /\ l \in 1 .. Len(r)
      BY <1>6, <2>1, <3>1 DEF NameOnce
    <3>2. CASE k = Len(r) + 1 /\ l \in 1 .. Len(r)
      BY <1>3, <1>6, <2>1, <3>2
    <3>3. CASE l = Len(r) + 1 /\ k \in 1 .. Len(r)
      BY <1>3, <1>6, <2>1, <3>3
    <3> QED BY <1>7, <3>1, <3>2, <3>3
  <2> QED BY <2>1 DEF NameOnce
<1>10. Known(heap, UsedVariables(t, heap[Visited].uses, Visited), Visited)
  BY <1>1, <1>2, <1>6, <1>8, <1>9, KnownUsed
<1> QED BY <1>5, <1>10

\* A registry is older than itself, also without some entries or declarations.
LEMMA SameOlder ==
  \A r, k : k \in 1 .. Len(r) => Older(r, r, k)
BY SameVariableIs DEF Older

\* An expression, the condition of a statement of branches: their names are
\* recorded.
LEMMA UsesUsed ==
  ASSUME LifeInv, PlainInv, NameOnce(registry), UsesKnown(heap, registry, stack), [Next]_vars,
         NEW kinds, Visiting(kinds), heap' = heap,
         registry' = UsedVariables(registry, heap[Visited].uses, Visited)
  PROVE  UsesNext
<1>1. TypeInv /\ registry \in Seq(EntryType(Len(heap))) /\ Len(heap) \in Nat /\ EntriesOK(heap, registry)
  BY HeapNext
<1>2. Visited \in 1 .. Len(heap)
  BY <1>1, VisitedIs
<1>3. registry' \in Seq(EntryType(Len(heap))) /\ Derived(registry, registry')
  BY <1>1, <1>2, UsedVariablesIs, DerivedUsed
<1>4. Known(heap, registry', Visited)
  BY <1>1, <1>2, KnownUsed
<1> QED BY <1>3, <1>4, UsesVisited

\* A statement without names.
LEMMA UsesNone ==
  ASSUME LifeInv, PlainInv, NameOnce(registry), UsesKnown(heap, registry, stack), [Next]_vars,
         NoUses(heap), NEW kinds, Visiting(kinds), kinds \subseteq {"block", "alias", "unused"}, heap' = heap,
         registry' \in Seq(EntryType(Len(heap))), Derived(registry, registry')
  PROVE  UsesNext
<1>1. heap[Visited].uses = {}
  <2>1. Visited \in 1 .. Len(heap) /\ heap[Visited].kind \in {"block", "alias", "unused"}
    BY HeapNext, VisitedIs
  <2> QED BY <2>1 DEF NoUses
<1>2. Known(heap, registry', Visited)
  BY <1>1, KnownNothing
<1> QED BY <1>2, UsesVisited

\* A declaration.
LEMMA UsesDecl ==
  ASSUME LifeInv, PlainInv, NameOnce(registry), UsesKnown(heap, registry, stack), [Next]_vars,
         VisitDecl \/ VisitRedeclaration
  PROVE  UsesNext
<1> DEFINE x == heap[Visited].name
           r == IF VisitDecl THEN registry ELSE RemoveVariable(registry, x)
<1>1. /\ TypeInv /\ registry \in Seq(EntryType(Len(heap))) /\ Len(heap) \in Nat /\ currentScope \in Nat
      /\ EntriesOK(heap, registry)
  BY HeapNext
<1>2. Visiting({"decl"})
  BY DEF VisitDecl, VisitRedeclaration, Redeclaring
<1>3. registry' = Declare(r, Visited)
  BY <1>1, VisitRedeclarationIs DEF VisitDecl
<1>4. Visited \in 1 .. Len(heap) /\ heap[Visited] \in NodeType(Len(heap))
  BY <1>1, <1>2, VisitedIs
<1>5. /\ Derived(registry, r) /\ r \in Seq(EntryType(Len(heap)))
      /\ \A k \in 1 .. Len(r) : r[k].declaration # Null => r[k].name # x
  <2>1. CASE VisitDecl
    <3>1. Registered(registry, x) = {} /\ r = registry
      BY <2>1 DEF VisitDecl
    <3>2. \A k \in 1 .. Len(registry) : registry[k].declaration # Null => registry[k].name # x
      BY <1>1, <3>1 DEF Registered
    <3>3. Derived(registry, registry)
      BY <1>1, DerivedSame
    <3> QED BY <1>1, <3>1, <3>2, <3>3
  <2>2. CASE ~VisitDecl
    <3>1. r = RemoveVariable(registry, x)
      BY <2>2
    <3> QED BY <1>1, <3>1, DerivedRemoved
  <2> QED BY <2>1, <2>2
<1>6. heap[Visited].auto \in BOOLEAN
  BY <1>4 DEF NodeType
<1> HIDE DEF r
<1>7. NameOnce(r) /\ EntriesOK(heap, r)
  BY <1>1, <1>5, DerivedIs, EntriesDerived
<1>8. Known(heap, registry', Visited)
  BY <1>2, <1>3, <1>5, <1>7, KnownDeclared
<1>9. registry' \in Seq(EntryType(Len(heap)))
  BY <1>1, <1>3, <1>4, <1>5, DeclareIs
<1>10. Added(Len(heap), registry, registry', Entry(x, Visited, heap[Visited].auto), TRUE)
  BY <1>1, <1>3, <1>4, <1>5, DeclareAdded
<1> QED BY <1>2, <1>6, <1>8, <1>9, <1>10, UsesAdded

\* An alias.
LEMMA UsesAlias ==
  ASSUME NoErrorIgnored, LifeInv, PlainInv, NameOnce(registry), UsesKnown(heap, registry, stack), [Next]_vars,
         NoUses(heap), VisitAlias
  PROVE  UsesNext
<1> DEFINE x == heap[Visited].name
           e == Entry(x, Visited, FALSE)
<1>1. /\ TypeInv /\ registry \in Seq(EntryType(Len(heap))) /\ Len(heap) \in Nat /\ currentScope \in Nat
      /\ options \in OptionSets
  BY HeapNext DEF TypeInv
<1>2. Visiting({"alias"}) /\ heap' = heap
  BY DEF VisitAlias
<1>3. /\ Visited \in 1 .. Len(heap) /\ heap[Visited] \in NodeType(Len(heap)) /\ heap[Visited].kind = "alias"
      /\ Fresh(heap, registry, Visited)
  BY <1>1, <1>2, VisitedIs, VisitedPlain
<1>4. \/ registry' = registry
      \/ Registered(registry, x) = {} /\ registry' = Append(registry, e)
  BY <1>1, <1>3 DEF VisitAlias, NoErrorIgnored, Fresh
<1>5. CASE registry' = registry
  <2>1. Derived(registry, registry') /\ registry' \in Seq(EntryType(Len(heap)))
    BY <1>1, <1>5, DerivedSame
  <2> QED BY <1>2, <2>1, UsesNone
<1>6. CASE Registered(registry, x) = {} /\ registry' = Append(registry, e)
  <2>1. e \in EntryType(Len(heap)) /\ e.name = x
    <3>1. x \in Names /\ Visited \in 0 .. Len(heap) /\ FALSE \in BOOLEAN
      BY <1>1, <1>3 DEF NodeType
    <3>2. e \in EntryType(Len(heap))
      BY <1>1, <3>1, EntryIs
    <3> QED BY <3>2 DEF Entry
  <2> HIDE DEF e
  <2>2. registry' \in Seq(EntryType(Len(heap)))
    BY <1>1, <1>6, <2>1, AppendIs
  <2>3. Derived(registry', registry') /\ Derived(registry, registry)
    BY <1>1, <2>2, DerivedSame
  <2>4. \A k \in 1 .. Len(registry) : registry[k].declaration # Null => registry[k].name # e.name
    BY <1>1, <1>6, <2>1 DEF Registered
  <2>5. Added(Len(heap), registry, registry', e, TRUE)
    BY <1>1, <1>6, <2>3, <2>4 DEF Added
  <2>6. Known(heap, registry', Visited)
    BY <1>3, KnownNothing DEF NoUses
  <2>7. FALSE \in BOOLEAN
    OBVIOUS
  <2> QED BY <1>2, <2>2, <2>5, <2>6, <2>7, UsesAdded DEF e
<1> QED BY <1>4, <1>5, <1>6

\* The next statement of the source waits to be visited.
LEMMA RevealWaits ==
  ASSUME LifeInv, PlainInv, [Next]_vars, NEW s \in Shapes, Reveal(s)
  PROVE  /\ Len(heap') = Len(heap) + 1 /\ Waiting(heap', stack', Len(heap) + 1)
         /\ \A u : ~Waiting(heap, stack, u)
<1> DEFINE new  == Len(heap) + 1
           K    == Append(Kids, new)
           node == Node(s, Top.id, TRUE)
<1>1. /\ TypeInv /\ heap \in Seq(NodeType(Len(heap))) /\ Len(heap) \in Nat
      /\ registry \in Seq(EntryType(Len(heap)))
      /\ heap' \in Seq(NodeType(Len(heap'))) /\ Extends(heap, heap') /\ Len(heap') \in Nat
  BY HeapNext
<1>2. /\ phase = "walk" /\ UNCHANGED <<registry, stack>> /\ Top.id \in 1 .. Len(heap)
      /\ K \in Seq(0 .. Len(heap) + 1) /\ node \in NodeType(Len(heap) + 1)
      /\ heap' = Grown(heap, Top.id, K, node)
  BY <1>1, RevealIs
<1>3. /\ Top.skip = 0 /\ Top.i \in Nat /\ Len(Kids) \in Nat
      /\ ~Top.leaving => Len(Kids) \in {Top.i, Top.i + 1}
  BY <1>2, TopPlain
<1>4. ~Top.leaving /\ Len(Kids) = Top.i
  <2>1. Top.leaving => Here = "block"
    BY <1>1, <1>2, TopIs DEF FrameFits, Here
  <2>2. \/ ~Top.leaving /\ Len(Kids) <= Top.i + Top.skip
        \/ Here # "block" /\ Len(Kids) = Top.i
    BY DEF Reveal
  <2> QED BY <1>3, <2>1, <2>2
<1>5. Len(K) = Top.i + 1 /\ K[Top.i + 1] = new
  <2>1. Kids \in Seq(0 .. Len(heap))
    BY <1>1, <1>2, TopIs
  <2> QED BY <1>4, <2>1
<1> HIDE DEF K, node
<1>6. Len(heap') = new /\ heap'[Top.id].kids = K
  BY <1>1, <1>2, HeapGrown
<1>7. \A u : ~Waiting(heap, stack, u)
  BY <1>3, <1>4 DEF Waiting, Idle, Kids, Top
<1>8. Waiting(heap', stack', new)
  <2>1. stack' # << >> /\ stack'[Len(stack')] = Top
    BY <1>1, <1>2, TopIs DEF Top
  <2>2. Len(heap'[Top.id].kids) = Top.i + 1 /\ heap'[Top.id].kids[Top.i + 1] = new /\ new # Null
    BY <1>1, <1>5, <1>6 DEF Null
  <2>3. ~(Len(heap'[Top.id].kids) <= Top.i)
    BY <1>3, <2>2
  <2> HIDE DEF new
  <2>4. ~Idle(heap', Top)
    BY <1>4, <2>2, <2>3 DEF Idle
  <2> QED BY <1>6, <2>1, <2>4 DEF Waiting
<1> QED BY <1>6, <1>7, <1>8

\* So what was used is recorded still.
LEMMA UsesReveal ==
  ASSUME LifeInv, PlainInv, NameOnce(registry), UsesKnown(heap, registry, stack), [Next]_vars,
         NEW s \in Shapes, Reveal(s)
  PROVE  UsesNext
<1> DEFINE new == Len(heap) + 1
<1>1. /\ TypeInv /\ Len(heap) \in Nat /\ registry \in Seq(EntryType(Len(heap)))
      /\ heap' \in Seq(NodeType(Len(heap'))) /\ Extends(heap, heap') /\ Len(heap') \in Nat
  BY HeapNext
<1>2. UNCHANGED <<registry, stack>>
  BY DEF Reveal
<1>3. Len(heap') = new /\ Waiting(heap', stack', new) /\ \A u : ~Waiting(heap, stack, u)
  BY RevealWaits
<1>4. \A u \in 1 .. Len(heap') : \/ Waiting(heap', stack', u)
                                 \/ u \in 1 .. Len(heap) /\ ~Waiting(heap, stack, u)
                                 \/ ~heap'[u].written
  <2>1. \A u \in 1 .. Len(heap') : u \in 1 .. Len(heap) \/ u = new
    BY <1>1, <1>3
  <2> HIDE DEF new
  <2> QED BY <1>3, <2>1
<1>5. /\ registry' \in Seq(EntryType(Len(heap')))
       /\ \A k \in 1 .. Len(registry') : registry'[k].declaration # Null => Older(registry, registry', k)
  <2>1. Len(heap) <= Len(heap')
    BY <1>1 DEF Extends
  <2> QED BY <1>1, <1>2, <2>1, TypesGrow, SameOlder
<1>6. UsesKnown(heap', registry', stack')
  BY <1>1, <1>4, <1>5, UsesStay
<1> QED BY <1>2, <1>6 DEF UsesNext

\* Steps that find no statement to visit.
LEMMA RestIdle ==
  ASSUME LifeInv, PlainInv, BranchesFit(heap),
         RevealNothing \/ VisitNull \/ LeaveBranches \/ EndOfStatements \/ InsertDestroy \/ LeaveBlock
  PROVE  phase = "walk" /\ Idle(heap, Top)
<1>1. TypeInv
  BY DEF LifeInv, WalkInv
<1>2. phase = "walk"
  BY DEF RevealNothing, VisitNull, LeaveBranches, EndOfStatements, InsertDestroy, LeaveBlock, Handling
<1>3. /\ Top.skip = 0 /\ Top.i \in Nat /\ Len(Kids) \in Nat
      /\ ~Top.leaving => Len(Kids) \in {Top.i, Top.i + 1}
      /\ Top.leaving => Here = "block"
      /\ Top.id \in 1 .. Len(heap)
  BY <1>1, <1>2, TopPlain, TopIs DEF FrameFits, Here
<1>4. Idle(heap, Top)
  <2>1. CASE Top.leaving
    BY <2>1 DEF Idle
  <2>2. CASE Kids[Top.i + 1] = Null
    BY <2>2 DEF Idle, Kids
  <2>3. CASE Len(Kids) <= Top.i
    BY <2>3 DEF Idle, Kids
  <2>4. CASE LeaveBranches
    <3>1. Top.i = Arity(Here) /\ Here # "block"
      BY <2>4 DEF LeaveBranches
    <3>2. Len(Kids) <= Arity(Here)
      BY <1>3, <3>1 DEF BranchesFit, Here, Kids
    <3> QED BY <2>3, <3>1, <3>2
  <2>5. CASE RevealNothing \/ EndOfStatements
    <3>1. Len(Kids) <= Top.i + Top.skip \/ Len(Kids) = Top.i
      BY <2>5 DEF RevealNothing, EndOfStatements
    <3>2. Len(Kids) <= Top.i
      BY <1>3, <3>1
    <3> QED BY <2>3, <3>2
  <2> QED BY <2>1, <2>2, <2>4, <2>5 DEF VisitNull, InsertDestroy, LeaveBlock, Handling
<1> QED BY <1>2, <1>4

\* They keep the usages.
LEMMA UsesRest ==
  ASSUME LifeInv, PlainInv, NameOnce(registry), UsesKnown(heap, registry, stack), [Next]_vars,
         BranchesFit(heap),
         RevealNothing \/ VisitNull \/ LeaveBranches \/ EndOfStatements \/ InsertDestroy \/ LeaveBlock
  PROVE  UsesNext
<1>1. /\ TypeInv /\ heap \in Seq(NodeType(Len(heap))) /\ Len(heap) \in Nat
      /\ registry \in Seq(EntryType(Len(heap)))
  BY HeapNext
<1>2. phase = "walk"
  BY RestIdle
<1>3. Top.leaving => Here = "block"
  BY <1>1, <1>2, TopIs DEF FrameFits, Here
<1>4. Idle(heap, Top)
  BY RestIdle
<1>5. Derived(registry, registry') /\ registry' \in Seq(EntryType(Len(heap)))
  <2>1. CASE registry' = registry
    BY <1>1, <2>1, DerivedSame
  <2>2. CASE LeaveBlock
    <3> DEFINE R == {k \in DOMAIN registry : registry[k].scope # Top.scope}
    <3>1. R \subseteq DOMAIN registry /\ registry' = Keep(registry, R)
      BY <2>2 DEF LeaveBlock, RemoveScope
    <3>2. registry' \in Seq(EntryType(Len(heap)))
      BY <1>1, <2>2, RemoveIs DEF LeaveBlock
    <3> HIDE DEF R
    <3> QED BY <1>1, <3>1, <3>2, DerivedKept
  <2> QED BY <2>1, <2>2 DEF RevealNothing, VisitNull, LeaveBranches, EndOfStatements, InsertDestroy
<1>6. Len(heap') = Len(heap) \/ \A s \in Shapes : ~Reveal(s)
  <2>1. CASE Top.leaving
    BY <1>3, <2>1 DEF Reveal
  <2>2. CASE ~Top.leaving
    <3>1. CASE RevealNothing
      BY <1>1, <3>1, RevealNothingIs, HeapWithKids
    <3> QED BY <2>2, <3>1 DEF VisitNull, LeaveBranches, EndOfStatements, InsertDestroy, LeaveBlock, Handling
  <2> QED BY <2>1, <2>2
<1>7. NameOnce(registry') /\ \A k \in 1 .. Len(registry') : Older(registry, registry', k)
  BY <1>5, DerivedIs, DerivedOlder
<1>8. UsesKnown(heap', registry', stack')
  BY <1>2, <1>4, <1>5, <1>6, <1>7, UsesIdle
<1> QED BY <1>7, <1>8 DEF UsesNext

\* A declaration goes: its entry loses it.
LEMMA UsesRemoved ==
  ASSUME LifeInv, PlainInv, NameOnce(registry), UsesKnown(heap, registry, stack), [Next]_vars,
         RemoveDeclaration
  PROVE  UsesNext
<1> DEFINE k0 == Head(Top.pending)
<1>1. /\ TypeInv /\ heap \in Seq(NodeType(Len(heap))) /\ Len(heap) \in Nat
      /\ registry \in Seq(EntryType(Len(heap)))
  BY HeapNext
<1>2. phase = "walk" /\ Top.leaving /\ Here = "block" /\ k0 \in 1 .. Len(registry)
  BY <1>1, HandlingIs DEF RemoveDeclaration
<1>3. registry' = registry \/ registry' = Nulled(registry, k0)
  BY <1>1, RemoveDeclarationIs DEF Nulled
<1> HIDE DEF k0
<1>4. /\ registry' \in Seq(EntryType(Len(heap))) /\ NameOnce(registry')
      /\ \A k \in 1 .. Len(registry') : registry'[k].declaration # Null => Older(registry, registry', k)
  <2>1. CASE registry' = registry
    BY <1>1, <2>1, SameOlder
  <2>2. CASE registry' = Nulled(registry, k0)
    <3>1. /\ registry' \in Seq(EntryType(Len(heap))) /\ Len(registry') = Len(registry)
          /\ \A j \in 1 .. Len(registry) :
               /\ registry'[j].name = registry[j].name /\ registry'[j].scope = registry[j].scope
               /\ registry'[j].auto = registry[j].auto /\ registry'[j].usage = registry[j].usage
               /\ registry'[j].declaration = IF j = k0 THEN Null ELSE registry[j].declaration
      BY <1>1, <1>2, <2>2, NulledIs
    <3>2. NameOnce(registry')
      BY <3>1 DEF NameOnce
    <3>3. ASSUME NEW k \in 1 .. Len(registry'), registry'[k].declaration # Null
          PROVE  Older(registry, registry', k)
      <4>1. SameVariable(registry[k], registry'[k])
        BY <3>1, <3>3 DEF SameVariable, SameEntry, MoreUsage
      <4> QED BY <3>1, <4>1 DEF Older
    <3> QED BY <3>1, <3>2, <3>3
  <2> QED BY <1>3, <2>1, <2>2
<1>5. Idle(heap, Top)
  BY <1>2 DEF Idle
<1>6. \A s \in Shapes : ~Reveal(s)
  BY <1>2 DEF Reveal
<1>7. UsesKnown(heap', registry', stack')
  BY <1>2, <1>4, <1>5, <1>6, UsesIdle
<1> QED BY <1>4, <1>7 DEF UsesNext

\* Every step keeps the usages recorded.
LEMMA UsesEvery ==
  ASSUME NoErrorIgnored, LifeInv, PlainInv, UsageInv, [Next]_vars
  PROVE  UsesNext
<1>1. /\ NameOnce(registry) /\ UsesKnown(heap, registry, stack) /\ NoUses(heap) /\ BranchesFit(heap)
  BY DEF UsageInv
<1>2. /\ TypeInv /\ registry \in Seq(EntryType(Len(heap))) /\ Len(heap) \in Nat
  BY HeapNext
<1>3. CASE UNCHANGED <<heap, registry, stack>>
  BY <1>1, <1>3 DEF UsesNext
<1>4. ASSUME NEW s \in Shapes, Reveal(s)
      PROVE  UsesNext
  BY <1>1, <1>4, UsesReveal
<1>5. CASE RevealNothing \/ VisitNull \/ LeaveBranches \/ EndOfStatements \/ InsertDestroy \/ LeaveBlock
  BY <1>1, <1>5, UsesRest
<1>6. CASE VisitDecl \/ VisitRedeclaration
  BY <1>1, <1>6, UsesDecl
<1>7. CASE VisitAlias
  BY <1>1, <1>7, UsesAlias
<1>8. CASE VisitExpr \/ EnterBranches
  <2>1. /\ heap' = heap /\ registry' = UsedVariables(registry, heap[Visited].uses, Visited)
        /\ Visiting({"expr"}) \/ Visiting({"if", "while", "func"})
    BY <1>8 DEF VisitExpr, EnterBranches
  <2> QED BY <1>1, <2>1, UsesUsed
<1>9. CASE VisitUnused
  <2> DEFINE x == heap[Visited].name
  <2>1. Visiting({"unused"}) /\ heap' = heap /\ registry' = RemoveVariable(registry, x)
    BY <1>9 DEF VisitUnused
  <2>2. Derived(registry, registry') /\ registry' \in Seq(EntryType(Len(heap)))
    BY <1>2, <2>1, DerivedRemoved
  <2>3. {"unused"} \subseteq {"block", "alias", "unused"}
    OBVIOUS
  <2> QED BY <1>1, <2>1, <2>2, <2>3, UsesNone
<1>10. CASE EnterBlock
  <2>1. Visiting({"block"}) /\ heap' = heap /\ registry' = registry
    BY <1>10 DEF EnterBlock
  <2>2. Derived(registry, registry') /\ registry' \in Seq(EntryType(Len(heap)))
    BY <1>2, <2>1, DerivedSame
  <2>3. {"block"} \subseteq {"block", "alias", "unused"}
    OBVIOUS
  <2> QED BY <1>1, <2>1, <2>2, <2>3, UsesNone
<1>11. CASE RemoveDeclaration
  BY <1>1, <1>11, UsesRemoved
<1> QED
  BY <1>3, <1>4, <1>5, <1>6, <1>7, <1>8, <1>9, <1>10, <1>11 DEF Next, vars, ThrowRedeclaration

\* The declaration that is removed: nothing refers to it, its block is left.
LEMMA RemainingUnused ==
  ASSUME LifeInv, UsageInv, Handling, Remaining.usage = << >>
  PROVE  /\ Remaining.declaration \in 2 .. Len(heap)
         /\ Unused(heap, Remaining.declaration) /\ Gone(heap, stack, Remaining.declaration)
<1> DEFINE d == Remaining.declaration
           k == Top.pending[1]
<1>1. /\ TypeInv /\ Walks(heap, stack) /\ WellStacked(heap, stack) /\ TreeOK(heap) /\ Len(heap) \in Nat
  BY TypeInvWalks DEF LifeInv, WalkInv, TypeInv, BlockInv
<1>2. /\ Remaining = registry[k] /\ k \in 1 .. Len(registry) /\ d \in 2 .. Len(heap) /\ BlockIn(heap, d) = Top.id
  BY RemainingHome
<1>3. phase = "walk" /\ Top.leaving
  BY <1>1, HandlingIs
<1>4. Len(stack) \in 1 .. Len(stack) /\ Top = stack[Len(stack)] /\ Len(stack) \in Nat
  BY <1>1, <1>3, TopIs DEF Top
<1> HIDE DEF k
<1>5. ASSUME NEW u \in 1 .. Len(heap), heap[d].kind = "decl", RefersIn(heap, u, d)
      PROVE  FALSE
  <2>1. ~Waiting(heap, stack, u)
    BY <1>3, <1>4 DEF Waiting, Idle
  <2>2. KnownAs(heap, registry[k], u)
    BY <1>2, <2>1 DEF UsageInv, UsesKnown, Known
  <2>3. d # Null
    BY <1>1, <1>2 DEF Null
  <2>4. UsedBy(Remaining, u)
    BY <1>2, <1>5, <2>2, <2>3 DEF KnownAs
  <2> QED BY <2>4 DEF UsedBy
<1>6. ASSUME NEW f \in 1 .. Len(stack), stack[f].id = Top.id
      PROVE  stack[f].leaving
  <2>1. CASE f = Len(stack)
    BY <1>3, <1>4, <2>1
  <2>2. CASE f # Len(stack)
    <3>1. f < Len(stack)
      BY <1>4, <2>2
    <3>2. stack[f].id < stack[Len(stack)].id
      BY <1>1, <1>4, <3>1, StackOnce
    <3>3. stack[f].id \in Nat
      BY <1>1 DEF Walks
    <3> QED BY <1>4, <1>6, <3>2, <3>3
  <2> QED BY <2>1, <2>2
<1> QED BY <1>2, <1>5, <1>6 DEF Unused, Gone

\* What is deleted is not used, and will not be.
LEMMA FreedUnusedNext ==
  ASSUME NoErrorIgnored, LifeInv, PlainInv, UsageInv, [Next]_vars
  PROVE  FreedUnused(heap', freed', stack')
<1>1. ASSUME NEW d \in freed'
      PROVE  d \in 2 .. Len(heap) /\ Unused(heap, d) /\ Gone(heap, stack, d)
  <2>1. CASE d \in freed
    BY <2>1 DEF UsageInv, FreedUnused
  <2>2. CASE d \notin freed
    <3>1. RemoveDeclaration /\ freed' # freed
      BY <2>2, FreedNext
    <3>2. freed' = freed \cup {Remaining.declaration} /\ d = Remaining.declaration
      BY <2>2, <3>1, RemovedUnlisted
    <3>3. Handling /\ Remaining.usage = << >>
      BY <3>1 DEF RemoveDeclaration
    <3> QED BY <3>2, <3>3, RemainingUnused
  <2> QED BY <2>1, <2>2
<1>2. ASSUME NEW d \in freed'
      PROVE  d \in 2 .. Len(heap') /\ Unused(heap', d) /\ Gone(heap', stack', d)
  <2>1. d \in 2 .. Len(heap) /\ Unused(heap, d) /\ Gone(heap, stack, d)
    BY <1>1
  <2> QED BY <2>1, GoneStays, UnusedStays
<1> QED BY <1>2 DEF FreedUnused

\* A program that has just been opened has nothing to record.
LEMMA UsageInit ==
  ASSUME Init
  PROVE  UsageInv
<1> DEFINE n == Node(Shape("block", CHOOSE x \in Names : TRUE), Null, TRUE)
<1>1. heap = <<n>> /\ n.kind = "block" /\ n.uses = {} /\ registry = << >> /\ freed = {}
  BY DEF Init, Node, Shape
<1> HIDE DEF n
<1>2. Len(heap) = 1 /\ 1 .. Len(heap) = {1} /\ heap[1] = n /\ 1 .. Len(registry) = {}
  BY <1>1
<1>3. NoUses(heap) /\ BranchesFit(heap)
  BY <1>1, <1>2 DEF NoUses, BranchesFit
<1>4. NameOnce(registry) /\ UsesKnown(heap, registry, stack)
  BY <1>2 DEF NameOnce, UsesKnown, Known
<1> QED BY <1>1, <1>3, <1>4 DEF UsageInv, FreedUnused

\* Every step keeps the usages.
LEMMA UsageNext ==
  ASSUME NoErrorIgnored, LifeInv, PlainInv, UsageInv, [Next]_vars
  PROVE  UsageInv'
<1>1. UsesNext /\ FreedUnused(heap', freed', stack')
  BY UsesEvery, FreedUnusedNext
<1>2. NoUses(heap) /\ BranchesFit(heap)
  BY DEF UsageInv
<1>3. NoUses(heap') /\ BranchesFit(heap')
  BY <1>2, NoUsesNext, BranchesFitNext
<1> QED BY <1>1, <1>3 DEF UsageInv, UsesNext

\* No deleted declaration has a known use.
LEMMA UsageProperty ==
  ASSUME TypeInv, FreedUnused(heap, freed, stack)
  PROVE  NoKnownUse
<1>1. ASSUME NEW d \in Decls \cap freed, NEW u \in Written, Refers(u, d)
      PROVE  FALSE
  <2>1. DOMAIN heap = 1 .. Len(heap)
    <3>1. heap \in Seq(NodeType(Len(heap)))
      BY DEF TypeInv
    <3> QED BY <3>1
  <2>2. u \in 1 .. Len(heap) /\ heap[d].kind = "decl" /\ Unused(heap, d)
    BY <1>1, <2>1 DEF Decls, Written, FreedUnused
  <2>3. RefersIn(heap, u, d)
    BY <1>1, RefersIsIn
  <2> QED BY <2>2, <2>3 DEF Unused
<1> QED BY <1>1 DEF NoKnownUse, UsesOf

\* Where nothing is hidden all uses are known ones.
LEMMA AllMentionsKnown ==
  ASSUME TypeInv, HiddenNone(heap), NoKnownUse
  PROVE  RemovedOnlyIfUnused
<1>1. DOMAIN heap = 1 .. Len(heap)
  <2>1. heap \in Seq(NodeType(Len(heap)))
    BY DEF TypeInv
  <2> QED BY <2>1
<1>2. ASSUME NEW d, NEW u \in Written, Mentions(u, d)
      PROVE  Refers(u, d)
  <2>1. heap[u].hidden = {}
    BY <1>1 DEF Written, HiddenNone
  <2> QED BY <1>2, <2>1 DEF Mentions, Refers
<1> QED BY <1>2 DEF RemovedOnlyIfUnused, NoKnownUse, MentionsOf, UsesOf

\* In programs that mention names only where the walk looks (no name is an
\* argument of a call or stands in a literal or an aliased value), no statement
\* that is left mentions a variable whose declaration was removed, provided
\* errors end the walk and no block's list is left behind by an insertion: a
\* use anywhere in the scope, in a condition, a nested block or an initialiser,
\* has been recorded by the time the block ends.
THEOREM RemovedAreUnused ==
  NothingHidden /\ NoErrorIgnored /\ Skipless => (Spec => []RemovedOnlyIfUnused)
<1> SUFFICES ASSUME NothingHidden, NoErrorIgnored, Skipless PROVE Spec => []RemovedOnlyIfUnused
  OBVIOUS
<1> DEFINE Inv == PlainInv /\ UsageInv /\ HiddenNone(heap)
<1>1. Init => Inv
  <2> SUFFICES ASSUME Init PROVE HiddenNone(heap)
    BY PlainInit, UsageInit
  <2> DEFINE n == Node(Shape("block", CHOOSE x \in Names : TRUE), Null, TRUE)
  <2>1. heap = <<n>> /\ n.hidden = {}
    BY DEF Init, Node, Shape
  <2> HIDE DEF n
  <2>2. 1 .. Len(heap) = {1} /\ heap[1] = n
    BY <2>1
  <2> QED BY <2>1, <2>2 DEF HiddenNone
<1>2. LifeInv /\ Inv /\ [Next]_vars => Inv'
  <2> SUFFICES ASSUME LifeInv, Inv, [Next]_vars PROVE Inv'
    OBVIOUS
  <2>1. PlainInv'
    BY PlainNext
  <2>2. UsageInv'
    BY UsageNext
  <2>3. HiddenNone(heap')
    BY HiddenNext
  <2> QED BY <2>1, <2>2, <2>3
<1>3. LifeInv /\ Inv => RemovedOnlyIfUnused
  BY UsageProperty, AllMentionsKnown DEF LifeInv, WalkInv, UsageInv
<1> HIDE DEF Inv
<1> QED BY <1>1, <1>2, <1>3, LifeInvariant, PTL DEF Spec

-----------------------------------------------------------------------------
(* The order of lists.                                                     *)

\* x stands before y in K.
Before(K, x, y) == \E i, j \in 1 .. Len(K) : i < j /\ K[i] = x /\ K[j] = y

\* L is made of K: some statements may have gone, z may be new, and the
\* others are in the order they had.
Arranged(K, L, z) ==
  /\ \A y : In(L, y) => y = Null \/ y = z \/ In(K, y)
  /\ \A x, y : /\ x # Null /\ x # z /\ y # Null /\ y # z
               /\ Before(L, x, y)
               => Before(K, x, y)

\* In a list without repetitions, of two statements one is before the other.
LEMMA OneIsBefore ==
  ASSUME NEW K, Len(K) \in Nat, OnceSeq(K), NEW x, NEW y, x # Null, y # Null
  PROVE  /\ In(K, x) /\ In(K, y) /\ x # y => Before(K, x, y) \/ Before(K, y, x)
         /\ ~(Before(K, x, y) /\ Before(K, y, x))
<1>1. ASSUME In(K, x), In(K, y), x # y
      PROVE  Before(K, x, y) \/ Before(K, y, x)
  <2>1. PICK i \in 1 .. Len(K) : K[i] = x
    BY <1>1 DEF In
  <2>2. PICK j \in 1 .. Len(K) : K[j] = y
    BY <1>1 DEF In
  <2>3. i < j \/ j < i
    BY <1>1, <2>1, <2>2
  <2> QED BY <2>1, <2>2, <2>3 DEF Before
<1>2. ASSUME Before(K, x, y), Before(K, y, x)
      PROVE  FALSE
  <2>1. PICK i, j \in 1 .. Len(K) : i < j /\ K[i] = x /\ K[j] = y
    BY <1>2 DEF Before
  <2>2. PICK k, l \in 1 .. Len(K) : k < l /\ K[k] = y /\ K[l] = x
    BY <1>2 DEF Before
  <2>3. i = l /\ j = k
    BY <2>1, <2>2 DEF OnceSeq
  <2> QED BY <2>1, <2>2, <2>3
<1> QED BY <1>1, <1>2

\* What stays keeps its order.
LEMMA ArrangedStays ==
  ASSUME NEW K, Len(K) \in Nat, OnceSeq(K), NEW L, Len(L) \in Nat, OnceSeq(L), NEW z, Arranged(K, L, z),
         NEW x, NEW y, x # Null, y # Null, x # z, y # z, Before(K, x, y), In(L, x), In(L, y)
  PROVE  Before(L, x, y)
<1>1. ~Before(K, y, x)
  BY OneIsBefore
<1>2. ~Before(L, y, x)
  BY <1>1 DEF Arranged
<1>3. x # y
  <2>1. PICK i, j \in 1 .. Len(K) : i < j /\ K[i] = x /\ K[j] = y
    BY DEF Before
  <2> QED BY <2>1 DEF OnceSeq
<1> QED BY <1>2, <1>3, OneIsBefore

\* A list with a statement behind it.
LEMMA AppendArranged ==
  ASSUME NEW S, NEW K \in Seq(S), NEW x, NEW z, x = Null \/ x = z, ~In(K, z)
  PROVE  /\ Arranged(K, Append(K, x), z)
         /\ z # Null => \A y : ~Before(Append(K, x), z, y)
         /\ In(Append(K, x), x) /\ \A y : In(K, y) => In(Append(K, x), y)
         /\ x # Null => (In(Append(K, x), Null) => In(K, Null))
<1> DEFINE L == Append(K, x)
<1>1. Len(K) \in Nat /\ Len(L) = Len(K) + 1 /\ L[Len(K) + 1] = x /\ \A j \in 1 .. Len(K) : L[j] = K[j]
  OBVIOUS
<1> HIDE DEF L
<1>2. \A j \in 1 .. Len(L) : j \in 1 .. Len(K) \/ j = Len(K) + 1
  BY <1>1
<1>3. \A j \in 1 .. Len(K) : j \in 1 .. Len(L)
  BY <1>1
<1>4. \A y : In(L, y) => y = x \/ In(K, y)
  BY <1>1, <1>2 DEF In
<1>5. ASSUME NEW u, NEW y, u # x, y # x, Before(L, u, y)
      PROVE  Before(K, u, y)
  <2>1. PICK i, j \in 1 .. Len(L) : i < j /\ L[i] = u /\ L[j] = y
    BY <1>5 DEF Before
  <2>2. i \in 1 .. Len(K) /\ j \in 1 .. Len(K)
    BY <1>1, <1>2, <1>5, <2>1
  <2> QED BY <1>1, <2>1, <2>2 DEF Before
<1>6. Arranged(K, L, z)
  BY <1>4, <1>5 DEF Arranged
<1>7. ASSUME z # Null, NEW y, Before(L, z, y)
      PROVE  FALSE
  <2>1. PICK i, j \in 1 .. Len(L) : i < j /\ L[i] = z /\ L[j] = y
    BY <1>7 DEF Before
  <2>2. i = Len(K) + 1
    BY <1>1, <1>2, <2>1 DEF In
  <2> QED BY <1>1, <2>1, <2>2
<1>8. Len(K) + 1 \in 1 .. Len(L)
  BY <1>1
<1>9. In(L, x) /\ \A y : In(K, y) => In(L, y)
  BY <1>1, <1>3, <1>8 DEF In
<1> QED BY <1>4, <1>6, <1>7, <1>9 DEF L

\* A list into which z has been inserted: what stood before the place stands
\* before z.
LEMMA InsertArranged ==
  ASSUME NEW S, NEW K \in Seq(S), NEW at \in 1 .. Len(K) + 1, NEW z \in S, ~In(K, z), z # Null
  PROVE  /\ Arranged(K, InsertAt(K, at, z), z)
         /\ In(InsertAt(K, at, z), z) /\ \A y : In(K, y) => In(InsertAt(K, at, z), y)
         /\ \A i \in 1 .. Len(K) : i < at => Before(InsertAt(K, at, z), K[i], z)
         /\ In(InsertAt(K, at, z), Null) => In(K, Null)
<1> DEFINE L == InsertAt(K, at, z)
<1>1. /\ Len(K) \in Nat /\ Len(L) = Len(K) + 1 /\ L[at] = z
      /\ \A j \in 1 .. at - 1 : L[j] = K[j]
      /\ \A j \in at .. Len(K) : L[j + 1] = K[j]
  <2>1. Len(K) \in Nat
    OBVIOUS
  <2>2. InsertedAt(K, at, z, L)
    BY InsertAtInserts
  <2> HIDE DEF L
  <2> QED BY <2>1, <2>2 DEF InsertedAt
<1> HIDE DEF L
<1> DEFINE old(j) == IF j < at THEN j ELSE j - 1
           new(j) == IF j < at THEN j ELSE j + 1
<1>2. ASSUME NEW j \in 1 .. Len(L), j # at
      PROVE  old(j) \in 1 .. Len(K) /\ L[j] = K[old(j)]
  <2>1. CASE j < at
    BY <1>1, <2>1
  <2>2. CASE ~(j < at)
    <3>1. j - 1 \in at .. Len(K) /\ j - 1 \in 1 .. Len(K) /\ (j - 1) + 1 = j
      BY <1>1, <1>2, <2>2
    <3> QED BY <1>1, <2>2, <3>1
  <2> QED BY <2>1, <2>2
<1>3. ASSUME NEW j \in 1 .. Len(K)
      PROVE  new(j) \in 1 .. Len(L) /\ L[new(j)] = K[j]
  BY <1>1
<1>4. at \in 1 .. Len(L)
  BY <1>1
<1>5. ASSUME NEW u, NEW y, u # z, y # z, Before(L, u, y)
      PROVE  Before(K, u, y)
  <2>1. PICK i, j \in 1 .. Len(L) : i < j /\ L[i] = u /\ L[j] = y
    BY <1>5 DEF Before
  <2>2. i # at /\ j # at
    BY <1>1, <1>5, <2>1
  <2>3. old(i) < old(j)
    BY <1>1, <2>1, <2>2
  <2> HIDE DEF old
  <2> QED BY <1>2, <2>1, <2>2, <2>3 DEF Before
<1>6. \A y : In(L, y) => y = z \/ In(K, y)
  <2> HIDE DEF old
  <2> QED BY <1>1, <1>2 DEF In
<1>7. \A y : In(K, y) => In(L, y)
  <2> HIDE DEF new
  <2> QED BY <1>3 DEF In
<1>8. ASSUME NEW i \in 1 .. Len(K), i < at
      PROVE  Before(L, K[i], z)
  <2>1. i \in 1 .. Len(L) /\ L[i] = K[i]
    BY <1>3, <1>8
  <2> QED BY <1>1, <1>4, <1>8, <2>1 DEF Before
<1>9. In(L, z)
  BY <1>1, <1>4 DEF In
<1> HIDE DEF old, new
<1> QED BY <1>5, <1>6, <1>7, <1>8, <1>9 DEF L, Arranged

\* A list of which a place has been nulled.
LEMMA NullArranged ==
  ASSUME NEW S, NEW K \in Seq(S), NEW at \in 1 .. Len(K), NEW z
  PROVE  Arranged(K, [K EXCEPT ![at] = Null], z)
<1> DEFINE L == [K EXCEPT ![at] = Null]
<1>1. Len(L) = Len(K) /\ Len(K) \in Nat /\ \A j \in 1 .. Len(K) : L[j] = IF j = at THEN Null ELSE K[j]
  OBVIOUS
<1> HIDE DEF L
<1>2. \A y : In(L, y) => y = Null \/ In(K, y)
  BY <1>1 DEF In
<1>3. ASSUME NEW u, NEW y, u # Null, y # Null, Before(L, u, y)
      PROVE  Before(K, u, y)
  <2>1. PICK i, j \in 1 .. Len(L) : i < j /\ L[i] = u /\ L[j] = y
    BY <1>3 DEF Before
  <2> QED BY <1>1, <1>3, <2>1 DEF Before
<1> QED BY <1>2, <1>3 DEF Arranged, L

\* A list of which the nulled places have been dropped.
LEMMA FixArranged ==
  ASSUME NEW S, NEW K \in Seq(S), NEW z
  PROVE  Arranged(K, Keep(K, {k \in DOMAIN K : K[k] # Null}), z)
<1> DEFINE keep == {k \in DOMAIN K : K[k] # Null}
           N    == Cardinality(keep)
           L    == Keep(K, keep)
<1>1. Len(K) \in Nat /\ DOMAIN K = 1 .. Len(K) /\ keep \subseteq DOMAIN K
      /\ \A k \in keep : k \in 1 .. Len(K)
  OBVIOUS
<1>2. Places(keep, Len(K))
  BY <1>1 DEF Places
<1> HIDE DEF keep, N, L
<1>3. PICK place : KeptBy(K, keep, place)
  BY <1>1, <1>2, KeepPlaces
<1>4. /\ N \in Nat /\ place \in [1 .. N -> keep] /\ L = [k \in 1 .. N |-> K[place[k]]]
      /\ \A j, k \in 1 .. N : j < k => place[j] < place[k]
  BY <1>1, <1>2, <1>3, KeepPlaces DEF KeptBy, N, L
<1>5. Len(L) = N /\ \A k \in 1 .. N : L[k] = K[place[k]] /\ place[k] \in 1 .. Len(K)
  <2>1. \A k \in 1 .. N : place[k] \in keep
    BY <1>4
  <2> QED BY <1>1, <1>4, <2>1
<1>6. \A y : In(L, y) => In(K, y)
  BY <1>5 DEF In
<1>7. ASSUME NEW u, NEW y, Before(L, u, y)
      PROVE  Before(K, u, y)
  <2>1. PICK i, j \in 1 .. Len(L) : i < j /\ L[i] = u /\ L[j] = y
    BY <1>7 DEF Before
  <2>2. place[i] < place[j] /\ place[i] \in 1 .. Len(K) /\ place[j] \in 1 .. Len(K)
        /\ K[place[i]] = u /\ K[place[j]] = y
    BY <1>4, <1>5, <2>1
  <2> QED BY <2>2 DEF Before
<1> QED BY <1>6, <1>7 DEF Arranged, L, keep

-----------------------------------------------------------------------------
(* Lists in a walk of a program that declares no name again.               *)

\* Such a program has no redeclaration.
LEMMA NoRedeclaration ==
  ASSUME ~Redeclare, LifeInv, PlainInv
  PROVE  ~VisitRedeclaration
<1> SUFFICES ASSUME VisitRedeclaration PROVE FALSE
  OBVIOUS
<1>1. Visiting({"decl"}) /\ Registered(registry, heap[Visited].name) # {}
  BY DEF VisitRedeclaration, Redeclaring
<1>2. heap[Visited].kind = "decl"
  BY <1>1, VisitedIs DEF LifeInv, WalkInv
<1>3. Fresh(heap, registry, Visited)
  BY <1>1, VisitedPlain
<1> QED BY <1>1, <1>2, <1>3 DEF Fresh

\* What a step does to the list K of the top, which becomes L; z is the
\* address of a new statement.
ListChange(K, L, z) ==
  /\ Arranged(K, L, z)
  /\ Len(heap') # Len(heap) =>
       /\ In(L, z)
       /\ heap'[z].written => ~Top.leaving /\ \A y : ~Before(L, z, y)
       /\ ~heap'[z].written => Top.leaving /\ heap'[z].kind = "unused"
  /\ \A y : y # Null /\ In(K, y) => In(L, y) \/ (y \in freed' /\ heap[y].kind # "unused")
  /\ In(L, Null) => In(K, Null) \/ Here # "block" \/ Top.leaving

\* Every step changes the list of the top in such a way, or no list.
LEMMA ListsNext ==
  ASSUME ~Redeclare, LifeInv, PlainInv, [Next]_vars
  PROVE  \/ heap' = heap
         \/ /\ phase = "walk" /\ Top.id \in 1 .. Len(heap) /\ TreeStep(Top.id)
            /\ ListChange(Kids, heap'[Top.id].kids, Len(heap) + 1)
<1> DEFINE z    == Len(heap) + 1
           L    == heap'[Top.id].kids
           Goal == phase = "walk" /\ Top.id \in 1 .. Len(heap) /\ ListChange(Kids, L, z)
<1>1. /\ TypeInv /\ BlockInv /\ heap \in Seq(NodeType(Len(heap))) /\ Len(heap) \in Nat /\ z # Null
      /\ z \in 0 .. z /\ z # Len(heap)
      /\ phase = "walk" => /\ Top.id \in 1 .. Len(heap) /\ (Top.leaving => Here = "block")
                           /\ Kids \in Seq(0 .. Len(heap)) /\ Kids \in Seq(0 .. z) /\ OnceSeq(Kids)
                           /\ Kids = heap[Top.id].kids
  <2>1. /\ TypeInv /\ BlockInv /\ heap \in Seq(NodeType(Len(heap))) /\ Len(heap) \in Nat /\ z # Null /\ z \in 0 .. z
        /\ z # Len(heap) /\ Once(heap)
    BY TypeInvWalks DEF LifeInv, WalkInv, TypeInv, Null
  <2>2. phase = "walk" => Top.id \in 1 .. Len(heap) /\ (Top.leaving => Here = "block") /\ Kids \in Seq(0 .. Len(heap))
    BY <2>1, TopIs DEF FrameFits, Here
  <2>3. Seq(0 .. Len(heap)) \subseteq Seq(0 .. z)
    BY <2>1
  <2> HIDE DEF z
  <2> QED BY <2>1, <2>2, <2>3 DEF Kids, Once
<1>2. phase = "walk" => ~In(Kids, z)
  BY <1>1, NewInNone
<1>3. ASSUME NEW s \in Shapes, Reveal(s)
      PROVE  Goal
  <2> DEFINE K    == Append(Kids, Len(heap) + 1)
             node == Node(s, Top.id, TRUE)
  <2>1. /\ phase = "walk" /\ K \in Seq(0 .. Len(heap) + 1) /\ node \in NodeType(Len(heap) + 1)
        /\ heap' = Grown(heap, Top.id, K, node)
    BY <1>1, <1>3, RevealIs
  <2>2. node.written /\ ~Top.leaving
    BY <1>1, <1>3, <2>1 DEF Reveal, Node
  <2>3. /\ Arranged(Kids, K, z) /\ (\A y : ~Before(K, z, y)) /\ In(K, z) /\ (\A y : In(Kids, y) => In(K, y))
        /\ In(K, Null) => In(Kids, Null)
    <3> DEFINE x == Len(heap) + 1
    <3>1. x = z
      OBVIOUS
    <3> HIDE DEF z, x
    <3> QED BY <1>1, <1>2, <2>1, <3>1, AppendArranged DEF x
  <2> HIDE DEF K, node
  <2>4. heap'[z] = node /\ L = K
    BY <1>1, <2>1, HeapGrown
  <2> HIDE DEF z, L
  <2> QED BY <1>1, <2>1, <2>2, <2>3, <2>4 DEF ListChange
<1>4. ASSUME RevealNothing, heap' # heap
      PROVE  Goal
  <2>1. /\ phase = "walk" /\ Here # "block" /\ Append(Kids, Null) \in Seq(0 .. Len(heap))
        /\ heap' = WithKids(heap, Top.id, Append(Kids, Null))
    BY <1>1, <1>4, RevealNothingIs
  <2>2. Len(heap') = Len(heap) /\ L = Append(Kids, Null)
    BY <1>1, <2>1, HeapWithKids
  <2> HIDE DEF z, L
  <2>3. Arranged(Kids, L, z) /\ \A y : In(Kids, y) => In(L, y)
    BY <1>1, <1>2, <2>1, <2>2, AppendArranged
  <2> QED BY <1>1, <2>1, <2>2, <2>3 DEF ListChange
<1>5. ASSUME InsertDestroy
      PROVE  Goal
  <2> DEFINE at   == DestroyIndex(Kids, Remaining)
             K    == InsertAt(Kids, at, Len(heap) + 1)
             node == Node(Shape("unused", Remaining.name), Top.id, FALSE)
  <2>1. /\ phase = "walk" /\ Top.leaving /\ at \in 1 .. Len(Kids) + 1 /\ K \in Seq(0 .. Len(heap) + 1)
        /\ node \in NodeType(Len(heap) + 1) /\ heap' = Grown(heap, Top.id, K, node)
    BY <1>1, <1>5, InsertDestroyIs, HandlingIs
  <2>2. ~node.written /\ node.kind = "unused"
    BY DEF Node, Shape
  <2> HIDE DEF node
  <2>3. /\ Arranged(Kids, K, z) /\ In(K, z) /\ (\A y : In(Kids, y) => In(K, y))
    <3>1. K = InsertAt(Kids, at, z)
      OBVIOUS
    <3> HIDE DEF K, z, at
    <3>2. Arranged(Kids, InsertAt(Kids, at, z), z) /\ In(InsertAt(Kids, at, z), z)
          /\ \A y : In(Kids, y) => In(InsertAt(Kids, at, z), y)
      BY <1>1, <1>2, <2>1, InsertArranged
    <3> QED BY <3>1, <3>2
  <2> HIDE DEF K
  <2>4. heap'[z] = node /\ L = K
    BY <1>1, <2>1, HeapGrown
  <2> HIDE DEF z, L
  <2> QED BY <1>1, <2>1, <2>2, <2>3, <2>4 DEF ListChange
<1>6. ASSUME RemoveDeclaration, heap' # heap
      PROVE  Goal
  <2> DEFINE d  == Remaining.declaration
             at == IndexOf(Kids, d)
             K  == [Kids EXCEPT ![at] = Null]
  <2>1. /\ Handling /\ at \in 1 .. Len(Kids) /\ Kids[at] = d /\ K \in Seq(0 .. Len(heap))
        /\ heap' = WithKids(heap, Top.id, K) /\ freed' = freed \cup {d} /\ phase = "walk" /\ Top.leaving
    BY <1>1, <1>6, RemoveDeclarationIs, HandlingIs
  <2>2. d # Null /\ heap[d].kind # "unused"
    BY <1>1, <2>1, RemainingHome DEF Null, Declares
  <2> HIDE DEF d, at
  <2>3. Arranged(Kids, K, z) /\ \A y : y # d /\ In(Kids, y) => In(K, y)
    BY <1>1, <2>1, <2>2, NullArranged, NullList
  <2> HIDE DEF K
  <2>4. Len(heap') = Len(heap) /\ L = K
    BY <1>1, <2>1, HeapWithKids
  <2> HIDE DEF z, L
  <2> QED BY <1>1, <2>1, <2>2, <2>3, <2>4 DEF ListChange
<1>7. ASSUME LeaveBlock
      PROVE  Goal
  <2> DEFINE K == Keep(Kids, {k \in DOMAIN Kids : Kids[k] # Null})
  <2>1. phase = "walk" /\ heap' = WithKids(heap, Top.id, K) /\ K \in Seq(0 .. Len(heap))
    BY <1>1, <1>7, LeaveBlockIs
  <2>2. Arranged(Kids, K, z) /\ (\A y : y # Null /\ In(Kids, y) => In(K, y)) /\ ~In(K, Null)
    BY <1>1, <2>1, FixArranged, FixList
  <2> HIDE DEF K
  <2>3. Len(heap') = Len(heap) /\ L = K
    BY <1>1, <2>1, HeapWithKids
  <2> HIDE DEF z, L
  <2> QED BY <1>1, <2>1, <2>2, <2>3 DEF ListChange
<1> HIDE DEF Goal
<1>8. heap' = heap \/ Goal
  BY <1>3, <1>4, <1>5, <1>6, <1>7, NoRedeclaration
  DEF Next, vars, VisitNull, VisitDecl, ThrowRedeclaration, VisitUnused, VisitAlias, VisitExpr,
      EnterBranches, LeaveBranches, EnterBlock, EndOfStatements
<1> QED BY <1>8, TreeNext DEF Goal

\* Statements of the source stand in the order they were written in.
InOrder(h) ==
  \A n \in 1 .. Len(h) : \A x, y :
     /\ x # Null /\ y # Null /\ Before(h[n].kids, x, y)
     /\ h[x].written /\ h[y].written
     => x < y

\* What the walk has inserted are destroys.
Inserted(h) == \A n \in 1 .. Len(h) : ~h[n].written => h[n].kind = "unused"

\* Nothing has been inserted into a list that is still walked.
PlainLists(h, st) ==
  \A f \in 1 .. Len(st) :
     ~st[f].leaving => \A x : x # Null /\ In(h[st[f].id].kids, x) => h[x].written

\* A statement stands in its list until it is deleted.
AllListed(h, fd) == \A n \in 2 .. Len(h) : n \in fd \/ Listed(h, n)

\* Block n is not being left.
Staying(st, n) == \A f \in 1 .. Len(st) : st[f].id = n => ~st[f].leaving

\* Only the list of a block that is being left has nulled places.
NullFree(h, st) == \A n \in 1 .. Len(h) : h[n].kind = "block" /\ Staying(st, n) => ~In(h[n].kids, Null)

\* Statements of lists, before a step and after.
LEMMA KidsRange ==
  ASSUME NEW h, h \in Seq(NodeType(Len(h))), Len(h) \in Nat, NEW n \in 1 .. Len(h)
  PROVE  /\ Len(h[n].kids) \in Nat
         /\ \A x : In(h[n].kids, x) => x \in 0 .. Len(h) /\ (x # Null => x \in 1 .. Len(h))
         /\ \A x, y : Before(h[n].kids, x, y) => In(h[n].kids, x) /\ In(h[n].kids, y)
<1>1. h[n].kids \in Seq(0 .. Len(h))
  <2>1. h[n] \in NodeType(Len(h))
    OBVIOUS
  <2> QED BY <2>1 DEF NodeType
<1> DEFINE K == h[n].kids
<1> HIDE DEF K
<1>2. K \in Seq(0 .. Len(h))
  BY <1>1 DEF K
<1>3. Len(K) \in Nat /\ \A j \in 1 .. Len(K) : K[j] \in 0 .. Len(h)
  BY <1>2
<1>4. \A x : In(K, x) => x \in 0 .. Len(h) /\ (x # Null => x \in 1 .. Len(h))
  BY <1>3 DEF In, Null
<1>5. \A x, y : Before(K, x, y) => In(K, x) /\ In(K, y)
  BY DEF Before, In
<1> QED BY <1>3, <1>4, <1>5 DEF K

\* A statement is what it was.
LEMMA NodesStay ==
  ASSUME LifeInv, [Next]_vars, NEW n \in 1 .. Len(heap)
  PROVE  /\ SameNode(heap[n], heap'[n]) /\ n \in 1 .. Len(heap')
<1>1. Extends(heap, heap') /\ Len(heap) \in Nat /\ Len(heap') \in Nat
  BY HeapNext
<1> QED BY <1>1 DEF Extends

\* A statement that stands in a list after a step stood there before, or is
\* the new one.
LEMMA ListedNext ==
  ASSUME ~Redeclare, LifeInv, PlainInv, [Next]_vars, NEW n \in 1 .. Len(heap'), NEW x, x # Null, In(heap'[n].kids, x)
  PROVE  \/ n \in 1 .. Len(heap) /\ In(heap[n].kids, x) /\ x \in 1 .. Len(heap)
         \/ /\ n = Top.id /\ phase = "walk" /\ n \in 1 .. Len(heap)
            /\ x = Len(heap) + 1 /\ Len(heap') = Len(heap) + 1
<1>1. /\ heap \in Seq(NodeType(Len(heap))) /\ Len(heap) \in Nat
      /\ heap' \in Seq(NodeType(Len(heap'))) /\ Len(heap') \in Nat
  BY HeapNext
<1>2. \A m \in 1 .. Len(heap) : In(heap[m].kids, x) => x \in 1 .. Len(heap)
  BY <1>1, KidsRange
<1>3. CASE heap' = heap
  BY <1>2, <1>3
<1>4. CASE heap' # heap
  <2>1. phase = "walk" /\ Top.id \in 1 .. Len(heap) /\ TreeStep(Top.id) /\ ListChange(Kids, heap'[Top.id].kids, Len(heap) + 1)
    BY <1>4, ListsNext
  <2>2. CASE n = Top.id
    <3>1. x = Len(heap) + 1 \/ In(heap[n].kids, x)
      BY <2>1, <2>2 DEF ListChange, Arranged, Kids
    <3>2. x = Len(heap) + 1 => Len(heap') = Len(heap) + 1
      <4>1. x \in 1 .. Len(heap')
        BY <1>1, KidsRange
      <4> QED BY <1>1, <2>1, <4>1 DEF TreeStep
    <3> QED BY <1>2, <2>1, <2>2, <3>1, <3>2
  <2>3. CASE n # Top.id /\ n \in 1 .. Len(heap)
    BY <1>2, <2>1, <2>3 DEF TreeStep
  <2>4. CASE n \notin 1 .. Len(heap)
    <3>1. heap'[n].kids = << >>
      BY <1>1, <2>1, <2>4 DEF TreeStep
    <3> QED BY <3>1 DEF In
  <2> QED BY <2>2, <2>3, <2>4
<1> QED BY <1>3, <1>4

\* So does a pair of them.
LEMMA BeforeNext ==
  ASSUME ~Redeclare, LifeInv, PlainInv, [Next]_vars, NEW n \in 1 .. Len(heap'), NEW x, NEW y, x # Null, y # Null,
         Before(heap'[n].kids, x, y)
  PROVE  \/ n \in 1 .. Len(heap) /\ Before(heap[n].kids, x, y) /\ x \in 1 .. Len(heap) /\ y \in 1 .. Len(heap)
         \/ n = Top.id /\ x = Len(heap) + 1 /\ ~heap'[x].written /\ Len(heap') = Len(heap) + 1
         \/ n = Top.id /\ y = Len(heap) + 1 /\ x \in 1 .. Len(heap) /\ Len(heap') = Len(heap) + 1
<1>1. /\ heap \in Seq(NodeType(Len(heap))) /\ Len(heap) \in Nat
      /\ heap' \in Seq(NodeType(Len(heap'))) /\ Len(heap') \in Nat
  BY HeapNext
<1>2. In(heap'[n].kids, x) /\ In(heap'[n].kids, y)
  BY <1>1, KidsRange
<1>3. CASE heap' = heap
  <2>1. x \in 1 .. Len(heap) /\ y \in 1 .. Len(heap)
    BY <1>1, <1>2, <1>3, KidsRange
  <2> QED BY <1>3, <2>1
<1>4. CASE heap' # heap /\ n = Top.id
  <2>1. TreeStep(Top.id) /\ ListChange(Kids, heap'[Top.id].kids, Len(heap) + 1)
    BY <1>4, ListsNext
  <2>2. CASE x # Len(heap) + 1 /\ y # Len(heap) + 1
    <3>1. Before(heap[n].kids, x, y)
      BY <1>4, <2>1, <2>2 DEF ListChange, Arranged, Kids
    <3> QED BY <1>2, <2>2, <3>1, ListedNext
  <2>3. CASE x = Len(heap) + 1
    <3>0. x \notin 1 .. Len(heap)
      BY <1>1, <2>3
    <3>1. Len(heap') = Len(heap) + 1
      BY <1>2, <3>0, ListedNext
    <3>2. Len(heap') # Len(heap)
      BY <1>1, <3>1
    <3> QED BY <1>4, <2>1, <2>3, <3>1, <3>2 DEF ListChange
  <2>4. CASE x # Len(heap) + 1 /\ y = Len(heap) + 1
    <3>1. x \in 1 .. Len(heap)
      BY <1>2, <2>4, ListedNext
    <3>2. Len(heap') = Len(heap) + 1
      BY <1>1, <1>2, <2>4, ListedNext
    <3> QED BY <1>4, <2>4, <3>1, <3>2
  <2> QED BY <2>2, <2>3, <2>4
<1>5. CASE heap' # heap /\ n # Top.id
  <2>1. TreeStep(Top.id)
    BY <1>5, ListsNext
  <2>2. n \in 1 .. Len(heap) /\ x \in 1 .. Len(heap) /\ y \in 1 .. Len(heap)
    BY <1>2, <1>5, ListedNext
  <2> QED BY <1>5, <2>1, <2>2 DEF TreeStep
<1> QED BY <1>3, <1>4, <1>5

\* Statements stay in order.
LEMMA InOrderNext ==
  ASSUME ~Redeclare, LifeInv, PlainInv, InOrder(heap), [Next]_vars
  PROVE  InOrder(heap')
<1> SUFFICES ASSUME NEW n \in 1 .. Len(heap'), NEW x, NEW y, x # Null, y # Null,
                    Before(heap'[n].kids, x, y), heap'[x].written, heap'[y].written
             PROVE  x < y
  BY DEF InOrder
<1>1. CASE n \in 1 .. Len(heap) /\ Before(heap[n].kids, x, y) /\ x \in 1 .. Len(heap) /\ y \in 1 .. Len(heap)
  <2>1. heap[x].written /\ heap[y].written
    BY <1>1, NodesStay DEF SameNode
  <2> QED BY <1>1, <2>1 DEF InOrder
<1>2. CASE y = Len(heap) + 1 /\ x \in 1 .. Len(heap)
  BY <1>2, HeapNext
<1> QED BY <1>1, <1>2, BeforeNext

\* Only destroys are inserted.
LEMMA InsertedNext ==
  ASSUME ~Redeclare, LifeInv, PlainInv, Inserted(heap), [Next]_vars
  PROVE  Inserted(heap')
<1> SUFFICES ASSUME NEW n \in 1 .. Len(heap'), ~heap'[n].written PROVE heap'[n].kind = "unused"
  BY DEF Inserted
<1>1. Len(heap) \in Nat /\ Len(heap') \in Nat
  BY HeapNext
<1>2. CASE n \in 1 .. Len(heap)
  BY <1>2, NodesStay DEF SameNode, Inserted
<1>3. CASE n \notin 1 .. Len(heap)
  <2>1. Len(heap') # Len(heap)
    BY <1>3
  <2>2. n = Len(heap) + 1
    BY <1>1, <1>3, <2>1, NewStatement
  <2> QED BY <2>1, <2>2, ListsNext DEF ListChange
<1> QED BY <1>2, <1>3

\* The top is the only activation of its statement, and the only one that may
\* be left.
LEMMA OneTop ==
  ASSUME LifeInv, phase = "walk", NEW f \in 1 .. Len(stack)
  PROVE  /\ stack[f].id = Top.id => stack[f] = Top
         /\ stack[f].leaving => stack[f] = Top
<1>1. /\ StackFits(heap, registry, stack) /\ Len(stack) \in 1 .. Len(stack) /\ Top = stack[Len(stack)]
      /\ TypeInv /\ BlockInv
  BY TopIs DEF LifeInv, WalkInv, TypeInv, Top
<1>2. f < Len(stack) \/ f = Len(stack)
  BY <1>1
<1>3. f < Len(stack) => stack[f].id # Top.id
  BY <1>1, BelowElsewhere
<1> QED BY <1>1, <1>2, <1>3 DEF StackFits

\* Nothing is inserted into lists that are still walked.
LEMMA PlainListsNext ==
  ASSUME ~Redeclare, LifeInv, PlainInv, PlainLists(heap, stack), [Next]_vars
  PROVE  PlainLists(heap', stack')
<1> SUFFICES ASSUME NEW f \in 1 .. Len(stack'), ~stack'[f].leaving, NEW x, x # Null,
                    In(heap'[stack'[f].id].kids, x)
             PROVE  heap'[x].written
  BY DEF PlainLists
<1> DEFINE n == stack'[f].id
<1>1. /\ n \in 1 .. Len(heap') /\ Len(heap) \in Nat
  BY LifeNext, TypeInvWalks DEF LifeInv, WalkInv, Walks
<1>2. ~(n = Len(heap) /\ heap'[Len(heap)].kids = << >>)
  BY DEF In
<1>3. PICK g \in 1 .. Len(stack) : n = stack[g].id /\ ~stack[g].leaving
  BY <1>2, FramesNext DEF OldFrame
<1> HIDE DEF n
<1>4. In(heap'[n].kids, x)
  BY DEF n
<1>5. CASE In(heap[n].kids, x) /\ x \in 1 .. Len(heap)
  <2>1. heap[x].written
    BY <1>3, <1>5 DEF PlainLists
  <2> QED BY <1>5, <2>1, NodesStay DEF SameNode
<1>6. CASE n = Top.id /\ phase = "walk" /\ x = Len(heap) + 1 /\ Len(heap') = Len(heap) + 1
  <2>1. ~Top.leaving
    BY <1>3, <1>6, OneTop
  <2>2. Len(heap') # Len(heap)
    BY <1>1, <1>6
  <2> QED BY <1>6, <2>1, <2>2, ListsNext DEF ListChange
<1> QED BY <1>1, <1>4, <1>5, <1>6, ListedNext

\* What is deleted stays deleted.
LEMMA FreedStays ==
  ASSUME [Next]_vars
  PROVE  freed \subseteq freed'
BY DEF Next, vars, Reveal, RevealNothing, VisitNull, VisitDecl, ThrowRedeclaration, VisitRedeclaration,
    VisitUnused, VisitAlias, VisitExpr, EnterBranches, LeaveBranches, EnterBlock, EndOfStatements,
    RemoveDeclaration, InsertDestroy, LeaveBlock

\* Statements stay in their lists until they are deleted.
LEMMA AllListedNext ==
  ASSUME ~Redeclare, LifeInv, PlainInv, AllListed(heap, freed), [Next]_vars
  PROVE  AllListed(heap', freed')
<1>0. freed \subseteq freed'
  BY FreedStays
<1> SUFFICES ASSUME NEW n \in 2 .. Len(heap'), n \notin freed' PROVE Listed(heap', n)
  BY DEF AllListed
<1>1. /\ Len(heap) \in Nat /\ Len(heap') \in Nat /\ TreeOK(heap) /\ KidsOK(heap) /\ heap \in Seq(NodeType(Len(heap)))
  BY HeapNext DEF LifeInv, WalkInv, BlockInv
<1>2. CASE n \in 2 .. Len(heap)
  <2> DEFINE p == heap[n].parent
  <2>1. n # Null /\ n \in 1 .. Len(heap) /\ p \in 1 .. Len(heap) /\ heap'[n].parent = p
    <3>1. n # Null /\ n \in 1 .. Len(heap) /\ p \in 1 .. n - 1
      BY <1>1, <1>2 DEF TreeOK, Null
    <3>2. p \in 1 .. Len(heap)
      BY <1>1, <3>1
    <3> QED BY <3>1, <3>2, NodesStay DEF SameNode
  <2>2. In(heap[p].kids, n)
    BY <1>0, <1>2 DEF AllListed, Listed
  <2> HIDE DEF p
  <2>3. CASE heap' = heap
    BY <2>1, <2>2, <2>3 DEF Listed
  <2>4. CASE heap' # heap
    <3>1. TreeStep(Top.id) /\ ListChange(Kids, heap'[Top.id].kids, Len(heap) + 1)
      BY <2>4, ListsNext
    <3>2. CASE p = Top.id
      BY <2>1, <2>2, <3>1, <3>2 DEF ListChange, Kids, Listed
    <3>3. CASE p # Top.id
      BY <2>1, <2>2, <3>1, <3>3 DEF TreeStep, Listed
    <3> QED BY <3>2, <3>3
  <2> QED BY <2>3, <2>4
<1>3. CASE n \notin 2 .. Len(heap)
  <2>0. Len(heap) >= 1
    BY <1>1 DEF TreeOK
  <2>1. Len(heap') # Len(heap)
    BY <1>3
  <2>2. n = Len(heap) + 1
    BY <1>1, <1>3, <2>0, <2>1, NewStatement
  <2>3. TreeStep(Top.id) /\ ListChange(Kids, heap'[Top.id].kids, Len(heap) + 1)
    BY <2>1, ListsNext
  <2> QED BY <2>1, <2>2, <2>3 DEF ListChange, TreeStep, Listed
<1> QED BY <1>2, <1>3

\* Once a block is being left, nothing else happens before it is.
LEMMA LeavingSteps ==
  ASSUME LifeInv, phase = "walk", Top.leaving, [Next]_vars
  PROVE  RemoveDeclaration \/ InsertDestroy \/ LeaveBlock \/ UNCHANGED vars
<1>1. Here = "block"
  BY TopIs DEF LifeInv, WalkInv, FrameFits, Here
<1> QED
  BY <1>1
  DEF Next, Reveal, RevealNothing, VisitNull, VisitDecl, ThrowRedeclaration, VisitRedeclaration, Redeclaring,
      VisitUnused, VisitAlias, VisitExpr, EnterBranches, LeaveBranches, EnterBlock, EndOfStatements, Visiting

\* The activation of a block that is being left.
LEMMA HandledTop ==
  ASSUME LifeInv, RemoveDeclaration \/ InsertDestroy
  PROVE  \/ UNCHANGED <<heap, freed, registry, stack>>
         \/ /\ stack' = SetTop([Top EXCEPT !.pending = Tail(@)])
            /\ stack' # << >> /\ stack'[Len(stack')] = [Top EXCEPT !.pending = Tail(@)]
            /\ stack'[Len(stack')].id = Top.id /\ stack'[Len(stack')].leaving
            /\ stack'[Len(stack')].pending = Tail(Top.pending)
<1> DEFINE fr == [Top EXCEPT !.pending = Tail(@)]
<1>1. TypeInv /\ Handling
  BY DEF LifeInv, WalkInv, RemoveDeclaration, InsertDestroy
<1>2. phase = "walk" /\ Top.leaving /\ Top \in FrameOf(registry)
  BY <1>1, TopIs DEF Handling
<1>3. fr.id = Top.id /\ fr.leaving /\ fr.pending = Tail(Top.pending)
  BY <1>2 DEF FrameOf
<1>4. UNCHANGED <<heap, freed, registry, stack>> \/ stack' = SetTop(fr)
  BY <1>1, RemoveDeclarationIs, InsertDestroyIs
<1>5. stack' = SetTop(fr) => stack' # << >> /\ stack'[Len(stack')] = fr
  BY <1>1, <1>2, NewTop DEF Top
<1> HIDE DEF fr
<1> QED BY <1>3, <1>4, <1>5 DEF fr

\* A block that is being left goes on being left, or has no nulled place.
LEMMA LeavingNext ==
  ASSUME LifeInv, phase = "walk", Top.leaving, [Next]_vars, Staying(stack', Top.id)
  PROVE  LeaveBlock /\ ~In(heap'[Top.id].kids, Null)
<1>1. TypeInv /\ BlockInv /\ Len(stack) \in 1 .. Len(stack) /\ Top = stack[Len(stack)] /\ Top.id \in 1 .. Len(heap)
      /\ Kids \in Seq(0 .. Len(heap)) /\ OnceSeq(Kids) /\ heap \in Seq(NodeType(Len(heap)))
  BY TopIs DEF LifeInv, WalkInv, Top, Kids, Once, TypeInv
<1>2. ~UNCHANGED <<heap, freed, registry, stack>>
  BY <1>1 DEF Staying
<1>3. ~(RemoveDeclaration \/ InsertDestroy)
  <2> SUFFICES ASSUME RemoveDeclaration \/ InsertDestroy PROVE FALSE
    OBVIOUS
  <2>1. stack' # << >> /\ stack'[Len(stack')].id = Top.id /\ stack'[Len(stack')].leaving
    BY <1>2, HandledTop
  <2>2. Len(stack') \in 1 .. Len(stack')
    <3>1. stack' \in Seq(FrameOf(registry'))
      BY LifeNext, TypeInvWalks DEF LifeInv, WalkInv
    <3> QED BY <2>1, <3>1
  <2> QED BY <2>1, <2>2 DEF Staying
<1>4. LeaveBlock
  BY <1>2, <1>3, LeavingSteps DEF vars
<1> DEFINE K == Keep(Kids, {k \in DOMAIN Kids : Kids[k] # Null})
<1>5. heap' = WithKids(heap, Top.id, K) /\ K \in Seq(0 .. Len(heap))
  BY <1>1, <1>4, LeaveBlockIs
<1>6. ~In(K, Null)
  BY <1>1, FixList
<1> HIDE DEF K
<1>7. heap'[Top.id].kids = K
  BY <1>1, <1>5, HeapWithKids
<1> QED BY <1>4, <1>6, <1>7

\* Nulled places go with the block.
LEMMA NullFreeNext ==
  ASSUME ~Redeclare, LifeInv, PlainInv, NullFree(heap, stack), [Next]_vars
  PROVE  NullFree(heap', stack')
<1> SUFFICES ASSUME NEW n \in 1 .. Len(heap'), heap'[n].kind = "block", Staying(stack', n), In(heap'[n].kids, Null)
             PROVE  FALSE
  BY DEF NullFree
<1>1. Len(heap) \in Nat /\ Len(heap') \in Nat
  BY HeapNext
<1>2. n \in 1 .. Len(heap)
  <2> SUFFICES ASSUME n \notin 1 .. Len(heap) PROVE FALSE
    OBVIOUS
  <2>1. heap'[n].kids = << >>
    BY <1>1, ListsNext DEF TreeStep
  <2> QED BY <2>1 DEF In
<1>3. heap[n].kind = "block"
  BY <1>2, NodesStay DEF SameNode
<1>4. ASSUME phase = "walk", n = Top.id, Top.leaving
      PROVE  FALSE
  BY <1>4, LeavingNext
<1>5. CASE In(heap[n].kids, Null)
  <2>1. PICK g \in 1 .. Len(stack) : stack[g].id = n /\ stack[g].leaving
    BY <1>2, <1>3, <1>5 DEF NullFree, Staying
  <2>2. CASE phase = "walk"
    BY <1>4, <2>1, <2>2, OneTop
  <2>3. CASE phase # "walk"
    <3>1. stack' = stack
      BY <2>3
      DEF Next, vars, Reveal, RevealNothing, VisitNull, VisitDecl, ThrowRedeclaration, VisitRedeclaration,
          Redeclaring, VisitUnused, VisitAlias, VisitExpr, EnterBranches, LeaveBranches, EnterBlock,
          EndOfStatements, RemoveDeclaration, InsertDestroy, LeaveBlock, Visiting, Handling
    <3> QED BY <2>1, <3>1 DEF Staying
  <2> QED BY <2>2, <2>3
<1>6. CASE ~In(heap[n].kids, Null)
  <2>1. heap' # heap
    BY <1>6
  <2>2. phase = "walk" /\ TreeStep(Top.id) /\ ListChange(Kids, heap'[Top.id].kids, Len(heap) + 1)
    BY <2>1, ListsNext
  <2>3. n = Top.id
    BY <1>2, <1>6, <2>2 DEF TreeStep
  <2>4. Top.leaving
    BY <1>3, <1>6, <2>2, <2>3 DEF ListChange, Kids, Here
  <2> QED BY <1>4, <2>2, <2>3, <2>4
<1> QED BY <1>5, <1>6

-----------------------------------------------------------------------------
(* What an entry says of its variable.                                     *)

\* e may be destroyed early if its declaration says so; its usages are
\* statements of the source, none before the declaration and none after the
\* last of them.
Sound(h, e) ==
  /\ e.declaration # Null /\ h[e.declaration].kind = "decl" => e.auto = h[e.declaration].auto
  /\ \A j \in 1 .. Len(e.usage) : /\ h[e.usage[j]].written
                                  /\ e.declaration <= e.usage[j]
                                  /\ e.usage[j] <= e.usage[Len(e.usage)]

AllSound(h, r) == \A k \in 1 .. Len(r) : Sound(h, r[k])

\* A statement at the end of the heap is a later usage than all others.
LEMMA SoundUsed ==
  ASSUME NEW h, NEW m \in Nat, NEW r \in Seq(EntryType(m)), AllSound(h, r), NEW names, m \in 1 .. m, h[m].written
  PROVE  AllSound(h, UsedVariables(r, names, m))
<1> DEFINE q == UsedVariables(r, names, m)
<1>1. DOMAIN r = 1 .. Len(r) /\ \A k \in 1 .. Len(r) : r[k] \in EntryType(m)
  OBVIOUS
<1>2. \A k \in 1 .. Len(r) : q[k] = r[k] \/ q[k] = [r[k] EXCEPT !.usage = Append(@, m)]
  BY <1>1 DEF UsedVariables
<1>3. Len(q) = Len(r)
  BY UsedVariablesIs
<1> HIDE DEF q
<1>4. ASSUME NEW k \in 1 .. Len(r), q[k] = [r[k] EXCEPT !.usage = Append(@, m)]
      PROVE  Sound(h, q[k])
  <2> DEFINE U == r[k].usage
             V == Append(U, m)
  <2>1. q[k].usage = V /\ q[k].declaration = r[k].declaration /\ q[k].auto = r[k].auto
        /\ U \in Seq(1 .. m) /\ r[k].declaration \in 0 .. m
    BY <1>1, <1>4 DEF EntryType
  <2>2. Len(U) \in Nat /\ \A j \in 1 .. Len(U) : U[j] \in 1 .. m
    BY <2>1
  <2>3. Len(V) = Len(U) + 1 /\ V[Len(V)] = m /\ \A j \in 1 .. Len(U) : V[j] = U[j]
    BY <2>1
  <2>4. Sound(h, r[k])
    BY DEF AllSound
  <2> HIDE DEF V
  <2>5. ASSUME NEW j \in 1 .. Len(V)
        PROVE  h[V[j]].written /\ r[k].declaration <= V[j] /\ V[j] <= V[Len(V)]
    <3>1. CASE j \in 1 .. Len(U)
      BY <2>1, <2>2, <2>3, <2>4, <3>1 DEF Sound
    <3>2. CASE j = Len(U) + 1
      BY <2>1, <2>3, <3>2
    <3> QED BY <2>2, <2>3, <3>1, <3>2
  <2> QED BY <2>1, <2>4, <2>5 DEF Sound
<1>5. \A k \in 1 .. Len(r) : Sound(h, q[k])
  BY <1>2, <1>4 DEF AllSound
<1> QED BY <1>3, <1>5 DEF q, AllSound

\* Entries that stay are what they were.
LEMMA SoundKept ==
  ASSUME NEW h, NEW S, NEW r \in Seq(S), AllSound(h, r), NEW keep, keep \subseteq DOMAIN r
  PROVE  AllSound(h, Keep(r, keep))
<1>1. Selects(r, keep, Keep(r, keep)) /\ Keep(r, keep) \in Seq(S)
  BY KeepSeq
<1> DEFINE q == Keep(r, keep)
<1> HIDE DEF q
<1>2. DOMAIN q = 1 .. Len(q) /\ \A p \in keep : p \in 1 .. Len(r)
  BY <1>1 DEF q
<1>3. \A k \in 1 .. Len(q) : Sound(h, q[k])
  BY <1>1, <1>2 DEF q, Selects, AllSound
<1> QED BY <1>3 DEF q, AllSound

\* A new entry has no usages.
LEMMA SoundAppended ==
  ASSUME NEW h, NEW S, NEW r \in Seq(S), AllSound(h, r), NEW e \in S, Sound(h, e)
  PROVE  AllSound(h, Append(r, e))
<1>1. Len(Append(r, e)) = Len(r) + 1 /\ Len(r) \in Nat
      /\ \A k \in 1 .. Len(r) : Append(r, e)[k] = r[k]
      /\ Append(r, e)[Len(r) + 1] = e
  OBVIOUS
<1> DEFINE q == Append(r, e)
<1> HIDE DEF q
<1>2. \A k \in 1 .. Len(q) : k \in 1 .. Len(r) \/ k = Len(r) + 1
  BY <1>1 DEF q
<1>3. \A k \in 1 .. Len(q) : Sound(h, q[k])
  BY <1>1, <1>2 DEF q, AllSound
<1> QED BY <1>3 DEF q, AllSound

\* An entry without declaration is as sound.
LEMMA SoundNulled ==
  ASSUME NEW h, NEW m \in Nat, NEW r \in Seq(EntryType(m)), AllSound(h, r), NEW k0 \in 1 .. Len(r)
  PROVE  AllSound(h, Nulled(r, k0))
<1> DEFINE q == Nulled(r, k0)
<1>1. /\ Len(q) = Len(r)
      /\ \A j \in 1 .. Len(r) : /\ q[j].auto = r[j].auto /\ q[j].usage = r[j].usage
                                /\ q[j].declaration = IF j = k0 THEN Null ELSE r[j].declaration
  BY NulledIs
<1>2. \A k \in 1 .. Len(r) : r[k].usage \in Seq(1 .. m)
  <2>1. \A k \in 1 .. Len(r) : r[k] \in EntryType(m)
    OBVIOUS
  <2> QED BY <2>1 DEF EntryType
<1> HIDE DEF q
<1>3. ASSUME NEW k \in 1 .. Len(r)
      PROVE  Sound(h, q[k])
  <2>1. CASE k = k0
    <3>1. \A j \in 1 .. Len(r[k].usage) : r[k].usage[j] \in 1 .. m
      BY <1>2
    <3>2. Sound(h, r[k])
      BY DEF AllSound
    <3> QED BY <1>1, <2>1, <3>1, <3>2 DEF Sound, Null
  <2>2. CASE k # k0
    BY <1>1, <2>2 DEF Sound, AllSound
  <2> QED BY <2>1, <2>2
<1> QED BY <1>1, <1>3 DEF AllSound, q

\* An entry stays sound in a larger program.
LEMMA SoundStays ==
  ASSUME LifeInv, [Next]_vars, NEW r \in Seq(EntryType(Len(heap))), AllSound(heap, r)
  PROVE  AllSound(heap', r)
<1>1. Len(heap) \in Nat /\ \A k \in 1 .. Len(r) : r[k] \in EntryType(Len(heap))
  BY HeapNext
<1>2. ASSUME NEW k \in 1 .. Len(r)
      PROVE  Sound(heap', r[k])
  <2>1. r[k].declaration \in 0 .. Len(heap) /\ r[k].usage \in Seq(1 .. Len(heap))
    BY <1>1 DEF EntryType
  <2>2. \A j \in 1 .. Len(r[k].usage) : r[k].usage[j] \in 1 .. Len(heap)
    BY <2>1
  <2>3. r[k].declaration # Null => r[k].declaration \in 1 .. Len(heap)
    BY <1>1, <2>1 DEF Null
  <2>4. \A n \in 1 .. Len(heap) : heap'[n].written = heap[n].written /\ heap'[n].kind = heap[n].kind
                                  /\ heap'[n].auto = heap[n].auto
    BY NodesStay DEF SameNode
  <2>5. Sound(heap, r[k])
    BY DEF AllSound
  <2> QED BY <2>2, <2>3, <2>4, <2>5 DEF Sound
<1> QED BY <1>2 DEF AllSound

\* The visited statement is the last one, and of the source.
LEMMA VisitedLast ==
  ASSUME LifeInv, PlainInv, PlainLists(heap, stack), NEW kinds, Visiting(kinds)
  PROVE  /\ Visited = Len(heap) /\ Len(heap) \in 1 .. Len(heap) /\ Len(heap) \in Nat
         /\ heap[Visited].written /\ heap[Visited].kind \in kinds
         /\ In(Kids, Visited) /\ ~Top.leaving /\ phase = "walk"
         /\ Top.id \in 1 .. Len(heap) /\ heap[Visited] \in NodeType(Len(heap))
<1>1. /\ TypeInv /\ BlockInv /\ Len(stack) \in 1 .. Len(stack) /\ Top = stack[Len(stack)] /\ Len(heap) \in Nat
      /\ Top.id \in 1 .. Len(heap)
  BY TopIs DEF LifeInv, WalkInv, Top, Visiting
<1>2. /\ phase = "walk" /\ ~Top.leaving /\ Visited \in 1 .. Len(heap) /\ heap[Visited].kind \in kinds
      /\ heap[Visited] \in NodeType(Len(heap))
  BY <1>1, VisitedIs
<1>3. Visited = Len(heap)
  BY VisitedPlain DEF Fresh
<1>4. In(Kids, Visited)
  BY <1>1, VisitedBelow
<1>5. Visited # Null
  BY <1>2 DEF Null
<1>6. heap[Visited].written
  BY <1>1, <1>2, <1>4, <1>5 DEF PlainLists, Kids
<1> QED BY <1>1, <1>2, <1>3, <1>4, <1>6

\* A new entry is sound.
LEMMA EntrySound ==
  ASSUME NEW h, NEW id, NEW a, h[id].kind = "decl" => a = h[id].auto, NEW x
  PROVE  Sound(h, Entry(x, id, a))
<1>1. /\ Entry(x, id, a).usage = << >> /\ Entry(x, id, a).declaration = id /\ Entry(x, id, a).auto = a
  BY DEF Entry
<1>2. 1 .. Len(Entry(x, id, a).usage) = {}
  BY <1>1
<1> QED BY <1>1, <1>2 DEF Sound

\* Entries stay sound.
LEMMA SoundNext ==
  ASSUME ~Redeclare, LifeInv, PlainInv, PlainLists(heap, stack), AllSound(heap, registry), [Next]_vars
  PROVE  AllSound(heap', registry')
<1> DEFINE Goal == registry' \in Seq(EntryType(Len(heap))) /\ AllSound(heap, registry')
<1>1. /\ Len(heap) \in Nat /\ registry \in Seq(EntryType(Len(heap))) /\ TypeInv /\ currentScope \in Nat
      /\ BlockInv /\ heap \in Seq(NodeType(Len(heap))) /\ DOMAIN registry = 1 .. Len(registry)
  BY HeapNext DEF LifeInv, WalkInv
<1>2. CASE registry' = registry
  BY <1>1, <1>2, SoundStays
<1>3. ASSUME NEW kinds, Visiting(kinds), registry' = UsedVariables(registry, heap[Visited].uses, Visited)
      PROVE  Goal
  BY <1>1, <1>3, VisitedLast, SoundUsed, UsedVariablesIs
<1>4. ASSUME VisitDecl
      PROVE  Goal
  <2> DEFINE v == Visited
             e == Entry(heap[v].name, v, heap[v].auto)
             r == Append(registry, e)
  <2>1. Visiting({"decl"}) /\ registry' = UsedVariables(r, heap[v].uses, v)
    BY <1>4 DEF VisitDecl, Declare
  <2>2. /\ v = Len(heap) /\ v \in 1 .. Len(heap) /\ heap[v].written /\ v \in 0 .. Len(heap)
        /\ heap[v].name \in Names /\ heap[v].auto \in BOOLEAN
    <3>1. v = Len(heap) /\ v \in 1 .. Len(heap) /\ heap[v].written /\ heap[v] \in NodeType(Len(heap))
      BY <2>1, VisitedLast
    <3> HIDE DEF v
    <3> QED BY <1>1, <3>1 DEF NodeType
  <2> HIDE DEF v
  <2>3. e \in EntryType(Len(heap)) /\ Sound(heap, e)
    BY <1>1, <2>2, EntryIs, EntrySound
  <2> HIDE DEF e
  <2>4. r \in Seq(EntryType(Len(heap))) /\ AllSound(heap, r)
    BY <1>1, <2>3, SoundAppended
  <2> HIDE DEF r
  <2> QED BY <1>1, <2>1, <2>2, <2>4, SoundUsed, UsedVariablesIs
<1>5. ASSUME VisitAlias, registry' # registry
      PROVE  Goal
  <2> DEFINE v == Visited
             e == Entry(heap[v].name, v, FALSE)
  <2>1. Visiting({"alias"}) /\ registry' = Append(registry, e)
    BY <1>5 DEF VisitAlias
  <2>2. /\ v \in 0 .. Len(heap) /\ heap[v].name \in Names /\ heap[v].kind = "alias"
    <3>1. v = Len(heap) /\ v \in 1 .. Len(heap) /\ heap[v].kind = "alias" /\ heap[v] \in NodeType(Len(heap))
      BY <2>1, VisitedLast
    <3> HIDE DEF v
    <3> QED BY <1>1, <3>1 DEF NodeType
  <2> HIDE DEF v
  <2>3. e \in EntryType(Len(heap)) /\ Sound(heap, e)
    BY <1>1, <2>2, EntryIs, EntrySound
  <2> HIDE DEF e
  <2> QED BY <1>1, <2>1, <2>3, SoundAppended
<1>6. ASSUME VisitUnused
      PROVE  Goal
  <2>1. registry' = RemoveVariable(registry, heap[Visited].name)
    BY <1>6 DEF VisitUnused
  <2>2. {k \in DOMAIN registry : registry[k].name # heap[Visited].name} \subseteq DOMAIN registry
    OBVIOUS
  <2> QED BY <1>1, <2>1, <2>2, SoundKept, KeepSeq DEF RemoveVariable
<1>7. ASSUME LeaveBlock
      PROVE  Goal
  <2>1. registry' = RemoveScope(registry, Top.scope)
    BY <1>7 DEF LeaveBlock
  <2>2. {k \in DOMAIN registry : registry[k].scope # Top.scope} \subseteq DOMAIN registry
    OBVIOUS
  <2> QED BY <1>1, <2>1, <2>2, SoundKept, KeepSeq DEF RemoveScope
<1>8. ASSUME RemoveDeclaration, registry' # registry
      PROVE  Goal
  <2>1. registry' = Nulled(registry, Head(Top.pending)) /\ Head(Top.pending) \in 1 .. Len(registry)
    BY <1>1, <1>8, RemoveDeclarationIs, HandlingIs DEF Nulled
  <2> QED BY <1>1, <2>1, SoundNulled, NulledIs
<1>9. registry' = registry \/ Goal
  <2> HIDE DEF Goal
  <2> QED BY <1>3, <1>4, <1>5, <1>6, <1>7, <1>8, NoRedeclaration
    DEF Next, vars, Reveal, RevealNothing, VisitNull, ThrowRedeclaration, VisitExpr,
        EnterBranches, LeaveBranches, EnterBlock, EndOfStatements, InsertDestroy
<1> QED BY <1>2, <1>9, SoundStays

-----------------------------------------------------------------------------
(* One destroy for each variable of a block.                               *)

\* Of two inserted statements in a list, no two destroy the same name.
DestroysOnce(h) ==
  \A n \in 1 .. Len(h) : \A x, y :
     /\ x # Null /\ y # Null /\ In(h[n].kids, x) /\ In(h[n].kids, y)
     /\ ~h[x].written /\ ~h[y].written /\ h[x].name = h[y].name
     => x = y

\* What is still to be handled has not been destroyed here.
PendingFree(h, r, st) ==
  st # << >> =>
    \A j \in 1 .. Len(st[Len(st)].pending) : \A x :
       x # Null /\ In(h[st[Len(st)].id].kids, x) /\ ~h[x].written
       => h[x].name # r[st[Len(st)].pending[j]].name

\* Only the walk moves.
LEMMA NotWalking ==
  ASSUME phase # "walk"
  PROVE  ~Next
<1> USE DEF Visiting, Handling, Redeclaring
<1>1. \A s \in Shapes : ~Reveal(s)
  BY DEF Reveal
<1>2. ~(RevealNothing \/ VisitNull \/ VisitDecl \/ ThrowRedeclaration \/ VisitRedeclaration)
  BY DEF RevealNothing, VisitNull, VisitDecl, ThrowRedeclaration, VisitRedeclaration
<1>3. ~(VisitUnused \/ VisitAlias \/ VisitExpr \/ EnterBranches \/ LeaveBranches \/ EnterBlock)
  BY DEF VisitUnused, VisitAlias, VisitExpr, EnterBranches, LeaveBranches, EnterBlock
<1>4. ~(EndOfStatements \/ RemoveDeclaration \/ InsertDestroy \/ LeaveBlock)
  BY DEF EndOfStatements, RemoveDeclaration, InsertDestroy, LeaveBlock
<1> QED BY <1>1, <1>2, <1>3, <1>4 DEF Next

\* A block is being left after a step: it began with this step, or went on.
LEMMA LeavingAfter ==
  ASSUME ~Redeclare, LifeInv, PlainInv, [Next]_vars, stack' # << >>, stack'[Len(stack')].leaving
  PROVE  \/ UNCHANGED <<heap, freed, registry, stack>>
         \/ EndOfStatements
         \/ RemoveDeclaration \/ InsertDestroy
<1>0. TypeInv /\ TypeInv'
  BY LifeNext DEF LifeInv, WalkInv
<1>1. CASE phase # "walk"
  <2>1. ~Next
    BY <1>1, NotWalking
  <2> QED BY <2>1 DEF vars
<1>2. ASSUME phase = "walk", stack' = Under
      PROVE  FALSE
  <2>1. /\ Len(stack') = Len(stack) - 1 /\ \A f \in 1 .. Len(stack') : stack'[f] = stack[f]
        /\ Len(stack) \in Nat /\ Len(stack') \in 1 .. Len(stack') /\ Len(stack') \in Nat
    <3>1. Len(stack) \in Nat /\ Len(stack) >= 1 /\ stack # << >>
      BY <1>0, <1>2, TopIs
    <3>2. /\ Len(stack') = Len(stack) - 1 /\ \A f \in 1 .. Len(stack') : stack'[f] = stack[f]
          /\ stack' = << >> <=> Len(stack) = 1
      BY <1>0, <1>2, <3>1, UnderIs, HeapNext
    <3> QED BY <3>1, <3>2
  <2>2. ~stack[Len(stack')].leaving
    <3>1. Len(stack') < Len(stack) /\ Len(stack') \in 1 .. Len(stack)
      BY <2>1
    <3> QED BY <1>0, <3>1 DEF TypeInv, StackFits
  <2> QED BY <2>1, <2>2
<1>3. ASSUME phase = "walk", NEW fr, stack' = SetTop(fr), ~fr.leaving
      PROVE  FALSE
  BY <1>0, <1>3, NewTop DEF Top
<1>4. ASSUME phase = "walk", ~Top.leaving, stack' = Step(stack)
      PROVE  FALSE
  <2>1. stack' = SetTop([Top EXCEPT !.i = @ + 1]) /\ ~[Top EXCEPT !.i = @ + 1].leaving
    BY <1>0, <1>4, StepIs DEF SameWalk
  <2> QED BY <1>3, <1>4, <2>1
<1>5. ASSUME phase = "walk", NEW n, NEW sc, stack' = Append(Step(stack), Frame(n, sc))
      PROVE  FALSE
  <2>1. Step(stack) = SetTop([Top EXCEPT !.i = @ + 1]) /\ [Top EXCEPT !.i = @ + 1] \in FrameOf(registry)
    BY <1>0, <1>5, StepIs
  <2>2. stack \in Seq(FrameOf(registry)) /\ stack # << >>
    BY <1>0, <1>5, TypeInvWalks, TopIs
  <2>3. Step(stack) \in Seq(FrameOf(registry))
    <3>1. /\ Len(Step(stack)) = Len(stack)
          /\ \A f \in 1 .. Len(stack) : Step(stack)[f] = stack[f] \/ Step(stack)[f] = [Top EXCEPT !.i = @ + 1]
      BY <2>1, <2>2, WithTopIs DEF SetTop
    <3> QED BY <2>1, <2>2 DEF SetTop, WithTop
  <2>4. stack'[Len(stack')] = Frame(n, sc)
    BY <1>5, <2>3
  <2> QED BY <2>4 DEF Frame
<1>6. CASE phase = "walk" /\ Top.leaving
  <2>1. CASE LeaveBlock
    BY <1>2, <2>1 DEF LeaveBlock
  <2> QED BY <1>6, <2>1, LeavingSteps DEF vars
<1>7. CASE phase = "walk" /\ ~Top.leaving
  <2>1. stack' # stack
    BY <1>7 DEF Top
  <2>2. ~RevealNothing
    <3> SUFFICES ASSUME RevealNothing PROVE FALSE
      OBVIOUS
    <3>1. stack' = SetTop([Top EXCEPT !.closed = TRUE])
      BY <1>0, <2>1, RevealNothingIs
    <3>2. ~[Top EXCEPT !.closed = TRUE].leaving
      BY <1>0, <1>7, TopIs DEF FrameOf
    <3> QED BY <1>3, <1>7, <3>1, <3>2
  <2> QED
    BY <1>2, <1>4, <1>5, <1>7, <2>1, <2>2, NoRedeclaration
    DEF Next, vars, Reveal, VisitNull, VisitDecl, ThrowRedeclaration, VisitUnused, VisitAlias, VisitExpr,
        EnterBranches, LeaveBranches, EnterBlock, RemoveDeclaration, InsertDestroy, LeaveBlock
<1> QED BY <1>1, <1>6, <1>7

\* What InsertDestroy inserts, and where.
LEMMA InsertDestroyAt ==
  ASSUME LifeInv, InsertDestroy
  PROVE  /\ Handling /\ Remaining.usage # << >> /\ Remaining = registry[Top.pending[1]]
         /\ Top.pending[1] \in 1 .. Len(registry)
         /\ Len(heap') = Len(heap) + 1
         /\ heap'[Top.id].kids = InsertAt(Kids, DestroyIndex(Kids, Remaining), Len(heap) + 1)
         /\ DestroyIndex(Kids, Remaining) \in 1 .. Len(Kids) + 1
         /\ heap'[Len(heap) + 1] = Node(Shape("unused", Remaining.name), Top.id, FALSE)
         /\ heap'[Len(heap) + 1].name = Remaining.name /\ ~heap'[Len(heap) + 1].written
         /\ heap'[Len(heap) + 1].kind = "unused"
<1> DEFINE new  == Len(heap) + 1
           at   == DestroyIndex(Kids, Remaining)
           K    == InsertAt(Kids, at, new)
           node == Node(Shape("unused", Remaining.name), Top.id, FALSE)
<1>1. TypeInv
  BY DEF LifeInv, WalkInv
<1>2. /\ Handling /\ Remaining.usage # << >> /\ at \in 1 .. Len(Kids) + 1
      /\ heap' = Grown(heap, Top.id, K, node) /\ K \in Seq(0 .. new) /\ node \in NodeType(new)
  BY <1>1, InsertDestroyIs
<1>3. /\ Top.id \in 1 .. Len(heap) /\ heap \in Seq(NodeType(Len(heap)))
      /\ Head(Top.pending) = Top.pending[1] /\ Top.pending[1] \in 1 .. Len(registry)
  BY <1>1, <1>2, HandlingIs, TopIs DEF TypeInv, Handling
<1>4. node.name = Remaining.name /\ node.written = FALSE /\ node.kind = "unused"
  BY DEF Node, Shape
<1> HIDE DEF K, node, at
<1>5. Len(heap') = new /\ heap'[Top.id].kids = K /\ heap'[new] = node
  BY <1>2, <1>3, HeapGrown
<1> QED BY <1>2, <1>3, <1>4, <1>5 DEF K, node, at, Remaining

\* A variable is destroyed in a block when it is handled, and is then done.
LEMMA DestroysOnceNext ==
  ASSUME ~Redeclare, LifeInv, PlainInv, DestroysOnce(heap), PendingFree(heap, registry, stack), [Next]_vars
  PROVE  DestroysOnce(heap')
<1>1. Len(heap) \in Nat /\ TypeInv
  BY HeapNext
<1>2. ASSUME NEW x, NEW y, x = Len(heap) + 1, Len(heap') = Len(heap) + 1, phase = "walk", ~heap'[x].written,
             y # Null, In(Kids, y), y \in 1 .. Len(heap), ~heap[y].written
      PROVE  heap[y].name # heap'[x].name
  <2>1. Len(heap') # Len(heap)
    BY <1>1, <1>2
  <2>2. Top.leaving
    BY <1>2, <2>1, ListsNext DEF ListChange
  <2>3. ~LeaveBlock /\ ~RemoveDeclaration
    <3>1. LeaveBlock => Len(heap') = Len(heap)
      BY DEF LeaveBlock
    <3>2. RemoveDeclaration => Len(heap') = Len(heap)
      BY DEF RemoveDeclaration
    <3> QED BY <2>1, <3>1, <3>2
  <2>4. InsertDestroy
    BY <1>2, <2>1, <2>2, <2>3, LeavingSteps DEF vars
  <2>5. heap'[x].name = registry[Top.pending[1]].name
    BY <1>2, <2>4, InsertDestroyAt
  <2>6. 1 \in 1 .. Len(Top.pending) /\ stack # << >>
    BY <1>1, <1>2, <2>4, HandlingIs, TopIs, InsertDestroyAt
  <2> QED BY <1>2, <2>5, <2>6 DEF PendingFree, Top, Kids
<1> SUFFICES ASSUME NEW n \in 1 .. Len(heap'), NEW x, NEW y, x # Null, y # Null,
                    In(heap'[n].kids, x), In(heap'[n].kids, y), ~heap'[x].written, ~heap'[y].written,
                    heap'[x].name = heap'[y].name
             PROVE  x = y
  BY DEF DestroysOnce
<1> DEFINE Old(z) == n \in 1 .. Len(heap) /\ In(heap[n].kids, z) /\ z \in 1 .. Len(heap)
           New(z) == /\ n = Top.id /\ phase = "walk" /\ n \in 1 .. Len(heap)
                     /\ z = Len(heap) + 1 /\ Len(heap') = Len(heap) + 1
<1>3. (Old(x) \/ New(x)) /\ (Old(y) \/ New(y))
  BY ListedNext
<1>4. \A z \in 1 .. Len(heap) : heap'[z].written = heap[z].written /\ heap'[z].name = heap[z].name
  BY NodesStay DEF SameNode
<1>5. CASE Old(x) /\ Old(y)
  BY <1>4, <1>5 DEF DestroysOnce
<1>6. CASE New(x) /\ Old(y)
  BY <1>2, <1>4, <1>6 DEF Kids
<1>7. CASE Old(x) /\ New(y)
  BY <1>2, <1>4, <1>7 DEF Kids
<1> QED BY <1>3, <1>5, <1>6, <1>7

\* What remains to be handled stays undestroyed.
LEMMA PendingFreeNext ==
  ASSUME ~Redeclare, LifeInv, PlainInv, PlainLists(heap, stack), NameOnce(registry),
         PendingFree(heap, registry, stack), [Next]_vars
  PROVE  PendingFree(heap', registry', stack')
<1>1. /\ Len(heap) \in Nat /\ TypeInv /\ TypeInv' /\ PendInv /\ BlockInv
      /\ stack' \in Seq(FrameOf(registry')) /\ registry \in Seq(EntryType(Len(heap)))
  BY HeapNext, LifeNext, TypeInvWalks DEF LifeInv, WalkInv
<1> SUFFICES ASSUME stack' # << >>, NEW j \in 1 .. Len(stack'[Len(stack')].pending), NEW x, x # Null,
                    In(heap'[stack'[Len(stack')].id].kids, x), ~heap'[x].written
             PROVE  heap'[x].name # registry'[stack'[Len(stack')].pending[j]].name
  BY DEF PendingFree
<1>2. Len(stack') \in 1 .. Len(stack') /\ stack'[Len(stack')].leaving
  <2>1. Len(stack') \in 1 .. Len(stack')
    BY <1>1
  <2>2. ~stack'[Len(stack')].leaving => stack'[Len(stack')].pending = << >>
    BY <1>1, <2>1 DEF TypeInv, StackFits, FrameFits
  <2> QED BY <2>1, <2>2
<1>3. CASE UNCHANGED <<heap, freed, registry, stack>>
  BY <1>3 DEF PendingFree
<1>4. CASE EndOfStatements
  <2> DEFINE fr == [Top EXCEPT !.leaving = TRUE, !.pending = GetVariablesInScope(registry, Top.scope)]
  <2>1. phase = "walk" /\ ~Top.leaving /\ stack' = SetTop(fr) /\ heap' = heap
    BY <1>1, <1>4, EndOfStatementsIs
  <2>2. stack'[Len(stack')].id = Top.id
    <3>1. stack'[Len(stack')] = fr
      BY <1>1, <2>1, NewTop DEF Top
    <3>2. fr.id = Top.id
      BY <1>1, <2>1, TopIs DEF FrameOf
    <3> HIDE DEF fr
    <3> QED BY <3>1, <3>2
  <2>3. Len(stack) \in 1 .. Len(stack) /\ Top = stack[Len(stack)]
    BY <1>1, <2>1, TopIs DEF Top
  <2> QED BY <2>1, <2>2, <2>3 DEF PlainLists
<1>5. CASE (RemoveDeclaration \/ InsertDestroy) /\ ~UNCHANGED <<heap, freed, registry, stack>>
  <2>1. /\ stack'[Len(stack')].id = Top.id
        /\ stack'[Len(stack')].pending = Tail(Top.pending)
    BY <1>5, HandledTop
  <2>2. /\ Handling /\ Top.pending \in Seq(1 .. Len(registry)) /\ Len(Top.pending) >= 1
        /\ Head(Top.pending) = Top.pending[1] /\ phase = "walk" /\ Top.id \in 1 .. Len(heap) /\ stack # << >>
        /\ 1 \in 1 .. Len(Top.pending)
    <3>1. Handling
      BY <1>5 DEF RemoveDeclaration, InsertDestroy
    <3> QED BY <1>1, <3>1, HandlingIs, TopIs
  <2>3. \A i, l \in DOMAIN Top.pending : Top.pending[i] = Top.pending[l] => i = l
    BY <1>1, <2>2 DEF PendInv
  <2> DEFINE k == Top.pending[j + 1]
  <2>4. /\ j + 1 \in 1 .. Len(Top.pending) /\ Tail(Top.pending)[j] = k
        /\ k # Top.pending[1] /\ k \in 1 .. Len(registry) /\ Top.pending[1] \in 1 .. Len(registry)
    BY <2>1, <2>2, <2>3, TailOnce
  <2>5. registry'[k].name = registry[k].name
    <3>1. CASE registry' = registry
      BY <3>1
    <3>2. CASE registry' = Nulled(registry, Top.pending[1])
      BY <1>1, <2>4, <3>2, NulledIs
    <3>3. registry' = registry \/ registry' = Nulled(registry, Top.pending[1])
      BY <1>1, <1>5, <2>2, RemoveDeclarationIs DEF InsertDestroy, Nulled
    <3> QED BY <3>1, <3>2, <3>3
  <2> HIDE DEF k
  <2>6. ASSUME In(Kids, x), x \in 1 .. Len(heap)
        PROVE  heap'[x].name # registry[k].name
    <3>1. heap'[x].written = heap[x].written /\ heap'[x].name = heap[x].name
      BY <2>6, NodesStay DEF SameNode
    <3> QED BY <2>2, <2>4, <2>6, <3>1 DEF PendingFree, Top, Kids, k
  <2>7. ASSUME x = Len(heap) + 1, Len(heap') = Len(heap) + 1
        PROVE  heap'[x].name # registry[k].name
    <3>1. InsertDestroy
      <4>1. RemoveDeclaration => Len(heap') = Len(heap)
        BY DEF RemoveDeclaration
      <4> QED BY <1>1, <1>5, <2>7, <4>1
    <3>2. heap'[x].name = registry[Top.pending[1]].name
      BY <2>7, <3>1, InsertDestroyAt
    <3>3. registry[Top.pending[1]].declaration # Null /\ registry[k].declaration # Null
      <4>1. DOMAIN Top.pending = 1 .. Len(Top.pending)
        BY <2>2
      <4>2. 1 \in DOMAIN Top.pending /\ j + 1 \in DOMAIN Top.pending
        BY <2>2, <2>4, <4>1
      <4> QED BY <1>1, <2>2, <4>2 DEF PendInv, k
    <3> QED BY <2>4, <3>2, <3>3 DEF NameOnce
  <2>8. Top.id \in 1 .. Len(heap')
    BY <2>2, NodesStay
  <2>9. \/ In(Kids, x) /\ x \in 1 .. Len(heap)
        \/ x = Len(heap) + 1 /\ Len(heap') = Len(heap) + 1
    <3>1. In(heap'[Top.id].kids, x)
      BY <2>1
    <3>2. \/ In(heap[Top.id].kids, x) /\ x \in 1 .. Len(heap)
          \/ x = Len(heap) + 1 /\ Len(heap') = Len(heap) + 1
      BY <2>8, <3>1, ListedNext, SMTT(60)
    <3> QED BY <3>2 DEF Kids
  <2> QED BY <2>1, <2>4, <2>5, <2>6, <2>7, <2>9 DEF k
<1> QED BY <1>2, <1>3, <1>4, <1>5, LeavingAfter

-----------------------------------------------------------------------------
(* Every declaration of the source is cared for.                           *)

\* The source destroys declaration d itself.
Undone(h, d) ==
  \E n \in 1 .. Len(h) : /\ h[n].written /\ h[n].kind = "unused" /\ h[n].name = h[d].name
                         /\ d < n /\ BlockIn(h, d) \in EnclosingOf(h)[n]

\* When the block of d is being left, entry k is among the remaining ones.
Pends(h, st, d, k) ==
  st # << >> /\ st[Len(st)].leaving /\ st[Len(st)].id = BlockIn(h, d) => In(st[Len(st)].pending, k)

Held(h, r, st, d) == \E k \in 1 .. Len(r) : r[k].declaration = d /\ Pends(h, st, d, k)

\* What the destroy of d has to follow: d, what is known to use it, and every
\* statement if d may not be destroyed early.
Early(h, d, x) == x = d \/ ~h[d].auto \/ \E u \in 1 .. Len(h) : RefersIn(h, u, d) /\ x <= u

Settled(h, d) ==
  LET K == h[BlockIn(h, d)].kids
  IN  \E z \in 1 .. Len(h) :
         /\ ~h[z].written /\ h[z].kind = "unused" /\ h[z].name = h[d].name /\ In(K, z)
         /\ \A x : x # Null /\ In(K, x) /\ h[x].written /\ Early(h, d, x) => Before(K, x, z)

Cares(h, fd, r, st, d) ==
  d \in fd \/ Waiting(h, st, d) \/ Undone(h, d) \/ Held(h, r, st, d) \/ (Settled(h, d) /\ Gone(h, st, d))

Cared(h, fd, r, st) ==
  \A d \in 2 .. Len(h) : h[d].written /\ h[d].kind = "decl" => Cares(h, fd, r, st, d)

\* All activations under the top one are of statements around it.
LEMMA StackAbove ==
  ASSUME NEW h, h \in Seq(NodeType(Len(h))), TreeOK(h), NEW st, Walks(h, st), WellStacked(h, st),
         NEW n \in 1 .. Len(st), NEW f \in 1 .. n
  PROVE  st[f].id \in EnclosingOf(h)[st[n].id]
<1> DEFINE E == EnclosingOf(h)
           ok(x) == \A y \in 1 .. x : st[y].id \in E[st[x].id]
           bad == {x \in 1 .. Len(st) : ~ok(x)}
<1>1. Len(st) \in Nat /\ (\A x \in 1 .. Len(st) : st[x].id \in 1 .. Len(h))
  BY DEF Walks
<1>2. \A x \in 1 .. Len(st) : E[st[x].id] = {st[x].id} \cup E[h[st[x].id].parent]
  BY <1>1, EnclosingStep
<1> HIDE DEF E
<1> SUFFICES ASSUME bad # {} PROVE FALSE
  BY DEF E
<1>4. bad \subseteq Nat
  BY <1>1
<1> HIDE DEF bad
<1>5. PICK x \in bad : \A y \in bad : x <= y
  BY <1>4, LeastExists
<1>6. x \in 1 .. Len(st) /\ ~ok(x)
  BY <1>5 DEF bad
<1>7. CASE x = 1
  <2>1. st[x].id \in E[st[x].id]
    BY <1>2, <1>6
  <2>2. \A y \in 1 .. x : y = x
    BY <1>7
  <2> QED BY <1>6, <2>1, <2>2
<1>8. CASE x # 1
  <2>1. x - 1 \in 1 .. Len(st) /\ x \in 2 .. Len(st) /\ ~(x <= x - 1)
    BY <1>1, <1>6, <1>8
  <2>2. ok(x - 1)
    BY <1>5, <2>1 DEF bad
  <2>3. E[st[x].id] = {st[x].id} \cup E[st[x - 1].id]
    BY <1>2, <1>6, <2>1 DEF WellStacked
  <2>4. \A y \in 1 .. x : y = x \/ y \in 1 .. x - 1
    BY <2>1
  <2> QED BY <1>6, <2>2, <2>3, <2>4
<1> QED BY <1>7, <1>8

\* What a block has under its name does not change with the program around it.
LEMMA BlockNext ==
  ASSUME LifeInv, [Next]_vars, NEW d \in 2 .. Len(heap)
  PROVE  /\ BlockIn(heap', d) = BlockIn(heap, d) /\ BlockIn(heap, d) \in 1 .. d - 1
         /\ BlockIn(heap, d) \in 1 .. Len(heap) /\ d \in 1 .. Len(heap) /\ d \in 2 .. Len(heap') /\ d # Null
<1>1. /\ heap \in Seq(NodeType(Len(heap))) /\ TreeOK(heap) /\ Len(heap) \in Nat
      /\ heap' \in Seq(NodeType(Len(heap'))) /\ Extends(heap, heap') /\ Len(heap') \in Nat
  BY HeapNext
<1>2. d \in 1 .. Len(heap) /\ d # Null
  BY <1>1 DEF Null
<1>3. BlockIn(heap', d) = BlockIn(heap, d) /\ BlockIn(heap, d) \in 1 .. d - 1
  BY <1>1, <1>2, BlockInStable, BlockInBefore
<1>4. d \in 2 .. Len(heap')
  BY <1>1 DEF Extends
<1>5. BlockIn(heap, d) \in 1 .. Len(heap)
  BY <1>1, <1>2, <1>3
<1> QED BY <1>2, <1>3, <1>4, <1>5

\* A destroy of the source stays.
LEMMA UndoneStays ==
  ASSUME LifeInv, [Next]_vars, NEW d \in 2 .. Len(heap), Undone(heap, d)
  PROVE  Undone(heap', d)
<1>1. /\ heap \in Seq(NodeType(Len(heap))) /\ TreeOK(heap) /\ Len(heap) \in Nat
      /\ heap' \in Seq(NodeType(Len(heap'))) /\ Extends(heap, heap') /\ Len(heap') \in Nat
  BY HeapNext
<1>2. PICK n \in 1 .. Len(heap) : /\ heap[n].written /\ heap[n].kind = "unused" /\ heap[n].name = heap[d].name
                                  /\ d < n /\ BlockIn(heap, d) \in EnclosingOf(heap)[n]
  BY DEF Undone
<1>3. BlockIn(heap', d) = BlockIn(heap, d) /\ d \in 1 .. Len(heap)
  BY BlockNext
<1>4. EnclosingOf(heap')[n] = EnclosingOf(heap)[n]
  <2>1. n \in 0 .. Len(heap)
    BY <1>1
  <2> QED BY <1>1, <2>1, EnclosingStable
<1>5. SameNode(heap[n], heap'[n]) /\ SameNode(heap[d], heap'[d]) /\ n \in 1 .. Len(heap')
  BY <1>3, NodesStay
<1> QED BY <1>2, <1>3, <1>4, <1>5 DEF Undone, SameNode

\* So does one that was inserted, where it is.
LEMMA SettledStays ==
  ASSUME ~Redeclare, LifeInv, PlainInv, [Next]_vars, NEW d \in 2 .. Len(heap), heap[d].kind = "decl",
         Settled(heap, d), Gone(heap, stack, d)
  PROVE  Settled(heap', d)
<1> DEFINE b == BlockIn(heap, d)
           K == heap[b].kids
           L == heap'[b].kids
<1>1. /\ Len(heap) \in Nat /\ Len(heap') \in Nat /\ Extends(heap, heap')
      /\ heap \in Seq(NodeType(Len(heap))) /\ heap' \in Seq(NodeType(Len(heap')))
      /\ Once(heap) /\ Once(heap')
  BY HeapNext, LifeNext DEF LifeInv
<1>2. BlockIn(heap', d) = b /\ b \in 1 .. Len(heap) /\ d \in 1 .. Len(heap) /\ b \in 1 .. Len(heap')
  BY BlockNext, NodesStay
<1> HIDE DEF b
<1>3. PICK z \in 1 .. Len(heap) :
         /\ ~heap[z].written /\ heap[z].kind = "unused" /\ heap[z].name = heap[d].name /\ In(K, z)
         /\ \A x : x # Null /\ In(K, x) /\ heap[x].written /\ Early(heap, d, x) => Before(K, x, z)
  BY DEF Settled, b
<1>4. /\ \A x : In(L, x) => x \in 0 .. Len(heap') /\ (x # Null => x \in 1 .. Len(heap'))
      /\ Len(K) \in Nat /\ Len(L) \in Nat /\ OnceSeq(K) /\ OnceSeq(L)
  BY <1>1, <1>2, KidsRange DEF Once
<1> HIDE DEF K, L
<1>5. z # Null /\ z # Len(heap) + 1
  BY <1>1 DEF Null
<1>6. /\ \A x \in 1 .. Len(heap) : heap'[x].written = heap[x].written
      /\ heap'[d].auto = heap[d].auto /\ heap'[d].name = heap[d].name
      /\ heap'[z].kind = "unused" /\ heap'[z].name = heap'[d].name /\ ~heap'[z].written /\ z \in 1 .. Len(heap')
  BY <1>2, <1>3, NodesStay DEF SameNode
<1>7. \A x : Early(heap', d, x) => Early(heap, d, x)
  BY <1>6, GoneRefers DEF Early
<1>8. ASSUME In(L, z), \A x : x # Null /\ In(L, x) /\ heap'[x].written => In(K, x),
             \A x : x # Null /\ In(L, x) /\ In(K, x) /\ heap'[x].written /\ Before(K, x, z) => Before(L, x, z)
      PROVE  Settled(heap', d)
  <2>1. ASSUME NEW x, x # Null, In(L, x), heap'[x].written, Early(heap', d, x)
        PROVE  Before(L, x, z)
    <3>1. In(K, x)
      BY <1>8, <2>1
    <3>2. x \in 1 .. Len(heap)
      BY <1>1, <1>2, <2>1, <3>1, KidsRange DEF K
    <3>3. Early(heap, d, x) /\ heap[x].written
      BY <1>6, <1>7, <2>1, <3>2
    <3> QED BY <1>3, <1>8, <2>1, <3>1, <3>3
  <2> QED BY <1>2, <1>6, <1>8, <2>1 DEF Settled, L
<1>9. CASE L = K
  BY <1>3, <1>8, <1>9
<1>10. CASE L # K
  <2>1. phase = "walk" /\ TreeStep(Top.id) /\ ListChange(Kids, heap'[Top.id].kids, Len(heap) + 1)
    BY <1>10, ListsNext DEF K, L
  <2>2. b = Top.id /\ Kids = K
    BY <1>2, <1>10, <2>1 DEF TreeStep, K, L, Kids
  <2>3. Arranged(K, L, Len(heap) + 1) /\ In(L, z)
    <3>1. In(L, z) \/ (z \in freed' /\ heap[z].kind # "unused")
      BY <1>3, <1>5, <2>1, <2>2 DEF ListChange, L
    <3> QED BY <1>3, <2>1, <2>2, <3>1 DEF ListChange, L
  <2>4. Top.leaving
    <3>1. TypeInv /\ Len(stack) \in 1 .. Len(stack) /\ Top = stack[Len(stack)]
      BY <2>1, TopIs DEF LifeInv, WalkInv, Top
    <3> QED BY <2>2, <3>1 DEF Gone, b
  <2>5. ASSUME NEW x, x # Null, In(L, x), heap'[x].written
        PROVE  In(K, x) /\ x # Len(heap) + 1
    <3>1. x # Len(heap) + 1
      <4> SUFFICES ASSUME x = Len(heap) + 1 PROVE FALSE
        OBVIOUS
      <4>1. Len(heap') # Len(heap)
        BY <1>1, <1>4, <2>5
      <4> QED BY <2>1, <2>4, <2>5, <4>1 DEF ListChange
    <3> QED BY <2>3, <2>5, <3>1 DEF Arranged
  <2>6. ASSUME NEW x, x # Null, In(L, x), heap'[x].written, Before(K, x, z)
        PROVE  Before(L, x, z)
    BY <1>4, <1>5, <2>3, <2>5, <2>6, ArrangedStays
  <2> QED BY <1>8, <2>3, <2>5, <2>6
<1> QED BY <1>9, <1>10

\* InsertDestroy inserts after all that the destroy has to follow.
LEMMA InsertSettles ==
  ASSUME ~Redeclare, LifeInv, PlainInv, UsesKnown(heap, registry, stack), InOrder(heap),
         AllSound(heap, registry), [Next]_vars,
         InsertDestroy, heap[Remaining.declaration].kind = "decl"
  PROVE  Settled(heap', Remaining.declaration) /\ Gone(heap', stack', Remaining.declaration)
<1> DEFINE d  == Remaining.declaration
           k  == Top.pending[1]
           U  == Remaining.usage
           z  == Len(heap) + 1
           at == DestroyIndex(Kids, Remaining)
           L  == heap'[Top.id].kids
           last == IndexOf(Kids, U[Len(U)])
<1>1. /\ Len(heap) \in Nat /\ heap \in Seq(NodeType(Len(heap))) /\ registry \in Seq(EntryType(Len(heap)))
      /\ TypeInv /\ Once(heap)
  BY HeapNext DEF LifeInv
<1>2. /\ Handling /\ U # << >> /\ Remaining = registry[k] /\ k \in 1 .. Len(registry)
      /\ Len(heap') = Len(heap) + 1 /\ L = InsertAt(Kids, at, z) /\ at \in 1 .. Len(Kids) + 1
      /\ heap'[z].name = Remaining.name /\ ~heap'[z].written /\ heap'[z].kind = "unused"
  BY InsertDestroyAt
<1>3. d \in 2 .. Len(heap) /\ BlockIn(heap, d) = Top.id /\ Declares(heap, Remaining)
  BY <1>2, RemainingHome
<1>4. /\ d # Null /\ BlockIn(heap', d) = Top.id /\ d \in 1 .. Len(heap) /\ Top.id \in 1 .. Len(heap)
  BY <1>3, BlockNext
<1>5. /\ phase = "walk" /\ Top.leaving /\ Len(stack) \in 1 .. Len(stack) /\ Top = stack[Len(stack)]
      /\ Kids \in Seq(0 .. Len(heap))
  BY <1>1, <1>2, HandlingIs, TopIs DEF Top
<1>6. Gone(heap, stack, d)
  BY <1>3, <1>5, OneTop DEF Gone
<1>7. U \in Seq(1 .. Len(heap)) /\ Sound(heap, Remaining) /\ d \in Nat
  <2>1. registry[k] \in EntryType(Len(heap))
    BY <1>1, <1>2
  <2> QED BY <1>2, <1>3, <2>1 DEF EntryType, AllSound
<1>8. Len(U) \in 1 .. Len(U) /\ U[Len(U)] \in 1 .. Len(heap) /\ \A j \in 1 .. Len(U) : U[j] \in Nat
  <2>1. U \in Seq(1 .. Len(heap)) /\ U # << >>
    BY <1>2, <1>7
  <2> HIDE DEF U
  <2>2. Len(U) \in 1 .. Len(U)
    BY <2>1
  <2> QED BY <1>1, <2>1, <2>2
<1>9. /\ \A j \in 1 .. Len(U) : U[j] \in Nat /\ d <= U[j] /\ U[j] <= U[Len(U)]
      /\ heap[U[Len(U)]].written /\ Remaining.auto = heap[d].auto
  <2>1. /\ \A j \in 1 .. Len(U) : heap[U[j]].written /\ d <= U[j] /\ U[j] <= U[Len(U)]
        /\ d # Null /\ heap[d].kind = "decl" => Remaining.auto = heap[d].auto
    BY <1>7 DEF Sound
  <2>2. heap[d].kind = "decl"
    OBVIOUS
  <2> HIDE DEF U, d
  <2> QED BY <1>4, <1>8, <2>1, <2>2
<1>10. last \in 0 .. Len(Kids) /\ (last # 0 => Kids[last] = U[Len(U)])
  BY <1>5, IndexOfIs
<1>11. at = IF Remaining.auto /\ last # 0 THEN last + 1 ELSE Len(Kids) + 1
  BY DEF DestroyIndex
<1> HIDE DEF d, U, at, L, last
<1>12. /\ Arranged(Kids, L, z) /\ In(L, z)
       /\ \A i \in 1 .. Len(Kids) : i < at => Before(L, Kids[i], z)
  <2>1. z \in Nat /\ z # Null /\ Kids \in Seq(Nat)
    BY <1>1, <1>5 DEF Null
  <2>2. ~In(Kids, z)
    BY <1>1, <1>5, NewInNone
  <2> HIDE DEF z
  <2> QED BY <1>2, <2>1, <2>2, InsertArranged
<1>13. ASSUME NEW u \in 1 .. Len(heap'), RefersIn(heap', u, d)
       PROVE  u <= U[Len(U)]
  <2>1. u \in 1 .. Len(heap) /\ RefersIn(heap, u, d)
    BY <1>3, <1>6, <1>13, GoneRefers
  <2>2. ~Waiting(heap, stack, u)
    BY <1>5 DEF Waiting, Idle
  <2>3. KnownAs(heap, registry[k], u)
    BY <1>2, <2>1, <2>2 DEF UsesKnown, Known
  <2>4. UsedBy(Remaining, u)
    BY <1>2, <1>4, <2>1, <2>3 DEF KnownAs, d
  <2> QED BY <1>9, <2>4 DEF UsedBy, U
<1>14. ASSUME NEW x, x # Null, In(L, x), heap'[x].written, Early(heap', d, x)
       PROVE  Before(L, x, z)
  <2>1. x # z
    BY <1>2, <1>14
  <2>2. PICK i \in 1 .. Len(Kids) : Kids[i] = x
    BY <1>12, <1>14, <2>1 DEF Arranged, In
  <2>3. x \in 1 .. Len(heap) /\ i \in Nat /\ heap[x].written /\ heap'[d].auto = heap[d].auto
    <3>1. x \in 1 .. Len(heap) /\ i \in Nat
      <4>1. Kids[i] \in 0 .. Len(heap)
        BY <1>5, <2>2
      <4> QED BY <1>1, <1>14, <2>2, <4>1 DEF Null
    <3> QED BY <1>4, <1>14, <3>1, NodesStay DEF SameNode
  <2>4. CASE ~(Remaining.auto /\ last # 0)
    <3>1. i < at
      BY <1>5, <1>11, <2>2, <2>4
    <3> QED BY <1>12, <2>2, <3>1
  <2>5. CASE Remaining.auto /\ last # 0
    <3>1. x <= U[Len(U)]
      <4>1. CASE x = d
        BY <1>8, <1>9, <4>1
      <4>2. CASE x # d
        <5>1. PICK u \in 1 .. Len(heap') : RefersIn(heap', u, d) /\ x <= u
          BY <1>9, <1>14, <2>3, <2>5, <4>2 DEF Early
        <5>2. u <= U[Len(U)] /\ u \in Nat
          BY <1>13, <5>1
        <5> QED BY <1>8, <2>3, <5>1, <5>2
      <4> QED BY <4>1, <4>2
    <3>2. i <= last
      <4> SUFFICES ASSUME last < i PROVE FALSE
        BY <1>10, <2>3, <1>5
      <4>1. Before(Kids, U[Len(U)], x)
        <5>1. last \in 1 .. Len(Kids) /\ Kids[last] = U[Len(U)]
          BY <1>5, <1>10, <2>5
        <5> QED BY <2>2, <5>1 DEF Before
      <4>2. U[Len(U)] # Null
        BY <1>8 DEF Null
      <4>3. U[Len(U)] < x
        BY <1>4, <1>9, <1>14, <2>3, <4>1, <4>2 DEF InOrder, Kids
      <4> QED BY <1>8, <2>3, <3>1, <4>3
    <3>3. i < at
      BY <1>10, <1>11, <2>3, <2>5, <3>2
    <3> QED BY <1>12, <2>2, <3>3
  <2> QED BY <2>4, <2>5
<1>15. heap'[z].name = heap'[d].name /\ z \in 1 .. Len(heap')
  <2>1. heap[d].name = Remaining.name
    BY <1>3 DEF Declares, d
  <2>2. heap'[d].name = heap[d].name
    BY <1>4, NodesStay DEF SameNode
  <2> QED BY <1>1, <1>2, <2>1, <2>2
<1>16. Settled(heap', d)
  BY <1>2, <1>4, <1>12, <1>14, <1>15 DEF Settled, L
<1> QED BY <1>3, <1>6, <1>16, GoneStays DEF d

\* The scope of an entry is that of the block around its declaration.
LEMMA ScopeOfBlock ==
  ASSUME LifeInv, phase = "walk", NEW k \in 1 .. Len(registry), registry[k].declaration # Null, Here = "block"
  PROVE  registry[k].scope = Top.scope <=> BlockIn(heap, registry[k].declaration) = Top.id
<1>1. /\ TypeInv /\ BlockInv /\ Walks(heap, stack) /\ WellStacked(heap, stack)
      /\ Len(stack) \in 1 .. Len(stack) /\ Top = stack[Len(stack)] /\ Len(stack) \in Nat
  <2>1. TypeInv /\ BlockInv
    BY DEF LifeInv, WalkInv
  <2>2. WellStacked(heap, stack)
    BY <2>1 DEF BlockInv
  <2> QED BY <2>1, <2>2, TypeInvWalks, TopIs DEF Top
<1>2. PICK f \in Blocks(heap, stack) :
         stack[f].scope = registry[k].scope /\ stack[f].id = BlockIn(heap, registry[k].declaration)
  BY <1>1 DEF BlockInv, Housed
<1>3. f \in 1 .. Len(stack)
  BY <1>2 DEF Blocks
<1>4. CASE stack[f].id = Top.id
  <2>1. stack[f] = Top
    BY <1>3, <1>4, OneTop
  <2> QED BY <1>2, <2>1
<1>5. CASE stack[f].id # Top.id
  <2>1. f \in 0 .. Len(stack) /\ f < Len(stack) /\ Len(stack) \in 0 .. Len(stack) /\ f # Len(stack)
    BY <1>1, <1>3, <1>5
  <2>2. Len(stack) \in Blocks(heap, stack)
    BY <1>1 DEF Blocks, Here
  <2>3. Rank(Blocks(heap, stack), f) < Rank(Blocks(heap, stack), Len(stack))
    BY <1>1, <2>1, <2>2, RankGrows, BlocksArePlaces
  <2>4. stack[f].scope = Rank(Blocks(heap, stack), f) /\ Top.scope = Rank(Blocks(heap, stack), Len(stack))
    BY <1>1, <1>3 DEF WellStacked
  <2>5. Rank(Blocks(heap, stack), f) \in Nat /\ Rank(Blocks(heap, stack), Len(stack)) \in Nat
    BY <1>1, <2>1, BlocksArePlaces
  <2> QED BY <1>2, <1>5, <2>3, <2>4, <2>5
<1> QED BY <1>4, <1>5

\* "unused d" in the source, where d is registered, is in the block of d.
LEMMA VisitUndoes ==
  ASSUME LifeInv, PlainInv, PlainLists(heap, stack), [Next]_vars, VisitUnused, NEW d \in 2 .. Len(heap),
         heap[d].kind = "decl", NEW k \in 1 .. Len(registry), registry[k].declaration = d,
         registry[k].name = heap[Visited].name
  PROVE  Undone(heap', d)
<1>1. Visiting({"unused"}) /\ heap' = heap
  BY DEF VisitUnused
<1>2. /\ Visited = Len(heap) /\ Len(heap) \in 1 .. Len(heap) /\ Len(heap) \in Nat
      /\ heap[Visited].written /\ heap[Visited].kind = "unused" /\ phase = "walk" /\ Top.id \in 1 .. Len(heap)
  BY <1>1, VisitedLast
<1>3. /\ TypeInv /\ BlockInv /\ Walks(heap, stack) /\ WellStacked(heap, stack) /\ TreeOK(heap)
      /\ Len(stack) \in 1 .. Len(stack) /\ Top = stack[Len(stack)] /\ Len(stack) \in Nat
      /\ heap \in Seq(NodeType(Len(heap)))
  <2>1. TypeInv /\ BlockInv
    BY DEF LifeInv, WalkInv
  <2>2. WellStacked(heap, stack) /\ TreeOK(heap)
    BY <2>1 DEF BlockInv
  <2>3. heap \in Seq(NodeType(Len(heap)))
    BY <2>1 DEF TypeInv
  <2> QED BY <1>2, <2>1, <2>2, <2>3, TypeInvWalks, TopIs DEF Top
<1>4. d # Null /\ d \in 1 .. Len(heap)
  BY BlockNext
<1>5. PICK f \in Blocks(heap, stack) : stack[f].id = BlockIn(heap, d)
  BY <1>3, <1>4 DEF BlockInv, Housed
<1>6. f \in 1 .. Len(stack)
  BY <1>5 DEF Blocks
<1>7. BlockIn(heap, d) \in EnclosingOf(heap)[Top.id]
  BY <1>3, <1>5, <1>6, StackAbove
<1>8. heap[Visited].parent = Top.id
  BY <1>1, <1>3, VisitedParent
<1>9. BlockIn(heap, d) \in EnclosingOf(heap)[Visited]
  BY <1>2, <1>3, <1>7, <1>8, EnclosingStep
<1>10. heap[Visited].name = heap[d].name
  BY <1>4 DEF LifeInv, EntriesOK, Declares
<1>11. d < Visited
  <2>1. d # Visited
    BY <1>2
  <2> QED BY <1>2, <1>4, <2>1
<1> QED BY <1>1, <1>2, <1>9, <1>10, <1>11 DEF Undone

\* An entry stays until its block is left or the source destroys its variable.
LEMMA EntryStays ==
  ASSUME ~Redeclare, LifeInv, PlainInv, PlainLists(heap, stack), [Next]_vars, ~RemoveDeclaration,
         NEW d \in 2 .. Len(heap), heap[d].kind = "decl",
         NEW k \in 1 .. Len(registry), registry[k].declaration = d,
         LeaveBlock => BlockIn(heap, d) # Top.id
  PROVE  Undone(heap', d) \/ \E l \in 1 .. Len(registry') : registry'[l].declaration = d
<1> DEFINE Goal == \E l \in 1 .. Len(registry') : registry'[l].declaration = d
<1>1. /\ Len(heap) \in Nat /\ registry \in Seq(EntryType(Len(heap))) /\ TypeInv /\ BlockInv
      /\ currentScope \in Nat /\ DOMAIN registry = 1 .. Len(registry) /\ d # Null
  BY HeapNext, BlockNext DEF LifeInv, WalkInv
<1>2. ASSUME NEW kinds, Visiting(kinds)
      PROVE  /\ Visited \in 1 .. Len(heap) /\ heap[Visited] \in NodeType(Len(heap))
             /\ Visited \in 0 .. Len(heap) /\ heap[Visited].name \in Names
  <2>1. Visited \in 1 .. Len(heap) /\ heap[Visited] \in NodeType(Len(heap))
    BY <1>1, <1>2, VisitedIs
  <2>2. Visited \in 0 .. Len(heap)
    BY <1>1, <2>1
  <2> QED BY <2>1, <2>2 DEF NodeType
<1>3. ASSUME registry' = registry
      PROVE  Goal
  BY <1>3
<1>4. ASSUME VisitDecl
      PROVE  Goal
  <2>1. Visiting({"decl"}) /\ registry' = Declare(registry, Visited)
    BY <1>4 DEF VisitDecl
  <2>2. /\ Len(registry') = Len(registry) + 1
        /\ \A j \in 1 .. Len(registry) : SameEntry(registry[j], registry'[j])
    BY <1>1, <1>2, <2>1, DeclareIs
  <2>3. k \in 1 .. Len(registry')
    BY <1>1, <2>2
  <2> QED BY <2>2, <2>3 DEF SameEntry
<1>5. ASSUME VisitAlias, registry' # registry
      PROVE  Goal
  <2> DEFINE e == Entry(heap[Visited].name, Visited, FALSE)
  <2>1. Visiting({"alias"}) /\ registry' = Append(registry, e)
    BY <1>5 DEF VisitAlias
  <2>2. e \in EntryType(Len(heap))
    BY <1>1, <1>2, <2>1, EntryIs
  <2> HIDE DEF e
  <2>3. Len(registry') = Len(registry) + 1 /\ registry'[k] = registry[k]
    BY <1>1, <2>1, <2>2, AppendIs
  <2>4. k \in 1 .. Len(registry')
    BY <1>1, <2>3
  <2> QED BY <2>3, <2>4
<1>6. ASSUME NEW kinds, Visiting(kinds), registry' = UsedVariables(registry, heap[Visited].uses, Visited)
      PROVE  Goal
  BY <1>1, <1>2, <1>6, UsedVariablesIs DEF SameEntry
<1>7. ASSUME VisitUnused
      PROVE  Undone(heap', d) \/ Goal
  <2> DEFINE x == heap[Visited].name
             R == {p \in DOMAIN registry : registry[p].name # x}
  <2>1. registry' = RemoveVariable(registry, x)
    BY <1>7 DEF VisitUnused
  <2>2. CASE registry[k].name = x
    BY <1>7, <2>2, VisitUndoes
  <2>3. CASE registry[k].name # x
    <3>1. k \in R /\ registry' \in Seq(EntryType(Len(heap))) /\ Selects(registry, R, registry')
      BY <1>1, <2>1, <2>3, RemoveIs
    <3> HIDE DEF R
    <3>2. PICK l \in DOMAIN registry' : registry'[l] = registry[k]
      BY <3>1 DEF Selects
    <3>3. l \in 1 .. Len(registry')
      BY <3>1, <3>2
    <3> QED BY <3>2, <3>3
  <2> QED BY <2>2, <2>3
<1>8. ASSUME LeaveBlock
      PROVE  Goal
  <2> DEFINE R == {p \in DOMAIN registry : registry[p].scope # Top.scope}
  <2>1. phase = "walk" /\ Here = "block" /\ registry' = RemoveScope(registry, Top.scope)
    BY <1>1, <1>8, LeaveBlockIs
  <2>2. registry[k].scope # Top.scope
    BY <1>1, <1>8, <2>1, ScopeOfBlock
  <2>3. k \in R /\ registry' \in Seq(EntryType(Len(heap))) /\ Selects(registry, R, registry')
    BY <1>1, <2>1, <2>2, RemoveIs
  <2> HIDE DEF R
  <2>4. PICK l \in DOMAIN registry' : registry'[l] = registry[k]
    BY <2>3 DEF Selects
  <2>5. l \in 1 .. Len(registry')
    BY <2>3, <2>4
  <2> QED BY <2>4, <2>5
<1> HIDE DEF Goal
<1>9. Undone(heap', d) \/ Goal
  BY <1>3, <1>4, <1>5, <1>6, <1>7, <1>8, NoRedeclaration
  DEF Next, vars, Reveal, RevealNothing, VisitNull, ThrowRedeclaration, VisitExpr,
      EnterBranches, LeaveBranches, EnterBlock, EndOfStatements, InsertDestroy
<1> QED BY <1>9 DEF Goal

\* An entry is remembered when its block ends, and handled then.
LEMMA HeldNext ==
  ASSUME ~Redeclare, LifeInv, PlainInv, PlainLists(heap, stack), UsesKnown(heap, registry, stack),
         InOrder(heap), AllSound(heap, registry), [Next]_vars,
         NEW d \in 2 .. Len(heap), heap[d].kind = "decl", Held(heap, registry, stack, d)
  PROVE  Cares(heap', freed', registry', stack', d)
<1>1. /\ TypeInv /\ BlockIn(heap', d) = BlockIn(heap, d) /\ d # Null /\ registry \in Seq(EntryType(Len(heap)))
      /\ stack' \in Seq(FrameOf(registry')) /\ Len(heap) \in Nat
  BY HeapNext, BlockNext, LifeNext, TypeInvWalks DEF LifeInv, WalkInv
<1>2. PICK k \in 1 .. Len(registry) : registry[k].declaration = d /\ Pends(heap, stack, d, k)
  BY DEF Held
<1>3. CASE UNCHANGED <<heap, freed, registry, stack>>
  BY <1>2, <1>3 DEF Cares, Held
<1>4. CASE EndOfStatements
  <2> DEFINE g  == GetVariablesInScope(registry, Top.scope)
             fr == [Top EXCEPT !.leaving = TRUE, !.pending = g]
             R  == {p \in DOMAIN registry : registry[p].scope = Top.scope}
  <2>1. phase = "walk" /\ Here = "block" /\ stack' = SetTop(fr) /\ UNCHANGED <<heap, registry>>
    BY <1>1, <1>4, EndOfStatementsIs
  <2>2. stack'[Len(stack')] = fr
    BY <1>1, <2>1, NewTop DEF Top
  <2>3. fr.id = Top.id /\ fr.pending = g
    BY <1>1, <2>1, TopIs DEF FrameOf
  <2>4. ASSUME BlockIn(heap, d) = Top.id
        PROVE  In(g, k)
    <3>1. registry[k].scope = Top.scope
      BY <1>1, <1>2, <2>1, <2>4, ScopeOfBlock
    <3>2. DOMAIN registry = 1 .. Len(registry)
      BY <1>1
    <3> DEFINE I == [p \in DOMAIN registry |-> p]
    <3>3. I \in Seq(DOMAIN registry) /\ k \in R /\ R \subseteq DOMAIN I
      BY <1>1, <3>1, <3>2
    <3>4. g = Keep(I, R)
      BY DEF GetVariablesInScope
    <3>5. I[k] = k
      BY <3>2
    <3> HIDE DEF I, R, g
    <3>6. g \in Seq(DOMAIN registry) /\ Selects(I, R, g)
      BY <3>3, <3>4, KeepSeq
    <3>7. PICK l \in DOMAIN g : g[l] = k
      BY <3>3, <3>5, <3>6 DEF Selects
    <3>8. l \in 1 .. Len(g)
      BY <3>6, <3>7
    <3> QED BY <3>7, <3>8 DEF In
  <2> HIDE DEF fr, g
  <2>5. Pends(heap', stack', d, k)
    BY <1>1, <2>2, <2>3, <2>4 DEF Pends
  <2> QED BY <1>2, <2>1, <2>5 DEF Cares, Held
<1>5. CASE (RemoveDeclaration \/ InsertDestroy) /\ ~UNCHANGED <<heap, freed, registry, stack>>
  <2> DEFINE h == Top.pending[1]
  <2>1. /\ stack'[Len(stack')].id = Top.id
        /\ stack'[Len(stack')].pending = Tail(Top.pending)
    BY <1>5, HandledTop
  <2>2. Handling
    BY <1>5 DEF RemoveDeclaration, InsertDestroy
  <2>3. /\ phase = "walk" /\ Top.leaving /\ Top.pending \in Seq(1 .. Len(registry)) /\ Len(Top.pending) >= 1
        /\ Head(Top.pending) = h /\ h \in 1 .. Len(registry) /\ stack # << >>
        /\ Remaining = registry[h]
    BY <1>1, <2>2, HandlingIs, TopIs, RemainingHome
  <2>4. Pends(heap', stack', d, k) \/ k = h
    <3> SUFFICES ASSUME BlockIn(heap, d) = Top.id, k # h
                 PROVE  In(Tail(Top.pending), k)
      BY <1>1, <2>1 DEF Pends
    <3>1. PICK j \in 1 .. Len(Top.pending) : Top.pending[j] = k
      BY <1>2, <2>3 DEF Pends, Top, In
    <3>2. j # 1
      BY <3>1
    <3>3. \A p \in Seq(1 .. Len(registry)) : j \in 2 .. Len(p) =>
             j - 1 \in 1 .. Len(Tail(p)) /\ Tail(p)[j - 1] = p[j]
      OBVIOUS
    <3>4. j - 1 \in 1 .. Len(Tail(Top.pending)) /\ Tail(Top.pending)[j - 1] = k
      <4>1. j \in 2 .. Len(Top.pending)
        BY <2>3, <3>1, <3>2
      <4> QED BY <2>3, <3>1, <3>3, <4>1
    <3> QED BY <3>4 DEF In
  <2> HIDE DEF h
  <2>5. CASE RemoveDeclaration
    <3>1. freed' = freed \cup {Remaining.declaration} /\ registry' = Nulled(registry, h)
      BY <1>1, <1>5, <2>3, <2>5, RemoveDeclarationIs DEF Nulled
    <3>2. CASE k = h
      BY <1>2, <2>3, <3>1, <3>2 DEF Cares
    <3>3. CASE k # h
      <4>1. k \in 1 .. Len(registry') /\ registry'[k].declaration = d
        BY <1>1, <1>2, <2>3, <3>1, <3>3, NulledIs
      <4> QED BY <2>4, <3>3, <4>1 DEF Cares, Held
    <3> QED BY <3>2, <3>3
  <2>6. CASE InsertDestroy
    <3>1. registry' = registry
      BY <2>6 DEF InsertDestroy
    <3>2. CASE k = h
      <4>1. Remaining.declaration = d
        BY <1>2, <2>3, <3>2
      <4> QED BY <2>6, <4>1, InsertSettles DEF Cares
    <3>3. CASE k # h
      BY <1>2, <2>4, <3>1, <3>3 DEF Cares, Held
    <3> QED BY <3>2, <3>3
  <2> QED BY <1>5, <2>5, <2>6
<1>6. CASE ~(stack' # << >> /\ stack'[Len(stack')].leaving)
  <2>1. ASSUME RemoveDeclaration
        PROVE  UNCHANGED <<heap, freed, registry, stack>>
    BY <1>6, <2>1, HandledTop
  <2>2. ASSUME LeaveBlock
        PROVE  BlockIn(heap, d) # Top.id
    <3>1. Top.leaving /\ Top.pending = << >> /\ stack # << >>
      BY <1>1, <2>2, TopIs DEF LeaveBlock
    <3> QED BY <1>2, <3>1 DEF Pends, Top, In
  <2>3. \A l : Pends(heap', stack', d, l)
    BY <1>6 DEF Pends
  <2>4. CASE RemoveDeclaration
    BY <1>3, <2>1, <2>4
  <2>5. CASE ~RemoveDeclaration
    <3>1. Undone(heap', d) \/ \E l \in 1 .. Len(registry') : registry'[l].declaration = d
      BY <1>2, <2>2, <2>5, EntryStays
    <3> QED BY <2>3, <3>1 DEF Cares, Held
  <2> QED BY <2>4, <2>5
<1> QED BY <1>3, <1>4, <1>5, <1>6, LeavingAfter

\* A declaration that waits is registered when it is visited.
LEMMA WaitingNext ==
  ASSUME ~Redeclare, LifeInv, PlainInv, PlainLists(heap, stack), BranchesFit(heap), [Next]_vars,
         NEW d \in 2 .. Len(heap), heap[d].kind = "decl", Waiting(heap, stack, d)
  PROVE  Waiting(heap', stack', d) \/ Held(heap', registry', stack', d)
<1>1. /\ TypeInv /\ registry \in Seq(EntryType(Len(heap))) /\ Len(heap) \in Nat /\ currentScope \in Nat
  BY HeapNext
<1>2. CASE UNCHANGED <<heap, stack>>
  BY <1>2
<1>3. CASE VisitDecl
  <2>1. Visiting({"decl"}) /\ registry' = Declare(registry, Visited) /\ stack' = Step(stack)
    BY <1>3 DEF VisitDecl
  <2>2. Visited = d /\ Visited \in 1 .. Len(heap) /\ heap[Visited] \in NodeType(Len(heap))
    BY <2>1, VisitedLast DEF Waiting
  <2>3. /\ Len(registry') = Len(registry) + 1
        /\ SameEntry(Entry(heap[d].name, d, heap[d].auto), registry'[Len(registry) + 1])
    BY <1>1, <2>1, <2>2, DeclareIs
  <2>4. registry'[Len(registry) + 1].declaration = d
    BY <2>3 DEF SameEntry, Entry
  <2>5. Len(registry) + 1 \in 1 .. Len(registry')
    BY <1>1, <2>3
  <2> DEFINE fr == [Top EXCEPT !.i = @ + 1]
  <2>6. phase = "walk" /\ ~Top.leaving /\ stack' = SetTop(fr) /\ ~fr.leaving
    <3>1. phase = "walk" /\ ~Top.leaving
      BY <2>1 DEF Visiting
    <3> QED BY <1>1, <2>1, <3>1, StepIs DEF SameWalk
  <2>7. stack'[Len(stack')] = fr
    BY <1>1, <2>6, NewTop DEF Top
  <2> QED BY <2>4, <2>5, <2>6, <2>7 DEF Held, Pends
<1>4. ASSUME NEW kinds, Visiting(kinds), "decl" \notin kinds
      PROVE  FALSE
  <2>1. Visited = Len(heap) /\ heap[Visited].kind \in kinds
    BY <1>4, VisitedLast
  <2> QED BY <1>4, <2>1 DEF Waiting
<1>5. ASSUME phase = "walk", Idle(heap, Top)
      PROVE  FALSE
  BY <1>5 DEF Waiting, Top
<1>6. ~(RevealNothing \/ VisitNull \/ LeaveBranches \/ EndOfStatements \/ InsertDestroy \/ LeaveBlock)
  BY <1>5, RestIdle
<1>7. ~RemoveDeclaration
  BY <1>5 DEF RemoveDeclaration, Handling, Idle
<1>8. \A s \in Shapes : ~Reveal(s)
  BY RevealWaits
<1>9. ~(VisitUnused \/ VisitAlias \/ VisitExpr \/ EnterBranches \/ EnterBlock)
  BY <1>4 DEF VisitUnused, VisitAlias, VisitExpr, EnterBranches, EnterBlock
<1>10. CASE ThrowRedeclaration
  BY <1>2, <1>10 DEF ThrowRedeclaration
<1> QED BY <1>2, <1>3, <1>6, <1>7, <1>8, <1>9, <1>10, NoRedeclaration DEF Next, vars

\* Every declaration stays cared for.
LEMMA CaredNext ==
  ASSUME ~Redeclare, LifeInv, PlainInv, UsageInv, PlainLists(heap, stack),
         InOrder(heap), AllSound(heap, registry), Cared(heap, freed, registry, stack), [Next]_vars
  PROVE  Cared(heap', freed', registry', stack')
<1> SUFFICES ASSUME NEW d \in 2 .. Len(heap'), heap'[d].written, heap'[d].kind = "decl"
             PROVE  Cares(heap', freed', registry', stack', d)
  BY DEF Cared
<1>1. /\ Len(heap) \in Nat /\ Len(heap') \in Nat /\ TreeOK(heap)
  BY HeapNext
<1>2. CASE d \in 2 .. Len(heap)
  <2>1. heap[d].written /\ heap[d].kind = "decl"
    <3>1. d \in 1 .. Len(heap)
      BY <1>1, <1>2
    <3> QED BY <3>1, NodesStay DEF SameNode
  <2>2. Cares(heap, freed, registry, stack, d)
    BY <1>2, <2>1 DEF Cared
  <2>3. CASE d \in freed
    <3>1. freed \subseteq freed'
      BY FreedStays
    <3> QED BY <2>3, <3>1 DEF Cares
  <2>4. CASE Waiting(heap, stack, d)
    BY <1>2, <2>1, <2>4, WaitingNext DEF Cares, UsageInv
  <2>5. CASE Undone(heap, d)
    BY <1>2, <2>5, UndoneStays DEF Cares
  <2>6. CASE Held(heap, registry, stack, d)
    BY <1>2, <2>1, <2>6, HeldNext DEF UsageInv
  <2>7. CASE Settled(heap, d) /\ Gone(heap, stack, d)
    BY <1>2, <2>1, <2>7, SettledStays, GoneStays DEF Cares
  <2> QED BY <2>2, <2>3, <2>4, <2>5, <2>6, <2>7 DEF Cares
<1>3. CASE d \notin 2 .. Len(heap)
  <2>1. Len(heap) >= 1
    BY <1>1 DEF TreeOK
  <2>2. Len(heap') # Len(heap)
    BY <1>3
  <2>3. d = Len(heap) + 1
    BY <1>1, <1>3, <2>1, <2>2, NewStatement
  <2>4. \E s \in Shapes : Reveal(s)
    BY <2>2, <2>3, NewStatement
  <2> QED BY <2>3, <2>4, RevealWaits DEF Cares
<1> QED BY <1>2, <1>3

\* The walk is done when the outermost block is left.
LEMMA DoneNext ==
  ASSUME LifeInv, phase = "done" => stack = << >>, [Next]_vars
  PROVE  phase' = "done" => stack' = << >>
<1> SUFFICES ASSUME phase' = "done" PROVE stack' = << >>
  OBVIOUS
<1>1. CASE phase # "walk"
  <2>1. UNCHANGED vars
    BY <1>1, NotWalking
  <2> QED BY <2>1 DEF vars
<1>2. CASE phase = "walk"
  <2>1. TypeInv
    BY DEF LifeInv, WalkInv
  <2>2. CASE LeaveBlock
    <3>1. Len(stack) = 1 /\ stack' = Under
      BY <2>2 DEF LeaveBlock
    <3>2. Extends(heap, heap') /\ Len(heap') \in Nat /\ stack # << >>
      BY <1>2, <2>1, HeapNext, TopIs
    <3> QED BY <2>1, <3>1, <3>2, UnderIs
  <2>3. CASE ~LeaveBlock
    <3> USE DEF Touching
    <3>1. ~(VisitUnused \/ VisitAlias)
      BY <1>2 DEF VisitUnused, VisitAlias
    <3>2. ~(EndOfStatements \/ RemoveDeclaration \/ InsertDestroy)
      BY <1>2 DEF EndOfStatements, RemoveDeclaration, InsertDestroy
    <3>3. ~VisitRedeclaration
      BY <1>2 DEF VisitRedeclaration
    <3>4. ~(VisitNull \/ VisitDecl \/ ThrowRedeclaration \/ VisitExpr \/ EnterBranches \/ LeaveBranches)
      BY <1>2 DEF VisitNull, VisitDecl, ThrowRedeclaration, VisitExpr, EnterBranches, LeaveBranches
    <3>5. ~(RevealNothing \/ EnterBlock \/ \E s \in Shapes : Reveal(s))
      BY <1>2 DEF RevealNothing, EnterBlock, Reveal
    <3>6. ~UNCHANGED vars
      BY <1>2 DEF vars
    <3> QED BY <2>3, <3>1, <3>2, <3>3, <3>4, <3>5, <3>6 DEF Next
  <2> QED BY <2>2, <2>3
<1> QED BY <1>1, <1>2

\* Only declarations and aliases are deleted.
FreedDecls(h, fd) == \A x \in fd : x \in 1 .. Len(h) /\ h[x].kind \in {"decl", "alias"}

\* That is so after every step.
LEMMA FreedDeclsNext ==
  ASSUME ~Redeclare, NoErrorIgnored, LifeInv, PlainInv, FreedDecls(heap, freed), [Next]_vars
  PROVE  FreedDecls(heap', freed')
<1>1. ASSUME NEW x \in freed'
      PROVE  x \in 1 .. Len(heap) /\ heap[x].kind \in {"decl", "alias"}
  <2>1. CASE x \in freed
    BY <2>1 DEF FreedDecls
  <2>2. CASE x \notin freed
    <3>1. RemoveDeclaration /\ freed' # freed
      BY <2>2, FreedNext
    <3>2. x = Remaining.declaration
      BY <2>2, <3>1, RemovedUnlisted
    <3>3. Handling
      BY <3>1 DEF RemoveDeclaration
    <3>4. x \in 2 .. Len(heap) /\ heap[x].kind \in {"decl", "alias"}
      BY <3>2, <3>3, RemainingHome DEF Declares
    <3> QED BY <3>4, HeapNext
  <2> QED BY <2>1, <2>2
<1> QED BY <1>1, NodesStay DEF FreedDecls, SameNode

\* What is kept for the destroys.
DestroyInv ==
  /\ InOrder(heap) /\ Inserted(heap) /\ PlainLists(heap, stack)
  /\ AllListed(heap, freed) /\ NullFree(heap, stack) /\ FreedDecls(heap, freed)
  /\ AllSound(heap, registry)
  /\ DestroysOnce(heap) /\ PendingFree(heap, registry, stack)
  /\ Cared(heap, freed, registry, stack)
  /\ phase = "done" => stack = << >>

\* Every step keeps it.
LEMMA DestroyNext ==
  ASSUME ~Redeclare, NoErrorIgnored, LifeInv, PlainInv, UsageInv, DestroyInv, [Next]_vars
  PROVE  DestroyInv'
<1>1. /\ InOrder(heap) /\ Inserted(heap) /\ PlainLists(heap, stack)
      /\ AllListed(heap, freed) /\ NullFree(heap, stack) /\ FreedDecls(heap, freed)
      /\ AllSound(heap, registry)
      /\ DestroysOnce(heap) /\ PendingFree(heap, registry, stack)
      /\ Cared(heap, freed, registry, stack)
      /\ phase = "done" => stack = << >>
      /\ NameOnce(registry)
  BY DEF DestroyInv, UsageInv
<1>2. InOrder(heap') /\ Inserted(heap') /\ PlainLists(heap', stack')
  BY <1>1, InOrderNext, InsertedNext, PlainListsNext
<1>3. AllListed(heap', freed') /\ NullFree(heap', stack') /\ AllSound(heap', registry')
  BY <1>1, AllListedNext, NullFreeNext, SoundNext
<1>4. DestroysOnce(heap') /\ PendingFree(heap', registry', stack')
  BY <1>1, DestroysOnceNext, PendingFreeNext
<1>5. Cared(heap', freed', registry', stack')
  BY <1>1, CaredNext
<1>6. phase' = "done" => stack' = << >>
  BY <1>1, DoneNext
<1>7. FreedDecls(heap', freed')
  BY <1>1, FreedDeclsNext
<1> QED BY <1>2, <1>3, <1>4, <1>5, <1>6, <1>7 DEF DestroyInv

\* At the start there is an empty block and nothing else.
LEMMA DestroyInit ==
  ASSUME Init
  PROVE  DestroyInv
<1> DEFINE n == Node(Shape("block", CHOOSE x \in Names : TRUE), Null, TRUE)
<1>1. /\ heap = <<n>> /\ n.kids = << >> /\ n.written /\ registry = << >> /\ phase = "walk"
      /\ stack = <<Frame(1, 1)>>
  BY DEF Init, Node, Shape
<1> HIDE DEF n
<1>2. /\ Len(heap) = 1 /\ 1 .. Len(heap) = {1} /\ heap[1] = n /\ 1 .. Len(registry) = {}
      /\ 2 .. Len(heap) = {} /\ 1 .. Len(n.kids) = {}
      /\ 1 .. Len(stack) = {1} /\ stack[1] = Frame(1, 1) /\ Len(stack) = 1
  BY <1>1
<1>3. /\ \A x : ~In(n.kids, x)
      /\ \A x, y : ~Before(n.kids, x, y)
  BY <1>2 DEF In, Before
<1>4. InOrder(heap) /\ Inserted(heap) /\ DestroysOnce(heap) /\ NullFree(heap, stack)
  BY <1>1, <1>2, <1>3 DEF InOrder, Inserted, DestroysOnce, NullFree
<1>5. AllListed(heap, freed) /\ Cared(heap, freed, registry, stack) /\ AllSound(heap, registry)
  BY <1>2 DEF AllListed, Cared, AllSound
<1>6. PlainLists(heap, stack) /\ PendingFree(heap, registry, stack)
  <2>1. stack[1].id = 1 /\ stack[1].pending = << >>
    BY <1>2 DEF Frame
  <2>2. 1 .. Len(stack[Len(stack)].pending) = {}
    BY <1>2, <2>1
  <2> QED BY <1>2, <1>3, <2>1, <2>2 DEF PlainLists, PendingFree
<1>7. FreedDecls(heap, freed)
  BY DEF Init, FreedDecls
<1> QED BY <1>1, <1>4, <1>5, <1>6, <1>7 DEF DestroyInv

-----------------------------------------------------------------------------
(* The finished program.                                                   *)

\* Between a statement and one around it there is a kid of the latter.
LEMMA KidAround ==
  ASSUME NEW h, h \in Seq(NodeType(Len(h))), TreeOK(h), NEW u \in 1 .. Len(h),
         NEW x \in EnclosingOf(h)[u], x # u
  PROVE  /\ h[x].kind \in Compound
         /\ \E a \in EnclosingOf(h)[u] : a \in 2 .. Len(h) /\ h[a].parent = x
<1> DEFINE E == EnclosingOf(h)
           has(n, y) == \E a \in E[n] : a \in 2 .. Len(h) /\ h[a].parent = y
           bad == {n \in 1 .. Len(h) : \E y \in E[n] : y # n /\ ~has(n, y)}
<1>1. Len(h) \in Nat
  OBVIOUS
<1>2. \A n \in 1 .. Len(h) : E[n] = {n} \cup E[h[n].parent] /\ E[0] = {}
  BY <1>1, EnclosingStep
<1> HIDE DEF E
<1>3. bad = {}
  <2> SUFFICES ASSUME bad # {} PROVE FALSE
    OBVIOUS
  <2>1. bad \subseteq Nat
    BY <1>1
  <2> HIDE DEF bad
  <2>2. PICK n \in bad : \A m \in bad : n <= m
    BY <2>1, LeastExists
  <2>3. n \in 1 .. Len(h) /\ \E y \in E[n] : y # n /\ ~has(n, y)
    BY <2>2 DEF bad
  <2>4. PICK y \in E[n] : y # n /\ ~has(n, y)
    BY <2>3
  <2> DEFINE p == h[n].parent
  <2>5. y \in E[p]
    BY <1>2, <2>3, <2>4
  <2>6. n # 1
    <3> SUFFICES ASSUME n = 1 PROVE FALSE
      OBVIOUS
    <3>1. p = 0
      BY DEF TreeOK, Null
    <3> QED BY <1>2, <2>3, <2>5, <3>1
  <2>7. n \in 2 .. Len(h) /\ p \in 1 .. Len(h) /\ p < n /\ n \in E[n]
    <3>1. n \in 2 .. Len(h)
      BY <1>1, <2>3, <2>6
    <3>2. p \in 1 .. n - 1
      BY <3>1 DEF TreeOK
    <3> QED BY <1>1, <1>2, <2>3, <3>1, <3>2
  <2>8. CASE y = p
    BY <2>4, <2>7, <2>8
  <2>9. CASE y # p
    <3>1. p \notin bad
      BY <1>1, <2>2, <2>3, <2>7
    <3>2. has(p, y)
      BY <2>5, <2>7, <2>9, <3>1 DEF bad
    <3>3. E[p] \subseteq E[n]
      BY <1>2, <2>3
    <3> QED BY <2>4, <3>2, <3>3
  <2> QED BY <2>8, <2>9
<1>4. has(u, x)
  BY <1>3 DEF E
<1>5. PICK a \in E[u] : a \in 2 .. Len(h) /\ h[a].parent = x
  BY <1>4
<1>6. h[x].kind \in Compound
  BY <1>5 DEF TreeOK
<1> QED BY <1>5, <1>6 DEF E

\* What the source leaves to the precompiler has been destroyed once.
LEMMA DestroyedAtEnd ==
  ASSUME LifeInv, DestroyInv, InBlocks(heap), phase = "done", NEW d \in Managed \ freed
  PROVE  LET b == BlockIn(heap, d)
             K == heap[b].kids
         IN  /\ BlockOf(d) = b /\ b \in 1 .. Len(heap) /\ heap[b].kind = "block" /\ heap[b].written
             /\ d \in 2 .. Len(heap) /\ DOMAIN K = 1 .. Len(K)
             /\ \A i \in 1 .. Len(K) : K[i] # Null /\ K[i] \in 1 .. Len(heap)
             /\ \E k \in 1 .. Len(K) : /\ Destroys(d) = {k}
                                       /\ \A i \in 1 .. Len(K) : heap[K[i]].written /\ Early(heap, d, K[i]) => i < k
<1> DEFINE b == BlockIn(heap, d)
           K == heap[b].kids
<1>1. /\ TypeInv /\ BlockInv /\ TreeOK(heap) /\ KidsOK(heap) /\ Once(heap)
      /\ heap \in Seq(NodeType(Len(heap))) /\ DOMAIN heap = 1 .. Len(heap) /\ Len(heap) \in Nat
  <2>1. TypeInv /\ BlockInv /\ Once(heap)
    BY DEF LifeInv, WalkInv
  <2>2. heap \in Seq(NodeType(Len(heap)))
    BY <2>1 DEF TypeInv
  <2> QED BY <2>1, <2>2 DEF BlockInv
<1>2. /\ InOrder(heap) /\ Inserted(heap) /\ AllListed(heap, freed) /\ NullFree(heap, stack)
      /\ DestroysOnce(heap) /\ Cared(heap, freed, registry, stack) /\ stack = << >>
  BY DEF DestroyInv
<1>3. /\ d \in 1 .. Len(heap) /\ heap[d].written /\ heap[d].kind = "decl" /\ d \notin freed
      /\ \A n \in 1 .. Len(heap) :
            ~(/\ heap[n].written /\ heap[n].kind = "unused" /\ heap[n].name = heap[d].name
              /\ n > d /\ b \in EnclosingOf(heap)[n])
  BY <1>1, BlockOfIsIn, EnclosingIsOf DEF Managed, Decls, Written
<1>4. d \in 2 .. Len(heap) /\ d # Null
  <2>1. d # 1
    BY <1>1, <1>3 DEF TreeOK
  <2> QED BY <1>1, <1>3, <2>1 DEF Null
<1>5. /\ b = heap[d].parent /\ b \in 1 .. Len(heap) /\ heap[b].kind = "block"
  <2>1. heap[heap[d].parent].kind = "block"
    BY <1>3, <1>4 DEF InBlocks
  <2>2. b = heap[d].parent
    BY <1>1, <1>4, <2>1, BlockInStep
  <2>3. b \in 1 .. d - 1
    BY <1>1, <1>4, BlockInBefore
  <2> HIDE DEF b
  <2>4. b \in 1 .. Len(heap)
    BY <1>1, <1>3, <2>3
  <2> QED BY <2>1, <2>2, <2>4
<1> HIDE DEF b
<1>6. /\ Len(K) \in Nat /\ OnceSeq(K) /\ ~In(K, Null) /\ In(K, d)
      /\ \A x : In(K, x) => x \in 0 .. Len(heap) /\ (x # Null => x \in 1 .. Len(heap))
      /\ K \in Seq(0 .. Len(heap))
  <2>1. Staying(stack, b)
    <3>1. 1 .. Len(stack) = {}
      BY <1>2
    <3> QED BY <3>1 DEF Staying
  <2>2. ~In(K, Null)
    BY <1>2, <1>5, <2>1 DEF NullFree
  <2>3. In(K, d)
    BY <1>2, <1>3, <1>4, <1>5 DEF AllListed, Listed
  <2>4. heap[b] \in NodeType(Len(heap))
    BY <1>1, <1>5
  <2>5. K \in Seq(0 .. Len(heap))
    BY <2>4 DEF NodeType
  <2> QED BY <1>1, <1>5, <2>2, <2>3, <2>5, KidsRange DEF Once
<1>7. heap[b].written
  BY <1>2, <1>5 DEF Inserted
<1>8. Settled(heap, d)
  <2>1. Cares(heap, freed, registry, stack, d)
    BY <1>2, <1>3, <1>4 DEF Cared
  <2>2. ~Waiting(heap, stack, d)
    BY <1>2 DEF Waiting
  <2>3. ~Undone(heap, d)
    <3> SUFFICES ASSUME Undone(heap, d) PROVE FALSE
      OBVIOUS
    <3>1. PICK n \in 1 .. Len(heap) : /\ heap[n].written /\ heap[n].kind = "unused" /\ heap[n].name = heap[d].name
                                      /\ d < n /\ b \in EnclosingOf(heap)[n]
      BY DEF Undone, b
    <3>2. n > d
      BY <1>1, <1>3, <3>1
    <3> QED BY <1>3, <3>1, <3>2
  <2>4. ~Held(heap, registry, stack, d)
    <3> SUFFICES ASSUME NEW k \in 1 .. Len(registry), registry[k].declaration = d PROVE FALSE
      BY DEF Held
    <3>1. Housed(heap, stack, registry[k])
      BY <1>1, <1>4 DEF BlockInv
    <3>2. 1 .. Len(stack) = {}
      BY <1>2
    <3> QED BY <3>1, <3>2 DEF Housed, Blocks
  <2> QED BY <1>3, <2>1, <2>2, <2>3, <2>4 DEF Cares
<1>9. PICK z \in 1 .. Len(heap) :
         /\ ~heap[z].written /\ heap[z].kind = "unused" /\ heap[z].name = heap[d].name /\ In(K, z)
         /\ \A x : x # Null /\ In(K, x) /\ heap[x].written /\ Early(heap, d, x) => Before(K, x, z)
  BY <1>8 DEF Settled, b
<1>10. z # Null
  BY <1>1, <1>9 DEF Null
<1> HIDE DEF K
<1>11. \A i \in 1 .. Len(K) : K[i] # Null /\ K[i] \in 1 .. Len(heap) /\ In(K, K[i])
  BY <1>6 DEF In
<1>12. \A i, j \in 1 .. Len(K) : Before(K, K[i], K[j]) => i < j
  BY <1>6, <1>11 DEF Before, OnceSeq
<1>13. PICK k \in 1 .. Len(K) : K[k] = z
  BY <1>9 DEF In
<1> DEFINE q == IndexOf(K, d)
<1>14. q \in 1 .. Len(K) /\ K[q] = d
  <2>1. q \in 0 .. Len(K) /\ (q # 0 => K[q] = d) /\ q # 0
    BY <1>6, IndexOfIs DEF In
  <2> HIDE DEF q
  <2> QED BY <1>6, <2>1
<1>15. \A i \in 1 .. Len(K) : heap[K[i]].written /\ Early(heap, d, K[i]) => i < k
  BY <1>9, <1>11, <1>12, <1>13
<1>16. q < k
  BY <1>3, <1>14, <1>15 DEF Early
<1>17. DOMAIN K = 1 .. Len(K)
  BY <1>6
<1>18. Destroys(d) = {i \in 1 .. Len(K) : /\ heap[K[i]].kind = "unused" /\ heap[K[i]].name = heap[d].name
                                          /\ i > q}
  <2>1. BlockOf(d) = b
    BY BlockOfIsIn DEF b
  <2> QED BY <1>17, <2>1 DEF Destroys, K
<1> HIDE DEF q
<1>19. k > q
  BY <1>6, <1>13, <1>14, <1>16
<1>20. k \in Destroys(d)
  BY <1>9, <1>13, <1>18, <1>19
<1>21. ASSUME NEW i \in Destroys(d)
       PROVE  i = k
  <2>1. i \in 1 .. Len(K) /\ heap[K[i]].kind = "unused" /\ heap[K[i]].name = heap[d].name /\ i > q
    BY <1>18, <1>21
  <2> DEFINE y == K[i]
  <2>2. y # Null /\ y \in 1 .. Len(heap) /\ In(K, y)
    BY <1>11, <2>1
  <2>3. CASE heap[y].written
    <3>1. Before(K, d, y)
      <4>1. q < i
        BY <1>6, <1>14, <2>1
      <4> QED BY <1>14, <2>1, <4>1 DEF Before
    <3>2. d < y
      BY <1>2, <1>3, <1>4, <1>5, <2>2, <2>3, <3>1 DEF InOrder, K
    <3>3. y > d
      BY <1>3, <2>2, <3>2
    <3>4. heap[y].parent = b
      <4>1. i \in 1 .. Len(heap[b].kids) /\ heap[b].kids[i] = y
        BY <2>1 DEF K
      <4> HIDE DEF y, K
      <4>2. heap[b].kids[i] # Null => heap[heap[b].kids[i]].parent = b
        BY <1>1, <1>5, <4>1 DEF KidsOK
      <4> QED BY <2>2, <4>1, <4>2
    <3>5. b \in EnclosingOf(heap)[y]
      <4> HIDE DEF y
      <4>1. b \in EnclosingOf(heap)[b]
        BY <1>1, <1>5, EnclosingStep
      <4>2. EnclosingOf(heap)[y] = {y} \cup EnclosingOf(heap)[heap[y].parent]
        BY <1>1, <2>2, EnclosingStep
      <4> QED BY <3>4, <4>1, <4>2
    <3> QED BY <1>3, <2>1, <2>2, <2>3, <3>3, <3>5
  <2>4. CASE ~heap[y].written
    <3>1. y = z
      BY <1>2, <1>5, <1>9, <1>10, <2>1, <2>2, <2>4 DEF DestroysOnce, K
    <3> QED BY <1>6, <1>13, <2>1, <2>2, <3>1 DEF OnceSeq
  <2> QED BY <2>3, <2>4
<1>22. Destroys(d) = {k}
  BY <1>20, <1>21
<1>23. BlockOf(d) = b
  BY BlockOfIsIn DEF b
<1> QED BY <1>4, <1>5, <1>7, <1>11, <1>15, <1>17, <1>22, <1>23 DEF b, K

\* A statement of the block is, or encloses, each use of its variables.
LEMMA UsePosition ==
  ASSUME LifeInv, UsageInv, DestroyInv, phase = "done", NEW d \in 2 .. Len(heap), NEW u \in UsesOf(d),
         NEW b, b = BlockIn(heap, d), b \in 1 .. Len(heap), heap[b].kind = "block"
  PROVE  LET K == heap[b].kids
             p == Position(b, u)
         IN  p \in DOMAIN K /\ (K[p] \in 1 .. Len(heap) => heap[K[p]].written /\ Early(heap, d, K[p]))
<1> DEFINE K == heap[b].kids
           p == Position(b, u)
<1>1. /\ TypeInv /\ TreeOK(heap) /\ heap \in Seq(NodeType(Len(heap)))
      /\ DOMAIN heap = 1 .. Len(heap) /\ Len(heap) \in Nat
  <2>1. TypeInv /\ BlockInv
    BY DEF LifeInv, WalkInv
  <2>2. heap \in Seq(NodeType(Len(heap)))
    BY <2>1 DEF TypeInv
  <2> QED BY <2>1, <2>2 DEF BlockInv
<1>2. u \in 1 .. Len(heap) /\ u \notin freed /\ RefersIn(heap, u, d) /\ heap[u].written
  BY <1>1, RefersIsIn DEF UsesOf, Written
<1>3. b \in EnclosingOf(heap)[u] /\ heap[u].uses # {}
  BY <1>2 DEF RefersIn, VisibleIn
<1>4. b # u
  BY <1>2, <1>3 DEF UsageInv, NoUses
<1>5. PICK a \in EnclosingOf(heap)[u] : a \in 2 .. Len(heap) /\ heap[a].parent = b
  BY <1>1, <1>2, <1>3, <1>4, KidAround
<1>6. \A x \in EnclosingOf(heap)[u] : x \in 1 .. u /\ (x # u => heap[x].kind \in Compound)
  <2>1. u \in 0 .. Len(heap)
    BY <1>1, <1>2
  <2> QED BY <1>1, <1>2, <2>1, EnclosingBefore, KidAround
<1>7. a \notin freed
  <2>1. a \in freed => heap[a].kind \in {"decl", "alias"}
    BY DEF DestroyInv, FreedDecls
  <2> QED BY <1>2, <1>6, <2>1 DEF Compound
<1>8. In(K, a) /\ a # Null
  BY <1>5, <1>7 DEF DestroyInv, AllListed, Listed, Null
<1>9. DOMAIN K = 1 .. Len(K)
  <2>1. heap[b] \in NodeType(Len(heap))
    BY <1>1
  <2>2. K \in Seq(0 .. Len(heap))
    BY <2>1 DEF NodeType
  <2> HIDE DEF K
  <2> QED BY <2>2
<1>10. \E i \in DOMAIN K : K[i] # Null /\ K[i] \in EnclosingOf(heap)[u]
  BY <1>8, <1>9 DEF In
<1>11. p = CHOOSE i \in DOMAIN K : K[i] # Null /\ K[i] \in EnclosingOf(heap)[u]
  BY EnclosingIsOf DEF Position
<1> HIDE DEF p, K
<1>12. p \in DOMAIN K /\ K[p] \in EnclosingOf(heap)[u]
  BY <1>10, <1>11
<1>13. ASSUME K[p] \in 1 .. Len(heap)
       PROVE  heap[K[p]].written /\ Early(heap, d, K[p])
  <2>1. K[p] <= u /\ (K[p] # u => heap[K[p]].kind \in Compound)
    BY <1>2, <1>6, <1>12, <1>13
  <2>2. Early(heap, d, K[p])
    BY <1>2, <2>1 DEF Early
  <2>3. heap[K[p]].written
    <3>1. ~heap[K[p]].written => heap[K[p]].kind = "unused"
      BY <1>13 DEF DestroyInv, Inserted
    <3> QED BY <1>2, <2>1, <3>1 DEF Compound
  <2> QED BY <2>2, <2>3
<1> QED BY <1>12, <1>13 DEF p, K

\* The two properties of the destroys.
LEMMA DestroyProperties ==
  ASSUME LifeInv, UsageInv, DestroyInv, InBlocks(heap)
  PROVE  DestroyedOnceAfterLastUse /\ UndeletableDestroyedAtEnd
<1>1. ASSUME phase = "done", NEW d \in Managed \ freed
      PROVE  /\ \E k \in Destroys(d) : /\ Destroys(d) = {k}
                                       /\ \A u \in UsesOf(d) : Position(BlockOf(d), u) < k
             /\ ~heap[d].auto => ClosedByDestroy(d)
  <2> DEFINE b == BlockIn(heap, d)
             K == heap[b].kids
  <2>1. /\ BlockOf(d) = b /\ b \in 1 .. Len(heap) /\ heap[b].kind = "block"
        /\ d \in 2 .. Len(heap) /\ DOMAIN K = 1 .. Len(K)
        /\ \A i \in 1 .. Len(K) : K[i] # Null /\ K[i] \in 1 .. Len(heap)
        /\ \E k \in 1 .. Len(K) : /\ Destroys(d) = {k}
                                  /\ \A i \in 1 .. Len(K) : heap[K[i]].written /\ Early(heap, d, K[i]) => i < k
    BY <1>1, DestroyedAtEnd
  <2>2. ASSUME NEW u \in UsesOf(d)
        PROVE  LET p == Position(b, u)
               IN  p \in 1 .. Len(K) /\ heap[K[p]].written /\ Early(heap, d, K[p])
    <3> HIDE DEF b
    <3>1. b = BlockIn(heap, d)
      BY DEF b
    <3> QED BY <1>1, <2>1, <3>1, UsePosition
  <2> HIDE DEF b, K
  <2>3. PICK k \in 1 .. Len(K) : /\ Destroys(d) = {k}
                                 /\ \A i \in 1 .. Len(K) : heap[K[i]].written /\ Early(heap, d, K[i]) => i < k
    BY <2>1
  <2>4. \A u \in UsesOf(d) : Position(BlockOf(d), u) < k
    BY <2>1, <2>2, <2>3
  <2>5. ASSUME ~heap[d].auto, NEW j \in DOMAIN K, heap[K[j]].written
        PROVE  j < k
    BY <2>1, <2>3, <2>5 DEF Early
  <2>6. heap[BlockOf(d)].kids = K
    BY <2>1 DEF K
  <2>7. ~heap[d].auto => ClosedByDestroy(d)
    BY <2>3, <2>5, <2>6 DEF ClosedByDestroy
  <2> QED BY <2>3, <2>4, <2>7
<1>2. NoKnownUse
  BY UsageProperty DEF LifeInv, WalkInv, UsageInv
<1>3. ASSUME phase = "done", NEW d \in Managed, ~heap[d].auto, d \notin freed \/ UsesOf(d) # {}
      PROVE  ClosedByDestroy(d)
  <2>1. d \notin freed
    BY <1>2, <1>3 DEF NoKnownUse, Managed
  <2> QED BY <1>1, <1>3, <2>1
<1> QED BY <1>1, <1>3 DEF DestroyedOnceAfterLastUse, UndeletableDestroyedAtEnd

\* All invariants of the walk hold together.
LEMMA DestroyInvariant ==
  ~Redeclare /\ ~BareDecl /\ NoErrorIgnored => (Spec => [](LifeInv /\ UsageInv /\ DestroyInv /\ InBlocks(heap)))
<1> SUFFICES ASSUME ~Redeclare, ~BareDecl, NoErrorIgnored
             PROVE  Spec => [](LifeInv /\ UsageInv /\ DestroyInv /\ InBlocks(heap))
  OBVIOUS
<1> DEFINE Inv == PlainInv /\ UsageInv /\ DestroyInv /\ InBlocks(heap)
<1>1. Init => Inv
  <2> SUFFICES ASSUME Init PROVE InBlocks(heap)
    BY PlainInit, UsageInit, DestroyInit
  <2>1. 2 .. Len(heap) = {}
    BY DEF Init
  <2> QED BY <2>1 DEF InBlocks
<1>2. LifeInv /\ Inv /\ [Next]_vars => Inv'
  <2> SUFFICES ASSUME LifeInv, Inv, [Next]_vars PROVE Inv'
    OBVIOUS
  <2>1. PlainInv'
    BY PlainNext DEF Skipless
  <2>2. UsageInv'
    BY UsageNext
  <2>3. DestroyInv'
    BY DestroyNext
  <2>4. InBlocks(heap')
    BY InBlocksNext
  <2> QED BY <2>1, <2>2, <2>3, <2>4
<1>3. LifeInv /\ Inv => LifeInv /\ UsageInv /\ DestroyInv /\ InBlocks(heap)
  OBVIOUS
<1> HIDE DEF Inv
<1> QED BY <1>1, <1>2, <1>3, LifeInvariant, PTL DEF Spec

\* A variable the source does not destroy is destroyed exactly once in its
\* block, after the last statement known to use it, however deep: in programs that
\* declare no name a second time while it is registered and no variable as a
\* branch of its own, if errors end the walk.
THEOREM DestroyedAfterUse ==
  ~Redeclare /\ ~BareDecl /\ NoErrorIgnored => (Spec => []DestroyedOnceAfterLastUse)
<1> SUFFICES ASSUME ~Redeclare, ~BareDecl, NoErrorIgnored PROVE Spec => []DestroyedOnceAfterLastUse
  OBVIOUS
<1>1. LifeInv /\ UsageInv /\ DestroyInv /\ InBlocks(heap) => DestroyedOnceAfterLastUse
  BY DestroyProperties
<1>2. Spec => [](LifeInv /\ UsageInv /\ DestroyInv /\ InBlocks(heap))
  BY DestroyInvariant
<1> QED BY <1>1, <1>2, PTL

\* One marked used goes after every statement of its block, if it has a known
\* use or its declaration stays.
THEOREM UndeletableAtEnd ==
  ~Redeclare /\ ~BareDecl /\ NoErrorIgnored => (Spec => []UndeletableDestroyedAtEnd)
<1> SUFFICES ASSUME ~Redeclare, ~BareDecl, NoErrorIgnored PROVE Spec => []UndeletableDestroyedAtEnd
  OBVIOUS
<1>1. LifeInv /\ UsageInv /\ DestroyInv /\ InBlocks(heap) => UndeletableDestroyedAtEnd
  BY DestroyProperties
<1>2. Spec => [](LifeInv /\ UsageInv /\ DestroyInv /\ InBlocks(heap))
  BY DestroyInvariant
<1> QED BY <1>1, <1>2, PTL

=============================================================================
