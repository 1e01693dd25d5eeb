----------------------------- MODULE Parser_proofs -----------------------------
(***************************************************************************)
(* With panic no handler of the parser reads a null pointer but the one    *)
(* for a module's name (NothingReadAfterError).                            *)
(*                                                                         *)
(* A shape says how many results are on vals and what each may be.         *)
(* Ok(t, a, b) says for a task t that it may run on results of shape a     *)
(* and leaves results of shape b, Runs that the tasks of a list do so one  *)
(* after the other.  The invariant Safe is that the tasks on todo run from *)
(* the results there are.  So there is a lemma for each function of the    *)
(* parser, that the tasks it puts in its own place do together what Ok     *)
(* says of it.  With panic an error ends the process; a null pointer comes *)
(* only from parse_primary_expr at auto or any, with the cursor still at   *)
(* that keyword.  A function whose result is still unread has the cursor   *)
(* there, and the next token it expects is another.                        *)
(***************************************************************************)
EXTENDS Parser, SequenceTheorems, FiniteSetTheorems, WellFoundedInduction, TLAPS

AA == {"AUTO", "ANY"}

-----------------------------------------------------------------------------
(* Shapes: what is known of the results on vals.                           *)

Classes == {"A", "N", "S"}

\* Of any value: it can be printed; of one of class N: its GetValue reads no
\* null pointer; of one of class S: nor is it null.
Fits(v, x) == ~v.unprinted /\ (x # "A" => ~v.holed) /\ (x = "S" => v # NullPtr)

Sub(x, y) == x = y \/ y = "A" \/ (x = "S" /\ y = "N")

\* n results of classes c, and if open any number more; if live the last one
\* has been read to its end: it is whole, or the cursor is at a type keyword.
Shape == [n : Nat, c : [Nat -> Classes], open : BOOLEAN, live : BOOLEAN]

IsSeq(s) == \E S : s \in Seq(S)

Fit(vs, a, cur) ==
  /\ IsSeq(vs)
  /\ IF a.open THEN a.n <= Len(vs) ELSE a.n = Len(vs)
  /\ \A i \in 1 .. Len(vs) : Fits(vs[i], a.c[i])
  /\ a.live => ~a.open /\ Len(vs) >= 1 /\ (Unread(vs[Len(vs)]) => cur \in AA)

\* Results of shape a are of shape b.
Leq(a, b) ==
  /\ IF b.open THEN b.n <= a.n ELSE ~a.open /\ a.n = b.n
  /\ \A i \in Nat \ {0} : (a.open \/ i <= a.n) => Sub(a.c[i], b.c[i])
  /\ b.live => ~a.open /\ ~b.open /\ a.n >= 1 /\ (a.live \/ a.c[a.n] = "S")

\* The results above the first h replaced by one of class x.
At(a, h, x, l) == [n |-> h + 1, c |-> [a.c EXCEPT ![h + 1] = x], open |-> FALSE, live |-> l]

Plain(a) == [n |-> a.n, c |-> a.c, open |-> a.open, live |-> FALSE]
Less(a)  == [n |-> a.n - 1, c |-> a.c, open |-> FALSE, live |-> FALSE]
Exact(a, n) == [n |-> n, c |-> a.c, open |-> FALSE, live |-> FALSE]

LEMMA AtShape ==
  ASSUME NEW a \in Shape, NEW h \in Nat, NEW x \in Classes, NEW l \in BOOLEAN
  PROVE  /\ At(a, h, x, l) \in Shape
         /\ At(a, h, x, l).n = h + 1
         /\ At(a, h, x, l).c[h + 1] = x
         /\ \A i \in Nat : i # h + 1 => At(a, h, x, l).c[i] = a.c[i]
         /\ At(a, h, x, l).open = FALSE
         /\ At(a, h, x, l).live = l
BY DEF At, Shape

LEMMA PlainShape ==
  ASSUME NEW a \in Shape
  PROVE  /\ Plain(a) \in Shape
         /\ Plain(a).n = a.n /\ Plain(a).c = a.c /\ Plain(a).open = a.open /\ Plain(a).live = FALSE
BY DEF Plain, Shape

LEMMA LeqReflexive == \A a \in Shape : ~(a.open /\ a.live) /\ (a.live => a.n >= 1) => Leq(a, a)
BY DEF Leq, Shape, Sub

LEMMA LeqTransitive ==
  ASSUME NEW a \in Shape, NEW b \in Shape, NEW d \in Shape, Leq(a, b), Leq(b, d)
  PROVE  Leq(a, d)
<1>1. /\ a.n \in Nat /\ b.n \in Nat /\ d.n \in Nat
      /\ a.open \in BOOLEAN /\ b.open \in BOOLEAN /\ d.open \in BOOLEAN
      /\ \A i \in Nat : a.c[i] \in Classes /\ b.c[i] \in Classes /\ d.c[i] \in Classes
  BY DEF Shape
<1>2. IF d.open THEN d.n <= a.n ELSE ~a.open /\ a.n = d.n
  BY <1>1 DEF Leq
<1>3. ASSUME NEW i \in Nat \ {0}, a.open \/ i <= a.n
      PROVE  Sub(a.c[i], d.c[i])
  <2>1. Sub(a.c[i], b.c[i])
    BY <1>3 DEF Leq
  <2>2. b.open \/ i <= b.n
    BY <1>1, <1>3 DEF Leq
  <2>3. Sub(b.c[i], d.c[i])
    BY <2>2 DEF Leq
  <2> QED BY <2>1, <2>3 DEF Sub
<1>4. ASSUME d.live
      PROVE  ~a.open /\ ~d.open /\ a.n >= 1 /\ (a.live \/ a.c[a.n] = "S")
  <2>1. ~b.open /\ ~d.open /\ b.n >= 1 /\ (b.live \/ b.c[b.n] = "S")
    BY <1>4 DEF Leq
  <2>2. ~a.open /\ a.n = b.n
    BY <2>1 DEF Leq
  <2>3. Sub(a.c[a.n], b.c[a.n])
    BY <1>1, <2>1, <2>2 DEF Leq
  <2> QED BY <1>1, <2>1, <2>2, <2>3 DEF Leq, Sub, Classes
<1> QED BY <1>2, <1>3, <1>4 DEF Leq

LEMMA FitsSub == \A v : \A x, y \in Classes : Fits(v, x) /\ Sub(x, y) => Fits(v, y)
BY DEF Fits, Sub, Classes

LEMMA FitLeq ==
  ASSUME NEW vs, NEW cur, NEW a \in Shape, NEW b \in Shape, Fit(vs, a, cur), Leq(a, b)
  PROVE  Fit(vs, b, cur)
<1>1. /\ a.n \in Nat /\ b.n \in Nat /\ a.open \in BOOLEAN /\ b.open \in BOOLEAN
      /\ \A i \in Nat : a.c[i] \in Classes /\ b.c[i] \in Classes
  BY DEF Shape
<1>2. IsSeq(vs) /\ Len(vs) \in Nat
  BY DEF Fit, IsSeq
<1>3. IF b.open THEN b.n <= Len(vs) ELSE b.n = Len(vs)
  BY <1>1, <1>2 DEF Fit, Leq
<1>4. ASSUME NEW i \in 1 .. Len(vs)
      PROVE  Fits(vs[i], b.c[i])
  <2>1. i \in Nat \ {0} /\ (a.open \/ i <= a.n)
    BY <1>1, <1>2, <1>4 DEF Fit
  <2>2. Fits(vs[i], a.c[i]) /\ Sub(a.c[i], b.c[i])
    BY <1>4, <2>1 DEF Fit, Leq
  <2> QED BY <1>1, <2>1, <2>2, FitsSub
<1>5. ASSUME b.live
      PROVE  ~b.open /\ Len(vs) >= 1 /\ (Unread(vs[Len(vs)]) => cur \in AA)
  <2>1. ~a.open /\ ~b.open /\ a.n >= 1 /\ (a.live \/ a.c[a.n] = "S")
    BY <1>5 DEF Leq
  <2>2. a.n = Len(vs) /\ Len(vs) >= 1
    BY <2>1 DEF Fit
  <2>3. CASE a.live
    BY <2>1, <2>2, <2>3 DEF Fit
  <2>4. CASE a.c[a.n] = "S"
    <3>1. Fits(vs[Len(vs)], "S")
      BY <1>2, <2>2, <2>4 DEF Fit
    <3> QED BY <2>1, <2>2, <3>1 DEF Fits, Unread
  <2> QED BY <2>1, <2>3, <2>4
<1> QED BY <1>2, <1>3, <1>4, <1>5 DEF Fit

\* One result in place of all above the first h.
LEMMA FitAt ==
  ASSUME NEW vs, NEW cur, NEW a \in Shape, Fit(vs, a, cur),
         NEW h \in Nat, h <= a.n, NEW x \in Classes, NEW v, Fits(v, x),
         NEW l \in BOOLEAN, NEW cur2, l => (Unread(v) => cur2 \in AA)
  PROVE  Fit(SubSeq(vs, 1, h) \o <<v>>, At(a, h, x, l), cur2)
<1> DEFINE w == SubSeq(vs, 1, h) \o <<v>>
           s == At(a, h, x, l)
<1>1. PICK S : vs \in Seq(S)
  BY DEF Fit, IsSeq
<1>2. Len(vs) \in Nat /\ h <= Len(vs) /\ a.n \in Nat
  BY <1>1 DEF Fit, Shape
<1>3. /\ vs \in Seq(S \cup {v}) /\ <<v>> \in Seq(S \cup {v})
  BY <1>1
<1>4. /\ SubSeq(vs, 1, h) \in Seq(S \cup {v}) /\ Len(SubSeq(vs, 1, h)) = h
      /\ \A i \in 1 .. h : SubSeq(vs, 1, h)[i] = vs[i]
  <2> USE <1>3, <1>2
  <2>1. \A i \in 1 .. h : vs[i] \in S \cup {v}
    OBVIOUS
  <2> QED BY <2>1
<1>5. /\ w \in Seq(S \cup {v}) /\ Len(w) = h + 1
      /\ w[h + 1] = v /\ \A i \in 1 .. h : w[i] = vs[i]
  BY <1>3, <1>4
<1>6. s.n = h + 1 /\ s.open = FALSE /\ s.live = l /\ s.c[h + 1] = x /\ \A i \in 1 .. h : s.c[i] = a.c[i]
  <2>1. \A i \in 1 .. h : i \in Nat /\ i # h + 1
    BY <1>2
  <2>2. /\ s.n = h + 1 /\ s.open = FALSE /\ s.live = l /\ s.c[h + 1] = x
        /\ \A i \in Nat : i # h + 1 => s.c[i] = a.c[i]
    BY DEF At, Shape
  <2> HIDE DEF s
  <2> QED BY <2>1, <2>2
<1>7. \A i \in 1 .. Len(w) : Fits(w[i], s.c[i])
  <2> SUFFICES ASSUME NEW i \in 1 .. h + 1 PROVE Fits(w[i], s.c[i])
    BY <1>5
  <2>1. CASE i = h + 1
    BY <2>1, <1>5, <1>6
  <2>2. CASE i \in 1 .. h
    <3>1. Fits(vs[i], a.c[i])
      BY <1>2, <2>2 DEF Fit
    <3> QED BY <3>1, <2>2, <1>5, <1>6
  <2> QED BY <2>1, <2>2
<1>8. IsSeq(w)
  BY <1>5 DEF IsSeq
<1> HIDE DEF w, s
<1>9. s.live => ~s.open /\ Len(w) >= 1 /\ (Unread(w[Len(w)]) => cur2 \in AA)
  BY <1>5, <1>6
<1>10. Fit(w, s, cur2)
  BY <1>5, <1>6, <1>7, <1>8, <1>9 DEF Fit
<1> QED BY <1>10 DEF w, s

\* The same results, or the first h of them.
LEMMA FitDrop ==
  ASSUME NEW vs, NEW cur, NEW a \in Shape, Fit(vs, a, cur), NEW h \in Nat, h <= a.n, NEW cur2
  PROVE  Fit(SubSeq(vs, 1, h) \o << >>, Exact(a, h), cur2)
<1> DEFINE w == SubSeq(vs, 1, h) \o << >>
           s == Exact(a, h)
<1>1. PICK S : vs \in Seq(S)
  BY DEF Fit, IsSeq
<1>2. Len(vs) \in Nat /\ h <= Len(vs) /\ a.n \in Nat
  BY <1>1 DEF Fit, Shape
<1>3. \A i \in 1 .. h : vs[i] \in S
  BY <1>1, <1>2
<1>4. /\ w \in Seq(S) /\ Len(w) = h
      /\ \A i \in 1 .. h : w[i] = vs[i]
  BY <1>1, <1>2, <1>3
<1>5. s.n = h /\ s.open = FALSE /\ s.live = FALSE /\ s.c = a.c
  BY DEF Exact
<1>6. \A i \in 1 .. h : Fits(vs[i], a.c[i])
  BY <1>2 DEF Fit
<1>7. IsSeq(w)
  BY <1>4 DEF IsSeq
<1> HIDE DEF w, s
<1>8. Fit(w, s, cur2)
  BY <1>4, <1>5, <1>6, <1>7 DEF Fit
<1> QED BY <1>8 DEF w, s

\* The results as they are, and one more.
LEMMA AllKept ==
  ASSUME NEW vs, NEW cur, NEW a \in Shape, Fit(vs, a, cur)
  PROVE  /\ Len(vs) \in Nat /\ IsSeq(vs)
         /\ SubSeq(vs, 1, Len(vs)) = vs
         /\ SubSeq(vs, 1, Len(vs) - 0) = vs
         /\ vs \o << >> = vs
         /\ \A v : Append(vs, v) = vs \o <<v>>
<1>1. PICK S : vs \in Seq(S)
  BY DEF Fit, IsSeq
<1>2. \A v : vs \in Seq(S \cup {v}) /\ v \in S \cup {v}
  BY <1>1
<1> QED BY <1>1, <1>2 DEF Fit

\* What is open has a number of results after all.
LEMMA FitExact ==
  ASSUME NEW vs, NEW cur, NEW a \in Shape, Fit(vs, a, cur)
  PROVE  /\ Exact(a, Len(vs)) \in Shape
         /\ Fit(vs, Exact(a, Len(vs)), cur)
         /\ ~a.live => Leq(Exact(a, Len(vs)), a)
         /\ a.n <= Len(vs)
<1>1. a.n \in Nat /\ Len(vs) \in Nat /\ a.c \in [Nat -> Classes] /\ a.open \in BOOLEAN
  BY AllKept DEF Shape
<1>2. Exact(a, Len(vs)) \in Shape
  BY <1>1 DEF Exact, Shape
<1>3. Fit(vs, Exact(a, Len(vs)), cur)
  BY DEF Fit, Exact
<1>4. a.n <= Len(vs)
  BY <1>1 DEF Fit
<1>5. ~a.live => Leq(Exact(a, Len(vs)), a)
  BY <1>1, <1>4 DEF Fit, Exact, Leq, Sub
<1> QED BY <1>2, <1>3, <1>4, <1>5

-----------------------------------------------------------------------------
(* Nodes of results.                                                       *)

\* A node that is printed with the tests its kids need can be printed.
LEMMA NodeAny ==
  ASSUME NEW is, is \notin Printed, NEW at, NEW kids, \A i \in DOMAIN kids : Fits(kids[i], "A")
  PROVE  Fits(Node(is, at, kids), "A")
BY DEF Fits, Node

LEMMA NotNull ==
  ASSUME NEW is, is # "null", NEW at, NEW kids
  PROVE  Node(is, at, kids) # NullPtr
BY DEF Node, NullPtr

\* One that tests its kids is whole if they are.
LEMMA NodeWhole ==
  ASSUME NEW is, is \notin Strict, is # "null", NEW at, NEW kids, \A i \in DOMAIN kids : Fits(kids[i], "N")
  PROVE  Fits(Node(is, at, kids), "S")
<1>1. is \notin Printed
  BY DEF Strict, Printed
<1> QED BY <1>1, NotNull DEF Fits, Node

\* One that does not is whole if they are and none is null.
LEMMA NodeStrict ==
  ASSUME NEW is, is # "null", NEW at, NEW kids, \A i \in DOMAIN kids : Fits(kids[i], "S")
  PROVE  Fits(Node(is, at, kids), "S")
BY NotNull DEF Fits, Node

LEMMA NodeVolatile ==
  ASSUME NEW at, NEW kids, \A i \in DOMAIN kids : Fits(kids[i], "A")
  PROVE  Fits(Node("volatile", at, kids), "S")
BY NotNull DEF Fits, Node, Printed

\* A node of one kid or of a whole one and another is whole if the last kid is.
LEMMA NodeOfOne ==
  ASSUME NEW is, is # "null", is # "volatile", is \notin Printed, NEW at, NEW v, Fits(v, "A")
  PROVE  /\ Fits(Node(is, at, <<v>>), "A")
         /\ Unread(Node(is, at, <<v>>)) => Unread(v)
<1>1. DOMAIN <<v>> = {1} /\ <<v>>[1] = v
  OBVIOUS
<1>2. Fits(Node(is, at, <<v>>), "A")
  BY <1>1, NodeAny
<1>3. Node(is, at, <<v>>) # NullPtr
  BY NotNull
<1>4. Node(is, at, <<v>>).holed => v = NullPtr \/ v.holed
  BY <1>1 DEF Node
<1> QED BY <1>2, <1>3, <1>4 DEF Unread

LEMMA NodeOfTwo ==
  ASSUME NEW is, is # "null", is # "volatile", is \notin Printed, NEW at, NEW u, Fits(u, "S"), NEW v, Fits(v, "A")
  PROVE  /\ Fits(Node(is, at, <<u, v>>), "A")
         /\ Unread(Node(is, at, <<u, v>>)) => Unread(v)
<1>1. DOMAIN <<u, v>> = {1, 2} /\ <<u, v>>[1] = u /\ <<u, v>>[2] = v
  OBVIOUS
<1>2. Fits(Node(is, at, <<u, v>>), "A")
  <2>1. Fits(u, "A")
    BY DEF Fits
  <2> QED BY <1>1, <2>1, NodeAny
<1>3. Node(is, at, <<u, v>>) # NullPtr
  BY NotNull
<1>4. Node(is, at, <<u, v>>).holed => v = NullPtr \/ v.holed
  BY <1>1 DEF Node, Fits
<1> QED BY <1>2, <1>3, <1>4 DEF Unread

LEMMA LeafWhole ==
  ASSUME NEW is, is # "null", is \notin Strict, NEW at
  PROVE  Fits(Node(is, at, << >>), "S")
BY NodeWhole

LEMMA NullFits == Fits(NullPtr, "N") /\ Fits(NullPtr, "A")
BY DEF Fits, NullPtr

-----------------------------------------------------------------------------
(* Tasks: what a task needs of the results and what it makes of them.      *)

\* After a token that is no type keyword the last result is whole.
Firm(a) == IF a.live THEN At(a, a.n - 1, "S", FALSE) ELSE a

\* The results of b are those of a and any number of class x.
Opens(a, b, x) ==
  /\ ~a.open /\ b.open /\ ~b.live /\ b.n <= a.n
  /\ \A i \in Nat \ {0} : Sub(IF i <= a.n THEN a.c[i] ELSE x, b.c[i])

\* All results above the first h are whole.
Whole(a, h) == \A i \in Nat : i > h /\ (a.open \/ i <= a.n) => a.c[i] = "S"

Makers     == {"name", "any_name", "stmt", "block", "if", "while", "func_decl", "alias_decl", "struct_decl",
               "var_decl", "unused", "type_change", "import", "initializer", "fn", "func_name", "alias_name",
               "condition", "access", "static", "member"}
Operands   == {"expr", "primary", "prefix", "grouping", "array_instantiation", "return", "break", "typeof",
               "volatile", "return_value", "typeof_open"}
Operations == {"binary", "assignment", "struct_instantiation", "function_call"}
Quiet      == {"skip", "until", "semicolon", "param_end"}
FromOne    == {"expr_stmt", "unused_end", "alias_colon", "alias_init", "branch", "import_name", "import_as"}
FromTwo    == {"else", "alias_make"}
FromThree  == {"property_make", "param_make"}
Typed2     == {"var_init", "member_name"}
Typed3     == {"var_make", "param"}
Conditions == {{"if"}, {"while"}}

OkBuild(is, a, b) ==
  /\ ~a.open
  /\ \/ /\ is \in {"binary", "assign"} /\ a.n >= 2 /\ a.live /\ a.c[a.n - 1] = "S"
        /\ Leq(At(a, a.n - 2, "A", TRUE), b)
     \/ is \in {"prefix", "return", "typeof"} /\ a.n >= 1 /\ a.live /\ Leq(At(a, a.n - 1, "A", TRUE), b)
     \/ is = "array" /\ a.n >= 1 /\ a.c[a.n] = "S" /\ Leq(Plain(a), b)
     \/ is = "volatile" /\ a.n >= 1 /\ Leq(At(a, a.n - 1, "S", FALSE), b)
     \/ is \in {"exprstmt", "unused"} /\ a.n >= 1 /\ Leq(At(a, a.n - 1, "A", FALSE), b)
     \/ is \in {"alias", "typechange", "import"} /\ a.n >= 2 /\ Leq(At(a, a.n - 2, "A", FALSE), b)
     \/ is \in {"if", "while"} /\ a.n >= 3 /\ Leq(At(a, a.n - 3, "A", FALSE), b)

\* Task t may be reached with results of shape a and leaves them of shape b.
Ok(t, a, b) ==
  CASE t.do \in {"expect", "separator"} ->
         t.kinds \cap AA = {} /\ (t.do = "separator" => t.loc \cap AA = {}) /\ Leq(Firm(a), b)
    [] t.do \in Quiet -> Leq(Plain(a), b)
    [] t.do \in Makers ->
         ~a.open /\ (t.do = "condition" => t.loc \in Conditions) /\ Leq(At(a, a.n, "A", FALSE), b)
    [] t.do \in Operands -> ~a.open /\ t.n \in Nat /\ Leq(At(a, a.n, "A", TRUE), b)
    [] t.do = "type" -> ~a.open /\ Leq(At(a, a.n, "S", FALSE), b)
    [] t.do = "body" -> a.open /\ Opens(Exact(a, a.n), b, "A") /\ \A i \in Nat : i > a.n => a.c[i] = "A"
    [] t.do = "led" -> t.n \in Nat /\ ~a.open /\ a.n >= 1 /\ a.live /\ Leq(At(a, a.n - 1, "A", TRUE), b)
    [] t.do \in Operations -> ~a.open /\ a.n >= 1 /\ a.c[a.n] = "S" /\ Leq(At(a, a.n - 1, "A", TRUE), b)
    [] t.do \in {"type_led", "array_initializer"} -> ~a.open /\ a.n >= 1 /\ a.c[a.n] = "S" /\ Leq(Plain(a), b)
    [] t.do \in {"no_any", "else_end"} -> ~a.open /\ a.n >= 1 /\ Leq(Plain(a), b)
    [] t.do \in {"items", "fields"} -> (t.do = "items" => t.kinds \cap AA = {}) /\ Opens(a, b, "S")
    [] t.do \in {"params", "members"} -> Opens(a, b, "A")
    [] t.do = "statements" -> ~a.open /\ t.n \in Nat /\ t.n <= a.n /\ Leq(At(a, t.n, "A", FALSE), b)
    [] t.do = "call" -> t.n \in Nat /\ t.n + 1 <= a.n /\ Whole(a, t.n) /\ Leq(At(a, t.n, "S", FALSE), b)
    [] t.do = "collect" -> /\ t.loc = {"arrayvalue"} /\ t.n \in Nat /\ t.n <= a.n /\ Whole(a, t.n)
                           /\ Leq(At(a, t.n, "S", FALSE), b)
    [] t.do = "structvalue" -> /\ t.n \in Nat \ {0} /\ t.n <= a.n /\ Whole(a, t.n)
                               /\ Leq(At(a, t.n - 1, "S", FALSE), b)
    [] t.do = "struct_make" -> t.n \in Nat \ {0} /\ t.n <= a.n /\ Leq(At(a, t.n - 1, "A", FALSE), b)
    [] t.do = "routine" -> /\ t.loc \in {{"func"}, {"method"}} /\ t.n \in Nat /\ 2 <= t.n /\ t.n <= a.n
                           /\ Leq(At(a, t.n - 2, "A", FALSE), b)
    [] t.do = "build" -> \E is : t.loc = {is} /\ OkBuild(is, a, b)
    [] t.do = "field" -> ~a.open /\ a.n >= 2 /\ a.live /\ Leq(At(a, a.n - 2, "A", TRUE), b)
    [] t.do \in FromOne ->
         ~a.open /\ a.n >= 1 /\ (t.do = "branch" => t.loc \in Conditions) /\ Leq(At(a, a.n - 1, "A", FALSE), b)
    [] t.do \in FromTwo ->
         ~a.open /\ a.n >= 2 /\ (t.do = "else" => t.loc \in Conditions) /\ Leq(At(a, a.n - 2, "A", FALSE), b)
    [] t.do \in Typed2 ->
         ~a.open /\ a.n >= 2 /\ a.c[a.n - 1] # "A" /\ Leq(At(a, a.n - 2, "A", FALSE), b)
    [] t.do \in Typed3 ->
         ~a.open /\ a.n >= 3 /\ a.c[a.n - 2] # "A" /\ Leq(At(a, a.n - 3, "A", FALSE), b)
    [] t.do \in FromThree -> ~a.open /\ a.n >= 3 /\ Leq(At(a, a.n - 3, "A", FALSE), b)
    [] t.do = "discard" -> ~a.open /\ a.n >= 1 /\ Leq(Less(a), b)
    [] t.do = "colon" -> t.n \in Nat \ {0} /\ t.n <= a.n /\ a.c[t.n] # "A" /\ Leq(Plain(a), b)
    [] t.do = "retype" -> /\ ~a.open /\ t.n \in Nat \ {0} /\ t.n < a.n /\ a.c[t.n] # "A" /\ a.c[a.n] = "S"
                          /\ Leq(Less(a), b)
    [] OTHER -> FALSE

-----------------------------------------------------------------------------
(* The tasks one by one.                                                   *)

LEMMA OkExpectIs ==
  ASSUME NEW t, NEW a, NEW b, t.do \in {"expect", "separator"}
  PROVE  Ok(t, a, b) <=>
           /\ t.kinds \cap AA = {} /\ (t.do = "separator" => t.loc \cap AA = {}) /\ Leq(Firm(a), b)
BY DEF Ok, Quiet, Makers, Operands, Operations, FromOne, FromTwo, FromThree, Typed2, Typed3

LEMMA OkQuietIs ==
  ASSUME NEW t, NEW a, NEW b, t.do \in Quiet
  PROVE  Ok(t, a, b) <=>
           /\ Leq(Plain(a), b)
BY DEF Ok, Quiet, Makers, Operands, Operations, FromOne, FromTwo, FromThree, Typed2, Typed3

LEMMA OkMakersIs ==
  ASSUME NEW t, NEW a, NEW b, t.do \in Makers
  PROVE  Ok(t, a, b) <=>
           /\ ~a.open /\ (t.do = "condition" => t.loc \in Conditions) /\ Leq(At(a, a.n, "A", FALSE), b)
BY DEF Ok, Quiet, Makers, Operands, Operations, FromOne, FromTwo, FromThree, Typed2, Typed3

LEMMA OkOperandsIs ==
  ASSUME NEW t, NEW a, NEW b, t.do \in Operands
  PROVE  Ok(t, a, b) <=>
           /\ ~a.open /\ t.n \in Nat /\ Leq(At(a, a.n, "A", TRUE), b)
BY DEF Ok, Quiet, Makers, Operands, Operations, FromOne, FromTwo, FromThree, Typed2, Typed3

LEMMA OkTypeIs ==
  ASSUME NEW t, NEW a, NEW b, t.do = "type"
  PROVE  Ok(t, a, b) <=>
           /\ ~a.open /\ Leq(At(a, a.n, "S", FALSE), b)
BY DEF Ok, Quiet, Makers, Operands, Operations, FromOne, FromTwo, FromThree, Typed2, Typed3

LEMMA OkBodyIs ==
  ASSUME NEW t, NEW a, NEW b, t.do = "body"
  PROVE  Ok(t, a, b) <=>
           /\ a.open /\ Opens(Exact(a, a.n), b, "A") /\ \A i \in Nat : i > a.n => a.c[i] = "A"
BY DEF Ok, Quiet, Makers, Operands, Operations, FromOne, FromTwo, FromThree, Typed2, Typed3

LEMMA OkLedIs ==
  ASSUME NEW t, NEW a, NEW b, t.do = "led"
  PROVE  Ok(t, a, b) <=>
           /\ t.n \in Nat /\ ~a.open /\ a.n >= 1 /\ a.live /\ Leq(At(a, a.n - 1, "A", TRUE), b)
BY DEF Ok, Quiet, Makers, Operands, Operations, FromOne, FromTwo, FromThree, Typed2, Typed3

LEMMA OkOperationsIs ==
  ASSUME NEW t, NEW a, NEW b, t.do \in Operations
  PROVE  Ok(t, a, b) <=>
           /\ ~a.open /\ a.n >= 1 /\ a.c[a.n] = "S" /\ Leq(At(a, a.n - 1, "A", TRUE), b)
BY DEF Ok, Quiet, Makers, Operands, Operations, FromOne, FromTwo, FromThree, Typed2, Typed3

LEMMA OkTypeLedIs ==
  ASSUME NEW t, NEW a, NEW b, t.do \in {"type_led", "array_initializer"}
  PROVE  Ok(t, a, b) <=>
           /\ ~a.open /\ a.n >= 1 /\ a.c[a.n] = "S" /\ Leq(Plain(a), b)
BY DEF Ok, Quiet, Makers, Operands, Operations, FromOne, FromTwo, FromThree, Typed2, Typed3

LEMMA OkNoAnyIs ==
  ASSUME NEW t, NEW a, NEW b, t.do \in {"no_any", "else_end"}
  PROVE  Ok(t, a, b) <=>
           /\ ~a.open /\ a.n >= 1 /\ Leq(Plain(a), b)
BY DEF Ok, Quiet, Makers, Operands, Operations, FromOne, FromTwo, FromThree, Typed2, Typed3

LEMMA OkItemsIs ==
  ASSUME NEW t, NEW a, NEW b, t.do \in {"items", "fields"}
  PROVE  Ok(t, a, b) <=>
           /\ (t.do = "items" => t.kinds \cap AA = {}) /\ Opens(a, b, "S")
BY DEF Ok, Quiet, Makers, Operands, Operations, FromOne, FromTwo, FromThree, Typed2, Typed3

LEMMA OkParamsIs ==
  ASSUME NEW t, NEW a, NEW b, t.do \in {"params", "members"}
  PROVE  Ok(t, a, b) <=>
           /\ Opens(a, b, "A")
BY DEF Ok, Quiet, Makers, Operands, Operations, FromOne, FromTwo, FromThree, Typed2, Typed3

LEMMA OkStatementsIs ==
  ASSUME NEW t, NEW a, NEW b, t.do = "statements"
  PROVE  Ok(t, a, b) <=>
           /\ ~a.open /\ t.n \in Nat /\ t.n <= a.n /\ Leq(At(a, t.n, "A", FALSE), b)
BY DEF Ok, Quiet, Makers, Operands, Operations, FromOne, FromTwo, FromThree, Typed2, Typed3

LEMMA OkCallIs ==
  ASSUME NEW t, NEW a, NEW b, t.do = "call"
  PROVE  Ok(t, a, b) <=>
           /\ t.n \in Nat /\ t.n + 1 <= a.n /\ Whole(a, t.n) /\ Leq(At(a, t.n, "S", FALSE), b)
BY DEF Ok, Quiet, Makers, Operands, Operations, FromOne, FromTwo, FromThree, Typed2, Typed3

LEMMA OkCollectIs ==
  ASSUME NEW t, NEW a, NEW b, t.do = "collect"
  PROVE  Ok(t, a, b) <=>
           /\ t.loc = {"arrayvalue"} /\ t.n \in Nat /\ t.n <= a.n /\ Whole(a, t.n)
           /\ Leq(At(a, t.n, "S", FALSE), b)
BY DEF Ok, Quiet, Makers, Operands, Operations, FromOne, FromTwo, FromThree, Typed2, Typed3

LEMMA OkStructvalueIs ==
  ASSUME NEW t, NEW a, NEW b, t.do = "structvalue"
  PROVE  Ok(t, a, b) <=>
           /\ t.n \in Nat \ {0} /\ t.n <= a.n /\ Whole(a, t.n)
           /\ Leq(At(a, t.n - 1, "S", FALSE), b)
BY DEF Ok, Quiet, Makers, Operands, Operations, FromOne, FromTwo, FromThree, Typed2, Typed3

LEMMA OkStructMakeIs ==
  ASSUME NEW t, NEW a, NEW b, t.do = "struct_make"
  PROVE  Ok(t, a, b) <=>
           /\ t.n \in Nat \ {0} /\ t.n <= a.n /\ Leq(At(a, t.n - 1, "A", FALSE), b)
BY DEF Ok, Quiet, Makers, Operands, Operations, FromOne, FromTwo, FromThree, Typed2, Typed3

LEMMA OkRoutineIs ==
  ASSUME NEW t, NEW a, NEW b, t.do = "routine"
  PROVE  Ok(t, a, b) <=>
           /\ t.loc \in {{"func"}, {"method"}} /\ t.n \in Nat /\ 2 <= t.n /\ t.n <= a.n
           /\ Leq(At(a, t.n - 2, "A", FALSE), b)
BY DEF Ok, Quiet, Makers, Operands, Operations, FromOne, FromTwo, FromThree, Typed2, Typed3

LEMMA OkBuildIs ==
  ASSUME NEW t, NEW a, NEW b, t.do = "build"
  PROVE  Ok(t, a, b) <=>
           /\ \E is : t.loc = {is} /\ OkBuild(is, a, b)
BY DEF Ok, Quiet, Makers, Operands, Operations, FromOne, FromTwo, FromThree, Typed2, Typed3

LEMMA OkFieldIs ==
  ASSUME NEW t, NEW a, NEW b, t.do = "field"
  PROVE  Ok(t, a, b) <=>
           /\ ~a.open /\ a.n >= 2 /\ a.live /\ Leq(At(a, a.n - 2, "A", TRUE), b)
BY DEF Ok, Quiet, Makers, Operands, Operations, FromOne, FromTwo, FromThree, Typed2, Typed3

LEMMA OkFromoneIs ==
  ASSUME NEW t, NEW a, NEW b, t.do \in FromOne
  PROVE  Ok(t, a, b) <=>
           /\ ~a.open /\ a.n >= 1 /\ (t.do = "branch" => t.loc \in Conditions) /\ Leq(At(a, a.n - 1, "A", FALSE), b)
BY DEF Ok, Quiet, Makers, Operands, Operations, FromOne, FromTwo, FromThree, Typed2, Typed3

LEMMA OkFromtwoIs ==
  ASSUME NEW t, NEW a, NEW b, t.do \in FromTwo
  PROVE  Ok(t, a, b) <=>
           /\ ~a.open /\ a.n >= 2 /\ (t.do = "else" => t.loc \in Conditions) /\ Leq(At(a, a.n - 2, "A", FALSE), b)
BY DEF Ok, Quiet, Makers, Operands, Operations, FromOne, FromTwo, FromThree, Typed2, Typed3

LEMMA OkVarInitIs ==
  ASSUME NEW t, NEW a, NEW b, t.do \in Typed2
  PROVE  Ok(t, a, b) <=>
           /\ ~a.open /\ a.n >= 2 /\ a.c[a.n - 1] # "A" /\ Leq(At(a, a.n - 2, "A", FALSE), b)
BY DEF Ok, Quiet, Makers, Operands, Operations, FromOne, FromTwo, FromThree, Typed2, Typed3

LEMMA OkVarMakeIs ==
  ASSUME NEW t, NEW a, NEW b, t.do \in Typed3
  PROVE  Ok(t, a, b) <=>
           /\ ~a.open /\ a.n >= 3 /\ a.c[a.n - 2] # "A" /\ Leq(At(a, a.n - 3, "A", FALSE), b)
BY DEF Ok, Quiet, Makers, Operands, Operations, FromOne, FromTwo, FromThree, Typed2, Typed3

LEMMA OkPropertyMakeIs ==
  ASSUME NEW t, NEW a, NEW b, t.do \in FromThree
  PROVE  Ok(t, a, b) <=>
           /\ ~a.open /\ a.n >= 3 /\ Leq(At(a, a.n - 3, "A", FALSE), b)
BY DEF Ok, Quiet, Makers, Operands, Operations, FromOne, FromTwo, FromThree, Typed2, Typed3

LEMMA OkDiscardIs ==
  ASSUME NEW t, NEW a, NEW b, t.do = "discard"
  PROVE  Ok(t, a, b) <=>
           /\ ~a.open /\ a.n >= 1 /\ Leq(Less(a), b)
BY DEF Ok, Quiet, Makers, Operands, Operations, FromOne, FromTwo, FromThree, Typed2, Typed3

LEMMA OkColonIs ==
  ASSUME NEW t, NEW a, NEW b, t.do = "colon"
  PROVE  Ok(t, a, b) <=>
           /\ t.n \in Nat \ {0} /\ t.n <= a.n /\ a.c[t.n] # "A" /\ Leq(Plain(a), b)
BY DEF Ok, Quiet, Makers, Operands, Operations, FromOne, FromTwo, FromThree, Typed2, Typed3

LEMMA OkRetypeIs ==
  ASSUME NEW t, NEW a, NEW b, t.do = "retype"
  PROVE  Ok(t, a, b) <=>
           /\ ~a.open /\ t.n \in Nat \ {0} /\ t.n < a.n /\ a.c[t.n] # "A" /\ a.c[a.n] = "S"
           /\ Leq(Less(a), b)
BY DEF Ok, Quiet, Makers, Operands, Operations, FromOne, FromTwo, FromThree, Typed2, Typed3

-----------------------------------------------------------------------------
(* Lists of tasks.                                                         *)

\* The tasks of ts, one after the other, lead from shape a to shape b.
Runs(ts, a, b) ==
  /\ IsSeq(ts)
  /\ \E s \in [1 .. Len(ts) + 1 -> Shape] :
        /\ s[1] = a /\ s[Len(ts) + 1] = b
        /\ \A i \in 1 .. Len(ts) : Ok(ts[i], s[i], s[i + 1])

LEMMA RunsNone == \A a \in Shape : Runs(<< >>, a, a)
<1> SUFFICES ASSUME NEW a \in Shape PROVE Runs(<< >>, a, a)
  OBVIOUS
<1> DEFINE s == [i \in 1 .. 1 |-> a]
<1>1. IsSeq(<< >>) /\ Len(<< >>) = 0
  <2>1. << >> \in Seq({})
    OBVIOUS
  <2> QED BY <2>1 DEF IsSeq
<1>2. s \in [1 .. 1 -> Shape] /\ s[1] = a
  OBVIOUS
<1> HIDE DEF s
<1>3. Len(<< >>) + 1 = 1 /\ \A i \in 1 .. Len(<< >>) : FALSE
  BY <1>1
<1> QED BY <1>1, <1>2, <1>3 DEF Runs

LEMMA RunsShapes ==
  ASSUME NEW ts, NEW a, NEW b, Runs(ts, a, b)
  PROVE  a \in Shape /\ b \in Shape
<1>1. Len(ts) \in Nat
  BY DEF Runs, IsSeq
<1> QED BY <1>1 DEF Runs

LEMMA RunsJoined ==
  ASSUME NEW ts, NEW us, NEW a, NEW b, NEW d, Runs(ts, a, b), Runs(us, b, d)
  PROVE  Runs(ts \o us, a, d)
<1> DEFINE n == Len(ts)
           m == Len(us)
<1>1. PICK S : ts \in Seq(S)
  BY DEF Runs, IsSeq
<1>2. PICK U : us \in Seq(U)
  BY DEF Runs, IsSeq
<1>3. ts \in Seq(S \cup U) /\ us \in Seq(S \cup U) /\ n \in Nat /\ m \in Nat
  BY <1>1, <1>2
<1>4. /\ ts \o us \in Seq(S \cup U) /\ Len(ts \o us) = n + m
      /\ \A i \in 1 .. n : (ts \o us)[i] = ts[i]
      /\ \A i \in n + 1 .. n + m : (ts \o us)[i] = us[i - n]
  BY <1>3
<1>5. PICK s \in [1 .. n + 1 -> Shape] : /\ s[1] = a /\ s[n + 1] = b
                                         /\ \A i \in 1 .. n : Ok(ts[i], s[i], s[i + 1])
  BY DEF Runs
<1>6. PICK r \in [1 .. m + 1 -> Shape] : /\ r[1] = b /\ r[m + 1] = d
                                         /\ \A i \in 1 .. m : Ok(us[i], r[i], r[i + 1])
  BY DEF Runs
<1> DEFINE q == [i \in 1 .. n + m + 1 |-> IF i <= n THEN s[i] ELSE r[i - n]]
<1> HIDE DEF n, m
<1>7. q \in [1 .. n + m + 1 -> Shape]
  <2> SUFFICES ASSUME NEW i \in 1 .. n + m + 1 PROVE (IF i <= n THEN s[i] ELSE r[i - n]) \in Shape
    OBVIOUS
  <2>1. CASE i <= n
    BY <2>1, <1>3
  <2>2. CASE ~(i <= n)
    <3>1. i - n \in 1 .. m + 1
      BY <2>2, <1>3
    <3> QED BY <2>2, <3>1
  <2> QED BY <2>1, <2>2
<1>8. \A i \in 1 .. n + 1 : q[i] = s[i]
  <2> SUFFICES ASSUME NEW i \in 1 .. n + 1 PROVE q[i] = s[i]
    OBVIOUS
  <2>1. i \in 1 .. n + m + 1
    BY <1>3
  <2>2. CASE i <= n
    BY <2>1, <2>2
  <2>3. CASE i = n + 1
    BY <2>1, <2>3, <1>3, <1>5, <1>6
  <2> QED BY <1>3, <2>2, <2>3
<1>9. \A i \in n + 1 .. n + m + 1 : q[i] = r[i - n]
  BY <1>3
<1>10. q[1] = a /\ q[n + m + 1] = d
  BY <1>3, <1>5, <1>6, <1>8, <1>9
<1> HIDE DEF q
<1>11. ASSUME NEW i \in 1 .. n + m
       PROVE  Ok((ts \o us)[i], q[i], q[i + 1])
  <2>1. CASE i \in 1 .. n
    <3>1. q[i] = s[i] /\ q[i + 1] = s[i + 1] /\ (ts \o us)[i] = ts[i]
      BY <2>1, <1>3, <1>4, <1>8
    <3> QED BY <3>1, <2>1, <1>5
  <2>2. CASE i \in n + 1 .. n + m
    <3>1. /\ i - n \in 1 .. m /\ i + 1 - n = i - n + 1
          /\ i \in n + 1 .. n + m + 1 /\ i + 1 \in n + 1 .. n + m + 1
      BY <2>2, <1>3
    <3> DEFINE j == i + 1
    <3>5. j \in n + 1 .. n + m + 1 /\ j - n = i - n + 1
      BY <2>2, <1>3
    <3> HIDE DEF j
    <3>6. q[i] = r[i - n] /\ q[j] = r[j - n]
      BY <3>1, <3>5, <1>9
    <3>2. q[i] = r[i - n] /\ q[i + 1] = r[i - n + 1]
      BY <3>5, <3>6 DEF j
    <3>3. (ts \o us)[i] = us[i - n]
      BY <2>2, <1>4
    <3>4. Ok(us[i - n], r[i - n], r[i - n + 1])
      BY <3>1, <1>6
    <3> QED BY <3>1, <3>2, <3>3, <3>4
  <2>3. i \in 1 .. n \/ i \in n + 1 .. n + m
    BY <1>3
  <2> QED BY <2>1, <2>2, <2>3
<1>12. IsSeq(ts \o us)
  BY <1>4 DEF IsSeq
<1>13. Len(ts \o us) = n + m
  BY <1>4
<1> QED BY <1>7, <1>10, <1>11, <1>12, <1>13 DEF Runs

LEMMA RunsOne ==
  ASSUME NEW t, NEW a \in Shape, NEW b \in Shape, Ok(t, a, b)
  PROVE  Runs(<<t>>, a, b)
<1> DEFINE s == [i \in 1 .. 2 |-> IF i = 1 THEN a ELSE b]
<1>1. IsSeq(<<t>>) /\ Len(<<t>>) = 1 /\ <<t>>[1] = t
  <2>1. <<t>> \in Seq({t})
    OBVIOUS
  <2> QED BY <2>1 DEF IsSeq
<1>2. s \in [1 .. 2 -> Shape] /\ s[1] = a /\ s[2] = b
  OBVIOUS
<1> HIDE DEF s
<1>3. \A i \in 1 .. 1 : Ok(<<t>>[i], s[i], s[i + 1])
  BY <1>1, <1>2
<1> QED BY <1>1, <1>2, <1>3 DEF Runs

LEMMA RunsTwo ==
  ASSUME NEW t, NEW u, NEW a \in Shape, NEW b \in Shape, NEW d \in Shape, Ok(t, a, b), Ok(u, b, d)
  PROVE  Runs(<<t, u>>, a, d)
<1>1. <<t>> \o <<u>> = <<t, u>>
  <2>1. /\ <<t>> \in Seq({t, u}) /\ <<u>> \in Seq({t, u}) /\ <<t, u>> \in Seq({t, u})
        /\ Len(<<t>>) = 1 /\ Len(<<u>>) = 1 /\ Len(<<t, u>>) = 2
    OBVIOUS
  <2>2. /\ <<t>> \o <<u>> \in Seq({t, u}) /\ Len(<<t>> \o <<u>>) = 2
        /\ (<<t>> \o <<u>>)[1] = t /\ (<<t>> \o <<u>>)[2] = u
    BY <2>1
  <2>3. \A i \in 1 .. 2 : (<<t>> \o <<u>>)[i] = <<t, u>>[i]
    BY <2>2
  <2> QED BY <2>1, <2>2, <2>3, SeqEqual
<1> QED BY <1>1, RunsOne, RunsJoined

LEMMA RunsThree ==
  ASSUME NEW t, NEW u, NEW v, NEW a \in Shape, NEW b \in Shape, NEW d \in Shape, NEW e \in Shape,
         Ok(t, a, b), Ok(u, b, d), Ok(v, d, e)
  PROVE  Runs(<<t, u, v>>, a, e)
<1>1. <<t>> \o <<u, v>> = <<t, u, v>>
  <2>1. /\ <<t>> \in Seq({t, u, v}) /\ <<u, v>> \in Seq({t, u, v}) /\ <<t, u, v>> \in Seq({t, u, v})
        /\ Len(<<t>>) = 1 /\ Len(<<u, v>>) = 2 /\ Len(<<t, u, v>>) = 3
    OBVIOUS
  <2>2. /\ <<t>> \o <<u, v>> \in Seq({t, u, v}) /\ Len(<<t>> \o <<u, v>>) = 3
        /\ (<<t>> \o <<u, v>>)[1] = t /\ (<<t>> \o <<u, v>>)[2] = u /\ (<<t>> \o <<u, v>>)[3] = v
    BY <2>1
  <2>3. \A i \in 1 .. 3 : (<<t>> \o <<u, v>>)[i] = <<t, u, v>>[i]
    BY <2>2
  <2> QED BY <2>1, <2>2, <2>3, SeqEqual
<1> QED BY <1>1, RunsOne, RunsTwo, RunsJoined

LEMMA RunsFour ==
  ASSUME NEW t, NEW u, NEW v, NEW w, NEW a \in Shape, NEW b \in Shape, NEW d \in Shape, NEW e \in Shape,
         NEW f \in Shape, Ok(t, a, b), Ok(u, b, d), Ok(v, d, e), Ok(w, e, f)
  PROVE  Runs(<<t, u, v, w>>, a, f)
<1>1. <<t, u>> \o <<v, w>> = <<t, u, v, w>>
  <2>1. /\ <<t, u>> \in Seq({t, u, v, w}) /\ <<v, w>> \in Seq({t, u, v, w}) /\ <<t, u, v, w>> \in Seq({t, u, v, w})
        /\ Len(<<t, u>>) = 2 /\ Len(<<v, w>>) = 2 /\ Len(<<t, u, v, w>>) = 4
    OBVIOUS
  <2>2. /\ <<t, u>> \o <<v, w>> \in Seq({t, u, v, w}) /\ Len(<<t, u>> \o <<v, w>>) = 4
        /\ (<<t, u>> \o <<v, w>>)[1] = t /\ (<<t, u>> \o <<v, w>>)[2] = u /\ (<<t, u>> \o <<v, w>>)[3] = v /\ (<<t, u>> \o <<v, w>>)[4] = w
    BY <2>1
  <2>3. \A i \in 1 .. 4 : (<<t, u>> \o <<v, w>>)[i] = <<t, u, v, w>>[i]
    BY <2>2
  <2> QED BY <2>1, <2>2, <2>3, SeqEqual
<1> QED BY <1>1, RunsTwo, RunsJoined

\* The first task done, the others are as before.
LEMMA RunsFirst ==
  ASSUME NEW ts, NEW a, NEW d, Runs(ts, a, d), ts # << >>
  PROVE  \E b \in Shape : Ok(Head(ts), a, b) /\ Runs(Tail(ts), b, d)
<1> DEFINE n == Len(ts)
<1>1. PICK S : ts \in Seq(S)
  BY DEF Runs, IsSeq
<1>2. PICK s \in [1 .. n + 1 -> Shape] : /\ s[1] = a /\ s[n + 1] = d
                                         /\ \A i \in 1 .. n : Ok(ts[i], s[i], s[i + 1])
  BY DEF Runs
<1>3. /\ n \in Nat /\ n >= 1 /\ Head(ts) = ts[1]
      /\ Tail(ts) \in Seq(S) /\ Len(Tail(ts)) = n - 1 /\ \A i \in 1 .. n - 1 : Tail(ts)[i] = ts[i + 1]
  BY <1>1
<1> HIDE DEF n
<1> DEFINE r == [i \in 1 .. (n - 1) + 1 |-> s[i + 1]]
<1>4. r \in [1 .. (n - 1) + 1 -> Shape]
  BY <1>2, <1>3
<1>5. \A i \in 1 .. (n - 1) + 1 : r[i] = s[i + 1]
  OBVIOUS
<1> HIDE DEF r
<1>6. r[1] = s[2] /\ r[(n - 1) + 1] = d
  BY <1>2, <1>3, <1>5
<1>7. ASSUME NEW i \in 1 .. n - 1
      PROVE  Ok(Tail(ts)[i], r[i], r[i + 1])
  <2>1. /\ i \in 1 .. (n - 1) + 1 /\ i + 1 \in 1 .. (n - 1) + 1 /\ i + 1 \in 1 .. n
    BY <1>3
  <2>2. Ok(ts[i + 1], s[i + 1], s[i + 1 + 1])
    BY <1>2, <2>1
  <2> QED BY <1>3, <1>5, <2>1, <2>2
<1>8. s[2] \in Shape /\ Ok(ts[1], a, s[2])
  BY <1>2, <1>3
<1>9. IsSeq(Tail(ts))
  BY <1>3 DEF IsSeq
<1>10. Runs(Tail(ts), s[2], d)
  BY <1>3, <1>4, <1>6, <1>7, <1>9 DEF Runs
<1> QED BY <1>3, <1>8, <1>10

-----------------------------------------------------------------------------
(* The invariant.                                                          *)

Final == [n |-> 1, c |-> [i \in Nat |-> "A"], open |-> FALSE, live |-> FALSE]

\* What is still to be done fits what there is.
Typed == \E a \in Shape : Fit(vals, a, Cur) /\ Runs(todo, a, Final)

Going == Typed /\ pos \in Nat /\ IsSeq(tokens)

\* What a step leads to under panic.
Safe == (phase = "parse" => Going) /\ (phase = "crashed" => Top.do = "import_name")

\* What is known of the task on top.
LEMMA TopTask ==
  ASSUME Going, todo # << >>
  PROVE  \E a, b \in Shape : Fit(vals, a, Cur) /\ Ok(Top, a, b) /\ Runs(Tail(todo), b, Final)
<1>1. PICK a \in Shape : Fit(vals, a, Cur) /\ Runs(todo, a, Final)
  BY DEF Typed, Going
<1> QED BY <1>1, RunsFirst DEF Top

LEMMA ReportSafe ==
  ASSUME NEW k, NEW drop, NEW give, NEW next, panic, Report(k, drop, give, next)
  PROVE  Safe'
BY DEF Report, Safe

LEMMA EndSafe == \A outcome : outcome \notin {"parse", "crashed"} /\ End(outcome) => Safe'
BY DEF End, Safe

\* A turn after which the results are of the next tasks' shape.
LEMMA Continue ==
  ASSUME NEW k \in Nat, NEW drop, NEW give, NEW next, Turn(k, drop, give, next), Going, todo # << >>,
         NEW b \in Shape, Runs(Tail(todo), b, Final),
         NEW a2 \in Shape, Fit(vals', a2, Cur'), Runs(next, a2, b), phase = "parse"
  PROVE  Safe'
<1>1. todo' = next \o Tail(todo) /\ pos' \in Nat /\ tokens' = tokens /\ phase' = "parse"
  BY DEF Turn, Going
<1>2. Runs(todo', a2, Final)
  BY <1>1, RunsJoined
<1>3. Typed'
  BY <1>2 DEF Typed
<1> QED BY <1>1, <1>3 DEF Safe, Going

\* Without a token consumed the cursor is where it was.
LEMMA CurSame ==
  ASSUME Going, NEW drop, NEW give, NEW next, Turn(0, drop, give, next)
  PROVE  Cur' = Cur
<1>1. pos' = pos /\ tokens' = tokens
  BY DEF Turn, Going
<1> QED BY <1>1 DEF Cur, Ahead

\* The results stay, and the next tasks start with them.
LEMMA ThenGoes ==
  ASSUME Going, phase = "parse", todo # << >>, NEW k \in Nat, NEW next, Then(k, next),
         NEW a \in Shape, NEW b \in Shape, Fit(vals, a, Cur), Runs(Tail(todo), b, Final),
         Runs(next, Plain(a), b)
  PROVE  Safe'
<1>1. Turn(k, 0, << >>, next)
  BY DEF Then
<1>2. vals' = vals
  BY <1>1, AllKept DEF Turn
<1>3. Fit(vals', Plain(a), Cur')
  BY <1>2 DEF Fit, Plain
<1> QED BY <1>1, <1>3, PlainShape, Continue

LEMMA ThenDone ==
  ASSUME Going, phase = "parse", todo # << >>, NEW k \in Nat, Then(k, << >>),
         NEW a \in Shape, NEW b \in Shape, Fit(vals, a, Cur), Runs(Tail(todo), b, Final), Leq(Plain(a), b)
  PROVE  Safe'
<1>1. Turn(k, 0, << >>, << >>)
  BY DEF Then
<1>2. vals' = vals
  BY <1>1, AllKept DEF Turn
<1>3. Fit(vals', Plain(a), Cur')
  BY <1>2 DEF Fit, Plain
<1>4. Fit(vals', b, Cur')
  BY <1>3, FitLeq, PlainShape
<1> QED BY <1>1, <1>4, RunsNone, Continue

\* Nor is a token consumed.
LEMMA HereGoes ==
  ASSUME Going, phase = "parse", todo # << >>, NEW next, Then(0, next),
         NEW a \in Shape, NEW b \in Shape, Fit(vals, a, Cur), Runs(Tail(todo), b, Final),
         NEW a2 \in Shape, Fit(vals, a2, Cur), Runs(next, a2, b)
  PROVE  Safe'
<1>1. Turn(0, 0, << >>, next)
  BY DEF Then
<1>2. vals' = vals /\ Cur' = Cur
  BY <1>1, AllKept, CurSame DEF Turn
<1> QED BY <1>1, <1>2, Continue

LEMMA HereDone ==
  ASSUME Going, phase = "parse", todo # << >>, Then(0, << >>),
         NEW b \in Shape, Runs(Tail(todo), b, Final), Fit(vals, b, Cur)
  PROVE  Safe'
BY HereGoes, RunsNone

\* A result takes the place of all above the first h.
LEMMA TurnGoes ==
  ASSUME Going, phase = "parse", todo # << >>, NEW k \in Nat, NEW drop, NEW v, NEW next, Turn(k, drop, <<v>>, next),
         NEW a \in Shape, NEW b \in Shape, Fit(vals, a, Cur), Runs(Tail(todo), b, Final),
         NEW h \in Nat, h <= a.n, Len(vals) - drop = h, NEW x \in Classes, Fits(v, x),
         Runs(next, At(a, h, x, FALSE), b)
  PROVE  Safe'
<1>1. vals' = SubSeq(vals, 1, h) \o <<v>>
  BY DEF Turn
<1>2. At(a, h, x, FALSE) \in Shape
  BY AtShape
<1>3. Fit(vals', At(a, h, x, FALSE), Cur')
  BY <1>1, FitAt
<1> QED BY <1>2, <1>3, Continue

LEMMA TurnDone ==
  ASSUME Going, phase = "parse", todo # << >>, NEW k \in Nat, NEW drop, NEW v, Turn(k, drop, <<v>>, << >>),
         NEW a \in Shape, NEW b \in Shape, Fit(vals, a, Cur), Runs(Tail(todo), b, Final),
         NEW h \in Nat, h <= a.n, Len(vals) - drop = h, NEW x \in Classes, Fits(v, x),
         NEW l \in BOOLEAN, l => (Unread(v) => Cur' \in AA), Leq(At(a, h, x, l), b)
  PROVE  Safe'
<1>1. vals' = SubSeq(vals, 1, h) \o <<v>>
  BY DEF Turn
<1>2. At(a, h, x, l) \in Shape
  BY AtShape
<1>3. Fit(vals', At(a, h, x, l), Cur')
  BY <1>1, FitAt
<1>4. Fit(vals', b, Cur')
  BY <1>2, <1>3, FitLeq
<1> QED BY <1>4, RunsNone, Continue

-----------------------------------------------------------------------------
(* Links between the shapes of consecutive tasks.                          *)

LEMMA AtIn == \A a \in Shape : \A h \in Nat, x \in Classes, l \in BOOLEAN : At(a, h, x, l) \in Shape
BY AtShape

\* A task that expects a token keeps what is whole, and makes whole what has just been read.
LEMMA ThenExpect ==
  ASSUME NEW kinds, kinds \cap AA = {}, NEW a \in Shape, a.live = FALSE
  PROVE  Ok(Expect(kinds), a, a)
<1>1. Expect(kinds).do = "expect" /\ Expect(kinds).kinds = kinds
  BY DEF Expect, T
<1>2. Firm(a) = a /\ Leq(a, a)
  BY LeqReflexive DEF Firm
<1> QED BY <1>1, <1>2, OkExpectIs

LEMMA ThenFirm ==
  ASSUME NEW kinds, kinds \cap AA = {}, NEW a \in Shape, NEW h \in Nat
  PROVE  Ok(Expect(kinds), At(a, h, "A", TRUE), At(a, h, "S", FALSE))
<1> DEFINE s == At(a, h, "A", TRUE)
           r == At(a, h, "S", FALSE)
<1>1. Expect(kinds).do = "expect" /\ Expect(kinds).kinds = kinds
  BY DEF Expect, T
<1>2. s \in Shape /\ r \in Shape /\ s.live = TRUE /\ s.n = h + 1
  BY AtShape DEF Classes
<1>3. Leq(Firm(s), r)
  <2>1. Firm(s) = At(s, h, "S", FALSE)
    <3> HIDE DEF s
    <3>1. s.n - 1 = h
      BY <1>2
    <3> QED BY <1>2, <3>1 DEF Firm
  <2>2. At(s, h, "S", FALSE) = r
    BY DEF At, Shape
  <2>3. r.live = FALSE
    BY AtShape DEF Classes
  <2> HIDE DEF r, s
  <2> QED BY <2>1, <2>2, <2>3, <1>2, LeqReflexive
<1>4. Ok(Expect(kinds), s, r)
  <2> HIDE DEF s, r
  <2> QED BY <1>1, <1>3, OkExpectIs
<1> QED BY <1>4

LEMMA ThenMake ==
  ASSUME NEW t, t.do \in Makers, t.do = "condition" => t.loc \in Conditions,
         NEW a \in Shape, ~a.open, NEW h, h = a.n, NEW l \in BOOLEAN, ~l
  PROVE  Ok(t, a, At(a, h, "A", l))
<1>1. a.n \in Nat
  BY DEF Shape
<1>2. At(a, a.n, "A", FALSE) \in Shape /\ At(a, a.n, "A", FALSE).live = FALSE
  BY <1>1, AtShape DEF Classes
<1>3. Leq(At(a, a.n, "A", FALSE), At(a, a.n, "A", FALSE))
  BY <1>2, LeqReflexive
<1>4. l = FALSE
  OBVIOUS
<1> QED BY <1>3, <1>4, OkMakersIs

LEMMA ThenExpr ==
  ASSUME NEW bp \in Nat, NEW a \in Shape, ~a.open, NEW h, h = a.n
  PROVE  Ok(Expr(bp), a, At(a, h, "A", TRUE))
<1>1. a.n \in Nat
  BY DEF Shape
<1>2. At(a, a.n, "A", TRUE) \in Shape /\ At(a, a.n, "A", TRUE).n >= 1 /\ At(a, a.n, "A", TRUE).open = FALSE
  BY <1>1 DEF At, Shape, Classes
<1>3. Leq(At(a, a.n, "A", TRUE), At(a, a.n, "A", TRUE))
  BY <1>2, LeqReflexive
<1>4. Expr(bp).do \in Operands /\ Expr(bp).n = bp
  BY DEF Expr, T, Operands
<1> QED BY <1>3, <1>4, OkOperandsIs

LEMMA ThenType ==
  ASSUME NEW bp, NEW a \in Shape, ~a.open, NEW h, h = a.n
  PROVE  Ok(Type(bp), a, At(a, h, "S", FALSE))
<1>1. a.n \in Nat
  BY DEF Shape
<1>2. At(a, a.n, "S", FALSE) \in Shape /\ At(a, a.n, "S", FALSE).live = FALSE
  BY <1>1, AtShape DEF Classes
<1>3. Leq(At(a, a.n, "S", FALSE), At(a, a.n, "S", FALSE))
  BY <1>2, LeqReflexive
<1>4. Type(bp).do = "type"
  BY DEF Type, T
<1> QED BY <1>3, <1>4, OkTypeIs

LEMMA ThenQuiet ==
  ASSUME NEW t, t.do \in Quiet, NEW a \in Shape, a.live = FALSE
  PROVE  Ok(t, a, a)
<1>1. Plain(a) = a
  BY DEF Plain, Shape
<1>2. Leq(a, a)
  BY LeqReflexive
<1> QED BY <1>1, <1>2, OkQuietIs

\* Shapes that differ above the first h results.
LEMMA LeqAt ==
  ASSUME NEW a \in Shape, NEW d \in Shape, NEW b \in Shape, NEW h \in Nat, NEW x \in Classes, NEW y \in Classes,
         NEW l \in BOOLEAN, NEW m \in BOOLEAN,
         \A i \in 1 .. h : a.c[i] = d.c[i], Sub(x, y), m => l \/ x = "S", Leq(At(d, h, y, m), b)
  PROVE  Leq(At(a, h, x, l), b)
<1> DEFINE s == At(a, h, x, l)
           r == At(d, h, y, m)
<1>1. /\ s \in Shape /\ s.n = h + 1 /\ s.c[h + 1] = x /\ s.open = FALSE /\ s.live = l
      /\ \A i \in Nat : i # h + 1 => s.c[i] = a.c[i]
  BY DEF At, Shape
<1>2. /\ r \in Shape /\ r.n = h + 1 /\ r.c[h + 1] = y /\ r.open = FALSE /\ r.live = m
      /\ \A i \in Nat : i # h + 1 => r.c[i] = d.c[i]
  BY DEF At, Shape
<1>3. Leq(r, b)
  OBVIOUS
<1> HIDE DEF s, r
<1>4. ASSUME NEW i \in Nat \ {0}, i <= h + 1
      PROVE  Sub(s.c[i], r.c[i])
  <2>1. CASE i = h + 1
    BY <2>1, <1>1, <1>2
  <2>2. CASE i # h + 1
    <3>1. i \in 1 .. h /\ s.c[i] = a.c[i] /\ r.c[i] = d.c[i]
      BY <1>4, <2>2, <1>1, <1>2
    <3> QED BY <3>1 DEF Sub
  <2> QED BY <2>1, <2>2
<1>5. Leq(s, r)
  BY <1>1, <1>2, <1>4 DEF Leq
<1>6. Leq(s, b)
  BY <1>1, <1>2, <1>3, <1>5, LeqTransitive
<1> QED BY <1>6 DEF s

-----------------------------------------------------------------------------
(* The cursor.                                                             *)

LEMMA LeastExists ==
  ASSUME NEW S, S \subseteq Nat, S # {}
  PROVE  \E x \in S : \A y \in S : x <= y
<1> DEFINE R == OpToRel(<, Nat)
<1>1. IsWellFoundedOn(R, Nat)
  BY NatLessThanWellFounded
<1>2. \A x, y \in Nat : <<y, x>> \in R <=> y < x
  BY DEF OpToRel
<1> HIDE DEF R
<1>3. PICK x \in S : \A y \in S : ~(<<y, x>> \in R)
  BY <1>1, WFMin
<1>4. ASSUME NEW y \in S
      PROVE  x <= y
  <2>1. x \in Nat /\ y \in Nat
    OBVIOUS
  <2>2. ~(y < x)
    BY <1>2, <1>3, <2>1
  <2> QED BY <2>1, <2>2
<1> QED BY <1>4

\* There is a token to stop at, if only the end.
LEMMA DistanceNat ==
  ASSUME Going, NEW K
  PROVE  Distance(K) \in Nat
<1>1. Len(tokens) \in Nat /\ pos \in Nat
  BY DEF Going, IsSeq
<1> DEFINE stop(d) == Ahead(d) \in K \cup {"EOF"}
           D == {d \in Nat : stop(d)}
<1>2. stop(Len(tokens))
  BY <1>1 DEF Ahead
<1>3. PICK d \in D : \A e \in D : d <= e
  BY <1>1, <1>2, LeastExists
<1>4. d \in 0 .. Len(tokens) + 1
  BY <1>1, <1>2, <1>3
<1>5. ASSUME NEW e \in 0 .. d - 1
      PROVE  Ahead(e) \notin K \cup {"EOF"}
  BY <1>3, <1>4
<1>6. Ahead(d) \in K \cup {"EOF"}
  BY <1>3
<1>7. Distance(K) \in 0 .. Len(tokens) + 1
  BY <1>4, <1>5, <1>6 DEF Distance
<1> QED BY <1>1, <1>7

\* A token that is no type keyword makes what has just been read whole.
LEMMA FirmFits ==
  ASSUME NEW a \in Shape, Fit(vals, a, Cur), Cur \notin AA, NEW cur
  PROVE  /\ Firm(a) \in Shape
         /\ Firm(a).live = FALSE /\ Firm(a).open = a.open
         /\ Fit(vals, Firm(a), cur)
<1>1. CASE ~a.live
  <2>1. Firm(a) = a /\ a.live = FALSE
    BY <1>1 DEF Firm, Shape
  <2> QED BY <2>1 DEF Fit
<1>2. CASE a.live
  <2> DEFINE m == Len(vals)
             s == At(a, a.n - 1, "S", FALSE)
  <2>1. /\ Firm(a) = s /\ ~a.open /\ a.n = m /\ IsSeq(vals) /\ m \in Nat /\ m >= 1
        /\ \A i \in 1 .. m : Fits(vals[i], a.c[i])
        /\ ~Unread(vals[m])
    BY <1>2, AllKept DEF Firm, Fit
  <2>2. /\ s \in Shape /\ s.n = m /\ s.c[m] = "S" /\ s.open = FALSE /\ s.live = FALSE
        /\ \A i \in 1 .. m - 1 : s.c[i] = a.c[i]
    BY <2>1 DEF At, Shape, Classes
  <2> HIDE DEF s, m
  <2>3. Fits(vals[m], "S")
    BY <2>1 DEF Fits, Unread
  <2>4. \A i \in 1 .. m : Fits(vals[i], s.c[i])
    <3> SUFFICES ASSUME NEW i \in 1 .. m PROVE Fits(vals[i], s.c[i])
      OBVIOUS
    <3>1. i = m \/ i \in 1 .. m - 1
      BY <2>1
    <3> QED BY <3>1, <2>1, <2>2, <2>3
  <2> QED BY <2>1, <2>2, <2>4 DEF Fit, Shape, m
<1> QED BY <1>1, <1>2

\* Expecting a token, which under panic is there.
LEMMA ExpectSafe == Going /\ panic /\ ExpectToken => Safe'
<1> SUFFICES ASSUME Going, panic, ExpectToken PROVE Safe'
  OBVIOUS
<1>1. phase = "parse" /\ todo # << >> /\ Top.do = "expect"
  BY DEF ExpectToken, Doing
<1>2. PICK a, b \in Shape : Fit(vals, a, Cur) /\ Ok(Top, a, b) /\ Runs(Tail(todo), b, Final)
  BY <1>1, TopTask
<1>3. Top.kinds \cap AA = {} /\ Leq(Firm(a), b)
  BY <1>1, <1>2, OkExpectIs
<1>4. CASE Cur \in Top.kinds
  <2>1. Then(1, << >>)
    BY <1>4 DEF ExpectToken
  <2>2. Firm(a) \in Shape /\ Firm(a).live = FALSE /\ Fit(vals, Firm(a), Cur)
    BY <1>2, <1>3, <1>4, FirmFits
  <2>3. Plain(Firm(a)) = Firm(a)
    BY <2>2 DEF Plain, Shape
  <2> QED BY <1>1, <1>2, <1>3, <2>1, <2>2, <2>3, ThenDone
<1>5. CASE Cur \notin Top.kinds
  BY <1>5, ReportSafe DEF ExpectToken
<1> QED BY <1>4, <1>5

\* A name, a result of any class.
LEMMA LeafFits == \A is, x : is \notin Strict /\ is # "null" => Fits(Leaf(is), "A")
<1> SUFFICES ASSUME NEW is, is \notin Strict, is # "null" PROVE Fits(Leaf(is), "A")
  OBVIOUS
<1> QED BY LeafWhole DEF Leaf, Fits

LEMMA MakerShape ==
  ASSUME Going, todo # << >>, Top.do \in Makers
  PROVE  \E a, b \in Shape : /\ Fit(vals, a, Cur) /\ Runs(Tail(todo), b, Final)
                             /\ ~a.open /\ a.n = Len(vals) /\ a.n \in Nat
                             /\ (Top.do = "condition" => Top.loc \in Conditions)
                             /\ Leq(At(a, a.n, "A", FALSE), b)
<1>1. PICK a, b \in Shape : Fit(vals, a, Cur) /\ Ok(Top, a, b) /\ Runs(Tail(todo), b, Final)
  BY TopTask
<1>2. /\ ~a.open /\ (Top.do = "condition" => Top.loc \in Conditions) /\ Leq(At(a, a.n, "A", FALSE), b)
  BY <1>1, OkMakersIs
<1>3. a.n = Len(vals) /\ a.n \in Nat
  BY <1>1, <1>2 DEF Fit, Shape
<1> QED BY <1>1, <1>2, <1>3

\* A task that makes a result of any class and makes it at once.
LEMMA MakeDone ==
  ASSUME Going, phase = "parse", todo # << >>, Top.do \in Makers,
         NEW k \in Nat, NEW v, Fits(v, "A"), Turn(k, 0, <<v>>, << >>)
  PROVE  Safe'
<1>1. PICK a, b \in Shape : /\ Fit(vals, a, Cur) /\ Runs(Tail(todo), b, Final)
                            /\ ~a.open /\ a.n = Len(vals) /\ a.n \in Nat
                            /\ Leq(At(a, a.n, "A", FALSE), b)
  BY MakerShape
<1>2. Len(vals) - 0 = a.n /\ a.n <= a.n /\ "A" \in Classes
  BY <1>1 DEF Classes
<1> QED BY <1>1, <1>2, TurnDone

LEMMA NameSafe == Going /\ panic /\ (ExpectName \/ AdvanceName) => Safe'
<1> SUFFICES ASSUME Going, panic, ExpectName \/ AdvanceName PROVE Safe'
  OBVIOUS
<1>1. phase = "parse" /\ todo # << >> /\ Top.do \in Makers
  BY DEF ExpectName, AdvanceName, Doing, Makers
<1>2. Fits(Leaf("symbol"), "A")
  BY LeafFits DEF Strict
<1>3. CASE Turn(1, 0, <<Leaf("symbol")>>, << >>)
  BY <1>1, <1>2, <1>3, MakeDone
<1>4. CASE Report(1, 0, <<Leaf("symbol")>>, << >>)
  BY <1>4, ReportSafe
<1> QED BY <1>3, <1>4 DEF ExpectName, AdvanceName

\* A task that makes no result.
LEMMA QuietDone ==
  ASSUME Going, phase = "parse", todo # << >>, Top.do \in Quiet, NEW k \in Nat, Then(k, << >>)
  PROVE  Safe'
<1>1. PICK a, b \in Shape : Fit(vals, a, Cur) /\ Ok(Top, a, b) /\ Runs(Tail(todo), b, Final)
  BY TopTask
<1>2. Leq(Plain(a), b)
  BY <1>1, OkQuietIs
<1> QED BY <1>1, <1>2, ThenDone

LEMMA QuietSafe == Going /\ panic /\ (Optional \/ advanceUntil) => Safe'
<1> SUFFICES ASSUME Going, panic, Optional \/ advanceUntil PROVE Safe'
  OBVIOUS
<1>1. phase = "parse" /\ todo # << >> /\ Top.do \in Quiet
  BY DEF Optional, advanceUntil, Doing, Quiet
<1>2. CASE Optional
  <2>1. PICK k \in Nat : Then(k, << >>)
    BY <1>2 DEF Optional
  <2> QED BY <1>1, <2>1, QuietDone
<1>3. CASE advanceUntil
  <2>1. Distance(Top.kinds) \in Nat /\ Then(Distance(Top.kinds), << >>)
    BY <1>3, DistanceNat DEF advanceUntil
  <2> QED BY <1>1, <2>1, QuietDone
<1> QED BY <1>2, <1>3

LEMMA DiscardSafe == Going /\ panic /\ Discard => Safe'
<1> SUFFICES ASSUME Going, panic, Discard PROVE Safe'
  OBVIOUS
<1>1. phase = "parse" /\ todo # << >> /\ Top.do = "discard" /\ Turn(0, 1, << >>, << >>)
  BY DEF Discard, Doing
<1>2. PICK a, b \in Shape : Fit(vals, a, Cur) /\ Ok(Top, a, b) /\ Runs(Tail(todo), b, Final)
  BY <1>1, TopTask
<1>3. ~a.open /\ a.n >= 1 /\ Leq(Less(a), b)
  BY <1>1, <1>2, OkDiscardIs
<1>4. a.n = Len(vals) /\ a.n - 1 \in Nat /\ a.n - 1 <= a.n
  BY <1>2, <1>3 DEF Fit, Shape
<1>5. vals' = SubSeq(vals, 1, a.n - 1) \o << >>
  BY <1>1, <1>4 DEF Turn
<1>6. Fit(vals', Exact(a, a.n - 1), Cur')
  BY <1>2, <1>4, <1>5, FitDrop
<1>7. Exact(a, a.n - 1) = Less(a) /\ Less(a) \in Shape
  BY <1>4 DEF Exact, Less, Shape
<1>8. Fit(vals', b, Cur')
  BY <1>3, <1>6, <1>7, FitLeq
<1> QED BY <1>1, <1>2, <1>8, RunsNone, Continue

-----------------------------------------------------------------------------
(* Expressions.                                                            *)

\* The results a task finds, if nothing is said of the last one.
LEMMA PlainFits ==
  ASSUME NEW a \in Shape, Fit(vals, a, Cur), ~a.open
  PROVE  /\ Plain(a) \in Shape /\ Fit(vals, Plain(a), Cur)
         /\ Plain(a).live = FALSE /\ Plain(a).open = FALSE
         /\ Plain(a).n = Len(vals) /\ Plain(a).n \in Nat /\ Plain(a).c = a.c /\ Plain(a).n = a.n
         /\ Plain(Plain(a)) = Plain(a)
         /\ \A h, x, l : At(Plain(a), h, x, l) = At(a, h, x, l)
BY DEF Plain, Shape, Fit, At

LEMMA OperandShape ==
  ASSUME Going, todo # << >>, Top.do \in Operands
  PROVE  \E a, b \in Shape : /\ Fit(vals, a, Cur) /\ Runs(Tail(todo), b, Final)
                             /\ a.open = FALSE /\ a.live = FALSE /\ Plain(a) = a
                             /\ a.n = Len(vals) /\ a.n \in Nat /\ Top.n \in Nat
                             /\ Leq(At(a, a.n, "A", TRUE), b)
<1>1. PICK a, b \in Shape : Fit(vals, a, Cur) /\ Ok(Top, a, b) /\ Runs(Tail(todo), b, Final)
  BY TopTask
<1>2. ~a.open /\ Top.n \in Nat /\ Leq(At(a, a.n, "A", TRUE), b)
  BY <1>1, OkOperandsIs
<1>3. At(Plain(a), a.n, "A", TRUE) = At(a, a.n, "A", TRUE)
  BY DEF At, Plain
<1>4. /\ Plain(a) \in Shape /\ Fit(vals, Plain(a), Cur)
      /\ Plain(a).live = FALSE /\ Plain(a).open = FALSE
      /\ Plain(a).n = Len(vals) /\ Plain(a).n \in Nat /\ Plain(a).n = a.n
      /\ Plain(Plain(a)) = Plain(a)
  BY <1>1, <1>2, PlainFits
<1> QED BY <1>1, <1>2, <1>3, <1>4

\* One result more, which is not of class A only.
LEMMA AtNext ==
  ASSUME NEW a \in Shape, NEW h, h = a.n, NEW x \in Classes, NEW l \in BOOLEAN
  PROVE  /\ h \in Nat /\ At(a, h, x, l) \in Shape /\ At(a, h, x, l).open = FALSE /\ At(a, h, x, l).live = l
         /\ At(a, h, x, l).n = h + 1 /\ At(a, h, x, l).n \in Nat /\ At(a, h, x, l).c[h + 1] = x
         /\ \A i \in 1 .. h : At(a, h, x, l).c[i] = a.c[i]
         /\ \A y, m : At(At(a, h, x, l), h, y, m) = At(a, h, y, m)
<1>1. h \in Nat
  BY DEF Shape
<1>2. /\ At(a, h, x, l) \in Shape /\ At(a, h, x, l).n = h + 1 /\ At(a, h, x, l).c[h + 1] = x
      /\ At(a, h, x, l).open = FALSE /\ At(a, h, x, l).live = l
      /\ \A i \in Nat : i # h + 1 => At(a, h, x, l).c[i] = a.c[i]
  BY <1>1 DEF At, Shape
<1>3. \A i \in 1 .. h : i \in Nat /\ i # h + 1
  BY <1>1
<1>4. \A y, m : At(At(a, h, x, l), h, y, m) = At(a, h, y, m)
  <2> SUFFICES ASSUME NEW y, NEW m PROVE At(At(a, h, x, l), h, y, m) = At(a, h, y, m)
    OBVIOUS
  <2>1. [[a.c EXCEPT ![h + 1] = x] EXCEPT ![h + 1] = y] = [a.c EXCEPT ![h + 1] = y]
    BY <1>1 DEF Shape
  <2>2. At(a, h, x, l).c = [a.c EXCEPT ![h + 1] = x]
    BY DEF At
  <2> QED BY <2>1, <2>2 DEF At
<1> QED BY <1>1, <1>2, <1>3, <1>4

LEMMA ThenLed ==
  ASSUME NEW bp \in Nat, NEW t, t.do = "led", t.n = bp, NEW a \in Shape, NEW h \in Nat, NEW b \in Shape,
         Leq(At(a, h, "A", TRUE), b)
  PROVE  Ok(t, At(a, h, "A", TRUE), b)
<1> DEFINE r == At(a, h, "A", TRUE)
<1>1. r.open = FALSE /\ r.live = TRUE /\ r.n = h + 1 /\ At(r, h, "A", TRUE) = r
  BY DEF At, Shape
<1>2. Leq(r, b)
  OBVIOUS
<1> HIDE DEF r
<1>3. r.n - 1 = h /\ r.n >= 1
  BY <1>1
<1>4. Ok(t, r, b)
  BY <1>1, <1>2, <1>3, OkLedIs
<1> QED BY <1>4 DEF r

LEMMA NudKinds == \A kind \in nud_lu : nud_fn(kind) \in Operands
BY DEF nud_lu, nud_fn, PrimaryKinds, PrefixKinds, Operands

LEMMA LedKinds ==
  ASSUME NEW k0, bp_lu(k0) # 0
  PROVE  k0 \notin AA /\ led_fn(k0) \in Operations
<1>1. k0 \in AssignKinds \/ k0 \in BinaryKinds \/ k0 = "(" \/ k0 = "{"
  <2> SUFFICES ASSUME k0 \notin AssignKinds, k0 \notin BinaryKinds, k0 # "(", k0 # "{"
               PROVE  FALSE
    OBVIOUS
  <2> QED BY DEF bp_lu, default_bp, BinaryKinds
<1>2. CASE k0 \in AssignKinds
  BY <1>2 DEF AA, led_fn, Operations, AssignKinds
<1>3. CASE k0 \in BinaryKinds
  BY <1>3 DEF AA, led_fn, Operations, AssignKinds, BinaryKinds
<1>4. CASE k0 = "(" \/ k0 = "{"
  BY <1>4 DEF AA, led_fn, Operations, AssignKinds, BinaryKinds
<1> QED BY <1>1, <1>2, <1>3, <1>4

LEMMA PowerNat == \A kind : bp_lu(kind) \in Nat
BY DEF bp_lu, default_bp, assignment, logical, relational, additive, multiplicative, unary, member, call

LEMMA ExprSafe == Going /\ panic /\ ParseExpr => Safe'
<1> SUFFICES ASSUME Going, panic, ParseExpr PROVE Safe'
  OBVIOUS
<1>1. phase = "parse" /\ todo # << >> /\ Top.do = "expr" /\ Top.do \in Operands
  BY DEF ParseExpr, Doing, Operands
<1>2. PICK a, b \in Shape : /\ Fit(vals, a, Cur) /\ Runs(Tail(todo), b, Final)
                            /\ a.open = FALSE /\ a.live = FALSE /\ Plain(a) = a
                            /\ a.n = Len(vals) /\ a.n \in Nat /\ Top.n \in Nat
                            /\ Leq(At(a, a.n, "A", TRUE), b)
  BY <1>1, OperandShape
<1>3. CASE Cur \notin nud_lu
  BY <1>3, ReportSafe DEF ParseExpr
<1>4. CASE Cur \in nud_lu
  <2> DEFINE t == Do(nud_fn(Cur))
             u == T("led", {}, Top.n, {})
             r == At(a, a.n, "A", TRUE)
  <2>1. Then(0, <<t, u>>)
    BY <1>4 DEF ParseExpr
  <2>2. t.do \in Operands /\ t.n \in Nat /\ u.do = "led" /\ u.n = Top.n
    BY <1>4, NudKinds DEF Do, T
  <2>3. r \in Shape /\ r.open = FALSE /\ r.live = TRUE /\ r.n >= 1
    BY <1>2 DEF At, Shape, Classes
  <2>4. Leq(r, r)
    <3> HIDE DEF r
    <3> QED BY <2>3, LeqReflexive
  <2>5. Ok(t, a, r)
    BY <1>2, <2>2, <2>4, OkOperandsIs
  <2>6. Ok(u, r, b)
    BY <1>2, <2>2, ThenLed
  <2> HIDE DEF t, u, r
  <2>7. Runs(<<t, u>>, a, b)
    BY <2>3, <2>5, <2>6, RunsTwo
  <2> QED BY <1>1, <1>2, <2>1, <2>7, HereGoes
<1> QED BY <1>3, <1>4

LEMMA LedSafe == Going /\ panic /\ ParseLed => Safe'
<1> SUFFICES ASSUME Going, panic, ParseLed PROVE Safe'
  OBVIOUS
<1>1. phase = "parse" /\ todo # << >> /\ Top.do = "led"
  BY DEF ParseLed, Doing
<1>2. PICK a, b \in Shape : Fit(vals, a, Cur) /\ Ok(Top, a, b) /\ Runs(Tail(todo), b, Final)
  BY <1>1, TopTask
<1> DEFINE h == a.n - 1
           r == At(a, h, "A", TRUE)
           f == At(a, h, "S", FALSE)
<1>3. Top.n \in Nat /\ ~a.open /\ a.n >= 1 /\ a.live /\ Leq(r, b)
  BY <1>1, <1>2, OkLedIs
<1>4. h \in Nat /\ a.n \in Nat
  BY <1>3 DEF Shape
<1>5. /\ r \in Shape /\ r.n = h + 1 /\ r.open = FALSE /\ r.live = TRUE /\ r.c[h + 1] = "A"
      /\ \A i \in 1 .. h : r.c[i] = a.c[i]
  BY <1>4 DEF At, Shape, Classes
<1>6. CASE bp_lu(Cur) > Top.n
  <2> DEFINE t == Do(led_fn(Cur))
  <2>1. Then(0, <<t, Top>>)
    BY <1>6 DEF ParseLed
  <2>2. Cur \notin AA /\ t.do \in Operations
    BY <1>3, <1>6, LedKinds, PowerNat DEF Do, T
  <2>3. Firm(a) = f
    BY <1>3 DEF Firm
  <2>4. f \in Shape /\ Fit(vals, f, Cur) /\ f.live = FALSE
    BY <1>2, <2>2, <2>3, FirmFits
  <2>5. f.n = h + 1 /\ f.open = FALSE /\ f.c[h + 1] = "S" /\ At(f, h, "A", TRUE) = r
    BY <1>4 DEF At, Shape
  <2>6. Leq(r, r)
    <3> HIDE DEF r
    <3> QED BY <1>5, <1>4, LeqReflexive
  <2>7. Ok(Top, r, b)
    BY <1>1, <1>3, <1>4, ThenLed
  <2> HIDE DEF t, f, r, h
  <2>8. f.n - 1 = h /\ f.n >= 1 /\ f.c[f.n] = "S"
    BY <2>5, <1>4
  <2>9. Ok(t, f, r)
    BY <2>2, <2>5, <2>6, <2>8, OkOperationsIs
  <2>10. Runs(<<t, Top>>, f, b)
    BY <1>5, <2>4, <2>7, <2>9, RunsTwo
  <2> QED BY <1>1, <1>2, <2>1, <2>4, <2>10, HereGoes
<1>7. CASE ~(bp_lu(Cur) > Top.n)
  <2>1. Then(0, << >>)
    BY <1>7 DEF ParseLed
  <2> HIDE DEF r
  <2>2. Leq(a, r)
    <3>1. \A i \in Nat \ {0} : (a.open \/ i <= a.n) => Sub(a.c[i], r.c[i])
      <4> SUFFICES ASSUME NEW i \in Nat \ {0}, i <= a.n PROVE Sub(a.c[i], r.c[i])
        BY <1>3
      <4>1. i = h + 1 \/ i \in 1 .. h
        BY <1>4
      <4> HIDE DEF h
      <4> QED BY <4>1, <1>5 DEF Sub
    <3> QED BY <3>1, <1>3, <1>4, <1>5 DEF Leq
  <2>3. Fit(vals, b, Cur)
    BY <1>2, <1>3, <1>5, <2>2, LeqTransitive, FitLeq
  <2> QED BY <1>1, <1>2, <2>1, <2>3, HereDone
<1> QED BY <1>6, <1>7

-----------------------------------------------------------------------------
(* Nodes of many results.                                                  *)

\* The first n places are taken.
LEMMA PlaceExists ==
  ASSUME NEW I, I \subseteq Nat, IsFiniteSet(I), NEW k \in 1 .. Cardinality(I)
  PROVE  Place(I, k) \in I
<1> DEFINE below(i) == {j \in I : j < i}
           bad == {n \in Nat : n < Cardinality(I) /\ ~ \E i \in I : Cardinality(below(i)) = n}
<1>1. Cardinality(I) \in Nat /\ \A i : IsFiniteSet(below(i)) /\ Cardinality(below(i)) \in Nat
  <2>1. \A i : below(i) \subseteq I
    OBVIOUS
  <2> QED BY <2>1, FS_Subset, FS_CardinalityType
<1>2. ASSUME bad # {}
      PROVE  FALSE
  <2>1. bad \subseteq Nat
    OBVIOUS
  <2> HIDE DEF bad
  <2>2. PICK n \in bad : \A m \in bad : n <= m
    BY <1>2, <2>1, LeastExists
  <2>3. n \in Nat /\ n < Cardinality(I) /\ \A i \in I : Cardinality(below(i)) # n
    BY <2>2 DEF bad
  <2>4. ASSUME NEW A, A \subseteq I, Cardinality(A) = n, IsFiniteSet(A),
               \A i \in A : \A j \in I \ A : i < j
        PROVE  FALSE
    <3>1. I \ A # {}
      <4>1. CASE I \ A = {}
        <5>1. I = A
          BY <4>1, <2>4
        <5> QED BY <5>1, <2>3, <2>4
      <4> QED BY <4>1
    <3>2. I \ A \subseteq Nat
      OBVIOUS
    <3>3. PICK i \in I \ A : \A j \in I \ A : i <= j
      BY <3>1, <3>2, LeastExists
    <3>4. below(i) = A
      <4>1. \A j \in A : j \in I /\ j < i
        BY <2>4, <3>3
      <4>2. \A j \in I : j < i => j \in A
        <5> SUFFICES ASSUME NEW j \in I, j < i, j \notin A PROVE FALSE
          OBVIOUS
        <5>1. i <= j /\ i \in Nat /\ j \in Nat
          BY <3>3
        <5> QED BY <5>1
      <4> QED BY <4>1, <4>2
    <3>5. i \in I /\ Cardinality(below(i)) = n
      BY <2>4, <3>3, <3>4
    <3> QED BY <3>5, <2>3
  <2>5. CASE n = 0
    <3>1. Cardinality({}) = 0 /\ IsFiniteSet({})
      BY FS_EmptySet
    <3> QED BY <3>1, <2>4, <2>5
  <2>6. CASE n # 0
    <3>1. n - 1 \in Nat /\ n - 1 < Cardinality(I) /\ ~(n <= n - 1)
      BY <1>1, <2>3, <2>6
    <3>2. n - 1 \notin bad
      BY <2>2, <3>1
    <3>3. PICK i \in I : Cardinality(below(i)) = n - 1
      BY <3>1, <3>2 DEF bad
    <3> DEFINE A == below(i) \cup {i}
    <3>4. i \notin below(i) /\ i \in Nat
      OBVIOUS
    <3>5. IsFiniteSet(A) /\ Cardinality(A) = n - 1 + 1
      BY <1>1, <3>3, <3>4, FS_AddElement
    <3>6. Cardinality(A) = n
      BY <2>3, <3>5
    <3>7. \A m \in A : \A j \in I \ A : m < j
      <4> SUFFICES ASSUME NEW m \in A, NEW j \in I \ A PROVE m < j
        OBVIOUS
      <4>1. m \in Nat /\ j \in Nat /\ m <= i /\ ~(j < i) /\ j # i
        OBVIOUS
      <4> QED BY <4>1, <3>4
    <3>8. A \subseteq I
      OBVIOUS
    <3> QED BY <2>4, <3>5, <3>6, <3>7, <3>8
  <2> QED BY <2>5, <2>6
<1>3. k - 1 \in Nat /\ k - 1 < Cardinality(I)
  BY <1>1
<1>4. k - 1 \notin bad
  BY <1>2
<1>5. \E i \in I : Cardinality(below(i)) = k - 1
  BY <1>3, <1>4
<1> QED BY <1>5 DEF Place

\* What is kept of results is one of them.
LEMMA ThoseAre ==
  ASSUME NEW s, IsSeq(s), NEW I, I \subseteq DOMAIN s, NEW k \in DOMAIN Those(s, I)
  PROVE  \E i \in I : Those(s, I)[k] = s[i]
<1>1. DOMAIN s = 1 .. Len(s) /\ Len(s) \in Nat
  BY DEF IsSeq
<1>2. IsFiniteSet(DOMAIN s)
  BY <1>1, FS_Interval
<1>3. IsFiniteSet(I) /\ I \subseteq Nat
  BY <1>1, <1>2, FS_Subset
<1>4. k \in 1 .. Cardinality(I)
  BY DEF Those
<1>5. Those(s, I)[k] = s[Place(I, k)]
  BY <1>4 DEF Those
<1> QED BY <1>3, <1>4, <1>5, PlaceExists

\* The results above the first h.
LEMMA AboveAre ==
  ASSUME Going, NEW h \in Nat, h <= Len(vals)
  PROVE  /\ IsSeq(Above(h)) /\ Len(Above(h)) = Len(vals) - h /\ Len(vals) \in Nat
         /\ \A i \in DOMAIN Above(h) : i + h \in h + 1 .. Len(vals) /\ Above(h)[i] = vals[i + h]
<1>1. PICK S : vals \in Seq(S)
  BY DEF Going, Typed, Fit, IsSeq
<1>2. Len(vals) \in Nat /\ h + 1 \in 1 .. Len(vals) + 1
  BY <1>1
<1>3. \A i \in h + 1 .. Len(vals) : vals[i] \in S
  BY <1>1, <1>2
<1>4. /\ SubSeq(vals, h + 1, Len(vals)) \in Seq(S)
      /\ Len(SubSeq(vals, h + 1, Len(vals))) = Len(vals) - h
      /\ \A i \in 1 .. Len(vals) - h : SubSeq(vals, h + 1, Len(vals))[i] = vals[i + h]
  BY <1>1, <1>2, <1>3
<1>5. DOMAIN SubSeq(vals, h + 1, Len(vals)) = 1 .. Len(vals) - h
  BY <1>4
<1>6. \A i \in 1 .. Len(vals) - h : i + h \in h + 1 .. Len(vals)
  BY <1>2
<1>7. IsSeq(SubSeq(vals, h + 1, Len(vals)))
  BY <1>4 DEF IsSeq
<1> QED BY <1>2, <1>4, <1>5, <1>6, <1>7 DEF Above

\* Those of shape a are of the classes a has there.
LEMMA AboveFit ==
  ASSUME Going, NEW a \in Shape, Fit(vals, a, Cur), NEW h \in Nat, h <= a.n
  PROVE  /\ h <= Len(vals) /\ Len(vals) - (Len(vals) - h) = h
         /\ \A v : v \in {Above(h)[i] : i \in DOMAIN Above(h)} => Fits(v, "A") /\ (Whole(a, h) => Fits(v, "S"))
<1>1. h <= Len(vals) /\ Len(vals) \in Nat /\ a.n \in Nat /\ (a.open \/ Len(vals) = a.n)
  BY AllKept DEF Fit, Shape
<1>2. ASSUME NEW i \in DOMAIN Above(h)
      PROVE  Fits(Above(h)[i], "A") /\ (Whole(a, h) => Fits(Above(h)[i], "S"))
  <2> DEFINE j == i + h
  <2>1. j \in h + 1 .. Len(vals) /\ Above(h)[i] = vals[j]
    BY <1>1, AboveAre
  <2> HIDE DEF j
  <2>2. j \in 1 .. Len(vals) /\ j \in Nat /\ j > h /\ (a.open \/ j <= a.n)
    BY <1>1, <2>1
  <2>3. Fits(vals[j], a.c[j])
    BY <2>2 DEF Fit
  <2>4. Whole(a, h) => a.c[j] = "S"
    BY <2>2 DEF Whole
  <2> QED BY <2>1, <2>3, <2>4 DEF Fits
<1> QED BY <1>1, <1>2

\* A node of all or of some of them.
LEMMA AboveNode ==
  ASSUME Going, NEW a \in Shape, Fit(vals, a, Cur), NEW h \in Nat, h <= a.n,
         NEW is, is \notin Strict, is # "null", NEW at
  PROVE  /\ Fits(Node(is, at, Above(h)), "A")
         /\ \A I \in SUBSET DOMAIN Above(h) :
              /\ Fits(Node(is, at, Those(Above(h), I)), "A")
              /\ Whole(a, h) => Fits(Node(is, at, Those(Above(h), I)), "S")
<1>1. is \notin Printed
  BY DEF Strict, Printed
<1>2. \A i \in DOMAIN Above(h) : Fits(Above(h)[i], "A") /\ (Whole(a, h) => Fits(Above(h)[i], "S"))
  BY AboveFit
<1>3. IsSeq(Above(h))
  BY AboveFit, AboveAre
<1>4. Fits(Node(is, at, Above(h)), "A")
  BY <1>1, <1>2, NodeAny
<1>5. ASSUME NEW I \in SUBSET DOMAIN Above(h)
      PROVE  /\ Fits(Node(is, at, Those(Above(h), I)), "A")
             /\ Whole(a, h) => Fits(Node(is, at, Those(Above(h), I)), "S")
  <2> DEFINE kids == Those(Above(h), I)
  <2>1. \A k \in DOMAIN kids : \E i \in DOMAIN Above(h) : kids[k] = Above(h)[i]
    BY <1>3, ThoseAre
  <2> HIDE DEF kids
  <2>2. \A k \in DOMAIN kids : Fits(kids[k], "A") /\ (Whole(a, h) => Fits(kids[k], "S"))
    BY <2>1, <1>2
  <2>3. Fits(Node(is, at, kids), "A")
    BY <2>2, <1>1, NodeAny
  <2>4. ASSUME Whole(a, h)
        PROVE  Fits(Node(is, at, kids), "S")
    <3>1. \A k \in DOMAIN kids : Fits(kids[k], "N")
      BY <2>2, <2>4 DEF Fits
    <3> QED BY <3>1, NodeWhole
  <2> QED BY <2>3, <2>4 DEF kids
<1> QED BY <1>4, <1>5

-----------------------------------------------------------------------------
(* Tasks by what they need and make: what is left to show of a handler     *)
(* that calls others is that these lead from the one shape to the other.   *)

LEMMA OperandGoes ==
  ASSUME Going, phase = "parse", todo # << >>, Top.do \in Operands, NEW k \in Nat, NEW next, Then(k, next),
         \A a, b \in Shape : (/\ a.open = FALSE /\ a.live = FALSE /\ a.n \in Nat
                              /\ Leq(At(a, a.n, "A", TRUE), b)) => Runs(next, a, b)
  PROVE  Safe'
<1>1. PICK a, b \in Shape : /\ Fit(vals, a, Cur) /\ Runs(Tail(todo), b, Final)
                            /\ a.open = FALSE /\ a.live = FALSE /\ Plain(a) = a
                            /\ a.n = Len(vals) /\ a.n \in Nat /\ Top.n \in Nat
                            /\ Leq(At(a, a.n, "A", TRUE), b)
  BY OperandShape
<1>2. Runs(next, Plain(a), b)
  BY <1>1
<1> QED BY <1>1, <1>2, ThenGoes

LEMMA OperandDone ==
  ASSUME Going, phase = "parse", todo # << >>, Top.do \in Operands, NEW k \in Nat,
         NEW v, Fits(v, "S"), Turn(k, 0, <<v>>, << >>)
  PROVE  Safe'
<1>1. PICK a, b \in Shape : /\ Fit(vals, a, Cur) /\ Runs(Tail(todo), b, Final)
                            /\ a.open = FALSE /\ a.live = FALSE /\ Plain(a) = a
                            /\ a.n = Len(vals) /\ a.n \in Nat /\ Top.n \in Nat
                            /\ Leq(At(a, a.n, "A", TRUE), b)
  BY OperandShape
<1>2. Leq(At(a, a.n, "S", FALSE), b)
  BY <1>1, LeqAt DEF Classes, Sub
<1>3. Len(vals) - 0 = a.n /\ a.n <= a.n /\ "S" \in Classes
  BY <1>1 DEF Classes
<1> QED BY <1>1, <1>2, <1>3, TurnDone

\* Tasks that continue a whole result.
LEMMA ContinuedShape ==
  ASSUME Going, todo # << >>
  PROVE  \E a, b \in Shape : /\ Fit(vals, a, Cur) /\ Runs(Tail(todo), b, Final) /\ Ok(Top, a, b)
                             /\ Plain(a) \in Shape /\ Plain(a).n = a.n /\ Plain(a).c = a.c
                             /\ Plain(a).open = a.open /\ Plain(a).live = FALSE /\ a.n \in Nat
                             /\ \A h, x, l : At(Plain(a), h, x, l) = At(a, h, x, l)
                             /\ (~a.open => a.n = Len(vals))
<1>1. PICK a, b \in Shape : Fit(vals, a, Cur) /\ Ok(Top, a, b) /\ Runs(Tail(todo), b, Final)
  BY TopTask
<1>2. \A h, x, l : At(Plain(a), h, x, l) = At(a, h, x, l)
  BY DEF At, Plain
<1>3. a.n \in Nat /\ (~a.open => a.n = Len(vals))
  BY <1>1 DEF Shape, Fit
<1> QED BY <1>1, <1>2, <1>3, PlainShape

LEMMA OperationGoes ==
  ASSUME Going, phase = "parse", todo # << >>, Top.do \in Operations, NEW k \in Nat, NEW next, Then(k, next),
         \A a, b \in Shape : (/\ a.open = FALSE /\ a.live = FALSE /\ a.n \in Nat /\ a.n >= 1 /\ a.c[a.n] = "S"
                              /\ a.n = Len(vals)
                              /\ Leq(At(a, a.n - 1, "A", TRUE), b)) => Runs(next, a, b)
  PROVE  Safe'
<1>1. PICK a, b \in Shape : /\ Fit(vals, a, Cur) /\ Runs(Tail(todo), b, Final) /\ Ok(Top, a, b)
                            /\ Plain(a) \in Shape /\ Plain(a).n = a.n /\ Plain(a).c = a.c
                            /\ Plain(a).open = a.open /\ Plain(a).live = FALSE /\ a.n \in Nat
                            /\ \A h, x, l : At(Plain(a), h, x, l) = At(a, h, x, l)
                            /\ (~a.open => a.n = Len(vals))
  BY ContinuedShape
<1>2. ~a.open /\ a.n >= 1 /\ a.c[a.n] = "S" /\ Leq(At(a, a.n - 1, "A", TRUE), b)
  BY <1>1, OkOperationsIs
<1>3. a.open = FALSE
  BY <1>2 DEF Shape
<1>4. Leq(At(Plain(a), a.n - 1, "A", TRUE), b)
  BY <1>1, <1>2
<1>5. Runs(next, Plain(a), b)
  BY <1>1, <1>2, <1>3, <1>4
<1> QED BY <1>1, <1>5, ThenGoes

LEMMA TypeLedGoes ==
  ASSUME Going, phase = "parse", todo # << >>, Top.do \in {"type_led", "array_initializer"},
         NEW k \in Nat, NEW next, Then(k, next),
         \A a, b \in Shape : (/\ a.open = FALSE /\ a.live = FALSE /\ a.n \in Nat /\ a.n >= 1 /\ a.c[a.n] = "S"
                              /\ a.n = Len(vals) /\ Plain(a) = a
                              /\ Leq(a, b)) => Runs(next, a, b)
  PROVE  Safe'
<1>1. PICK a, b \in Shape : /\ Fit(vals, a, Cur) /\ Runs(Tail(todo), b, Final) /\ Ok(Top, a, b)
                            /\ Plain(a) \in Shape /\ Plain(a).n = a.n /\ Plain(a).c = a.c
                            /\ Plain(a).open = a.open /\ Plain(a).live = FALSE /\ a.n \in Nat
                            /\ \A h, x, l : At(Plain(a), h, x, l) = At(a, h, x, l)
                            /\ (~a.open => a.n = Len(vals))
  BY ContinuedShape
<1>2. ~a.open /\ a.n >= 1 /\ a.c[a.n] = "S" /\ Leq(Plain(a), b)
  BY <1>1, OkTypeLedIs
<1>3. a.open = FALSE /\ Plain(Plain(a)) = Plain(a)
  BY <1>2 DEF Shape, Plain
<1>4. Runs(next, Plain(a), b)
  BY <1>1, <1>2, <1>3
<1> QED BY <1>1, <1>4, ThenGoes

LEMMA MakerGoes ==
  ASSUME Going, phase = "parse", todo # << >>, Top.do \in Makers, NEW k \in Nat, NEW next, Then(k, next),
         \A a, b \in Shape : (/\ a.open = FALSE /\ a.live = FALSE /\ a.n \in Nat /\ a.n = Len(vals)
                              /\ (Top.do = "condition" => Top.loc \in Conditions)
                              /\ Leq(At(a, a.n, "A", FALSE), b)) => Runs(next, a, b)
  PROVE  Safe'
<1>1. PICK a, b \in Shape : /\ Fit(vals, a, Cur) /\ Runs(Tail(todo), b, Final) /\ Ok(Top, a, b)
                            /\ Plain(a) \in Shape /\ Plain(a).n = a.n /\ Plain(a).c = a.c
                            /\ Plain(a).open = a.open /\ Plain(a).live = FALSE /\ a.n \in Nat
                            /\ \A h, x, l : At(Plain(a), h, x, l) = At(a, h, x, l)
                            /\ (~a.open => a.n = Len(vals))
  BY ContinuedShape
<1>2. ~a.open /\ (Top.do = "condition" => Top.loc \in Conditions) /\ Leq(At(a, a.n, "A", FALSE), b)
  BY <1>1, OkMakersIs
<1>3. a.open = FALSE
  BY <1>2 DEF Shape
<1>4. Leq(At(Plain(a), a.n, "A", FALSE), b)
  BY <1>1, <1>2
<1>5. Runs(next, Plain(a), b)
  BY <1>1, <1>2, <1>3, <1>4
<1> QED BY <1>1, <1>5, ThenGoes

\* A task that makes a result has one already, and goes on.
LEMMA MakerTurns ==
  ASSUME Going, phase = "parse", todo # << >>, Top.do \in Makers, NEW k \in Nat,
         NEW v, NEW x \in Classes, Fits(v, x), NEW next, Turn(k, 0, <<v>>, next),
         \A a, b \in Shape : (/\ a.open = FALSE /\ a.live = FALSE /\ a.n \in Nat /\ a.n = Len(vals)
                              /\ (Top.do = "condition" => Top.loc \in Conditions)
                              /\ Leq(At(a, a.n, "A", FALSE), b)) => Runs(next, At(a, a.n, x, FALSE), b)
  PROVE  Safe'
<1>1. PICK a, b \in Shape : /\ Fit(vals, a, Cur) /\ Runs(Tail(todo), b, Final) /\ Ok(Top, a, b)
                            /\ Plain(a) \in Shape /\ Plain(a).n = a.n /\ Plain(a).c = a.c
                            /\ Plain(a).open = a.open /\ Plain(a).live = FALSE /\ a.n \in Nat
                            /\ \A h, y, l : At(Plain(a), h, y, l) = At(a, h, y, l)
                            /\ (~a.open => a.n = Len(vals))
  BY ContinuedShape
<1>2. ~a.open /\ (Top.do = "condition" => Top.loc \in Conditions) /\ Leq(At(a, a.n, "A", FALSE), b)
  BY <1>1, OkMakersIs
<1>3. a.open = FALSE /\ Len(vals) - 0 = a.n /\ a.n <= a.n
  BY <1>1, <1>2 DEF Shape
<1>4. Leq(At(Plain(a), a.n, "A", FALSE), b)
  BY <1>1, <1>2
<1>5. Runs(next, At(Plain(a), a.n, x, FALSE), b)
  BY <1>1, <1>2, <1>3, <1>4
<1>6. Runs(next, At(a, a.n, x, FALSE), b)
  BY <1>1, <1>5
<1> QED BY <1>1, <1>3, <1>6, TurnGoes

\* One more, which has just been read, or which has not.
LEMMA PushLive ==
  ASSUME NEW a \in Shape, NEW h, h = a.n
  PROVE  /\ h \in Nat /\ At(a, h, "A", TRUE) \in Shape /\ At(a, h, "A", TRUE).open = FALSE
         /\ At(a, h, "A", TRUE).live = TRUE /\ At(a, h, "A", TRUE).n = h + 1
         /\ \A i \in 1 .. h : At(a, h, "A", TRUE).c[i] = a.c[i]
         /\ At(At(a, h, "A", TRUE), h, "A", TRUE) = At(a, h, "A", TRUE)
         /\ Leq(At(a, h, "A", TRUE), At(a, h, "A", TRUE))
<1> DEFINE q == At(a, h, "A", TRUE)
<1>1. /\ h \in Nat /\ q \in Shape /\ q.open = FALSE /\ q.live = TRUE /\ q.n = h + 1
      /\ \A i \in 1 .. h : q.c[i] = a.c[i]
  BY DEF At, Shape, Classes
<1>2. At(q, h, "A", TRUE) = q
  BY <1>1 DEF At, Shape
<1> HIDE DEF q
<1>3. Leq(q, q)
  BY <1>1, LeqReflexive
<1> QED BY <1>1, <1>2, <1>3 DEF q

LEMMA Push ==
  ASSUME NEW a \in Shape, NEW h, h = a.n, NEW x \in Classes
  PROVE  /\ h \in Nat /\ At(a, h, x, FALSE) \in Shape /\ At(a, h, x, FALSE).open = FALSE
         /\ At(a, h, x, FALSE).live = FALSE /\ At(a, h, x, FALSE).n = h + 1
         /\ At(a, h, x, FALSE).c[h + 1] = x
         /\ \A i \in 1 .. h : At(a, h, x, FALSE).c[i] = a.c[i]
         /\ Leq(At(a, h, x, FALSE), At(a, h, x, FALSE))
<1> DEFINE q == At(a, h, x, FALSE)
<1>1. /\ h \in Nat /\ q \in Shape /\ q.open = FALSE /\ q.live = FALSE /\ q.n = h + 1 /\ q.c[h + 1] = x
      /\ \A i \in 1 .. h : q.c[i] = a.c[i]
  BY DEF At, Shape, Classes
<1> HIDE DEF q
<1>2. Leq(q, q)
  BY <1>1, LeqReflexive
<1> QED BY <1>1, <1>2 DEF q

-----------------------------------------------------------------------------
(* Builds at the end of a list.                                            *)

LEMMA ThenBuild ==
  ASSUME NEW s, NEW b, NEW is, NEW at, OkBuild(is, s, b)
  PROVE  Ok(Build(is, at), s, b)
<1>1. Build(is, at).do = "build" /\ Build(is, at).loc = {is}
  BY DEF Build, T
<1> QED BY <1>1, OkBuildIs

\* An operand and the node it is put in.
LEMMA ThenWrap ==
  ASSUME NEW a \in Shape, NEW b \in Shape, a.open = FALSE, NEW h, h = a.n,
         Leq(At(a, h, "A", TRUE), b), NEW is \in {"prefix", "return", "typeof"}, NEW at
  PROVE  Ok(Build(is, at), At(a, h, "A", TRUE), b)
<1> DEFINE q == At(a, h, "A", TRUE)
<1>1. /\ h \in Nat /\ q \in Shape /\ q.open = FALSE /\ q.live = TRUE /\ q.n = h + 1
      /\ At(q, h, "A", TRUE) = q
  BY PushLive
<1>2. Leq(q, b)
  OBVIOUS
<1> HIDE DEF q
<1>3. q.n - 1 = h /\ q.n >= 1
  BY <1>1
<1>4. OkBuild(is, q, b)
  BY <1>1, <1>2, <1>3 DEF OkBuild
<1>5. Ok(Build(is, at), q, b)
  BY <1>4, ThenBuild
<1> QED BY <1>5 DEF q

\* The right operand, and the left one it is put in a node with.
LEMMA ThenPair ==
  ASSUME NEW a \in Shape, NEW b \in Shape, a.open = FALSE, a.n >= 1, a.c[a.n] = "S", NEW h, h = a.n,
         Leq(At(a, h - 1, "A", TRUE), b), NEW is \in {"binary", "assign"}, NEW at
  PROVE  Ok(Build(is, at), At(a, h, "A", TRUE), b)
<1> DEFINE q == At(a, h, "A", TRUE)
<1>1. /\ h \in Nat /\ q \in Shape /\ q.open = FALSE /\ q.live = TRUE /\ q.n = h + 1
      /\ \A i \in 1 .. h : q.c[i] = a.c[i]
  BY PushLive
<1> HIDE DEF q
<1>2. q.n - 2 = h - 1 /\ q.n >= 2 /\ q.n - 1 = h /\ h \in 1 .. h /\ h - 1 \in Nat
  BY <1>1
<1>3. q.c[q.n - 1] = "S" /\ \A i \in 1 .. h - 1 : q.c[i] = a.c[i]
  BY <1>1, <1>2
<1>4. Leq(At(q, h - 1, "A", TRUE), b)
  BY <1>1, <1>2, <1>3, LeqAt DEF Classes, Sub
<1>5. OkBuild(is, q, b)
  BY <1>1, <1>2, <1>3, <1>4 DEF OkBuild
<1>6. Ok(Build(is, at), q, b)
  BY <1>5, ThenBuild
<1> QED BY <1>6 DEF q

-----------------------------------------------------------------------------
(* Lists of any length.                                                    *)

Grown(a, x) == [n |-> a.n, c |-> [i \in Nat |-> IF i <= a.n THEN a.c[i] ELSE x], open |-> TRUE, live |-> FALSE]

LEMMA GrownIs ==
  ASSUME NEW a \in Shape, a.open = FALSE, NEW x \in Classes
  PROVE  /\ Grown(a, x) \in Shape /\ Grown(a, x).n = a.n /\ Grown(a, x).open = TRUE /\ Grown(a, x).live = FALSE
         /\ \A i \in 1 .. a.n : Grown(a, x).c[i] = a.c[i]
         /\ \A i \in Nat : i > a.n => Grown(a, x).c[i] = x
         /\ Opens(a, Grown(a, x), x)
<1> DEFINE g == Grown(a, x)
<1>1. a.n \in Nat /\ \A i \in Nat : a.c[i] \in Classes
  BY DEF Shape
<1>2. /\ g.n = a.n /\ g.open = TRUE /\ g.live = FALSE
      /\ g.c = [i \in Nat |-> IF i <= a.n THEN a.c[i] ELSE x]
  BY DEF Grown
<1>3. \A i \in Nat : g.c[i] = IF i <= a.n THEN a.c[i] ELSE x
  BY <1>2
<1>4. g \in Shape
  BY <1>1 DEF Grown, Shape
<1> HIDE DEF g
<1>5. Opens(a, g, x)
  BY <1>1, <1>2, <1>3 DEF Opens, Sub
<1>6. \A i \in 1 .. a.n : g.c[i] = a.c[i]
  BY <1>1, <1>3
<1>7. \A i \in Nat : i > a.n => g.c[i] = x
  BY <1>1, <1>3
<1> QED BY <1>2, <1>4, <1>5, <1>6, <1>7 DEF g

\* The last result and all that follow it are put in one that takes its place.
LEMMA GrownWhole ==
  ASSUME NEW a \in Shape, a.open = FALSE, a.n >= 1, a.c[a.n] = "S", NEW h, h = a.n - 1
  PROVE  /\ h \in Nat /\ h + 1 <= Grown(a, "S").n /\ Whole(Grown(a, "S"), h)
         /\ \A i \in 1 .. h : Grown(a, "S").c[i] = a.c[i]
<1> DEFINE g == Grown(a, "S")
<1>1. /\ g.n = a.n /\ \A i \in 1 .. a.n : g.c[i] = a.c[i]
      /\ \A i \in Nat : i > a.n => g.c[i] = "S"
  BY GrownIs DEF Classes
<1> HIDE DEF g
<1>2. a.n \in Nat /\ h \in Nat /\ h + 1 = a.n
  BY DEF Shape
<1>3. \A i \in Nat : i > h => i = a.n \/ i > a.n
  BY <1>2
<1>4. a.n \in 1 .. a.n
  BY <1>2
<1>5. Whole(g, h)
  BY <1>1, <1>3, <1>4 DEF Whole
<1> QED BY <1>1, <1>2, <1>5 DEF g

LEMMA ThenItems ==
  ASSUME NEW t, t.do \in {"items", "fields"}, t.do = "items" => t.kinds \cap AA = {},
         NEW a \in Shape, a.open = FALSE
  PROVE  Ok(t, a, Grown(a, "S"))
<1>1. Opens(a, Grown(a, "S"), "S")
  BY GrownIs DEF Classes
<1> QED BY <1>1, OkItemsIs

LEMMA ThenParams ==
  ASSUME NEW t, t.do \in {"params", "members"}, NEW a \in Shape, a.open = FALSE
  PROVE  Ok(t, a, Grown(a, "A"))
<1>1. Opens(a, Grown(a, "A"), "A")
  BY GrownIs DEF Classes
<1> QED BY <1>1, OkParamsIs

\* A whole result in place of one.
LEMMA LeqTop ==
  ASSUME NEW a \in Shape, NEW d \in Shape, a.open = FALSE, a.live = FALSE, a.n >= 1, a.c[a.n] = "S",
         NEW h, h = a.n - 1, \A i \in 1 .. h : d.c[i] = a.c[i]
  PROVE  Leq(At(d, h, "S", FALSE), a)
<1> DEFINE s == At(d, h, "S", FALSE)
<1>1. h \in Nat /\ a.n \in Nat /\ h + 1 = a.n
  BY DEF Shape
<1>2. /\ s \in Shape /\ s.n = h + 1 /\ s.c[h + 1] = "S" /\ s.open = FALSE /\ s.live = FALSE
      /\ \A i \in 1 .. h : s.c[i] = d.c[i]
  BY <1>1 DEF At, Shape, Classes
<1> HIDE DEF s
<1>3. ASSUME NEW i \in Nat \ {0}, i <= s.n
      PROVE  Sub(s.c[i], a.c[i])
  <2>1. i = h + 1 \/ i \in 1 .. h
    BY <1>1, <1>2, <1>3
  <2> QED BY <2>1, <1>1, <1>2 DEF Sub
<1>4. Leq(s, a)
  BY <1>1, <1>2, <1>3 DEF Leq
<1> QED BY <1>4 DEF s

LEMMA InitializerRuns ==
  ASSUME NEW a \in Shape, NEW b \in Shape, a.open = FALSE, a.live = FALSE, a.n >= 1, a.c[a.n] = "S", Leq(a, b),
         NEW h, h = a.n - 1
  PROVE  Runs(<<Expect({"{"}), T("items", {"}"}, 0, {}), Expect({"}"}), Collect("arrayvalue", h)>>, a, b)
<1> DEFINE g == Grown(a, "S")
           t == T("items", {"}"}, 0, {})
           u == Collect("arrayvalue", h)
<1>1. g \in Shape /\ g.live = FALSE
  BY GrownIs DEF Classes
<1>2. Ok(Expect({"{"}), a, a) /\ Ok(Expect({"}"}), g, g)
  <2>1. {"{"} \cap AA = {} /\ {"}"} \cap AA = {}
    BY DEF AA
  <2> QED BY <1>1, <2>1, ThenExpect
<1>3. Ok(t, a, g)
  <2>1. t.do \in {"items", "fields"} /\ t.kinds \cap AA = {}
    BY DEF T, AA
  <2>2. Opens(a, g, "S")
    BY GrownIs DEF Classes
  <2> HIDE DEF t, g
  <2> QED BY <2>1, <2>2, OkItemsIs
<1>4. /\ h \in Nat /\ h + 1 <= g.n /\ Whole(g, h) /\ \A i \in 1 .. h : g.c[i] = a.c[i]
  BY GrownWhole
<1>5. g.n \in Nat /\ h <= g.n
  BY <1>1, <1>4 DEF Shape
<1>6. Leq(At(g, h, "S", FALSE), b)
  <2> HIDE DEF g
  <2>1. Leq(At(g, h, "S", FALSE), a)
    BY <1>1, <1>4, LeqTop
  <2>2. At(g, h, "S", FALSE) \in Shape
    BY <1>1, <1>4, AtShape DEF Classes
  <2> QED BY <2>1, <2>2, LeqTransitive
<1>7. Ok(u, g, b)
  <2>1. u.do = "collect" /\ u.loc = {"arrayvalue"} /\ u.n = h
    BY DEF Collect, T
  <2> HIDE DEF u, g
  <2> QED BY <2>1, <1>4, <1>5, <1>6, OkCollectIs
<1> HIDE DEF t, u, g
<1>8. Runs(<<Expect({"{"}), t, Expect({"}"}), u>>, a, b)
  BY <1>1, <1>2, <1>3, <1>7, RunsFour
<1> QED BY <1>8 DEF t, u

LEMMA InitializerSafe == Going /\ panic /\ ParseArrayInitializer => Safe'
<1> SUFFICES ASSUME Going, panic, ParseArrayInitializer PROVE Safe'
  OBVIOUS
<1> DEFINE next == <<Expect({"{"}), T("items", {"}"}, 0, {}), Expect({"}"}), Collect("arrayvalue", Len(vals) - 1)>>
<1>1. phase = "parse" /\ todo # << >> /\ Top.do \in {"type_led", "array_initializer"} /\ Then(0, next)
  BY DEF ParseArrayInitializer, Doing
<1>2. ASSUME NEW a \in Shape, NEW b \in Shape, a.open = FALSE, a.live = FALSE, a.n \in Nat, a.n >= 1,
             a.c[a.n] = "S", a.n = Len(vals), Leq(a, b)
      PROVE  Runs(next, a, b)
  BY <1>2, InitializerRuns
<1> HIDE DEF next
<1>3. \A a, b \in Shape : (/\ a.open = FALSE /\ a.live = FALSE /\ a.n \in Nat /\ a.n >= 1 /\ a.c[a.n] = "S"
                           /\ a.n = Len(vals) /\ Plain(a) = a
                           /\ Leq(a, b)) => Runs(next, a, b)
  BY <1>2
<1> QED BY <1>1, <1>3, TypeLedGoes

LEMMA ThenInitializer ==
  ASSUME NEW a \in Shape, NEW b \in Shape, a.open = FALSE, NEW h, h = a.n, Leq(At(a, h, "A", TRUE), b)
  PROVE  Ok(Do("array_initializer"), At(a, h, "S", FALSE), b)
<1> DEFINE q == At(a, h, "S", FALSE)
<1>1. h \in Nat /\ q \in Shape /\ q.open = FALSE /\ q.live = FALSE /\ q.n = h + 1 /\ q.c[h + 1] = "S"
  BY Push DEF Classes
<1>2. Leq(q, b)
  BY <1>1, LeqAt DEF Classes, Sub
<1> HIDE DEF q
<1>3. Plain(q) = q /\ q.n >= 1 /\ q.c[q.n] = "S"
  BY <1>1 DEF Plain, Shape
<1>4. Do("array_initializer").do = "array_initializer"
  BY DEF Do, T
<1>5. Ok(Do("array_initializer"), q, b)
  BY <1>1, <1>2, <1>3, <1>4, OkTypeLedIs
<1> QED BY <1>5 DEF q

LEMMA ArrayRuns ==
  ASSUME NEW a \in Shape, NEW b \in Shape, a.open = FALSE, a.live = FALSE, Leq(At(a, a.n, "A", TRUE), b), NEW bp
  PROVE  /\ Runs(<<Type(bp), Do("array_initializer")>>, a, b)
         /\ Runs(<<Expect({"["}), Expect({"]"}), Type(bp), Do("array_initializer")>>, a, b)
<1> DEFINE q == At(a, a.n, "S", FALSE)
<1>1. q \in Shape
  BY Push DEF Classes
<1>2. Ok(Type(bp), a, q)
  BY ThenType
<1>3. Ok(Do("array_initializer"), q, b)
  BY ThenInitializer
<1>4. Ok(Expect({"["}), a, a) /\ Ok(Expect({"]"}), a, a)
  <2>1. {"["} \cap AA = {} /\ {"]"} \cap AA = {}
    BY DEF AA
  <2> QED BY <2>1, ThenExpect
<1> HIDE DEF q
<1> QED BY <1>1, <1>2, <1>3, <1>4, RunsTwo, RunsFour

LEMMA InstantiationSafe == Going /\ panic /\ ParseArrayInstantiation => Safe'
<1> SUFFICES ASSUME Going, panic, ParseArrayInstantiation PROVE Safe'
  OBVIOUS
<1> DEFINE next == <<Expect({"["}), Expect({"]"}), Type(unary), Do("array_initializer")>>
<1>1. phase = "parse" /\ todo # << >> /\ Top.do \in Operands /\ Then(0, next)
  BY DEF ParseArrayInstantiation, Doing, Operands
<1>2. \A a, b \in Shape : (/\ a.open = FALSE /\ a.live = FALSE /\ a.n \in Nat
                           /\ Leq(At(a, a.n, "A", TRUE), b)) => Runs(next, a, b)
  <2> SUFFICES ASSUME NEW a \in Shape, NEW b \in Shape, a.open = FALSE, a.live = FALSE,
                      Leq(At(a, a.n, "A", TRUE), b)
               PROVE  Runs(next, a, b)
    OBVIOUS
  <2> QED BY ArrayRuns
<1> HIDE DEF next
<1> QED BY <1>1, <1>2, OperandGoes

LEMMA PrimarySafe == Going /\ panic /\ ParsePrimary => Safe'
<1> SUFFICES ASSUME Going, panic, ParsePrimary PROVE Safe'
  OBVIOUS
<1>1. phase = "parse" /\ todo # << >> /\ Top.do \in Operands
  BY DEF ParsePrimary, Doing, Operands
<1>2. CASE PostfixArrayStart /\ Then(0, <<Type(default_bp), Do("array_initializer")>>)
  <2> DEFINE next == <<Type(default_bp), Do("array_initializer")>>
  <2>1. \A a, b \in Shape : (/\ a.open = FALSE /\ a.live = FALSE /\ a.n \in Nat
                             /\ Leq(At(a, a.n, "A", TRUE), b)) => Runs(next, a, b)
    <3> SUFFICES ASSUME NEW a \in Shape, NEW b \in Shape, a.open = FALSE, a.live = FALSE,
                        Leq(At(a, a.n, "A", TRUE), b)
                 PROVE  Runs(next, a, b)
      OBVIOUS
    <3> QED BY ArrayRuns
  <2>2. Then(0, next)
    BY <1>2
  <2> HIDE DEF next
  <2> QED BY <1>1, <2>1, <2>2, OperandGoes
<1>3. CASE Report(1, 0, <<NullPtr>>, << >>)
  BY <1>3, ReportSafe
<1>4. CASE /\ Cur \in AA
           /\ failed' = TRUE /\ vals' = Append(vals, NullPtr) /\ todo' = Tail(todo)
           /\ UNCHANGED <<tokens, panic, pos, phase>>
  <2>1. PICK a, b \in Shape : /\ Fit(vals, a, Cur) /\ Runs(Tail(todo), b, Final)
                              /\ a.open = FALSE /\ a.live = FALSE /\ Plain(a) = a
                              /\ a.n = Len(vals) /\ a.n \in Nat /\ Top.n \in Nat
                              /\ Leq(At(a, a.n, "A", TRUE), b)
    BY <1>1, OperandShape
  <2>2. Cur' = Cur /\ vals' = SubSeq(vals, 1, a.n) \o <<NullPtr>>
    <3>1. SubSeq(vals, 1, Len(vals)) = vals /\ Append(vals, NullPtr) = vals \o <<NullPtr>>
      BY <2>1, AllKept
    <3>2. Cur' = Cur
      BY <1>4 DEF Cur, Ahead
    <3> QED BY <1>4, <2>1, <3>1, <3>2
  <2> DEFINE q == At(a, a.n, "A", TRUE)
  <2>3. q \in Shape
    BY <2>1, PushLive
  <2>4. Fit(vals', q, Cur')
    <3>1. Cur' \in AA /\ Fits(NullPtr, "A") /\ a.n <= a.n /\ "A" \in Classes
      BY <1>4, <2>1, <2>2, NullFits DEF Classes
    <3>2. Fit(SubSeq(vals, 1, a.n) \o <<NullPtr>>, At(a, a.n, "A", TRUE), Cur')
      BY <2>1, <3>1, FitAt
    <3> QED BY <2>2, <3>2
  <2>5. Leq(q, b)
    BY <2>1
  <2> HIDE DEF q
  <2>6. Fit(vals', b, Cur')
    BY <2>1, <2>3, <2>4, <2>5, FitLeq
  <2>7. Typed' /\ pos' \in Nat /\ IsSeq(tokens)' /\ phase' = "parse"
    BY <1>1, <1>4, <2>1, <2>6 DEF Typed, Going, IsSeq
  <2> QED BY <2>7 DEF Safe, Going
<1>5. CASE \E is \in {"symbol", "string", "literal"} : Turn(1, 0, <<Leaf(is)>>, << >>)
  <2>1. PICK is \in {"symbol", "string", "literal"} : Turn(1, 0, <<Leaf(is)>>, << >>)
    BY <1>5
  <2>2. Fits(Leaf(is), "S")
    BY LeafWhole DEF Leaf, Strict
  <2> QED BY <1>1, <2>1, <2>2, OperandDone
<1> QED
  <2>1. CASE ~PostfixArrayStart /\ Cur \notin {"HUGE", "AUTO", "ANY"}
    <3>1. CASE Cur = "IDENTIFIER"
      BY <1>2, <1>3, <1>5, <2>1, <3>1 DEF ParsePrimary
    <3>2. CASE Cur = "STRING"
      BY <1>2, <1>3, <1>5, <2>1, <3>2 DEF ParsePrimary
    <3>3. CASE Cur # "IDENTIFIER" /\ Cur # "STRING"
      BY <1>2, <1>3, <1>5, <2>1, <3>3 DEF ParsePrimary
    <3> QED BY <3>1, <3>2, <3>3
  <2>2. CASE ~(~PostfixArrayStart /\ Cur \notin {"HUGE", "AUTO", "ANY"})
    BY <1>2, <1>3, <1>4, <2>2 DEF ParsePrimary, AA
  <2> QED BY <2>1, <2>2

-----------------------------------------------------------------------------
(* Longer lists of tasks.                                                  *)

LEMMA RunsFive ==
  ASSUME NEW t, NEW u, NEW v, NEW w, NEW x,
         NEW a \in Shape, NEW b \in Shape, NEW d \in Shape, NEW e \in Shape,
         NEW f \in Shape, NEW g \in Shape,
         Ok(t, a, b), Ok(u, b, d), Ok(v, d, e), Ok(w, e, f), Ok(x, f, g)
  PROVE  Runs(<<t, u, v, w, x>>, a, g)
<1>1. <<t, u, v>> \o <<w, x>> = <<t, u, v, w, x>>
  <2>1. /\ <<t, u, v>> \in Seq({t, u, v, w, x}) /\ <<w, x>> \in Seq({t, u, v, w, x})
        /\ <<t, u, v, w, x>> \in Seq({t, u, v, w, x})
        /\ Len(<<t, u, v>>) = 3 /\ Len(<<w, x>>) = 2 /\ Len(<<t, u, v, w, x>>) = 5
    OBVIOUS
  <2>2. /\ <<t, u, v>> \o <<w, x>> \in Seq({t, u, v, w, x}) /\ Len(<<t, u, v>> \o <<w, x>>) = 5
        /\ (<<t, u, v>> \o <<w, x>>)[1] = t /\ (<<t, u, v>> \o <<w, x>>)[2] = u /\ (<<t, u, v>> \o <<w, x>>)[3] = v
        /\ (<<t, u, v>> \o <<w, x>>)[4] = w /\ (<<t, u, v>> \o <<w, x>>)[5] = x
    BY <2>1
  <2>3. \A q \in 1 .. 5 : (<<t, u, v>> \o <<w, x>>)[q] = <<t, u, v, w, x>>[q]
    BY <2>2
  <2> QED BY <2>1, <2>2, <2>3, SeqEqual
<1>2. Runs(<<t, u, v>>, a, e)
  BY RunsThree
<1>3. Runs(<<w, x>>, e, g)
  BY RunsTwo
<1> QED BY <1>1, <1>2, <1>3, RunsJoined

LEMMA RunsSix ==
  ASSUME NEW t, NEW u, NEW v, NEW w, NEW x, NEW y,
         NEW a \in Shape, NEW b \in Shape, NEW d \in Shape, NEW e \in Shape,
         NEW f \in Shape, NEW g \in Shape, NEW h \in Shape,
         Ok(t, a, b), Ok(u, b, d), Ok(v, d, e), Ok(w, e, f), Ok(x, f, g), Ok(y, g, h)
  PROVE  Runs(<<t, u, v, w, x, y>>, a, h)
<1>1. <<t, u, v>> \o <<w, x, y>> = <<t, u, v, w, x, y>>
  <2>1. /\ <<t, u, v>> \in Seq({t, u, v, w, x, y}) /\ <<w, x, y>> \in Seq({t, u, v, w, x, y})
        /\ <<t, u, v, w, x, y>> \in Seq({t, u, v, w, x, y})
        /\ Len(<<t, u, v>>) = 3 /\ Len(<<w, x, y>>) = 3 /\ Len(<<t, u, v, w, x, y>>) = 6
    OBVIOUS
  <2>2. /\ <<t, u, v>> \o <<w, x, y>> \in Seq({t, u, v, w, x, y}) /\ Len(<<t, u, v>> \o <<w, x, y>>) = 6
        /\ (<<t, u, v>> \o <<w, x, y>>)[1] = t /\ (<<t, u, v>> \o <<w, x, y>>)[2] = u /\ (<<t, u, v>> \o <<w, x, y>>)[3] = v
        /\ (<<t, u, v>> \o <<w, x, y>>)[4] = w /\ (<<t, u, v>> \o <<w, x, y>>)[5] = x /\ (<<t, u, v>> \o <<w, x, y>>)[6] = y
    BY <2>1
  <2>3. \A q \in 1 .. 6 : (<<t, u, v>> \o <<w, x, y>>)[q] = <<t, u, v, w, x, y>>[q]
    BY <2>2
  <2> QED BY <2>1, <2>2, <2>3, SeqEqual
<1>2. Runs(<<t, u, v>>, a, e)
  BY RunsThree
<1>3. Runs(<<w, x, y>>, e, h)
  BY RunsThree
<1> QED BY <1>1, <1>2, <1>3, RunsJoined

LEMMA RunsSeven ==
  ASSUME NEW t, NEW u, NEW v, NEW w, NEW x, NEW y, NEW z,
         NEW a \in Shape, NEW b \in Shape, NEW d \in Shape, NEW e \in Shape,
         NEW f \in Shape, NEW g \in Shape, NEW h \in Shape, NEW i \in Shape,
         Ok(t, a, b), Ok(u, b, d), Ok(v, d, e), Ok(w, e, f), Ok(x, f, g), Ok(y, g, h), Ok(z, h, i)
  PROVE  Runs(<<t, u, v, w, x, y, z>>, a, i)
<1>1. <<t, u, v, w>> \o <<x, y, z>> = <<t, u, v, w, x, y, z>>
  <2>1. /\ <<t, u, v, w>> \in Seq({t, u, v, w, x, y, z}) /\ <<x, y, z>> \in Seq({t, u, v, w, x, y, z})
        /\ <<t, u, v, w, x, y, z>> \in Seq({t, u, v, w, x, y, z})
        /\ Len(<<t, u, v, w>>) = 4 /\ Len(<<x, y, z>>) = 3 /\ Len(<<t, u, v, w, x, y, z>>) = 7
    OBVIOUS
  <2>2. /\ <<t, u, v, w>> \o <<x, y, z>> \in Seq({t, u, v, w, x, y, z}) /\ Len(<<t, u, v, w>> \o <<x, y, z>>) = 7
        /\ (<<t, u, v, w>> \o <<x, y, z>>)[1] = t /\ (<<t, u, v, w>> \o <<x, y, z>>)[2] = u /\ (<<t, u, v, w>> \o <<x, y, z>>)[3] = v /\ (<<t, u, v, w>> \o <<x, y, z>>)[4] = w
        /\ (<<t, u, v, w>> \o <<x, y, z>>)[5] = x /\ (<<t, u, v, w>> \o <<x, y, z>>)[6] = y /\ (<<t, u, v, w>> \o <<x, y, z>>)[7] = z
    BY <2>1
  <2>3. \A q \in 1 .. 7 : (<<t, u, v, w>> \o <<x, y, z>>)[q] = <<t, u, v, w, x, y, z>>[q]
    BY <2>2
  <2> QED BY <2>1, <2>2, <2>3, SeqEqual
<1>2. Runs(<<t, u, v, w>>, a, f)
  BY RunsFour
<1>3. Runs(<<x, y, z>>, f, i)
  BY RunsThree
<1> QED BY <1>1, <1>2, <1>3, RunsJoined

-----------------------------------------------------------------------------
(* Operators, groups, calls and literals of structs.                       *)

\* A token after a result that has just been read makes it whole.
LEMMA FirmPush ==
  ASSUME NEW a \in Shape, NEW h, h = a.n
  PROVE  Leq(Firm(At(a, h, "A", TRUE)), At(a, h, "S", FALSE))
<1> DEFINE q == At(a, h, "A", TRUE)
           r == At(a, h, "S", FALSE)
<1>1. {} \cap AA = {} /\ h \in Nat
  BY DEF Shape
<1>2. Ok(Expect({}), q, r)
  BY <1>1, ThenFirm
<1>3. Expect({}).do = "expect"
  BY DEF Expect, T
<1> HIDE DEF q, r
<1>4. Leq(Firm(q), r)
  BY <1>2, <1>3, OkExpectIs
<1> QED BY <1>4 DEF q, r

LEMMA ThenSeparator ==
  ASSUME NEW t, t.do = "separator", t.kinds \cap AA = {}, t.loc \cap AA = {}, NEW a \in Shape, NEW h, h = a.n
  PROVE  Ok(t, At(a, h, "A", TRUE), At(a, h, "S", FALSE))
<1> DEFINE q == At(a, h, "A", TRUE)
           r == At(a, h, "S", FALSE)
<1>1. Leq(Firm(q), r)
  BY FirmPush
<1> HIDE DEF q, r
<1>2. Ok(t, q, r)
  BY <1>1, OkExpectIs
<1> QED BY <1>2 DEF q, r

LEMMA OpensLeq ==
  ASSUME NEW a \in Shape, NEW b \in Shape, NEW x \in Classes, Opens(a, b, x)
  PROVE  Plain(a).open = FALSE /\ Leq(Plain(a), b) /\ Opens(Plain(a), b, x)
<1>1. a.open = FALSE
  BY DEF Opens, Shape
<1> QED BY <1>1 DEF Plain, Opens, Leq, Shape

\* The loop goes on with one result more.
LEMMA OpensNext ==
  ASSUME NEW a \in Shape, NEW b \in Shape, NEW x \in Classes, Opens(a, b, x), NEW h, h = a.n
  PROVE  Opens(At(a, h, x, FALSE), b, x)
<1> DEFINE q == At(a, h, x, FALSE)
<1>1. /\ h \in Nat /\ q \in Shape /\ q.open = FALSE /\ q.n = h + 1 /\ q.c[h + 1] = x
      /\ \A i \in 1 .. h : q.c[i] = a.c[i]
  BY DEF At, Shape
<1> HIDE DEF q
<1>2. /\ ~a.open /\ b.open /\ ~b.live /\ b.n <= a.n /\ b.n \in Nat
      /\ \A i \in Nat \ {0} : Sub(IF i <= a.n THEN a.c[i] ELSE x, b.c[i])
  BY DEF Opens, Shape
<1>3. ASSUME NEW i \in Nat \ {0}
      PROVE  Sub(IF i <= q.n THEN q.c[i] ELSE x, b.c[i])
  <2>1. CASE i <= h
    <3>1. i <= q.n /\ i \in 1 .. h /\ i <= a.n
      BY <1>1, <2>1
    <3>2. q.c[i] = a.c[i]
      BY <3>1, <1>1
    <3>3. Sub(a.c[i], b.c[i])
      BY <3>1, <1>2
    <3> QED BY <3>1, <3>2, <3>3
  <2>2. CASE i = h + 1
    <3>1. i <= q.n /\ q.c[i] = x /\ ~(i <= a.n)
      BY <1>1, <2>2
    <3> QED BY <3>1, <1>2
  <2>3. CASE i > h + 1
    <3>1. ~(i <= q.n) /\ ~(i <= a.n)
      BY <1>1, <2>3
    <3> QED BY <3>1, <1>2
  <2> QED BY <1>1, <2>1, <2>2, <2>3
<1>4. b.n <= q.n
  BY <1>1, <1>2
<1>5. Opens(q, b, x)
  BY <1>1, <1>2, <1>3, <1>4 DEF Opens
<1> QED BY <1>5 DEF q

LEMMA ItemsSafe == Going /\ panic /\ ParseItems => Safe'
<1> SUFFICES ASSUME Going, panic, ParseItems PROVE Safe'
  OBVIOUS
<1>1. phase = "parse" /\ todo # << >> /\ Top.do \in {"items", "fields"} /\ Top.do = "items"
  BY DEF ParseItems, Doing
<1>2. PICK a, b \in Shape : Fit(vals, a, Cur) /\ Ok(Top, a, b) /\ Runs(Tail(todo), b, Final)
  BY <1>1, TopTask
<1>3. Top.kinds \cap AA = {} /\ Opens(a, b, "S")
  BY <1>1, <1>2, OkItemsIs
<1> DEFINE p == Plain(a)
           q == At(p, p.n, "A", TRUE)
           r == At(p, p.n, "S", FALSE)
<1>4. p \in Shape /\ p.open = FALSE /\ p.live = FALSE /\ Leq(p, b) /\ Opens(p, b, "S")
  BY <1>3, PlainShape, OpensLeq DEF Classes
<1>5. CASE Then(0, << >>)
  BY <1>1, <1>2, <1>4, <1>5, ThenDone
<1>6. CASE Then(0, <<Expr(default_bp), T("separator", Top.kinds, 0, {","}), Top>>)
  <2> DEFINE t == Expr(default_bp)
             u == T("separator", Top.kinds, 0, {","})
  <2> HIDE DEF p
  <2>1. q \in Shape /\ r \in Shape
    BY <1>4, PushLive, Push DEF Classes
  <2>2. Ok(t, p, q)
    <3>1. default_bp \in Nat
      BY DEF default_bp
    <3> QED BY <3>1, <1>4, ThenExpr
  <2>3. Ok(u, q, r)
    <3>1. u.do = "separator" /\ u.kinds \cap AA = {} /\ u.loc \cap AA = {}
      BY <1>3 DEF T, AA
    <3> HIDE DEF u
    <3> QED BY <3>1, <1>4, ThenSeparator
  <2>4. Opens(r, b, "S")
    BY <1>4, OpensNext DEF Classes
  <2> HIDE DEF q, r, t, u
  <2>5. Ok(Top, r, b)
    BY <1>1, <1>3, <2>4, OkItemsIs
  <2>6. Runs(<<t, u, Top>>, p, b)
    BY <1>4, <2>1, <2>2, <2>3, <2>5, RunsThree
  <2>7. Then(0, <<t, u, Top>>)
    BY <1>6 DEF t, u
  <2> QED BY <1>1, <1>2, <2>6, <2>7, ThenGoes DEF p
<1> QED BY <1>5, <1>6 DEF ParseItems

LEMMA SeparatorSafe == Going /\ panic /\ ParseSeparator => Safe'
<1> SUFFICES ASSUME Going, panic, ParseSeparator PROVE Safe'
  OBVIOUS
<1>1. phase = "parse" /\ todo # << >> /\ Top.do \in {"expect", "separator"} /\ Top.do = "separator"
  BY DEF ParseSeparator, Doing
<1>2. PICK a, b \in Shape : Fit(vals, a, Cur) /\ Ok(Top, a, b) /\ Runs(Tail(todo), b, Final)
  BY <1>1, TopTask
<1>3. Top.kinds \cap AA = {} /\ Top.loc \cap AA = {} /\ Leq(Firm(a), b)
  BY <1>1, <1>2, OkExpectIs
<1>4. CASE Cur \in Top.kinds
  <2>1. Then(0, << >>)
    BY <1>4 DEF ParseSeparator
  <2>2. Firm(a) \in Shape /\ Fit(vals, Firm(a), Cur)
    BY <1>2, <1>3, <1>4, FirmFits
  <2>3. Fit(vals, b, Cur)
    BY <1>2, <1>3, <2>2, FitLeq
  <2> QED BY <1>1, <1>2, <2>1, <2>3, HereDone
<1>5. CASE Cur \notin Top.kinds
  <2>1. Then(0, <<Expect(Top.loc)>>)
    BY <1>5 DEF ParseSeparator
  <2>2. Expect(Top.loc).do = "expect" /\ Expect(Top.loc).kinds = Top.loc
    BY DEF Expect, T
  <2>3. Ok(Expect(Top.loc), a, b)
    BY <1>3, <2>2, OkExpectIs
  <2>4. Runs(<<Expect(Top.loc)>>, a, b)
    BY <1>2, <2>3, RunsOne
  <2> QED BY <1>1, <1>2, <2>1, <2>4, HereGoes
<1> QED BY <1>4, <1>5

\* An operand and a node of it, or of it and the result before it.
LEMMA WrapRuns ==
  ASSUME NEW a \in Shape, NEW b \in Shape, a.open = FALSE, Leq(At(a, a.n, "A", TRUE), b),
         NEW bp \in Nat, NEW is \in {"prefix", "return", "typeof"}, NEW at
  PROVE  Runs(<<Expr(bp), Build(is, at)>>, a, b)
<1> DEFINE q == At(a, a.n, "A", TRUE)
<1>1. q \in Shape
  BY PushLive
<1>2. Ok(Expr(bp), a, q) /\ Ok(Build(is, at), q, b)
  BY ThenExpr, ThenWrap
<1> HIDE DEF q
<1> QED BY <1>1, <1>2, RunsTwo

LEMMA PairRuns ==
  ASSUME NEW a \in Shape, NEW b \in Shape, a.open = FALSE, a.n >= 1, a.c[a.n] = "S",
         Leq(At(a, a.n - 1, "A", TRUE), b), NEW bp \in Nat, NEW is \in {"binary", "assign"}, NEW at
  PROVE  Runs(<<Expr(bp), Build(is, at)>>, a, b)
<1> DEFINE q == At(a, a.n, "A", TRUE)
<1>1. q \in Shape
  BY PushLive
<1>2. Ok(Expr(bp), a, q) /\ Ok(Build(is, at), q, b)
  BY ThenExpr, ThenPair
<1> HIDE DEF q
<1> QED BY <1>1, <1>2, RunsTwo

LEMMA OperatorSafe == Going /\ panic /\ (ParseBinary \/ ParsePrefix \/ ParseAssignment) => Safe'
<1> SUFFICES ASSUME Going, panic, ParseBinary \/ ParsePrefix \/ ParseAssignment PROVE Safe'
  OBVIOUS
<1>1. phase = "parse" /\ todo # << >>
  BY DEF ParseBinary, ParsePrefix, ParseAssignment, Doing
<1>2. CASE ParsePrefix
  <2> DEFINE next == <<Expr(unary), Build("prefix", pos + 1)>>
  <2>1. Top.do \in Operands /\ Then(1, next)
    BY <1>2 DEF ParsePrefix, Doing, Operands
  <2>2. \A a, b \in Shape : (/\ a.open = FALSE /\ a.live = FALSE /\ a.n \in Nat
                             /\ Leq(At(a, a.n, "A", TRUE), b)) => Runs(next, a, b)
    <3> SUFFICES ASSUME NEW a \in Shape, NEW b \in Shape, a.open = FALSE, a.live = FALSE,
                        Leq(At(a, a.n, "A", TRUE), b)
                 PROVE  Runs(next, a, b)
      OBVIOUS
    <3>1. unary \in Nat
      BY DEF unary
    <3> QED BY <3>1, WrapRuns
  <2> HIDE DEF next
  <2> QED BY <1>1, <2>1, <2>2, OperandGoes
<1>3. CASE \E bp \in Nat, is \in {"binary", "assign"} :
             Top.do \in Operations /\ Then(1, <<Expr(bp), Build(is, pos + 1)>>)
  <2>1. PICK bp \in Nat, is \in {"binary", "assign"} :
          Top.do \in Operations /\ Then(1, <<Expr(bp), Build(is, pos + 1)>>)
    BY <1>3
  <2> DEFINE next == <<Expr(bp), Build(is, pos + 1)>>
  <2>2. \A a, b \in Shape : (/\ a.open = FALSE /\ a.live = FALSE /\ a.n \in Nat /\ a.n >= 1 /\ a.c[a.n] = "S"
                             /\ a.n = Len(vals)
                             /\ Leq(At(a, a.n - 1, "A", TRUE), b)) => Runs(next, a, b)
    <3> SUFFICES ASSUME NEW a \in Shape, NEW b \in Shape, a.open = FALSE, a.live = FALSE, a.n >= 1,
                        a.c[a.n] = "S", Leq(At(a, a.n - 1, "A", TRUE), b)
                 PROVE  Runs(next, a, b)
      OBVIOUS
    <3> QED BY PairRuns
  <2> HIDE DEF next
  <2> QED BY <1>1, <2>1, <2>2, OperationGoes DEF next
<1>4. CASE ParseBinary
  <2>1. Top.do \in Operations /\ Then(1, <<Expr(bp_lu(Cur)), Build("binary", pos + 1)>>)
    BY <1>4 DEF ParseBinary, Doing, Operations
  <2> QED BY <2>1, <1>3, PowerNat
<1>5. CASE ParseAssignment
  <2>1. Top.do \in Operations /\ Then(1, <<Expr(assignment - 1), Build("assign", pos + 1)>>)
    BY <1>5 DEF ParseAssignment, Doing, Operations
  <2>2. assignment - 1 \in Nat
    BY DEF assignment
  <2> QED BY <2>1, <2>2, <1>3
<1> QED BY <1>2, <1>4, <1>5

LEMMA GroupingSafe == Going /\ panic /\ ParseGrouping => Safe'
<1> SUFFICES ASSUME Going, panic, ParseGrouping PROVE Safe'
  OBVIOUS
<1> DEFINE next == <<Expect({"("}), Expr(default_bp), Expect({")"})>>
<1>1. phase = "parse" /\ todo # << >> /\ Top.do \in Operands /\ Then(0, next)
  BY DEF ParseGrouping, Doing, Operands
<1>2. \A a, b \in Shape : (/\ a.open = FALSE /\ a.live = FALSE /\ a.n \in Nat
                           /\ Leq(At(a, a.n, "A", TRUE), b)) => Runs(next, a, b)
  <2> SUFFICES ASSUME NEW a \in Shape, NEW b \in Shape, a.open = FALSE, a.live = FALSE, a.n \in Nat,
                      Leq(At(a, a.n, "A", TRUE), b)
               PROVE  Runs(next, a, b)
    OBVIOUS
  <2> DEFINE q == At(a, a.n, "A", TRUE)
  <2>1. default_bp \in Nat /\ {"("} \cap AA = {} /\ {")"} \cap AA = {}
    BY DEF default_bp, AA
  <2>2. q \in Shape /\ Ok(Expect({"("}), a, a) /\ Ok(Expr(default_bp), a, q)
    BY <2>1, PushLive, ThenExpect, ThenExpr
  <2>3. Firm(q) = At(a, a.n, "S", FALSE)
    BY DEF Firm, At, Shape
  <2>4. Leq(Firm(q), b)
    <3>1. Leq(At(a, a.n, "S", FALSE), b)
      BY LeqAt DEF Classes, Sub
    <3> HIDE DEF q
    <3> QED BY <3>1, <2>3
  <2> HIDE DEF q
  <2>5. Expect({")"}).do = "expect" /\ Expect({")"}).kinds = {")"}
    BY DEF Expect, T
  <2>6. Ok(Expect({")"}), q, b)
    BY <2>1, <2>4, <2>5, OkExpectIs
  <2> QED BY <2>2, <2>6, RunsThree
<1> HIDE DEF next
<1> QED BY <1>1, <1>2, OperandGoes

-----------------------------------------------------------------------------
(* The last results.                                                       *)

LEMMA LastAre ==
  ASSUME Going, NEW a \in Shape, Fit(vals, a, Cur), ~a.open
  PROVE  /\ a.n \in Nat /\ Len(vals) = a.n
         /\ a.n >= 1 => V(1) = vals[a.n] /\ Fits(V(1), a.c[a.n]) /\ Fits(V(1), "A")
                        /\ (a.live => (Unread(V(1)) => Cur \in AA))
         /\ a.n >= 2 => V(2) = vals[a.n - 1] /\ Fits(V(2), a.c[a.n - 1]) /\ Fits(V(2), "A")
         /\ a.n >= 3 => V(3) = vals[a.n - 2] /\ Fits(V(3), a.c[a.n - 2]) /\ Fits(V(3), "A")
<1>1. a.n \in Nat /\ Len(vals) = a.n /\ \A i \in 1 .. a.n : Fits(vals[i], a.c[i])
  BY DEF Fit, Shape
<1>2. \A i \in 1 .. a.n : Fits(vals[i], "A")
  BY <1>1 DEF Fits
<1>3. a.n >= 1 => V(1) = vals[a.n] /\ a.n \in 1 .. a.n
  BY <1>1 DEF V
<1>4. a.n >= 2 => V(2) = vals[a.n - 1] /\ a.n - 1 \in 1 .. a.n
  BY <1>1 DEF V
<1>5. a.n >= 3 => V(3) = vals[a.n - 2] /\ a.n - 2 \in 1 .. a.n
  BY <1>1 DEF V
<1>6. a.live => (Unread(vals[a.n]) => Cur \in AA)
  BY <1>1 DEF Fit
<1> QED BY <1>1, <1>2, <1>3, <1>4, <1>5, <1>6

LEMMA AboveOne ==
  ASSUME Going, Len(vals) >= 1
  PROVE  Above(Len(vals) - 1) = <<V(1)>>
<1>1. PICK S : vals \in Seq(S)
  BY DEF Going, Typed, Fit, IsSeq
<1>2. Len(vals) \in Nat /\ Len(vals) - 1 \in Nat /\ Len(vals) - 1 <= Len(vals) /\ Len(vals) - (Len(vals) - 1) = 1
  BY <1>1
<1>3. /\ IsSeq(Above(Len(vals) - 1)) /\ Len(Above(Len(vals) - 1)) = 1
      /\ \A i \in DOMAIN Above(Len(vals) - 1) : Above(Len(vals) - 1)[i] = vals[i + (Len(vals) - 1)]
  BY <1>2, AboveAre
<1> DEFINE s == Above(Len(vals) - 1)
<1>4. PICK U : s \in Seq(U)
  BY <1>3 DEF IsSeq
<1>5. DOMAIN s = 1 .. 1 /\ s[1] = vals[1 + (Len(vals) - 1)]
  BY <1>3, <1>4
<1>6. V(1) = vals[1 + (Len(vals) - 1)]
  BY <1>2 DEF V
<1>7. s[1] = V(1) /\ s \in Seq(U \cup {V(1)}) /\ <<V(1)>> \in Seq(U \cup {V(1)}) /\ Len(s) = 1
  BY <1>3, <1>4, <1>5, <1>6
<1> HIDE DEF s
<1>8. Len(<<V(1)>>) = 1 /\ \A i \in 1 .. 1 : s[i] = <<V(1)>>[i]
  BY <1>7
<1>9. s = <<V(1)>>
  BY <1>7, <1>8, SeqEqual
<1> QED BY <1>9 DEF s

LEMMA AboveTwo ==
  ASSUME Going, Len(vals) >= 2
  PROVE  Above(Len(vals) - 2) = <<V(2), V(1)>>
<1>1. PICK S : vals \in Seq(S)
  BY DEF Going, Typed, Fit, IsSeq
<1>2. Len(vals) \in Nat /\ Len(vals) - 2 \in Nat /\ Len(vals) - 2 <= Len(vals) /\ Len(vals) - (Len(vals) - 2) = 2
  BY <1>1
<1>3. /\ IsSeq(Above(Len(vals) - 2)) /\ Len(Above(Len(vals) - 2)) = 2
      /\ \A i \in DOMAIN Above(Len(vals) - 2) : Above(Len(vals) - 2)[i] = vals[i + (Len(vals) - 2)]
  BY <1>2, AboveAre
<1> DEFINE s == Above(Len(vals) - 2)
<1>4. PICK U : s \in Seq(U)
  BY <1>3 DEF IsSeq
<1>5. DOMAIN s = 1 .. 2 /\ s[1] = vals[1 + (Len(vals) - 2)] /\ s[2] = vals[2 + (Len(vals) - 2)]
  BY <1>3, <1>4
<1>6. V(1) = vals[2 + (Len(vals) - 2)] /\ V(2) = vals[1 + (Len(vals) - 2)]
  BY <1>2 DEF V
<1>7. /\ s[1] = V(2) /\ s[2] = V(1) /\ s \in Seq(U \cup {V(1), V(2)}) /\ <<V(2), V(1)>> \in Seq(U \cup {V(1), V(2)})
      /\ Len(s) = 2
  BY <1>3, <1>4, <1>5, <1>6
<1> HIDE DEF s
<1>8. Len(<<V(2), V(1)>>) = 2 /\ \A i \in 1 .. 2 : s[i] = <<V(2), V(1)>>[i]
  BY <1>7
<1>9. s = <<V(2), V(1)>>
  BY <1>7, <1>8, SeqEqual
<1> QED BY <1>9 DEF s

\* A result in place of the last d, without a token consumed.
LEMMA HereTurns ==
  ASSUME Going, phase = "parse", todo # << >>, NEW d \in Nat, NEW v, Turn(0, d, <<v>>, << >>),
         NEW a \in Shape, NEW b \in Shape, Fit(vals, a, Cur), Runs(Tail(todo), b, Final), ~a.open, d <= a.n,
         NEW x \in Classes, Fits(v, x),
         NEW l \in BOOLEAN, l => (Unread(v) => Cur \in AA), Leq(At(a, a.n - d, x, l), b)
  PROVE  Safe'
<1>1. a.n \in Nat /\ Len(vals) = a.n
  BY LastAre
<1>2. a.n - d \in Nat /\ a.n - d <= a.n /\ Len(vals) - d = a.n - d
  BY <1>1
<1>3. Cur' = Cur
  BY CurSame
<1>4. l => (Unread(v) => Cur' \in AA)
  BY <1>3
<1> QED BY <1>2, <1>4, TurnDone

-----------------------------------------------------------------------------
(* Calls and literals of structs.                                          *)

LEMMA CallRuns ==
  ASSUME NEW a \in Shape, NEW b \in Shape, a.open = FALSE, a.live = FALSE, a.n >= 1, a.c[a.n] = "S",
         NEW h, h = a.n - 1, Leq(At(a, h, "A", TRUE), b)
  PROVE  /\ Runs(<<Expect({"("}), T("items", {")"}, 0, {}), Expect({")"}), T("call", {}, h, {})>>, a, b)
         /\ Runs(<<Expect({"{"}), Do("fields"), Expect({"}"}), T("structvalue", {}, a.n, {})>>, a, b)
<1> DEFINE g == Grown(a, "S")
           t == T("items", {")"}, 0, {})
           u == T("call", {}, h, {})
           w == Do("fields")
           x == T("structvalue", {}, a.n, {})
<1>1. g \in Shape /\ g.live = FALSE
  BY GrownIs DEF Classes
<1>2. Ok(Expect({"("}), a, a) /\ Ok(Expect({")"}), g, g) /\ Ok(Expect({"{"}), a, a) /\ Ok(Expect({"}"}), g, g)
  <2>1. {"{"} \cap AA = {} /\ {"}"} \cap AA = {} /\ {"("} \cap AA = {} /\ {")"} \cap AA = {}
    BY DEF AA
  <2> HIDE DEF g
  <2> QED BY <1>1, <2>1, ThenExpect
<1>3. Opens(a, g, "S")
  BY GrownIs DEF Classes
<1>4. /\ h \in Nat /\ h + 1 <= g.n /\ Whole(g, h) /\ \A i \in 1 .. h : g.c[i] = a.c[i]
  BY GrownWhole
<1>5. a.n \in Nat \ {0} /\ a.n = h + 1 /\ a.n - 1 = h
  BY <1>4 DEF Shape
<1> HIDE DEF g
<1>6. Leq(At(g, h, "S", FALSE), b)
  BY <1>1, <1>4, LeqAt DEF Classes, Sub
<1>7. Ok(t, a, g) /\ Ok(w, a, g)
  <2>1. t.do = "items" /\ t.kinds \cap AA = {} /\ w.do = "fields"
    BY DEF T, Do, AA
  <2> HIDE DEF t, w
  <2> QED BY <2>1, <1>3, OkItemsIs
<1>8. Ok(u, g, b)
  <2>1. u.do = "call" /\ u.n = h
    BY DEF T
  <2> HIDE DEF u
  <2> QED BY <2>1, <1>4, <1>6, OkCallIs
<1>9. Ok(x, g, b)
  <2>1. x.do = "structvalue" /\ x.n = a.n
    BY DEF T
  <2>2. Whole(g, a.n)
    BY <1>4, <1>5 DEF Whole
  <2> HIDE DEF x
  <2> QED BY <2>1, <2>2, <1>4, <1>5, <1>6, OkStructvalueIs
<1> HIDE DEF t, u, w, x
<1>10. Runs(<<Expect({"("}), t, Expect({")"}), u>>, a, b)
  BY <1>1, <1>2, <1>7, <1>8, RunsFour
<1>11. Runs(<<Expect({"{"}), w, Expect({"}"}), x>>, a, b)
  BY <1>1, <1>2, <1>7, <1>9, RunsFour
<1> QED BY <1>10, <1>11 DEF t, u, w, x

LEMMA CallSafe == Going /\ panic /\ (ParseFunctionCall \/ ParseStructInstantiation) => Safe'
<1> SUFFICES ASSUME Going, panic, ParseFunctionCall \/ ParseStructInstantiation PROVE Safe'
  OBVIOUS
<1>1. phase = "parse" /\ todo # << >> /\ Top.do \in Operations
  BY DEF ParseFunctionCall, ParseStructInstantiation, Doing, Operations
<1>2. CASE Report(0, 1, <<NullPtr>>, <<Do("depth"), Expect({"}"})>>)
  BY <1>2, ReportSafe
<1>3. ASSUME NEW next \in
               {<<Expect({"("}), T("items", {")"}, 0, {}), Expect({")"}), T("call", {}, Len(vals) - 1, {})>>,
                <<Expect({"{"}), Do("fields"), Expect({"}"}), T("structvalue", {}, Len(vals), {})>>},
             Then(0, next)
      PROVE  Safe'
  <2>1. \A a, b \in Shape : (/\ a.open = FALSE /\ a.live = FALSE /\ a.n \in Nat /\ a.n >= 1 /\ a.c[a.n] = "S"
                             /\ a.n = Len(vals)
                             /\ Leq(At(a, a.n - 1, "A", TRUE), b)) => Runs(next, a, b)
    <3> SUFFICES ASSUME NEW a \in Shape, NEW b \in Shape, a.open = FALSE, a.live = FALSE, a.n >= 1,
                        a.n = Len(vals), a.c[a.n] = "S", Leq(At(a, a.n - 1, "A", TRUE), b)
                 PROVE  Runs(next, a, b)
      OBVIOUS
    <3>1. /\ Runs(<<Expect({"("}), T("items", {")"}, 0, {}), Expect({")"}), T("call", {}, a.n - 1, {})>>, a, b)
          /\ Runs(<<Expect({"{"}), Do("fields"), Expect({"}"}), T("structvalue", {}, a.n, {})>>, a, b)
      BY CallRuns
    <3> QED BY <3>1, <1>3
  <2> QED BY <1>1, <1>3, <2>1, OperationGoes
<1> QED BY <1>2, <1>3 DEF ParseFunctionCall, ParseStructInstantiation

\* The name of a call is read, and is no null pointer.
LEMMA BuildCallSafe == Going /\ panic /\ BuildCall => Safe'
<1> SUFFICES ASSUME Going, panic, BuildCall PROVE Safe'
  OBVIOUS
<1>1. phase = "parse" /\ todo # << >> /\ Top.do = "call"
  BY DEF BuildCall, Doing
<1>2. PICK a, b \in Shape : Fit(vals, a, Cur) /\ Ok(Top, a, b) /\ Runs(Tail(todo), b, Final)
  BY <1>1, TopTask
<1> DEFINE h == Top.n
<1>3. h \in Nat /\ h + 1 <= a.n /\ Whole(a, h) /\ Leq(At(a, h, "S", FALSE), b)
  BY <1>1, <1>2, OkCallIs
<1>4. a.n \in Nat /\ h <= a.n /\ Len(vals) \in Nat /\ a.n <= Len(vals) /\ Len(vals) - (Len(vals) - h) = h
  <2>1. a.n \in Nat /\ Len(vals) \in Nat /\ a.n <= Len(vals)
    BY <1>2, AllKept, FitExact DEF Shape
  <2> QED BY <2>1, <1>3
<1>5. ~Unread(vals[h + 1])
  <2> HIDE DEF h
  <2>1. h + 1 \in 1 .. Len(vals) /\ h + 1 \in Nat /\ h + 1 > h
    BY <1>3, <1>4
  <2>2. Fits(vals[h + 1], a.c[h + 1]) /\ a.c[h + 1] = "S"
    BY <1>2, <1>3, <2>1 DEF Fit, Whole
  <2> QED BY <2>2 DEF Fits, Unread
<1>6. Turn(0, Len(vals) - h, <<Node("call", 0, Above(h))>>, << >>)
  BY <1>5 DEF BuildCall
<1>7. Fits(Node("call", 0, Above(h)), "S")
  <2>1. \A i \in DOMAIN Above(h) : Fits(Above(h)[i], "S")
    BY <1>2, <1>3, <1>4, AboveFit
  <2> QED BY <2>1, NodeStrict
<1> HIDE DEF h
<1>8. "S" \in Classes
  BY DEF Classes
<1> QED BY <1>1, <1>2, <1>3, <1>4, <1>6, <1>7, <1>8, TurnDone

LEMMA FieldsRuns ==
  ASSUME NEW p \in Shape, NEW b \in Shape, p.open = FALSE, p.live = FALSE, Opens(p, b, "S"),
         NEW top, top.do = "fields"
  PROVE  Runs(<<Do("name"), Expect({":", "="}), Expr(logical), Do("field"),
                T("separator", {"}"}, 0, {",", ";"}), top>>, p, b)
<1> DEFINE h == p.n
           s == At(p, h, "A", FALSE)
           q == At(s, h + 1, "A", TRUE)
           d == At(p, h, "A", TRUE)
           r == At(p, h, "S", FALSE)
           t == Do("name")
           u == Expect({":", "="})
           v == Do("field")
           w == T("separator", {"}"}, 0, {",", ";"})
<1>1. h \in Nat /\ s \in Shape /\ s.open = FALSE /\ s.live = FALSE /\ s.n = h + 1 /\ \A i \in 1 .. h : s.c[i] = p.c[i]
  BY DEF At, Shape, Classes
<1>2. d \in Shape /\ r \in Shape /\ Leq(d, d)
  BY Push, PushLive DEF Classes
<1>3. Ok(t, p, s)
  <2>1. t.do \in Makers /\ t.do # "condition"
    BY DEF Do, T, Makers
  <2> HIDE DEF t
  <2> QED BY <2>1, ThenMake
<1>4. Ok(u, s, s)
  <2>1. {":", "="} \cap AA = {}
    BY DEF AA
  <2> HIDE DEF s
  <2> QED BY <1>1, <2>1, ThenExpect
<1>5. /\ q \in Shape /\ q.open = FALSE /\ q.live = TRUE /\ q.n = h + 1 + 1
      /\ \A i \in 1 .. h + 1 : q.c[i] = s.c[i]
  <2> HIDE DEF s
  <2> QED BY <1>1, PushLive
<1>6. Ok(Expr(logical), s, q)
  <2>1. logical \in Nat
    BY DEF logical
  <2> HIDE DEF s
  <2> QED BY <2>1, <1>1, ThenExpr
<1>7. Ok(v, q, d)
  <2>1. v.do = "field"
    BY DEF Do, T
  <2> HIDE DEF v, q, s
  <2>2. \A i \in 1 .. h : i \in 1 .. h + 1
    BY <1>1
  <2>3. \A i \in 1 .. h : q.c[i] = p.c[i]
    BY <2>2, <1>1, <1>5
  <2>4. Leq(At(q, h, "A", TRUE), d)
    BY <1>1, <1>2, <1>5, <2>3, LeqAt DEF Classes, Sub
  <2> HIDE DEF d, h
  <2>5. q.n - 2 = h /\ q.n >= 2
    BY <1>1, <1>5
  <2> QED BY <2>1, <2>4, <2>5, <1>5, OkFieldIs
<1>8. Ok(w, d, r)
  <2>1. w.do = "separator" /\ w.kinds \cap AA = {} /\ w.loc \cap AA = {}
    BY DEF T, AA
  <2> HIDE DEF w
  <2> QED BY <2>1, ThenSeparator
<1>9. Ok(top, r, b)
  <2>1. Opens(r, b, "S")
    BY OpensNext DEF Classes
  <2> HIDE DEF r
  <2> QED BY <2>1, OkItemsIs
<1> HIDE DEF s, q, d, r, t, u, v, w
<1>10. Runs(<<t, u, Expr(logical), v, w, top>>, p, b)
  BY <1>1, <1>2, <1>3, <1>4, <1>5, <1>6, <1>7, <1>8, <1>9, RunsSix
<1> QED BY <1>10 DEF t, u, v, w

LEMMA FieldsSafe == Going /\ panic /\ ParseFields => Safe'
<1> SUFFICES ASSUME Going, panic, ParseFields PROVE Safe'
  OBVIOUS
<1>1. phase = "parse" /\ todo # << >> /\ Top.do \in {"items", "fields"} /\ Top.do = "fields"
  BY DEF ParseFields, Doing
<1>2. PICK a, b \in Shape : Fit(vals, a, Cur) /\ Ok(Top, a, b) /\ Runs(Tail(todo), b, Final)
  BY <1>1, TopTask
<1>3. Opens(a, b, "S")
  BY <1>1, <1>2, OkItemsIs
<1> DEFINE p == Plain(a)
<1>4. p \in Shape /\ p.open = FALSE /\ p.live = FALSE /\ Leq(p, b) /\ Opens(p, b, "S")
  BY <1>3, PlainShape, OpensLeq DEF Classes
<1>5. CASE Then(0, << >>)
  BY <1>1, <1>2, <1>4, <1>5, ThenDone
<1>6. CASE Then(1, <<Top>>)
  <2>1. Runs(<<Top>>, p, b)
    <3> HIDE DEF p
    <3>1. Ok(Top, p, b)
      BY <1>1, <1>4, OkItemsIs
    <3> QED BY <3>1, <1>4, RunsOne
  <2> QED BY <1>1, <1>2, <1>6, <2>1, ThenGoes
<1>7. CASE Then(0, <<Do("name"), Expect({":", "="}), Expr(logical), Do("field"),
                     T("separator", {"}"}, 0, {",", ";"}), Top>>)
  <2> DEFINE next == <<Do("name"), Expect({":", "="}), Expr(logical), Do("field"),
                       T("separator", {"}"}, 0, {",", ";"}), Top>>
  <2>1. Runs(next, p, b)
    <3> HIDE DEF p
    <3> QED BY <1>1, <1>4, FieldsRuns
  <2>2. Then(0, next)
    BY <1>7
  <2> HIDE DEF next
  <2> QED BY <1>1, <1>2, <2>1, <2>2, ThenGoes
<1> QED BY <1>5, <1>6, <1>7 DEF ParseFields

LEMMA FieldSafe == Going /\ panic /\ BuildField => Safe'
<1> SUFFICES ASSUME Going, panic, BuildField PROVE Safe'
  OBVIOUS
<1> DEFINE v == Node("field", V(2).at, <<V(1)>>)
<1>1. phase = "parse" /\ todo # << >> /\ Top.do = "field" /\ Turn(0, 2, <<v>>, << >>)
  BY DEF BuildField, Doing
<1>2. PICK a, b \in Shape : Fit(vals, a, Cur) /\ Ok(Top, a, b) /\ Runs(Tail(todo), b, Final)
  BY <1>1, TopTask
<1>3. ~a.open /\ a.n >= 2 /\ a.live /\ Leq(At(a, a.n - 2, "A", TRUE), b)
  BY <1>1, <1>2, OkFieldIs
<1>4. Fits(V(1), "A") /\ (Unread(V(1)) => Cur \in AA) /\ a.n \in Nat
  BY <1>2, <1>3, LastAre
<1>5. Fits(v, "A") /\ (Unread(v) => Cur \in AA)
  BY <1>4, NodeOfOne DEF Printed
<1> HIDE DEF v
<1>6. "A" \in Classes /\ 2 \in Nat /\ 2 <= a.n
  BY <1>3, <1>4 DEF Classes
<1> QED BY <1>1, <1>2, <1>3, <1>5, <1>6, HereTurns

\* A struct literal or an array literal takes the place of what it is made of.
LEMMA StructValueSafe == Going /\ panic /\ BuildStructValue => Safe'
<1> SUFFICES ASSUME Going, panic, BuildStructValue PROVE Safe'
  OBVIOUS
<1> DEFINE n == Top.n
           v == Node("structvalue", vals[n].at, Latest(Above(n)))
<1>1. phase = "parse" /\ todo # << >> /\ Top.do = "structvalue" /\ Turn(0, Len(vals) - n + 1, <<v>>, << >>)
  BY DEF BuildStructValue, Doing
<1>2. PICK a, b \in Shape : Fit(vals, a, Cur) /\ Ok(Top, a, b) /\ Runs(Tail(todo), b, Final)
  BY <1>1, TopTask
<1>3. n \in Nat \ {0} /\ n <= a.n /\ Whole(a, n) /\ Leq(At(a, n - 1, "S", FALSE), b)
  BY <1>1, <1>2, OkStructvalueIs
<1>4. /\ n - 1 \in Nat /\ n - 1 <= a.n /\ Len(vals) - (Len(vals) - n + 1) = n - 1
  <2>1. a.n \in Nat /\ Len(vals) \in Nat
    BY <1>2, AllKept DEF Shape
  <2> QED BY <2>1, <1>3
<1>5. Fits(v, "S")
  <2> DEFINE I == {i \in DOMAIN Above(n) : ~ \E j \in DOMAIN Above(n) :
                     Above(n)[j].is = Above(n)[i].is /\ Text(Above(n)[j]) = Text(Above(n)[i]) /\ Above(n)[j].at > Above(n)[i].at}
  <2>1. I \in SUBSET DOMAIN Above(n) /\ Latest(Above(n)) = Those(Above(n), I)
    BY DEF Latest
  <2> HIDE DEF I
  <2>2. "structvalue" \notin Strict /\ n \in Nat
    BY <1>3 DEF Strict
  <2>3. Fits(Node("structvalue", vals[n].at, Those(Above(n), I)), "S")
    BY <1>2, <1>3, <2>1, <2>2, AboveNode
  <2> QED BY <2>1, <2>3
<1> HIDE DEF v, n
<1>6. "S" \in Classes
  BY DEF Classes
<1> QED BY <1>1, <1>2, <1>3, <1>4, <1>5, <1>6, TurnDone

LEMMA CollectSafe == Going /\ panic /\ CollectNode => Safe'
<1> SUFFICES ASSUME Going, panic, CollectNode PROVE Safe'
  OBVIOUS
<1> DEFINE n == Top.n
           v == Node("arrayvalue", 0, Present(Above(n)))
<1>1. phase = "parse" /\ todo # << >> /\ Top.do = "collect"
  BY DEF CollectNode, Doing
<1>2. PICK a, b \in Shape : Fit(vals, a, Cur) /\ Ok(Top, a, b) /\ Runs(Tail(todo), b, Final)
  BY <1>1, TopTask
<1>3. Top.loc = {"arrayvalue"} /\ n \in Nat /\ n <= a.n /\ Whole(a, n) /\ Leq(At(a, n, "S", FALSE), b)
  BY <1>1, <1>2, OkCollectIs
<1>4. Turn(0, Len(vals) - n, <<v>>, << >>)
  BY <1>3 DEF CollectNode
<1>5. Len(vals) - (Len(vals) - n) = n
  <2>1. a.n \in Nat /\ Len(vals) \in Nat
    BY <1>2, AllKept DEF Shape
  <2> QED BY <2>1, <1>3
<1>6. Fits(v, "S")
  <2> DEFINE I == {i \in DOMAIN Above(n) : Above(n)[i] # NullPtr}
  <2>1. I \in SUBSET DOMAIN Above(n) /\ Present(Above(n)) = Those(Above(n), I)
    BY DEF Present
  <2> HIDE DEF I
  <2>2. "arrayvalue" \notin Strict
    BY DEF Strict
  <2>3. Fits(Node("arrayvalue", 0, Those(Above(n), I)), "S")
    BY <1>2, <1>3, <2>1, <2>2, AboveNode
  <2> QED BY <2>1, <2>3
<1> HIDE DEF v, n
<1>7. "S" \in Classes
  BY DEF Classes
<1> QED BY <1>1, <1>2, <1>3, <1>4, <1>5, <1>6, <1>7, TurnDone

-----------------------------------------------------------------------------
(* The other expressions, and types.                                       *)

\* What a task of one operand has to show for the operand to be a node.
LEMMA WrapGoes ==
  ASSUME Going, phase = "parse", todo # << >>, Top.do \in Operands, NEW k \in Nat, NEW bp \in Nat,
         NEW is \in {"prefix", "return", "typeof"}, NEW at, Then(k, <<Expr(bp), Build(is, at)>>)
  PROVE  Safe'
<1> DEFINE next == <<Expr(bp), Build(is, at)>>
<1>1. \A a, b \in Shape : (/\ a.open = FALSE /\ a.live = FALSE /\ a.n \in Nat
                           /\ Leq(At(a, a.n, "A", TRUE), b)) => Runs(next, a, b)
  <2> SUFFICES ASSUME NEW a \in Shape, NEW b \in Shape, a.open = FALSE, a.live = FALSE,
                      Leq(At(a, a.n, "A", TRUE), b)
               PROVE  Runs(next, a, b)
    OBVIOUS
  <2> QED BY WrapRuns
<1>2. Then(k, next)
  OBVIOUS
<1> HIDE DEF next
<1> QED BY <1>1, <1>2, OperandGoes

\* A token and another task that reads an operand.
LEMMA ExpectOperand ==
  ASSUME Going, phase = "parse", todo # << >>, Top.do \in Operands, NEW kinds, kinds \cap AA = {},
         NEW t, t.do \in Operands, t.n \in Nat, Then(0, <<Expect(kinds), t>>)
  PROVE  Safe'
<1> DEFINE next == <<Expect(kinds), t>>
<1>1. \A a, b \in Shape : (/\ a.open = FALSE /\ a.live = FALSE /\ a.n \in Nat
                           /\ Leq(At(a, a.n, "A", TRUE), b)) => Runs(next, a, b)
  <2> SUFFICES ASSUME NEW a \in Shape, NEW b \in Shape, a.open = FALSE, a.live = FALSE,
                      Leq(At(a, a.n, "A", TRUE), b)
               PROVE  Runs(next, a, b)
    OBVIOUS
  <2>1. Ok(Expect(kinds), a, a)
    BY ThenExpect
  <2>2. Ok(t, a, b)
    BY OkOperandsIs
  <2> QED BY <2>1, <2>2, RunsTwo
<1>2. Then(0, next)
  OBVIOUS
<1> HIDE DEF next
<1> QED BY <1>1, <1>2, OperandGoes

LEMMA ReturnSafe == Going /\ panic /\ ParseReturn => Safe'
<1> SUFFICES ASSUME Going, panic, ParseReturn PROVE Safe'
  OBVIOUS
<1>1. phase = "parse" /\ todo # << >> /\ Top.do \in Operands
  BY DEF ParseReturn, Doing, Operands
<1>2. CASE Then(0, <<Expect({"RETURN"}), Do("return_value")>>)
  <2> DEFINE t == Do("return_value")
  <2>1. {"RETURN"} \cap AA = {} /\ t.do \in Operands /\ t.n \in Nat
    BY DEF AA, Do, T, Operands
  <2>2. Then(0, <<Expect({"RETURN"}), t>>)
    BY <1>2
  <2> HIDE DEF t
  <2> QED BY <1>1, <2>1, <2>2, ExpectOperand
<1>3. CASE Turn(1, 0, <<Node("return", 0, << >>)>>, << >>)
  <2>1. Fits(Node("return", 0, << >>), "S")
    BY LeafWhole DEF Strict
  <2> QED BY <1>1, <1>3, <2>1, OperandDone
<1>4. CASE Then(0, <<Expr(default_bp), Build("return", 0)>>)
  <2>1. default_bp \in Nat
    BY DEF default_bp
  <2> QED BY <1>1, <1>4, <2>1, WrapGoes
<1> QED BY <1>2, <1>3, <1>4 DEF ParseReturn

LEMMA BreakSafe == Going /\ panic /\ ParseBreak => Safe'
<1> SUFFICES ASSUME Going, panic, ParseBreak PROVE Safe'
  OBVIOUS
<1>1. phase = "parse" /\ todo # << >> /\ Top.do \in Operands
  BY DEF ParseBreak, Doing, Operands
<1>2. \A i : Fits(Leaf("break"), "S") /\ Fits(Levels(i), "S")
  <2>1. Fits(Leaf("break"), "S")
    BY LeafWhole DEF Leaf, Strict
  <2>2. ASSUME NEW i
        PROVE  Fits(Levels(i), "S")
    <3> DEFINE u == Node("literal", pos + 1 + i, << >>)
    <3>1. Fits(u, "S")
      BY LeafWhole DEF Strict
    <3> HIDE DEF u
    <3>2. Fits(u, "N") /\ DOMAIN <<u>> = {1} /\ <<u>>[1] = u
      BY <3>1 DEF Fits
    <3>3. Fits(Node("break", pos + 1, <<u>>), "S")
      BY <3>2, NodeWhole DEF Strict
    <3> QED BY <3>3 DEF Levels, u
  <2> QED BY <2>1, <2>2
<1> DEFINE dot == IF Ahead(1) = "." THEN 1 ELSE 0
<1>3. CASE Turn(2 + dot, 0, <<Levels(1 + dot)>>, << >>)
  BY <1>1, <1>2, <1>3, OperandDone
<1>4. CASE End("threw")
  BY <1>4, EndSafe
<1>5. CASE \E k \in {1, 2} : Turn(k, 0, <<Leaf("break")>>, << >>)
  BY <1>1, <1>2, <1>5, OperandDone
<1>6. CASE Report(1, 0, <<Leaf("break")>>, << >>)
  BY <1>6, ReportSafe
<1>7. \/ Turn(2 + dot, 0, <<Levels(1 + dot)>>, << >>)
      \/ End("threw")
      \/ Turn(2, 0, <<Leaf("break")>>, << >>)
      \/ Turn(1, 0, <<Leaf("break")>>, << >>)
      \/ Report(1, 0, <<Leaf("break")>>, << >>)
  <2> DEFINE k == Ahead(1 + dot)
  <2>1. CASE ~(k = "NUMBER" \/ k = "HUGE" \/ (k \notin {"NUMBER", "HUGE"} /\ dot = 1)
               \/ (dot = 0 /\ k = ";") \/ (dot = 0 /\ k \in {"FN", "*"}))
    BY <2>1 DEF ParseBreak
  <2>2. CASE k = "NUMBER"
    BY <2>2 DEF ParseBreak
  <2>3. CASE k = "HUGE"
    BY <2>3 DEF ParseBreak
  <2>4. CASE k \notin {"NUMBER", "HUGE"} /\ dot = 1
    BY <2>4 DEF ParseBreak
  <2>5. CASE dot = 0 /\ k = ";"
    BY <2>5 DEF ParseBreak
  <2>6. CASE dot = 0 /\ k \in {"FN", "*"}
    BY <2>6 DEF ParseBreak
  <2> QED BY <2>1, <2>2, <2>3, <2>4, <2>5, <2>6
<1> QED BY <1>3, <1>4, <1>5, <1>6, <1>7

LEMMA TypeofSafe == Going /\ panic /\ ParseTypeof => Safe'
<1> SUFFICES ASSUME Going, panic, ParseTypeof PROVE Safe'
  OBVIOUS
<1>1. phase = "parse" /\ todo # << >> /\ Top.do \in Operands
  BY DEF ParseTypeof, Doing, Operands
<1>2. CASE Then(0, <<Expect({"TYPEOF"}), Do("typeof_open")>>)
  <2> DEFINE t == Do("typeof_open")
  <2>1. {"TYPEOF"} \cap AA = {} /\ t.do \in Operands /\ t.n \in Nat
    BY DEF AA, Do, T, Operands
  <2>2. Then(0, <<Expect({"TYPEOF"}), t>>)
    BY <1>2
  <2> HIDE DEF t
  <2> QED BY <1>1, <2>1, <2>2, ExpectOperand
<1>3. CASE Then(1, <<Expr(unary), Expect({")"}), Build("typeof", 0)>>)
  <2> DEFINE next == <<Expr(unary), Expect({")"}), Build("typeof", 0)>>
  <2>1. \A a, b \in Shape : (/\ a.open = FALSE /\ a.live = FALSE /\ a.n \in Nat
                             /\ Leq(At(a, a.n, "A", TRUE), b)) => Runs(next, a, b)
    <3> SUFFICES ASSUME NEW a \in Shape, NEW b \in Shape, a.open = FALSE, a.live = FALSE, a.n \in Nat,
                        Leq(At(a, a.n, "A", TRUE), b)
                 PROVE  Runs(next, a, b)
      OBVIOUS
    <3> DEFINE q == At(a, a.n, "A", TRUE)
    <3>1. unary \in Nat /\ {")"} \cap AA = {}
      BY DEF unary, AA
    <3>2. q \in Shape /\ Leq(q, q) /\ Ok(Expr(unary), a, q)
      BY <3>1, PushLive, ThenExpr
    <3>3. Ok(Build("typeof", 0), q, b)
      BY ThenWrap
    <3>4. Firm(q) = At(a, a.n, "S", FALSE)
      BY DEF Firm, At, Shape
    <3>5. Leq(Firm(q), q)
      <4>1. Leq(At(a, a.n, "S", FALSE), q)
        BY <3>2, LeqAt DEF Classes, Sub
      <4> HIDE DEF q
      <4> QED BY <4>1, <3>4
    <3> HIDE DEF q
    <3>6. Expect({")"}).do = "expect" /\ Expect({")"}).kinds = {")"}
      BY DEF Expect, T
    <3>7. Ok(Expect({")"}), q, q)
      BY <3>1, <3>5, <3>6, OkExpectIs
    <3> QED BY <3>2, <3>3, <3>7, RunsThree
  <2>2. Then(1, next)
    BY <1>3
  <2> HIDE DEF next
  <2> QED BY <1>1, <2>1, <2>2, OperandGoes
<1>4. CASE \E next, give : Report(1, 0, give, next)
  BY <1>4, ReportSafe
<1> QED BY <1>2, <1>3, <1>4 DEF ParseTypeof

LEMMA VolatileSafe == Going /\ panic /\ ParseVolatile => Safe'
<1> SUFFICES ASSUME Going, panic, ParseVolatile PROVE Safe'
  OBVIOUS
<1> DEFINE t == Do("stmt")
           next == <<t, Build("volatile", 0)>>
<1>1. phase = "parse" /\ todo # << >> /\ Top.do \in Operands /\ Then(1, next)
  BY DEF ParseVolatile, Doing, Operands
<1>2. t.do \in Makers /\ t.do # "condition"
  BY DEF Do, T, Makers
<1> HIDE DEF t
<1>3. \A a, b \in Shape : (/\ a.open = FALSE /\ a.live = FALSE /\ a.n \in Nat
                           /\ Leq(At(a, a.n, "A", TRUE), b)) => Runs(next, a, b)
  <2> SUFFICES ASSUME NEW a \in Shape, NEW b \in Shape, a.open = FALSE, a.live = FALSE, a.n \in Nat,
                      Leq(At(a, a.n, "A", TRUE), b)
               PROVE  Runs(next, a, b)
    OBVIOUS
  <2> DEFINE q == At(a, a.n, "A", FALSE)
  <2>1. q \in Shape /\ q.open = FALSE /\ q.n = a.n + 1 /\ \A i \in 1 .. a.n : q.c[i] = a.c[i]
    BY DEF At, Shape, Classes
  <2>2. Ok(t, a, q)
    BY <1>2, ThenMake
  <2> HIDE DEF q
  <2>3. Leq(At(q, a.n, "S", FALSE), b)
    BY <2>1, LeqAt DEF Classes, Sub
  <2>4. q.n - 1 = a.n /\ q.n >= 1
    BY <2>1
  <2>5. OkBuild("volatile", q, b)
    BY <2>1, <2>3, <2>4 DEF OkBuild
  <2>6. Ok(Build("volatile", 0), q, b)
    BY <2>5, ThenBuild
  <2> QED BY <2>1, <2>2, <2>6, RunsTwo
<1> HIDE DEF next
<1> QED BY <1>1, <1>3, OperandGoes

\* A node of one result, two or three.
LEMMA BuildSafe == Going /\ panic /\ BuildNode => Safe'
<1> SUFFICES ASSUME Going, panic, BuildNode PROVE Safe'
  OBVIOUS
<1>1. phase = "parse" /\ todo # << >> /\ Top.do = "build"
  BY DEF BuildNode, Doing
<1>2. PICK a, b \in Shape : Fit(vals, a, Cur) /\ Ok(Top, a, b) /\ Runs(Tail(todo), b, Final)
  BY <1>1, TopTask
<1>3. PICK is : Top.loc = {is} /\ OkBuild(is, a, b)
  BY <1>1, <1>2, OkBuildIs
<1>4. Turn(0, Arity(is), <<Node(is, Top.n, Above(Len(vals) - Arity(is)))>>, << >>)
  BY <1>1, <1>3 DEF BuildNode
<1>5. ~a.open /\ a.n \in Nat /\ Len(vals) = a.n /\ "A" \in Classes /\ "S" \in Classes
  BY <1>2, <1>3, LastAre DEF OkBuild, Classes
<1>6. CASE is \in {"prefix", "return", "typeof"} /\ a.n >= 1 /\ a.live /\ Leq(At(a, a.n - 1, "A", TRUE), b)
  <2> DEFINE v == Node(is, Top.n, <<V(1)>>)
  <2>1. Arity(is) = 1
    BY <1>6 DEF Arity
  <2>2. Turn(0, 1, <<v>>, << >>)
    BY <1>4, <1>5, <1>6, <2>1, AboveOne
  <2>3. Fits(v, "A") /\ (Unread(v) => Cur \in AA)
    <3>1. Fits(V(1), "A") /\ (Unread(V(1)) => Cur \in AA)
      BY <1>2, <1>5, <1>6, LastAre
    <3> QED BY <3>1, <1>6, NodeOfOne DEF Printed
  <2> HIDE DEF v
  <2> QED BY <1>1, <1>2, <1>5, <1>6, <2>2, <2>3, HereTurns
<1>7. CASE is \in {"binary", "assign"} /\ a.n >= 2 /\ a.live /\ a.c[a.n - 1] = "S" /\ Leq(At(a, a.n - 2, "A", TRUE), b)
  <2> DEFINE v == Node(is, Top.n, <<V(2), V(1)>>)
  <2>1. Arity(is) = 2
    BY <1>7 DEF Arity
  <2>2. Turn(0, 2, <<v>>, << >>)
    BY <1>4, <1>5, <1>7, <2>1, AboveTwo
  <2>3. Fits(v, "A") /\ (Unread(v) => Cur \in AA)
    <3>1. Fits(V(1), "A") /\ (Unread(V(1)) => Cur \in AA) /\ Fits(V(2), "S")
      BY <1>2, <1>5, <1>7, LastAre
    <3> QED BY <3>1, <1>7, NodeOfTwo DEF Printed
  <2> HIDE DEF v
  <2> QED BY <1>1, <1>2, <1>5, <1>7, <2>2, <2>3, HereTurns
<1>8. CASE is = "array" /\ a.n >= 1 /\ a.c[a.n] = "S" /\ Leq(Plain(a), b)
  <2> DEFINE v == Node(is, Top.n, <<V(1)>>)
             p == Plain(a)
  <2>1. Arity(is) = 1
    BY <1>8 DEF Arity
  <2>2. Turn(0, 1, <<v>>, << >>)
    BY <1>4, <1>5, <1>8, <2>1, AboveOne
  <2>3. Fits(v, "S")
    <3>1. Fits(V(1), "S") /\ DOMAIN <<V(1)>> = {1} /\ <<V(1)>>[1] = V(1)
      BY <1>2, <1>5, <1>8, LastAre
    <3> QED BY <3>1, <1>8, NodeStrict
  <2>4. Leq(At(a, a.n - 1, "S", FALSE), b)
    <3>1. p \in Shape /\ p.n = a.n /\ p.c = a.c /\ p.open = FALSE /\ p.live = FALSE
      BY <1>5, PlainShape DEF Shape
    <3> DEFINE s == At(a, a.n - 1, "S", FALSE)
    <3>2. s \in Shape
      <4>1. a.n - 1 \in Nat
        BY <1>5, <1>8
      <4> QED BY <4>1, <1>5 DEF At, Shape
    <3>3. Leq(s, p)
      <4> HIDE DEF p
      <4> QED BY <1>8, <3>1, LeqTop
    <3> HIDE DEF s, p
    <3>4. Leq(s, b)
      BY <1>8, <3>1, <3>2, <3>3, LeqTransitive DEF p
    <3> QED BY <3>4 DEF s
  <2> HIDE DEF v
  <2> QED BY <1>1, <1>2, <1>5, <1>8, <2>2, <2>3, <2>4, HereTurns
<1>9. CASE is = "volatile" /\ a.n >= 1 /\ Leq(At(a, a.n - 1, "S", FALSE), b)
  <2> DEFINE v == Node(is, Top.n, <<V(1)>>)
  <2>1. Arity(is) = 1
    BY <1>9 DEF Arity
  <2>2. Turn(0, 1, <<v>>, << >>)
    BY <1>4, <1>5, <1>9, <2>1, AboveOne
  <2>3. Fits(v, "S")
    <3>1. Fits(V(1), "A") /\ DOMAIN <<V(1)>> = {1} /\ <<V(1)>>[1] = V(1)
      BY <1>2, <1>5, <1>9, LastAre
    <3> QED BY <3>1, <1>9, NodeVolatile
  <2> HIDE DEF v
  <2> QED BY <1>1, <1>2, <1>5, <1>9, <2>2, <2>3, HereTurns
<1>10. ASSUME NEW d \in 1 .. 3, a.n >= d, Arity(is) = d, is \notin Strict, is # "null", Leq(At(a, a.n - d, "A", FALSE), b)
       PROVE  Safe'
  <2> DEFINE v == Node(is, Top.n, Above(Len(vals) - d))
  <2>1. Turn(0, d, <<v>>, << >>)
    BY <1>4, <1>10
  <2>2. a.n - d \in Nat /\ a.n - d <= a.n /\ d \in Nat /\ d <= a.n
    BY <1>5, <1>10
  <2>3. Fits(v, "A")
    BY <1>2, <1>5, <1>10, <2>2, AboveNode
  <2> HIDE DEF v
  <2> QED BY <1>1, <1>2, <1>5, <1>10, <2>1, <2>2, <2>3, HereTurns
<1>11. CASE is \in {"exprstmt", "unused"} /\ a.n >= 1 /\ Leq(At(a, a.n - 1, "A", FALSE), b)
  <2>1. Arity(is) = 1 /\ 1 \in 1 .. 3 /\ is \notin Strict /\ is # "null"
    BY <1>11 DEF Arity, Strict
  <2> QED BY <1>10, <1>11, <2>1
<1>12. CASE is \in {"alias", "typechange", "import"} /\ a.n >= 2 /\ Leq(At(a, a.n - 2, "A", FALSE), b)
  <2>1. Arity(is) = 2 /\ 2 \in 1 .. 3 /\ is \notin Strict /\ is # "null"
    BY <1>12 DEF Arity, Strict
  <2> QED BY <1>10, <1>12, <2>1
<1>13. CASE is \in {"if", "while"} /\ a.n >= 3 /\ Leq(At(a, a.n - 3, "A", FALSE), b)
  <2>1. Arity(is) = 3 /\ 3 \in 1 .. 3 /\ is \notin Strict /\ is # "null"
    BY <1>13 DEF Arity, Strict
  <2> QED BY <1>10, <1>13, <2>1
<1> QED BY <1>3, <1>6, <1>7, <1>8, <1>9, <1>11, <1>12, <1>13 DEF OkBuild

LEMMA ThenArray ==
  ASSUME NEW q \in Shape, q.open = FALSE, q.live = FALSE, q.n >= 1, q.c[q.n] = "S", NEW at
  PROVE  Ok(Build("array", at), q, q)
<1>1. Plain(q) = q /\ Leq(q, q)
  BY LeqReflexive DEF Plain, Shape
<1>2. OkBuild("array", q, q)
  BY <1>1 DEF OkBuild
<1> QED BY <1>2, ThenBuild

LEMMA TypeSafe == Going /\ panic /\ ParseType => Safe'
<1> SUFFICES ASSUME Going, panic, ParseType PROVE Safe'
  OBVIOUS
<1> DEFINE led == T("type_led", {}, Top.n, {})
<1>1. phase = "parse" /\ todo # << >> /\ Top.do = "type"
  BY DEF ParseType, Doing
<1>2. PICK a, b \in Shape : Fit(vals, a, Cur) /\ Ok(Top, a, b) /\ Runs(Tail(todo), b, Final)
  BY <1>1, TopTask
<1>3. ~a.open /\ Leq(At(a, a.n, "S", FALSE), b) /\ a.n \in Nat /\ Len(vals) = a.n /\ "S" \in Classes
  BY <1>1, <1>2, OkTypeIs, LastAre DEF Classes
<1> DEFINE p == Plain(a)
           q == At(a, a.n, "S", FALSE)
<1>4. p \in Shape /\ p.n = a.n /\ p.open = FALSE /\ p.live = FALSE /\ At(p, p.n, "S", FALSE) = q
  BY <1>3 DEF Plain, Shape, At
<1>5. q \in Shape /\ q.open = FALSE /\ q.live = FALSE /\ q.n = a.n + 1 /\ q.c[a.n + 1] = "S" /\ Plain(q) = q /\ Leq(q, b)
  BY <1>3 DEF Plain, Shape, At, Classes
<1>6. Ok(led, q, b)
  <2>1. led.do = "type_led"
    BY DEF T
  <2> HIDE DEF led, q
  <2>2. q.n >= 1 /\ q.c[q.n] = "S"
    BY <1>3, <1>5
  <2> QED BY <1>5, <2>1, <2>2, OkTypeLedIs
<1>7. CASE Report(0, 0, <<NullPtr>>, << >>)
  BY <1>7, ReportSafe
<1>8. CASE Then(0, <<Expect({"["}), Expect({"]"}), Type(unary), Build("array", 0), led>>)
  <2>1. Ok(Expect({"["}), p, p) /\ Ok(Expect({"]"}), p, p)
    <3>1. {"["} \cap AA = {} /\ {"]"} \cap AA = {}
      BY DEF AA
    <3> HIDE DEF p
    <3> QED BY <3>1, <1>4, ThenExpect
  <2>2. Ok(Type(unary), p, q)
    <3> HIDE DEF p
    <3>1. Ok(Type(unary), p, At(p, p.n, "S", FALSE))
      BY <1>4, ThenType
    <3> QED BY <3>1, <1>4
  <2>3. Ok(Build("array", 0), q, q)
    <3> HIDE DEF q
    <3>2. q.n >= 1 /\ q.c[q.n] = "S"
      BY <1>3, <1>5
    <3> QED BY <1>5, <3>2, ThenArray
  <2> HIDE DEF led, q
  <2>4. Runs(<<Expect({"["}), Expect({"]"}), Type(unary), Build("array", 0), led>>, p, b)
    <3> HIDE DEF p
    <3> QED BY <1>4, <1>5, <1>6, <2>1, <2>2, <2>3, RunsFive
  <2> QED BY <1>1, <1>2, <1>8, <2>4, ThenGoes
<1>9. CASE Turn(1, 0, <<Leaf("type")>>, <<led>>)
  <2>1. Fits(Leaf("type"), "S")
    BY LeafWhole DEF Leaf, Strict
  <2> HIDE DEF led
  <2>2. Runs(<<led>>, q, b)
    <3> HIDE DEF q
    <3> QED BY <1>5, <1>6, RunsOne
  <2>3. Len(vals) - 0 = a.n /\ a.n <= a.n
    BY <1>3
  <2> QED BY <1>1, <1>2, <1>3, <1>9, <2>1, <2>2, <2>3, TurnGoes
<1> QED BY <1>7, <1>8, <1>9 DEF ParseType

LEMMA TypeLedSafe == Going /\ panic /\ ParseTypeLed => Safe'
<1> SUFFICES ASSUME Going, panic, ParseTypeLed PROVE Safe'
  OBVIOUS
<1>1. phase = "parse" /\ todo # << >> /\ Top.do \in {"type_led", "array_initializer"} /\ Top.do = "type_led"
  BY DEF ParseTypeLed, Doing
<1>2. CASE Then(0, << >>)
  <2>1. PICK a, b \in Shape : Fit(vals, a, Cur) /\ Ok(Top, a, b) /\ Runs(Tail(todo), b, Final)
    BY <1>1, TopTask
  <2>2. Leq(Plain(a), b)
    BY <1>1, <2>1, OkTypeLedIs
  <2> QED BY <1>1, <1>2, <2>1, <2>2, ThenDone
<1>3. CASE Then(0, <<Expect({"["}), Expect({"]"}), Build("array", 0), Top>>)
  <2> DEFINE next == <<Expect({"["}), Expect({"]"}), Build("array", 0), Top>>
  <2>1. \A a, b \in Shape : (/\ a.open = FALSE /\ a.live = FALSE /\ a.n \in Nat /\ a.n >= 1 /\ a.c[a.n] = "S"
                             /\ a.n = Len(vals) /\ Plain(a) = a
                             /\ Leq(a, b)) => Runs(next, a, b)
    <3> SUFFICES ASSUME NEW a \in Shape, NEW b \in Shape, a.open = FALSE, a.live = FALSE, a.n >= 1,
                        a.c[a.n] = "S", Plain(a) = a, Leq(a, b)
                 PROVE  Runs(next, a, b)
      OBVIOUS
    <3>1. Ok(Expect({"["}), a, a) /\ Ok(Expect({"]"}), a, a)
      <4>1. {"["} \cap AA = {} /\ {"]"} \cap AA = {}
        BY DEF AA
      <4> QED BY <4>1, ThenExpect
    <3>2. Ok(Build("array", 0), a, a)
      BY ThenArray
    <3>3. Ok(Top, a, b)
      BY <1>1, OkTypeLedIs
    <3> QED BY <3>1, <3>2, <3>3, RunsFour
  <2>2. Then(0, next)
    BY <1>3
  <2> HIDE DEF next
  <2> QED BY <1>1, <2>1, <2>2, TypeLedGoes
<1> QED BY <1>2, <1>3 DEF ParseTypeLed

-----------------------------------------------------------------------------
(* Tasks that put their results in one.                                    *)

LEMMA FromOneGoes ==
  ASSUME Going, phase = "parse", todo # << >>, Top.do \in FromOne, NEW k \in Nat, NEW next, Then(k, next),
         \A a, b \in Shape : (/\ a.open = FALSE /\ a.live = FALSE /\ a.n \in Nat /\ a.n >= 1 /\ a.n = Len(vals)
                              /\ (Top.do = "branch" => Top.loc \in Conditions)
                              /\ Leq(At(a, a.n - 1, "A", FALSE), b)) => Runs(next, a, b)
  PROVE  Safe'
<1>1. PICK a, b \in Shape : /\ Fit(vals, a, Cur) /\ Runs(Tail(todo), b, Final) /\ Ok(Top, a, b)
                            /\ Plain(a) \in Shape /\ Plain(a).n = a.n /\ Plain(a).c = a.c
                            /\ Plain(a).open = a.open /\ Plain(a).live = FALSE /\ a.n \in Nat
                            /\ \A h, x, l : At(Plain(a), h, x, l) = At(a, h, x, l)
                            /\ (~a.open => a.n = Len(vals))
  BY ContinuedShape
<1>2. /\ ~a.open /\ a.n >= 1 /\ (Top.do = "branch" => Top.loc \in Conditions)
      /\ Leq(At(a, a.n - 1, "A", FALSE), b)
  BY <1>1, OkFromoneIs
<1>3. a.open = FALSE
  BY <1>2 DEF Shape
<1>4. Leq(At(Plain(a), a.n - 1, "A", FALSE), b)
  BY <1>1, <1>2
<1>5. Runs(next, Plain(a), b)
  BY <1>1, <1>2, <1>3, <1>4
<1> QED BY <1>1, <1>5, ThenGoes

\* The last result replaced.
LEMMA FromOneTurns ==
  ASSUME Going, phase = "parse", todo # << >>, Top.do \in FromOne, NEW k \in Nat,
         NEW v, Fits(v, "A"), NEW next, Turn(k, 1, <<v>>, next),
         \A s, b \in Shape : (/\ s.open = FALSE /\ s.live = FALSE /\ s.n \in Nat /\ s.n >= 1
                              /\ (Top.do = "branch" => Top.loc \in Conditions)
                              /\ Leq(s, b)) => Runs(next, s, b)
  PROVE  Safe'
<1>1. PICK a, b \in Shape : /\ Fit(vals, a, Cur) /\ Runs(Tail(todo), b, Final) /\ Ok(Top, a, b)
                            /\ Plain(a) \in Shape /\ Plain(a).n = a.n /\ Plain(a).c = a.c
                            /\ Plain(a).open = a.open /\ Plain(a).live = FALSE /\ a.n \in Nat
                            /\ \A h, x, l : At(Plain(a), h, x, l) = At(a, h, x, l)
                            /\ (~a.open => a.n = Len(vals))
  BY ContinuedShape
<1>2. /\ ~a.open /\ a.n >= 1 /\ (Top.do = "branch" => Top.loc \in Conditions)
      /\ Leq(At(a, a.n - 1, "A", FALSE), b)
  BY <1>1, OkFromoneIs
<1> DEFINE s == At(a, a.n - 1, "A", FALSE)
<1>3. s \in Shape /\ s.open = FALSE /\ s.live = FALSE /\ s.n = a.n - 1 + 1
  BY <1>1, <1>2 DEF At, Shape, Classes
<1>4. Leq(s, b)
  BY <1>2
<1> HIDE DEF s
<1>5. Runs(next, s, b)
  BY <1>1, <1>2, <1>3, <1>4
<1>6. a.n - 1 \in Nat /\ a.n - 1 <= a.n /\ Len(vals) - 1 = a.n - 1 /\ "A" \in Classes
  BY <1>1, <1>2 DEF Classes
<1> DEFINE h == a.n - 1
<1>7. Runs(next, At(a, h, "A", FALSE), b)
  BY <1>5 DEF s
<1>8. h \in Nat /\ h <= a.n /\ Len(vals) - 1 = h
  BY <1>6
<1> HIDE DEF h
<1>9. Fit(vals, a, Cur) /\ Runs(Tail(todo), b, Final)
  BY <1>1
<1>10. "A" \in Classes
  BY DEF Classes
<1> DEFINE drop == 1
<1>11. Turn(k, drop, <<v>>, next) /\ Len(vals) - drop = h
  BY <1>8
<1> HIDE DEF drop
<1> QED BY <1>7, <1>8, <1>9, <1>10, <1>11, TurnGoes

LEMMA FromTwoGoes ==
  ASSUME Going, phase = "parse", todo # << >>, Top.do \in FromTwo, NEW k \in Nat, NEW next, Then(k, next),
         \A a, b \in Shape : (/\ a.open = FALSE /\ a.live = FALSE /\ a.n \in Nat /\ a.n >= 2 /\ a.n = Len(vals)
                              /\ (Top.do = "else" => Top.loc \in Conditions)
                              /\ Leq(At(a, a.n - 2, "A", FALSE), b)) => Runs(next, a, b)
  PROVE  Safe'
<1>1. PICK a, b \in Shape : /\ Fit(vals, a, Cur) /\ Runs(Tail(todo), b, Final) /\ Ok(Top, a, b)
                            /\ Plain(a) \in Shape /\ Plain(a).n = a.n /\ Plain(a).c = a.c
                            /\ Plain(a).open = a.open /\ Plain(a).live = FALSE /\ a.n \in Nat
                            /\ \A h, x, l : At(Plain(a), h, x, l) = At(a, h, x, l)
                            /\ (~a.open => a.n = Len(vals))
  BY ContinuedShape
<1>2. /\ ~a.open /\ a.n >= 2 /\ (Top.do = "else" => Top.loc \in Conditions)
      /\ Leq(At(a, a.n - 2, "A", FALSE), b)
  BY <1>1, OkFromtwoIs
<1>3. a.open = FALSE
  BY <1>2 DEF Shape
<1>4. Leq(At(Plain(a), a.n - 2, "A", FALSE), b)
  BY <1>1, <1>2
<1>5. Runs(next, Plain(a), b)
  BY <1>1, <1>2, <1>3, <1>4
<1> QED BY <1>1, <1>5, ThenGoes

-----------------------------------------------------------------------------
(* The last task of a list.                                                *)

LEMMA Under ==
  ASSUME NEW s \in Shape, NEW d \in Shape, NEW b \in Shape, NEW h \in Nat,
         \A i \in 1 .. h : s.c[i] = d.c[i], Leq(At(d, h, "A", FALSE), b)
  PROVE  Leq(At(s, h, "A", FALSE), b)
BY LeqAt DEF Classes, Sub

LEMMA LastExpect ==
  ASSUME NEW kinds, kinds \cap AA = {}, NEW s, s.live = FALSE, NEW b, Leq(s, b)
  PROVE  Ok(Expect(kinds), s, b)
<1>1. Expect(kinds).do = "expect" /\ Expect(kinds).kinds = kinds /\ Firm(s) = s
  BY DEF Expect, T, Firm
<1> QED BY <1>1, OkExpectIs

LEMMA LastQuiet ==
  ASSUME NEW t, t.do \in Quiet, NEW s \in Shape, s.live = FALSE, NEW b, Leq(s, b)
  PROVE  Ok(t, s, b)
<1>1. Plain(s) = s
  BY DEF Plain, Shape
<1> QED BY <1>1, OkQuietIs

LEMMA LastMake ==
  ASSUME NEW t, t.do \in Makers, t.do = "condition" => t.loc \in Conditions,
         NEW a, a.open = FALSE, NEW b, Leq(At(a, a.n, "A", FALSE), b)
  PROVE  Ok(t, a, b)
BY OkMakersIs

LEMMA LastFromOne ==
  ASSUME NEW t, t.do \in FromOne, t.do = "branch" => t.loc \in Conditions,
         NEW s \in Shape, s.open = FALSE, NEW h \in Nat, s.n = h + 1, NEW b, Leq(At(s, h, "A", FALSE), b)
  PROVE  Ok(t, s, b)
<1>1. s.n >= 1 /\ s.n - 1 = h
  OBVIOUS
<1> QED BY <1>1, OkFromoneIs

LEMMA LastFromTwo ==
  ASSUME NEW t, t.do \in FromTwo, t.do = "else" => t.loc \in Conditions,
         NEW s \in Shape, s.open = FALSE, NEW h \in Nat, s.n = h + 2, NEW b, Leq(At(s, h, "A", FALSE), b)
  PROVE  Ok(t, s, b)
<1>1. s.n >= 2 /\ s.n - 2 = h
  OBVIOUS
<1> QED BY <1>1, OkFromtwoIs

LEMMA LastBuild ==
  ASSUME NEW is, NEW at, NEW s \in Shape, s.open = FALSE, NEW h \in Nat, NEW b, Leq(At(s, h, "A", FALSE), b),
         \/ is \in {"exprstmt", "unused"} /\ s.n = h + 1
         \/ is \in {"alias", "typechange", "import"} /\ s.n = h + 2
         \/ is \in {"if", "while"} /\ s.n = h + 3
  PROVE  Ok(Build(is, at), s, b)
<1>1. CASE is \in {"exprstmt", "unused"} /\ s.n = h + 1
  <2>1. s.n >= 1 /\ s.n - 1 = h
    BY <1>1
  <2>2. OkBuild(is, s, b)
    BY <1>1, <2>1 DEF OkBuild
  <2> QED BY <2>2, ThenBuild
<1>2. CASE is \in {"alias", "typechange", "import"} /\ s.n = h + 2
  <2>1. s.n >= 2 /\ s.n - 2 = h
    BY <1>2
  <2>2. OkBuild(is, s, b)
    BY <1>2, <2>1 DEF OkBuild
  <2> QED BY <2>2, ThenBuild
<1>3. CASE is \in {"if", "while"} /\ s.n = h + 3
  <2>1. s.n >= 3 /\ s.n - 3 = h
    BY <1>3
  <2>2. OkBuild(is, s, b)
    BY <1>3, <2>1 DEF OkBuild
  <2> QED BY <2>2, ThenBuild
<1> QED BY <1>1, <1>2, <1>3

\* A statement skipped.
LEMMA SkipRuns ==
  ASSUME NEW s \in Shape, s.live = FALSE, NEW b \in Shape, Leq(s, b)
  PROVE  Runs(SkipStatement, s, b)
<1>1. Until({";"}).do \in Quiet /\ {";"} \cap AA = {}
  BY DEF Until, T, Quiet, AA
<1>2. Ok(Until({";"}), s, s)
  BY <1>1, ThenQuiet
<1>3. Ok(Expect({";"}), s, b)
  BY <1>1, LastExpect
<1> QED BY <1>2, <1>3, RunsTwo DEF SkipStatement

\* A task goes on as another one of its kind.
LEMMA MakerPass ==
  ASSUME Going, phase = "parse", todo # << >>, Top.do \in Makers, NEW k \in Nat,
         NEW t, t.do \in Makers, t.do # "condition", Then(k, <<t>>)
  PROVE  Safe'
<1>1. \A a, b \in Shape : (/\ a.open = FALSE /\ a.live = FALSE /\ a.n \in Nat /\ a.n = Len(vals)
                           /\ (Top.do = "condition" => Top.loc \in Conditions)
                           /\ Leq(At(a, a.n, "A", FALSE), b)) => Runs(<<t>>, a, b)
  <2> SUFFICES ASSUME NEW a \in Shape, NEW b \in Shape, a.open = FALSE, Leq(At(a, a.n, "A", FALSE), b)
               PROVE  Runs(<<t>>, a, b)
    OBVIOUS
  <2>1. Ok(t, a, b)
    BY LastMake
  <2> QED BY <2>1, RunsOne
<1> DEFINE next == <<t>>
<1>2. Then(k, next)
  OBVIOUS
<1> HIDE DEF next
<1> QED BY <1>1, <1>2, MakerGoes DEF next

LEMMA FromOnePass ==
  ASSUME Going, phase = "parse", todo # << >>, Top.do \in FromOne, NEW k \in Nat,
         NEW t, t.do \in FromOne, t.do # "branch", Then(k, <<t>>)
  PROVE  Safe'
<1> DEFINE next == <<t>>
<1>1. \A a, b \in Shape : (/\ a.open = FALSE /\ a.live = FALSE /\ a.n \in Nat /\ a.n >= 1 /\ a.n = Len(vals)
                           /\ (Top.do = "branch" => Top.loc \in Conditions)
                           /\ Leq(At(a, a.n - 1, "A", FALSE), b)) => Runs(next, a, b)
  <2> SUFFICES ASSUME NEW a \in Shape, NEW b \in Shape, a.open = FALSE, a.n >= 1, a.n \in Nat,
                      Leq(At(a, a.n - 1, "A", FALSE), b)
               PROVE  Runs(next, a, b)
    OBVIOUS
  <2>1. Ok(t, a, b)
    BY OkFromoneIs
  <2> QED BY <2>1, RunsOne
<1>2. Then(k, next)
  OBVIOUS
<1> HIDE DEF next
<1> QED BY <1>1, <1>2, FromOneGoes

-----------------------------------------------------------------------------
(* Lists of tasks that put the last results in one.                        *)

LEMMA ConsTwo ==
  ASSUME NEW t, NEW u
  PROVE  <<t>> \o <<u>> = <<t, u>>
<1>1. /\ <<t>> \in Seq({t, u}) /\ <<u>> \in Seq({t, u}) /\ <<t, u>> \in Seq({t, u})
      /\ Len(<<t>>) = 1 /\ Len(<<u>>) = 1 /\ Len(<<t, u>>) = 2
  OBVIOUS
<1>2. /\ <<t>> \o <<u>> \in Seq({t, u}) /\ Len(<<t>> \o <<u>>) = 2
      /\ (<<t>> \o <<u>>)[1] = t
      /\ (<<t>> \o <<u>>)[2] = u
  BY <1>1
<1>3. \A q \in 1 .. 2 : (<<t>> \o <<u>>)[q] = <<t, u>>[q]
  BY <1>2
<1> QED BY <1>1, <1>2, <1>3, SeqEqual

LEMMA ConsThree ==
  ASSUME NEW t, NEW u, NEW v
  PROVE  <<t>> \o <<u, v>> = <<t, u, v>>
<1>1. /\ <<t>> \in Seq({t, u, v}) /\ <<u, v>> \in Seq({t, u, v}) /\ <<t, u, v>> \in Seq({t, u, v})
      /\ Len(<<t>>) = 1 /\ Len(<<u, v>>) = 2 /\ Len(<<t, u, v>>) = 3
  OBVIOUS
<1>2. /\ <<t>> \o <<u, v>> \in Seq({t, u, v}) /\ Len(<<t>> \o <<u, v>>) = 3
      /\ (<<t>> \o <<u, v>>)[1] = t
      /\ (<<t>> \o <<u, v>>)[2] = u
      /\ (<<t>> \o <<u, v>>)[3] = v
  BY <1>1
<1>3. \A q \in 1 .. 3 : (<<t>> \o <<u, v>>)[q] = <<t, u, v>>[q]
  BY <1>2
<1> QED BY <1>1, <1>2, <1>3, SeqEqual

LEMMA ConsFour ==
  ASSUME NEW t, NEW u, NEW v, NEW w
  PROVE  <<t>> \o <<u, v, w>> = <<t, u, v, w>>
<1>1. /\ <<t>> \in Seq({t, u, v, w}) /\ <<u, v, w>> \in Seq({t, u, v, w}) /\ <<t, u, v, w>> \in Seq({t, u, v, w})
      /\ Len(<<t>>) = 1 /\ Len(<<u, v, w>>) = 3 /\ Len(<<t, u, v, w>>) = 4
  OBVIOUS
<1>2. /\ <<t>> \o <<u, v, w>> \in Seq({t, u, v, w}) /\ Len(<<t>> \o <<u, v, w>>) = 4
      /\ (<<t>> \o <<u, v, w>>)[1] = t
      /\ (<<t>> \o <<u, v, w>>)[2] = u
      /\ (<<t>> \o <<u, v, w>>)[3] = v
      /\ (<<t>> \o <<u, v, w>>)[4] = w
  BY <1>1
<1>3. \A q \in 1 .. 4 : (<<t>> \o <<u, v, w>>)[q] = <<t, u, v, w>>[q]
  BY <1>2
<1> QED BY <1>1, <1>2, <1>3, SeqEqual

LEMMA ConsFive ==
  ASSUME NEW t, NEW u, NEW v, NEW w, NEW x
  PROVE  <<t>> \o <<u, v, w, x>> = <<t, u, v, w, x>>
<1>1. /\ <<t>> \in Seq({t, u, v, w, x}) /\ <<u, v, w, x>> \in Seq({t, u, v, w, x}) /\ <<t, u, v, w, x>> \in Seq({t, u, v, w, x})
      /\ Len(<<t>>) = 1 /\ Len(<<u, v, w, x>>) = 4 /\ Len(<<t, u, v, w, x>>) = 5
  OBVIOUS
<1>2. /\ <<t>> \o <<u, v, w, x>> \in Seq({t, u, v, w, x}) /\ Len(<<t>> \o <<u, v, w, x>>) = 5
      /\ (<<t>> \o <<u, v, w, x>>)[1] = t
      /\ (<<t>> \o <<u, v, w, x>>)[2] = u
      /\ (<<t>> \o <<u, v, w, x>>)[3] = v
      /\ (<<t>> \o <<u, v, w, x>>)[4] = w
      /\ (<<t>> \o <<u, v, w, x>>)[5] = x
  BY <1>1
<1>3. \A q \in 1 .. 5 : (<<t>> \o <<u, v, w, x>>)[q] = <<t, u, v, w, x>>[q]
  BY <1>2
<1> QED BY <1>1, <1>2, <1>3, SeqEqual

LEMMA ConsSix ==
  ASSUME NEW t, NEW u, NEW v, NEW w, NEW x, NEW y
  PROVE  <<t>> \o <<u, v, w, x, y>> = <<t, u, v, w, x, y>>
<1>1. /\ <<t>> \in Seq({t, u, v, w, x, y}) /\ <<u, v, w, x, y>> \in Seq({t, u, v, w, x, y}) /\ <<t, u, v, w, x, y>> \in Seq({t, u, v, w, x, y})
      /\ Len(<<t>>) = 1 /\ Len(<<u, v, w, x, y>>) = 5 /\ Len(<<t, u, v, w, x, y>>) = 6
  OBVIOUS
<1>2. /\ <<t>> \o <<u, v, w, x, y>> \in Seq({t, u, v, w, x, y}) /\ Len(<<t>> \o <<u, v, w, x, y>>) = 6
      /\ (<<t>> \o <<u, v, w, x, y>>)[1] = t
      /\ (<<t>> \o <<u, v, w, x, y>>)[2] = u
      /\ (<<t>> \o <<u, v, w, x, y>>)[3] = v
      /\ (<<t>> \o <<u, v, w, x, y>>)[4] = w
      /\ (<<t>> \o <<u, v, w, x, y>>)[5] = x
      /\ (<<t>> \o <<u, v, w, x, y>>)[6] = y
  BY <1>1
<1>3. \A q \in 1 .. 6 : (<<t>> \o <<u, v, w, x, y>>)[q] = <<t, u, v, w, x, y>>[q]
  BY <1>2
<1> QED BY <1>1, <1>2, <1>3, SeqEqual

LEMMA ConsSeven ==
  ASSUME NEW t, NEW u, NEW v, NEW w, NEW x, NEW y, NEW z
  PROVE  <<t>> \o <<u, v, w, x, y, z>> = <<t, u, v, w, x, y, z>>
<1>1. /\ <<t>> \in Seq({t, u, v, w, x, y, z}) /\ <<u, v, w, x, y, z>> \in Seq({t, u, v, w, x, y, z}) /\ <<t, u, v, w, x, y, z>> \in Seq({t, u, v, w, x, y, z})
      /\ Len(<<t>>) = 1 /\ Len(<<u, v, w, x, y, z>>) = 6 /\ Len(<<t, u, v, w, x, y, z>>) = 7
  OBVIOUS
<1>2. /\ <<t>> \o <<u, v, w, x, y, z>> \in Seq({t, u, v, w, x, y, z}) /\ Len(<<t>> \o <<u, v, w, x, y, z>>) = 7
      /\ (<<t>> \o <<u, v, w, x, y, z>>)[1] = t
      /\ (<<t>> \o <<u, v, w, x, y, z>>)[2] = u
      /\ (<<t>> \o <<u, v, w, x, y, z>>)[3] = v
      /\ (<<t>> \o <<u, v, w, x, y, z>>)[4] = w
      /\ (<<t>> \o <<u, v, w, x, y, z>>)[5] = x
      /\ (<<t>> \o <<u, v, w, x, y, z>>)[6] = y
      /\ (<<t>> \o <<u, v, w, x, y, z>>)[7] = z
  BY <1>1
<1>3. \A q \in 1 .. 7 : (<<t>> \o <<u, v, w, x, y, z>>)[q] = <<t, u, v, w, x, y, z>>[q]
  BY <1>2
<1> QED BY <1>1, <1>2, <1>3, SeqEqual
\* A task puts the last d results in one of any class, or leaves them.
Folds(t, d) == \A a, b \in Shape : (/\ a.open = FALSE /\ a.live = FALSE /\ a.n >= d
                                    /\ Leq(At(a, a.n - d, "A", FALSE), b)) => Ok(t, a, b)
Keeps(t)    == \A a, b \in Shape : (/\ a.open = FALSE /\ a.live = FALSE /\ Leq(a, b)) => Ok(t, a, b)

\* So do the tasks of a list together.
Puts(ts, d) == \A a, b \in Shape : (/\ a.open = FALSE /\ a.live = FALSE /\ a.n >= d
                                    /\ Leq(At(a, a.n - d, "A", FALSE), b)) => Runs(ts, a, b)

LEMMA PutsLast ==
  ASSUME NEW t, NEW d, Folds(t, d)
  PROVE  Puts(<<t>>, d)
BY RunsOne DEF Puts, Folds

\* A result put in place of the last e.
LEMMA MidShape ==
  ASSUME NEW a \in Shape, a.open = FALSE, NEW e \in Nat, a.n >= e
  PROVE  /\ At(a, a.n - e, "A", FALSE) \in Shape /\ At(a, a.n - e, "A", FALSE).open = FALSE
         /\ At(a, a.n - e, "A", FALSE).live = FALSE /\ At(a, a.n - e, "A", FALSE).n = a.n - e + 1
         /\ \A i \in 1 .. a.n - e : At(a, a.n - e, "A", FALSE).c[i] = a.c[i]
         /\ Leq(At(a, a.n - e, "A", FALSE), At(a, a.n - e, "A", FALSE))
<1> DEFINE h == a.n - e
           m == At(a, h, "A", FALSE)
<1>1. h \in Nat
  BY DEF Shape
<1> HIDE DEF h
<1>2. /\ m \in Shape /\ m.open = FALSE /\ m.live = FALSE /\ m.n = h + 1
      /\ \A i \in 1 .. h : m.c[i] = a.c[i]
  BY <1>1 DEF At, Shape, Classes
<1> HIDE DEF m
<1>3. Leq(m, m)
  BY <1>2, LeqReflexive
<1> QED BY <1>2, <1>3 DEF m, h

LEMMA PutsFolds ==
  ASSUME NEW t, NEW e \in Nat, Folds(t, e), NEW rest, NEW f \in Nat, f >= 1, Puts(rest, f), NEW d, d = e + f - 1
  PROVE  Puts(<<t>> \o rest, d)
<1> SUFFICES ASSUME NEW a \in Shape, NEW b \in Shape, a.open = FALSE, a.live = FALSE, a.n >= d,
                    Leq(At(a, a.n - d, "A", FALSE), b)
             PROVE  Runs(<<t>> \o rest, a, b)
  BY DEF Puts
<1> DEFINE m == At(a, a.n - e, "A", FALSE)
           h == a.n - d
<1>1. a.n \in Nat /\ h \in Nat /\ a.n >= e
  BY DEF Shape
<1>2. /\ m \in Shape /\ m.open = FALSE /\ m.live = FALSE /\ m.n = a.n - e + 1
      /\ \A i \in 1 .. a.n - e : m.c[i] = a.c[i]
      /\ Leq(m, m)
  BY <1>1, MidShape
<1>3. Ok(t, a, m)
  <2>1. Leq(At(a, a.n - e, "A", FALSE), m)
    BY <1>2
  <2> HIDE DEF m
  <2> QED BY <1>1, <1>2, <2>1 DEF Folds
<1> HIDE DEF m
<1>4. m.n >= f /\ m.n - f = h
  BY <1>1, <1>2
<1>5. \A i \in 1 .. h : m.c[i] = a.c[i]
  <2>1. \A i \in 1 .. h : i \in 1 .. a.n - e
    BY <1>1
  <2> QED BY <2>1, <1>2
<1>6. Leq(At(m, h, "A", FALSE), b)
  <2>1. Leq(At(a, h, "A", FALSE), b)
    OBVIOUS
  <2> HIDE DEF h
  <2> QED BY <1>1, <1>2, <1>5, <2>1, Under
<1>7. Runs(rest, m, b)
  BY <1>2, <1>4, <1>6 DEF Puts
<1>8. Runs(<<t>>, a, m)
  BY <1>2, <1>3, RunsOne
<1> QED BY <1>7, <1>8, RunsJoined

LEMMA PutsKeeps ==
  ASSUME NEW t, Keeps(t), NEW rest, NEW d, Puts(rest, d)
  PROVE  Puts(<<t>> \o rest, d)
<1> SUFFICES ASSUME NEW a \in Shape, NEW b \in Shape, a.open = FALSE, a.live = FALSE, a.n >= d,
                    Leq(At(a, a.n - d, "A", FALSE), b)
             PROVE  Runs(<<t>> \o rest, a, b)
  BY DEF Puts
<1>1. Leq(a, a)
  BY LeqReflexive
<1>2. Runs(<<t>>, a, a)
  BY <1>1, RunsOne DEF Keeps
<1>3. Runs(rest, a, b)
  BY DEF Puts
<1> QED BY <1>2, <1>3, RunsJoined

\* A task that leaves the results, at the end.
LEMMA KeepsFolds ==
  ASSUME NEW t, Keeps(t)
  PROVE  Folds(t, 1)
<1> SUFFICES ASSUME NEW a \in Shape, NEW b \in Shape, a.open = FALSE, a.live = FALSE, a.n >= 1,
                    Leq(At(a, a.n - 1, "A", FALSE), b)
             PROVE  Ok(t, a, b)
  BY DEF Folds
<1> DEFINE h == a.n - 1
           m == At(a, h, "A", FALSE)
<1>1. h \in Nat /\ a.n = h + 1
  BY DEF Shape
<1> HIDE DEF h
<1>2. m \in Shape /\ m.open = FALSE /\ m.live = FALSE /\ m.n = h + 1 /\ m.c[h + 1] = "A"
      /\ \A i \in Nat : i # h + 1 => m.c[i] = a.c[i]
  BY <1>1 DEF At, Shape, Classes
<1>3. Leq(m, b)
  BY DEF h
<1> HIDE DEF m
<1>4. Leq(a, m)
  BY <1>1, <1>2 DEF Leq, Sub, Shape
<1>5. Leq(a, b)
  BY <1>2, <1>3, <1>4, LeqTransitive
<1> QED BY <1>5 DEF Keeps

-----------------------------------------------------------------------------
(* Which tasks do.                                                         *)

LEMMA FoldsMake ==
  ASSUME NEW t, t.do \in Makers, t.do = "condition" => t.loc \in Conditions
  PROVE  Folds(t, 0)
<1> SUFFICES ASSUME NEW a \in Shape, NEW b \in Shape, a.open = FALSE, Leq(At(a, a.n - 0, "A", FALSE), b)
             PROVE  Ok(t, a, b)
  BY DEF Folds
<1>1. a.n - 0 = a.n
  BY DEF Shape
<1> QED BY <1>1, LastMake

LEMMA FoldsExpr ==
  ASSUME NEW bp \in Nat
  PROVE  Folds(Expr(bp), 0)
<1> SUFFICES ASSUME NEW a \in Shape, NEW b \in Shape, a.open = FALSE, Leq(At(a, a.n - 0, "A", FALSE), b)
             PROVE  Ok(Expr(bp), a, b)
  BY DEF Folds
<1> DEFINE h == a.n
<1>1. h \in Nat /\ h - 0 = h
  BY DEF Shape
<1>2. Leq(At(a, h, "A", FALSE), b)
  BY <1>1
<1> HIDE DEF h
<1>3. Leq(At(a, h, "A", TRUE), b)
  BY <1>1, <1>2, LeqAt DEF Classes, Sub
<1>4. Expr(bp).do \in Operands /\ Expr(bp).n = bp
  BY DEF Expr, T, Operands
<1> QED BY <1>3, <1>4, OkOperandsIs DEF h

LEMMA FoldsType ==
  ASSUME NEW bp
  PROVE  Folds(Type(bp), 0)
<1> SUFFICES ASSUME NEW a \in Shape, NEW b \in Shape, a.open = FALSE, Leq(At(a, a.n - 0, "A", FALSE), b)
             PROVE  Ok(Type(bp), a, b)
  BY DEF Folds
<1> DEFINE h == a.n
<1>1. h \in Nat /\ h - 0 = h
  BY DEF Shape
<1>2. Leq(At(a, h, "A", FALSE), b)
  BY <1>1
<1> HIDE DEF h
<1>3. Leq(At(a, h, "S", FALSE), b)
  BY <1>1, <1>2, LeqAt DEF Classes, Sub
<1>4. Type(bp).do = "type"
  BY DEF Type, T
<1> QED BY <1>3, <1>4, OkTypeIs DEF h

LEMMA FoldsOne ==
  ASSUME NEW t, t.do \in FromOne, t.do = "branch" => t.loc \in Conditions
  PROVE  Folds(t, 1)
BY OkFromoneIs DEF Folds

LEMMA FoldsTwo ==
  ASSUME NEW t, t.do \in FromTwo, t.do = "else" => t.loc \in Conditions
  PROVE  Folds(t, 2)
BY OkFromtwoIs DEF Folds

LEMMA FoldsBuild ==
  ASSUME NEW is, NEW at
  PROVE  /\ is \in {"exprstmt", "unused"} => Folds(Build(is, at), 1)
         /\ is \in {"alias", "typechange", "import"} => Folds(Build(is, at), 2)
         /\ is \in {"if", "while"} => Folds(Build(is, at), 3)
<1>1. CASE is \in {"exprstmt", "unused"}
  BY <1>1, ThenBuild DEF Folds, OkBuild
<1>2. CASE is \in {"alias", "typechange", "import"}
  BY <1>2, ThenBuild DEF Folds, OkBuild
<1>3. CASE is \in {"if", "while"}
  BY <1>3, ThenBuild DEF Folds, OkBuild
<1> QED BY <1>1, <1>2, <1>3

LEMMA KeepsExpect ==
  ASSUME NEW kinds, kinds \cap AA = {}
  PROVE  Keeps(Expect(kinds))
BY LastExpect DEF Keeps

LEMMA KeepsQuiet ==
  ASSUME NEW t, t.do \in Quiet
  PROVE  Keeps(t)
BY LastQuiet DEF Keeps

\* A statement skipped.
LEMMA SkipPuts == Puts(SkipStatement, 1)
<1>1. Keeps(Until({";"})) /\ Keeps(Expect({";"}))
  <2>1. Until({";"}).do \in Quiet /\ {";"} \cap AA = {}
    BY DEF Until, T, Quiet, AA
  <2> QED BY <2>1, KeepsQuiet, KeepsExpect
<1>2. Puts(<<Expect({";"})>>, 1)
  BY <1>1, KeepsFolds, PutsLast
<1>3. Puts(<<Until({";"})>> \o <<Expect({";"})>>, 1)
  BY <1>1, <1>2, PutsKeeps
<1> QED BY <1>3, ConsTwo DEF SkipStatement

-----------------------------------------------------------------------------
(* Handlers whose task puts the last d results in one.                     *)

Takes(d) == \E a, b \in Shape : /\ Fit(vals, a, Cur) /\ Runs(Tail(todo), b, Final) /\ a.open = FALSE
                                /\ a.n \in Nat /\ a.n >= d /\ a.n = Len(vals)
                                /\ Leq(At(a, a.n - d, "A", FALSE), b)

LEMMA TakesNone ==
  ASSUME Going, todo # << >>, Top.do \in Makers
  PROVE  Takes(0) /\ (Top.do = "condition" => Top.loc \in Conditions)
<1>1. PICK a, b \in Shape : /\ Fit(vals, a, Cur) /\ Runs(Tail(todo), b, Final)
                            /\ ~a.open /\ a.n = Len(vals) /\ a.n \in Nat
                            /\ (Top.do = "condition" => Top.loc \in Conditions)
                            /\ Leq(At(a, a.n, "A", FALSE), b)
  BY MakerShape
<1>2. a.open = FALSE
  BY <1>1 DEF Shape
<1>3. a.n - 0 = a.n /\ a.n >= 0
  BY <1>1
<1>4. Leq(At(a, a.n - 0, "A", FALSE), b)
  BY <1>1, <1>3
<1> QED BY <1>1, <1>2, <1>3, <1>4 DEF Takes

LEMMA TakesOne ==
  ASSUME Going, todo # << >>, Top.do \in FromOne
  PROVE  Takes(1) /\ (Top.do = "branch" => Top.loc \in Conditions)
<1>1. PICK a, b \in Shape : /\ Fit(vals, a, Cur) /\ Runs(Tail(todo), b, Final) /\ Ok(Top, a, b)
                            /\ a.n \in Nat /\ (~a.open => a.n = Len(vals))
  BY ContinuedShape
<1>2. /\ ~a.open /\ a.n >= 1 /\ (Top.do = "branch" => Top.loc \in Conditions)
      /\ Leq(At(a, a.n - 1, "A", FALSE), b)
  BY <1>1, OkFromoneIs
<1>3. a.open = FALSE
  BY <1>2 DEF Shape
<1> QED BY <1>1, <1>2, <1>3 DEF Takes

LEMMA TakesTwo ==
  ASSUME Going, todo # << >>, Top.do \in FromTwo
  PROVE  Takes(2) /\ (Top.do = "else" => Top.loc \in Conditions)
<1>1. PICK a, b \in Shape : /\ Fit(vals, a, Cur) /\ Runs(Tail(todo), b, Final) /\ Ok(Top, a, b)
                            /\ a.n \in Nat /\ (~a.open => a.n = Len(vals))
  BY ContinuedShape
<1>2. /\ ~a.open /\ a.n >= 2 /\ (Top.do = "else" => Top.loc \in Conditions)
      /\ Leq(At(a, a.n - 2, "A", FALSE), b)
  BY <1>1, OkFromtwoIs
<1>3. a.open = FALSE
  BY <1>2 DEF Shape
<1> QED BY <1>1, <1>2, <1>3 DEF Takes

LEMMA TakesThree ==
  ASSUME Going, todo # << >>, Top.do \in FromThree
  PROVE  Takes(3)
<1>1. PICK a, b \in Shape : /\ Fit(vals, a, Cur) /\ Runs(Tail(todo), b, Final) /\ Ok(Top, a, b)
                            /\ a.n \in Nat /\ (~a.open => a.n = Len(vals))
  BY ContinuedShape
<1>2. /\ ~a.open /\ a.n >= 3 /\ Leq(At(a, a.n - 3, "A", FALSE), b)
  BY <1>1, OkPropertyMakeIs
<1>3. a.open = FALSE
  BY <1>2 DEF Shape
<1> QED BY <1>1, <1>2, <1>3 DEF Takes

LEMMA TakesVar ==
  ASSUME Going, todo # << >>
  PROVE  /\ Top.do \in Typed2 => Takes(2)
         /\ Top.do \in Typed3 => Takes(3) /\ Fits(V(3), "N")
<1>1. PICK a, b \in Shape : /\ Fit(vals, a, Cur) /\ Runs(Tail(todo), b, Final) /\ Ok(Top, a, b)
                            /\ a.n \in Nat /\ (~a.open => a.n = Len(vals))
  BY ContinuedShape
<1>2. ASSUME Top.do \in Typed2 PROVE Takes(2)
  <2>1. ~a.open /\ a.n >= 2 /\ Leq(At(a, a.n - 2, "A", FALSE), b)
    BY <1>1, <1>2, OkVarInitIs
  <2>2. a.open = FALSE
    BY <2>1 DEF Shape
  <2>3. Takes(2)
    BY <1>1, <2>1, <2>2 DEF Takes
  <2> QED BY <2>3
<1>3. ASSUME Top.do \in Typed3 PROVE Takes(3) /\ Fits(V(3), "N")
  <2>1. ~a.open /\ a.n >= 3 /\ a.c[a.n - 2] # "A" /\ Leq(At(a, a.n - 3, "A", FALSE), b)
    BY <1>1, <1>3, OkVarMakeIs
  <2>2. a.open = FALSE
    BY <2>1 DEF Shape
  <2>3. Takes(3)
    BY <1>1, <2>1, <2>2 DEF Takes
  <2>4. Fits(V(3), a.c[a.n - 2])
    BY <1>1, <2>1, LastAre
  <2>5. Fits(V(3), "N")
    BY <2>1, <2>4 DEF Fits
  <2> QED BY <2>3, <2>5
<1> QED BY <1>2, <1>3

LEMMA TakesThen ==
  ASSUME Going, phase = "parse", todo # << >>, NEW d, Takes(d), NEW k \in Nat, NEW next, Then(k, next), Puts(next, d)
  PROVE  Safe'
<1>1. PICK a, b \in Shape : /\ Fit(vals, a, Cur) /\ Runs(Tail(todo), b, Final) /\ a.open = FALSE
                            /\ a.n \in Nat /\ a.n >= d /\ Leq(At(a, a.n - d, "A", FALSE), b)
  BY DEF Takes
<1> DEFINE p == Plain(a)
<1>2. p \in Shape /\ p.open = FALSE /\ p.live = FALSE /\ p.n = a.n
  BY <1>1, PlainShape
<1>3. Leq(At(p, p.n - d, "A", FALSE), b)
  BY <1>1, <1>2 DEF Plain, At
<1> HIDE DEF p
<1>4. Runs(next, p, b)
  BY <1>1, <1>2, <1>3 DEF Puts
<1> QED BY <1>1, <1>4, ThenGoes DEF p

\* The last d0 results are replaced by one, and it goes on with d - d0 + 1.
LEMMA TakesTurn ==
  ASSUME Going, phase = "parse", todo # << >>, NEW d \in Nat, Takes(d), NEW k \in Nat, NEW d0 \in Nat, d0 <= d,
         NEW v, Fits(v, "A"), NEW next, Turn(k, d0, <<v>>, next), NEW e, e = d - d0 + 1, Puts(next, e)
  PROVE  Safe'
<1>1. PICK a, b \in Shape : /\ Fit(vals, a, Cur) /\ Runs(Tail(todo), b, Final) /\ a.open = FALSE
                            /\ a.n \in Nat /\ a.n >= d /\ a.n = Len(vals) /\ Leq(At(a, a.n - d, "A", FALSE), b)
  BY DEF Takes
<1> DEFINE h == a.n - d0
           m == At(a, h, "A", FALSE)
           g == a.n - d
<1>2. h \in Nat /\ h <= a.n /\ Len(vals) - d0 = h /\ g \in Nat /\ g <= h /\ h + 1 - e = g /\ h + 1 >= e
  BY <1>1
<1>3. /\ m \in Shape /\ m.open = FALSE /\ m.live = FALSE /\ m.n = a.n - d0 + 1
      /\ \A i \in 1 .. a.n - d0 : m.c[i] = a.c[i]
  <2>1. a.open = FALSE /\ a.n >= d0
    BY <1>1
  <2> QED BY <2>1, MidShape
<1>4. m.n = h + 1 /\ \A i \in 1 .. h : m.c[i] = a.c[i]
  BY <1>3
<1>5. Leq(At(a, g, "A", FALSE), b)
  BY <1>1
<1> HIDE DEF h, m, g
<1>6. \A i \in 1 .. g : m.c[i] = a.c[i]
  <2>1. \A i \in 1 .. g : i \in 1 .. h
    BY <1>2
  <2> QED BY <2>1, <1>4
<1>7. Leq(At(m, g, "A", FALSE), b)
  BY <1>2, <1>3, <1>5, <1>6, Under
<1>8. m.n - e = g /\ m.n >= e
  BY <1>2, <1>4
<1>9. Runs(next, m, b)
  BY <1>3, <1>7, <1>8 DEF Puts
<1>10. Fit(vals, a, Cur) /\ Runs(Tail(todo), b, Final) /\ Runs(next, At(a, h, "A", FALSE), b) /\ "A" \in Classes
  BY <1>1, <1>9 DEF m, Classes
<1> QED BY <1>2, <1>10, TurnGoes

LEMMA TakesDone ==
  ASSUME Going, phase = "parse", todo # << >>, NEW d \in Nat, Takes(d), NEW k \in Nat,
         NEW v, Fits(v, "A"), Turn(k, d, <<v>>, << >>)
  PROVE  Safe'
<1>1. PICK a, b \in Shape : /\ Fit(vals, a, Cur) /\ Runs(Tail(todo), b, Final) /\ a.open = FALSE
                            /\ a.n \in Nat /\ a.n >= d /\ a.n = Len(vals) /\ Leq(At(a, a.n - d, "A", FALSE), b)
  BY DEF Takes
<1> DEFINE h == a.n - d
<1>2. h \in Nat /\ h <= a.n /\ Len(vals) - d = h
  BY <1>1
<1>4. Leq(At(a, h, "A", FALSE), b)
  BY <1>1
<1> HIDE DEF h
<1>3. Fit(vals, a, Cur) /\ Runs(Tail(todo), b, Final) /\ "A" \in Classes /\ FALSE \in BOOLEAN
  BY <1>1 DEF Classes
<1> QED BY <1>2, <1>3, <1>4, TurnDone

LEMMA DoFolds ==
  ASSUME NEW d
  PROVE  /\ d \in Makers /\ d # "condition" => Folds(Do(d), 0)
         /\ d \in FromOne /\ d # "branch" => Folds(Do(d), 1)
         /\ d \in FromTwo /\ d # "else" => Folds(Do(d), 2)
         /\ d \in Quiet => Keeps(Do(d))
<1>1. Do(d).do = d
  BY DEF Do, T
<1> QED BY <1>1, FoldsMake, FoldsOne, FoldsTwo, KeepsQuiet

LEMMA WithFolds ==
  ASSUME NEW d, NEW loc
  PROVE  /\ d \in Makers /\ (d = "condition" => loc \in Conditions) => Folds(With(d, loc), 0)
         /\ d \in FromOne /\ (d = "branch" => loc \in Conditions) => Folds(With(d, loc), 1)
         /\ d \in FromTwo /\ (d = "else" => loc \in Conditions) => Folds(With(d, loc), 2)
<1>1. With(d, loc).do = d /\ With(d, loc).loc = loc
  BY DEF With, T
<1> QED BY <1>1, FoldsMake, FoldsOne, FoldsTwo

LEMMA SkipKeeps == \A kinds : Keeps(Skip(kinds)) /\ Keeps(Until(kinds))
<1> SUFFICES ASSUME NEW kinds PROVE Keeps(Skip(kinds)) /\ Keeps(Until(kinds))
  OBVIOUS
<1>1. Skip(kinds).do \in Quiet /\ Until(kinds).do \in Quiet
  BY DEF Skip, Until, T, Quiet
<1> QED BY <1>1, KeepsQuiet

\* Two tasks, three or four.
LEMMA PutsTwo ==
  ASSUME NEW t, NEW u
  PROVE  /\ \A d : Keeps(t) /\ Folds(u, d) => Puts(<<t, u>>, d)
         /\ \A e \in Nat : Folds(t, e) /\ Keeps(u) => Puts(<<t, u>>, e)
         /\ \A e, f \in Nat : f >= 1 /\ Folds(t, e) /\ Folds(u, f) => Puts(<<t, u>>, e + f - 1)
<1>1. <<t>> \o <<u>> = <<t, u>>
  BY ConsTwo
<1>2. ASSUME NEW d, Keeps(t), Folds(u, d) PROVE Puts(<<t, u>>, d)
  <2>1. Puts(<<u>>, d)
    BY <1>2, PutsLast
  <2> QED BY <1>1, <1>2, <2>1, PutsKeeps
<1>3. ASSUME NEW e \in Nat, NEW f \in Nat, f >= 1, Folds(t, e), Folds(u, f) PROVE Puts(<<t, u>>, e + f - 1)
  <2>1. Puts(<<u>>, f)
    BY <1>3, PutsLast
  <2> QED BY <1>1, <1>3, <2>1, PutsFolds
<1>4. ASSUME NEW e \in Nat, Folds(t, e), Keeps(u) PROVE Puts(<<t, u>>, e)
  <2> DEFINE f == 1
  <2>1. Puts(<<u>>, f)
    BY <1>4, KeepsFolds, PutsLast
  <2>2. f \in Nat /\ f >= 1 /\ e = e + f - 1
    OBVIOUS
  <2> HIDE DEF f
  <2> QED BY <1>1, <1>4, <2>1, <2>2, PutsFolds
<1> QED BY <1>2, <1>3, <1>4

\* A task before others.
LEMMA PutsMore ==
  ASSUME NEW t, NEW rest, NEW d \in Nat
  PROVE  /\ Keeps(t) /\ Puts(rest, d) => Puts(<<t>> \o rest, d)
         /\ Folds(t, 0) /\ Puts(rest, d + 1) => Puts(<<t>> \o rest, d)
         /\ Folds(t, 1) /\ d >= 1 /\ Puts(rest, d) => Puts(<<t>> \o rest, d)
<1>1. ASSUME Folds(t, 0), Puts(rest, d + 1) PROVE Puts(<<t>> \o rest, d)
  <2> DEFINE f == d + 1
             e == 0
  <2>1. f \in Nat /\ f >= 1 /\ d = e + f - 1 /\ e \in Nat
    OBVIOUS
  <2>2. Folds(t, e) /\ Puts(rest, f)
    BY <1>1
  <2> HIDE DEF e, f
  <2> QED BY <2>1, <2>2, PutsFolds
<1>2. ASSUME Folds(t, 1), d >= 1, Puts(rest, d) PROVE Puts(<<t>> \o rest, d)
  <2> DEFINE e == 1
  <2>1. d = e + d - 1 /\ e \in Nat
    OBVIOUS
  <2>2. Folds(t, e)
    BY <1>2
  <2> HIDE DEF e
  <2> QED BY <1>2, <2>1, <2>2, PutsFolds
<1>3. ASSUME Keeps(t), Puts(rest, d) PROVE Puts(<<t>> \o rest, d)
  BY <1>3, PutsKeeps
<1> QED BY <1>1, <1>2, <1>3

\* The result of a task that makes one, made at once, with more to come.
LEMMA MakerPuts ==
  ASSUME Going, phase = "parse", todo # << >>, Top.do \in Makers, NEW k \in Nat, NEW next
  PROVE  /\ Then(k, next) /\ Puts(next, 0) => Safe'
         /\ \A v : Fits(v, "A") /\ Turn(k, 0, <<v>>, next) /\ Puts(next, 1) => Safe'
<1>1. Takes(0)
  BY TakesNone
<1>2. ASSUME NEW v, Fits(v, "A"), Turn(k, 0, <<v>>, next), Puts(next, 1) PROVE Safe'
  <2> DEFINE d == 0
             e == 1
  <2>1. d \in Nat /\ d <= d /\ e = d - d + 1
    OBVIOUS
  <2>2. Takes(d) /\ Turn(k, d, <<v>>, next) /\ Puts(next, e)
    BY <1>1, <1>2
  <2> HIDE DEF d, e
  <2> QED BY <1>2, <2>1, <2>2, TakesTurn
<1>3. ASSUME Then(k, next), Puts(next, 0) PROVE Safe'
  BY <1>1, <1>3, TakesThen
<1> QED BY <1>2, <1>3

LEMMA FromOnePuts ==
  ASSUME Going, phase = "parse", todo # << >>, Top.do \in FromOne, NEW k \in Nat, NEW next
  PROVE  /\ Then(k, next) /\ Puts(next, 1) => Safe'
         /\ \A v : Fits(v, "A") /\ Turn(k, 1, <<v>>, next) /\ Puts(next, 1) => Safe'
         /\ \A v : Fits(v, "A") /\ Turn(k, 0, <<v>>, next) /\ Puts(next, 2) => Safe'
<1>1. Takes(1)
  BY TakesOne
<1>2. ASSUME NEW v, Fits(v, "A"), Turn(k, 1, <<v>>, next), Puts(next, 1) PROVE Safe'
  <2> DEFINE d == 1
  <2>1. d \in Nat /\ d <= d /\ d = d - d + 1
    OBVIOUS
  <2>2. Takes(d) /\ Turn(k, d, <<v>>, next) /\ Puts(next, d)
    BY <1>1, <1>2
  <2> HIDE DEF d
  <2> QED BY <1>2, <2>1, <2>2, TakesTurn
<1>3. ASSUME NEW v, Fits(v, "A"), Turn(k, 0, <<v>>, next), Puts(next, 2) PROVE Safe'
  <2> DEFINE d == 1
             d0 == 0
             e == 2
  <2>1. d \in Nat /\ d0 \in Nat /\ d0 <= d /\ e = d - d0 + 1
    OBVIOUS
  <2>2. Takes(d) /\ Turn(k, d0, <<v>>, next) /\ Puts(next, e)
    BY <1>1, <1>3
  <2> HIDE DEF d, d0, e
  <2> QED BY <1>3, <2>1, <2>2, TakesTurn
<1>4. ASSUME Then(k, next), Puts(next, 1) PROVE Safe'
  BY <1>1, <1>4, TakesThen
<1> QED BY <1>2, <1>3, <1>4

LEMMA FromTwoPuts ==
  ASSUME Going, phase = "parse", todo # << >>, Top.do \in FromTwo, NEW k \in Nat, NEW next
  PROVE  /\ Then(k, next) /\ Puts(next, 2) => Safe'
         /\ \A v : Fits(v, "A") /\ Turn(k, 0, <<v>>, next) /\ Puts(next, 3) => Safe'
<1>1. Takes(2)
  BY TakesTwo
<1>2. ASSUME NEW v, Fits(v, "A"), Turn(k, 0, <<v>>, next), Puts(next, 3) PROVE Safe'
  <2> DEFINE d == 2
             d0 == 0
             e == 3
  <2>1. d \in Nat /\ d0 \in Nat /\ d0 <= d /\ e = d - d0 + 1
    OBVIOUS
  <2>2. Takes(d) /\ Turn(k, d0, <<v>>, next) /\ Puts(next, e)
    BY <1>1, <1>2
  <2> HIDE DEF d, d0, e
  <2> QED BY <1>2, <2>1, <2>2, TakesTurn
<1>3. ASSUME Then(k, next), Puts(next, 2) PROVE Safe'
  BY <1>1, <1>3, TakesThen
<1> QED BY <1>2, <1>3

LEMMA LeafAny == \A is, at : is \notin Strict /\ is # "null" => Fits(Node(is, at, << >>), "A")
BY LeafWhole DEF Fits

-----------------------------------------------------------------------------
(* Statements.                                                             *)

LEMMA DefaultSafe == Going /\ panic /\ Initializer => Safe'
<1> SUFFICES ASSUME Going, panic, Initializer PROVE Safe'
  OBVIOUS
<1>1. phase = "parse" /\ todo # << >> /\ Top.do \in Makers
  BY DEF Initializer, Doing, Makers
<1>2. CASE Then(1, <<Expr(assignment)>>)
  <2>1. assignment \in Nat
    BY DEF assignment
  <2>2. Puts(<<Expr(assignment)>>, 0)
    BY <2>1, FoldsExpr, PutsLast
  <2> QED BY <1>1, <1>2, <2>2, MakerPuts
<1>3. CASE Turn(0, 0, <<NullPtr>>, << >>)
  BY <1>1, <1>3, NullFits, MakeDone
<1> QED BY <1>2, <1>3 DEF Initializer

LEMMA UnusedSafe == Going /\ panic /\ ParseUnused => Safe'
<1> SUFFICES ASSUME Going, panic, ParseUnused PROVE Safe'
  OBVIOUS
<1>1. phase = "parse" /\ todo # << >>
  BY DEF ParseUnused, Doing
<1>2. CASE Top.do = "unused" /\ Then(0, <<Expect({"UNUSED"}), Do("name"), Do("unused_end")>>)
  <2>1. Keeps(Expect({"UNUSED"}))
    <3>1. {"UNUSED"} \cap AA = {}
      BY DEF AA
    <3> QED BY <3>1, KeepsExpect
  <2>2. Folds(Do("name"), 0) /\ Folds(Do("unused_end"), 1)
    BY DoFolds DEF Makers, FromOne
  <2>3. Puts(<<Do("name"), Do("unused_end")>>, 0)
    <3> DEFINE t == Do("name")
               u == Do("unused_end")
    <3>1. Folds(t, 0) /\ Folds(u, 1)
      BY <2>2
    <3> HIDE DEF t, u
    <3>2. Puts(<<u>>, 0 + 1)
      BY <3>1, PutsLast
    <3>3. Puts(<<t>> \o <<u>>, 0)
      BY <3>1, <3>2, PutsMore
    <3>4. Puts(<<t, u>>, 0)
      BY <3>3, ConsTwo
    <3> QED BY <3>4 DEF t, u
  <2>4. Puts(<<Expect({"UNUSED"}), Do("name"), Do("unused_end")>>, 0)
    BY <2>1, <2>3, PutsKeeps, ConsThree
  <2>5. Top.do \in Makers
    BY <1>2 DEF Makers
  <2> QED BY <1>1, <1>2, <2>4, <2>5, MakerPuts
<1>3. CASE Top.do = "unused_end" /\ Turn(0, 1, <<NullPtr>>, SkipStatement)
  <2>1. Top.do \in FromOne
    BY <1>3 DEF FromOne
  <2> QED BY <1>1, <1>3, <2>1, NullFits, SkipPuts, FromOnePuts
<1>4. CASE Top.do = "unused_end" /\ Then(0, <<Expect({";"}), Build("unused", 0)>>)
  <2>1. Top.do \in FromOne
    BY <1>4 DEF FromOne
  <2>2. Keeps(Expect({";"})) /\ Folds(Build("unused", 0), 1)
    <3>1. {";"} \cap AA = {}
      BY DEF AA
    <3> QED BY <3>1, KeepsExpect, FoldsBuild
  <2>3. Puts(<<Expect({";"}), Build("unused", 0)>>, 1)
    BY <2>2, PutsTwo
  <2> QED BY <1>1, <1>4, <2>1, <2>3, FromOnePuts
<1> QED BY <1>2, <1>3, <1>4 DEF ParseUnused, Doing

\* Expecting a token that is no type keyword.
LEMMA TokenKeeps ==
  ASSUME NEW k, k \notin AA
  PROVE  Keeps(Expect({k}))
<1>1. {k} \cap AA = {}
  OBVIOUS
<1> QED BY <1>1, KeepsExpect

LEMMA AliasSafe == Going /\ panic /\ ParseAliasDecl => Safe'
<1> SUFFICES ASSUME Going, panic, ParseAliasDecl PROVE Safe'
  OBVIOUS
<1>1. phase = "parse" /\ todo # << >>
  BY DEF ParseAliasDecl, Doing
<1>2. /\ Folds(Do("name"), 0) /\ Folds(Do("alias_name"), 0) /\ Folds(Do("alias_colon"), 1)
      /\ Folds(Do("alias_init"), 1) /\ Folds(Do("alias_make"), 2)
  BY DoFolds DEF Makers, FromOne, FromTwo
<1>3. CASE Top.do = "alias_decl" /\ Then(0, <<Expect({"ALIAS"}), Skip({":"}), Do("alias_name")>>)
  <2>1. Top.do \in Makers
    BY <1>3 DEF Makers
  <2>2. Keeps(Expect({"ALIAS"})) /\ Keeps(Skip({":"}))
    BY TokenKeeps, SkipKeeps DEF AA
  <2>3. Puts(<<Skip({":"}), Do("alias_name")>>, 0)
    BY <1>2, <2>2, PutsTwo
  <2>4. Puts(<<Expect({"ALIAS"}), Skip({":"}), Do("alias_name")>>, 0)
    BY <2>2, <2>3, PutsKeeps, ConsThree
  <2> QED BY <1>1, <1>3, <2>1, <2>4, MakerPuts
<1>4. CASE Top.do = "alias_name" /\ Then(0, <<Do("name"), Do("alias_colon")>>)
  <2>1. Top.do \in Makers
    BY <1>4 DEF Makers
  <2>2. Puts(<<Do("alias_colon")>>, 0 + 1)
    BY <1>2, PutsLast
  <2>3. Puts(<<Do("name")>> \o <<Do("alias_colon")>>, 0)
    BY <1>2, <2>2, PutsMore
  <2>4. Puts(<<Do("name"), Do("alias_colon")>>, 0)
    BY <2>3, ConsTwo
  <2> QED BY <1>1, <1>4, <2>1, <2>4, MakerPuts
<1>5. CASE Top.do = "alias_colon" /\ Turn(0, 1, <<NullPtr>>, SkipStatement)
  <2>1. Top.do \in FromOne
    BY <1>5 DEF FromOne
  <2> QED BY <1>1, <1>5, <2>1, NullFits, SkipPuts, FromOnePuts
<1>6. CASE Top.do = "alias_colon" /\ Then(0, <<Do("alias_init")>>)
  <2>1. Top.do \in FromOne
    BY <1>6 DEF FromOne
  <2>2. Puts(<<Do("alias_init")>>, 1)
    BY <1>2, PutsLast
  <2> QED BY <1>1, <1>6, <2>1, <2>2, FromOnePuts
<1>7. CASE Top.do = "alias_init" /\ Then(1, <<Expr(assignment), Expect({";"}), Do("alias_make")>>)
  <2>1. Top.do \in FromOne
    BY <1>7 DEF FromOne
  <2>2. Keeps(Expect({";"})) /\ Folds(Expr(assignment), 0)
    BY TokenKeeps, FoldsExpr DEF AA, assignment
  <2>3. Puts(<<Expect({";"}), Do("alias_make")>>, 1 + 1)
    <3>1. Puts(<<Expect({";"}), Do("alias_make")>>, 2)
      BY <1>2, <2>2, PutsTwo
    <3>2. 1 + 1 = 2
      OBVIOUS
    <3> DEFINE ts == <<Expect({";"}), Do("alias_make")>>
    <3> HIDE DEF ts
    <3>3. Puts(ts, 1 + 1)
      BY <3>1, <3>2 DEF ts
    <3> QED BY <3>3 DEF ts
  <2>4. Puts(<<Expr(assignment)>> \o <<Expect({";"}), Do("alias_make")>>, 1)
    BY <2>2, <2>3, PutsMore
  <2>5. Puts(<<Expr(assignment), Expect({";"}), Do("alias_make")>>, 1)
    BY <2>4, ConsThree
  <2> QED BY <1>1, <1>7, <2>1, <2>5, FromOnePuts
<1>8. CASE Top.do = "alias_make" /\ Then(0, <<Build("alias", 0)>>)
  <2>1. Top.do \in FromTwo
    BY <1>8 DEF FromTwo
  <2>2. Puts(<<Build("alias", 0)>>, 2)
    BY FoldsBuild, PutsLast
  <2> QED BY <1>1, <1>8, <2>1, <2>2, FromTwoPuts
<1>9. ASSUME NEW k, NEW drop, NEW give, NEW next, Report(k, drop, give, next) PROVE Safe'
  BY <1>9, ReportSafe
<1> QED BY <1>3, <1>4, <1>5, <1>6, <1>7, <1>8, <1>9 DEF ParseAliasDecl, Doing

LEMMA ExprStmtSafe == Going /\ panic /\ ParseExprStmt => Safe'
<1> SUFFICES ASSUME Going, panic, ParseExprStmt PROVE Safe'
  OBVIOUS
<1>1. phase = "parse" /\ todo # << >> /\ Top.do \in FromOne
  BY DEF ParseExprStmt, Doing, FromOne
<1>2. CASE Then(0, SkipStatement)
  BY <1>1, <1>2, SkipPuts, FromOnePuts
<1>3. Puts(<<Build("exprstmt", 0)>>, 1)
  BY FoldsBuild, PutsLast
<1>4. CASE Then(0, << >> \o <<Build("exprstmt", 0)>>)
  <2>1. << >> \o <<Build("exprstmt", 0)>> = <<Build("exprstmt", 0)>>
    <3> DEFINE t == Build("exprstmt", 0)
    <3> HIDE DEF t
    <3>1. << >> \o <<t>> = <<t>>
      <4>1. <<t>> \in Seq({t})
        OBVIOUS
      <4> QED BY <4>1
    <3> QED BY <3>1 DEF t
  <2> QED BY <1>1, <1>3, <1>4, <2>1, FromOnePuts
<1>5. CASE Then(0, <<Expect({";"})>> \o <<Build("exprstmt", 0)>>)
  <2>1. Keeps(Expect({";"}))
    BY TokenKeeps DEF AA
  <2>2. Puts(<<Expect({";"})>> \o <<Build("exprstmt", 0)>>, 1)
    BY <1>3, <2>1, PutsKeeps
  <2> QED BY <1>1, <1>5, <2>2, FromOnePuts
<1> QED BY <1>2, <1>4, <1>5 DEF ParseExprStmt

LEMMA IfSafe == Going /\ panic /\ (ParseIf \/ ParseWhile) => Safe'
<1> SUFFICES ASSUME Going, panic, ParseIf \/ ParseWhile PROVE Safe'
  OBVIOUS
<1>1. phase = "parse" /\ todo # << >> /\ Top.do \in Makers
  BY DEF ParseIf, ParseWhile, Doing, Makers
<1>2. ASSUME NEW kinds, kinds \cap AA = {}, NEW loc \in Conditions, Then(0, <<Expect(kinds), With("condition", loc)>>)
      PROVE  Safe'
  <2>1. Folds(With("condition", loc), 0)
    BY <1>2, WithFolds DEF Makers
  <2>2. Puts(<<Expect(kinds), With("condition", loc)>>, 0)
    BY <1>2, <2>1, KeepsExpect, PutsTwo
  <2> QED BY <1>1, <1>2, <2>2, MakerPuts
<1>3. {"IF", "ELIF"} \cap AA = {} /\ {"WHILE"} \cap AA = {} /\ {"if"} \in Conditions /\ {"while"} \in Conditions
  BY DEF AA, Conditions
<1> QED BY <1>2, <1>3 DEF ParseIf, ParseWhile

LEMMA ConditionSafe == Going /\ panic /\ ParseCondition => Safe'
<1> SUFFICES ASSUME Going, panic, ParseCondition PROVE Safe'
  OBVIOUS
<1>1. phase = "parse" /\ todo # << >>
  BY DEF ParseCondition, Doing
<1>2. Fits(TrueLiteral, "A")
  BY LeafAny DEF TrueLiteral, Strict
<1>3. ASSUME Top.do = "condition" PROVE Top.do \in Makers /\ Folds(With("branch", Top.loc), 1)
  <2>1. Top.do \in Makers
    BY <1>3 DEF Makers
  <2>2. Top.loc \in Conditions
    BY <1>1, <1>3, <2>1, TakesNone
  <2> QED BY <2>1, <2>2, WithFolds DEF FromOne
<1>4. CASE Top.do = "condition" /\ Then(1, <<Expr(default_bp), Expect({")"}), With("branch", Top.loc)>>)
  <2>1. Top.do \in Makers /\ Folds(With("branch", Top.loc), 1)
    BY <1>3, <1>4
  <2>2. Keeps(Expect({")"})) /\ Folds(Expr(default_bp), 0)
    BY TokenKeeps, FoldsExpr DEF AA, default_bp
  <2>3. Puts(<<Expect({")"}), With("branch", Top.loc)>>, 0 + 1)
    BY <2>1, <2>2, PutsTwo
  <2>4. Puts(<<Expr(default_bp)>> \o <<Expect({")"}), With("branch", Top.loc)>>, 0)
    BY <2>2, <2>3, PutsMore
  <2>5. Puts(<<Expr(default_bp), Expect({")"}), With("branch", Top.loc)>>, 0)
    BY <2>4, ConsThree
  <2> QED BY <1>1, <1>4, <2>1, <2>5, MakerPuts
<1>5. CASE Top.do = "condition" /\ Turn(0, 0, <<TrueLiteral>>, <<With("branch", Top.loc)>>)
  <2>1. Top.do \in Makers /\ Folds(With("branch", Top.loc), 1)
    BY <1>3, <1>5
  <2>2. Puts(<<With("branch", Top.loc)>>, 1)
    BY <2>1, PutsLast
  <2> QED BY <1>1, <1>2, <1>5, <2>1, <2>2, MakerPuts
<1> DEFINE next == <<Do("stmt"), With("else", Top.loc)>>
<1>6. ASSUME Top.do = "branch" PROVE Top.do \in FromOne /\ Puts(next, 1)
  <2>1. Top.do \in FromOne
    BY <1>6 DEF FromOne
  <2>2. Top.loc \in Conditions
    BY <1>1, <1>6, <2>1, TakesOne
  <2>3. Folds(Do("stmt"), 0) /\ Folds(With("else", Top.loc), 2)
    BY <2>2, DoFolds, WithFolds DEF Makers, FromTwo
  <2>4. Puts(<<With("else", Top.loc)>>, 1 + 1)
    BY <2>3, PutsLast
  <2>5. Puts(<<Do("stmt")>> \o <<With("else", Top.loc)>>, 1)
    BY <2>3, <2>4, PutsMore
  <2>6. Puts(next, 1)
    BY <2>5, ConsTwo
  <2> HIDE DEF next
  <2> QED BY <2>1, <2>6
<1> HIDE DEF next
<1>7. CASE Top.do = "branch" /\ Turn(0, 1, <<TrueLiteral>>, next)
  <2>1. Top.do \in FromOne /\ Puts(next, 1)
    BY <1>6, <1>7
  <2> QED BY <1>1, <1>2, <1>7, <2>1, FromOnePuts
<1>8. CASE Top.do = "branch" /\ Turn(0, 0, << >>, next)
  <2>1. Top.do \in FromOne /\ Puts(next, 1)
    BY <1>6, <1>8
  <2>2. Then(0, next)
    BY <1>8 DEF Then
  <2> QED BY <1>1, <2>1, <2>2, FromOnePuts
<1>9. ASSUME NEW k, NEW drop, NEW give, NEW ts, Report(k, drop, give, ts) PROVE Safe'
  BY <1>9, ReportSafe
<1> QED BY <1>4, <1>5, <1>7, <1>8, <1>9 DEF ParseCondition, Doing, next

\* Two lists of tasks, the first of which makes a result.
LEMMA PutsJoined ==
  ASSUME NEW ts, Puts(ts, 0), NEW rest, NEW d \in Nat, Puts(rest, d + 1)
  PROVE  Puts(ts \o rest, d)
<1> SUFFICES ASSUME NEW a \in Shape, NEW b \in Shape, a.open = FALSE, a.live = FALSE, a.n >= d,
                    Leq(At(a, a.n - d, "A", FALSE), b)
             PROVE  Runs(ts \o rest, a, b)
  BY DEF Puts
<1> DEFINE n == a.n
           m == At(a, n, "A", FALSE)
           h == n - d
           f == d + 1
<1>1. n \in Nat /\ h \in Nat /\ n - 0 = n /\ n >= 0 /\ f \in Nat
  BY DEF Shape
<1>2. Leq(At(a, h, "A", FALSE), b) /\ Puts(rest, f)
  OBVIOUS
<1>3. /\ m \in Shape /\ m.open = FALSE /\ m.live = FALSE /\ m.n = n + 1
      /\ \A i \in 1 .. n : m.c[i] = a.c[i]
      /\ Leq(m, m)
  <2>1. n \in Nat
    BY <1>1
  <2> HIDE DEF n
  <2>2. /\ m \in Shape /\ m.open = FALSE /\ m.live = FALSE /\ m.n = n + 1
        /\ \A i \in 1 .. n : m.c[i] = a.c[i]
    BY <2>1 DEF At, Shape, Classes
  <2> HIDE DEF m
  <2>3. Leq(m, m)
    BY <2>2, LeqReflexive
  <2> QED BY <2>2, <2>3
<1>4. Runs(ts, a, m)
  <2>1. Leq(At(a, a.n - 0, "A", FALSE), m)
    BY <1>1, <1>3
  <2>2. a.n >= 0
    BY <1>1
  <2> HIDE DEF m
  <2> QED BY <1>3, <2>1, <2>2 DEF Puts
<1> HIDE DEF m
<1>5. m.n >= f /\ m.n - f = h /\ h <= n
  BY <1>1, <1>3
<1> HIDE DEF n, h, f
<1>6. \A i \in 1 .. h : m.c[i] = a.c[i]
  <2>1. \A i \in 1 .. h : i \in 1 .. n
    BY <1>1, <1>5
  <2> QED BY <2>1, <1>3
<1>7. Leq(At(m, h, "A", FALSE), b)
  BY <1>1, <1>2, <1>3, <1>6, Under
<1>8. Runs(rest, m, b)
  BY <1>2, <1>3, <1>5, <1>7 DEF Puts
<1> QED BY <1>4, <1>8, RunsJoined

LEMMA AnyLast ==
  ASSUME NEW a \in Shape, NEW b \in Shape, a.open = FALSE, a.live = FALSE, a.n >= 1,
         Leq(At(a, a.n - 1, "A", FALSE), b)
  PROVE  Leq(a, b)
<1> DEFINE h == a.n - 1
           m == At(a, h, "A", FALSE)
<1>1. h \in Nat /\ a.n = h + 1
  BY DEF Shape
<1> HIDE DEF h
<1>2. m \in Shape /\ m.open = FALSE /\ m.live = FALSE /\ m.n = h + 1 /\ m.c[h + 1] = "A"
      /\ \A i \in Nat : i # h + 1 => m.c[i] = a.c[i]
  BY <1>1 DEF At, Shape, Classes
<1>3. Leq(m, b)
  BY DEF h
<1> HIDE DEF m
<1>4. Leq(a, m)
  BY <1>1, <1>2 DEF Leq, Sub, Shape
<1> QED BY <1>2, <1>3, <1>4, LeqTransitive

LEMMA FoldsSame ==
  ASSUME NEW t, t.do \in {"no_any", "else_end"}
  PROVE  Folds(t, 1)
<1> SUFFICES ASSUME NEW a \in Shape, NEW b \in Shape, a.open = FALSE, a.live = FALSE, a.n >= 1,
                    Leq(At(a, a.n - 1, "A", FALSE), b)
             PROVE  Ok(t, a, b)
  BY DEF Folds
<1>1. Plain(a) = a
  BY DEF Plain, Shape
<1>2. Leq(a, b)
  BY AnyLast
<1> QED BY <1>1, <1>2, OkNoAnyIs

LEMMA ElseSafe == Going /\ panic /\ ParseElse => Safe'
<1> SUFFICES ASSUME Going, panic, ParseElse PROVE Safe'
  OBVIOUS
<1>1. phase = "parse" /\ todo # << >>
  BY DEF ParseElse, Doing
<1> DEFINE make == (IF "while" \in Top.loc THEN <<Skip({";"})>> ELSE << >>) \o <<T("build", {}, 0, Top.loc)>>
<1>2. ASSUME Top.do = "else" PROVE Top.do \in FromTwo /\ Puts(make, 3)
  <2>1. Top.do \in FromTwo
    BY <1>2 DEF FromTwo
  <2>2. Top.loc \in Conditions
    BY <1>1, <1>2, <2>1, TakesTwo
  <2>3. CASE Top.loc = {"if"}
    <3> DEFINE t == Build("if", 0)
    <3>1. make = << >> \o <<t>>
      BY <2>3 DEF Build
    <3>2. Puts(<<t>>, 3)
      BY FoldsBuild, PutsLast
    <3> HIDE DEF t, make
    <3>3. << >> \o <<t>> = <<t>>
      <4>1. <<t>> \in Seq({t})
        OBVIOUS
      <4> QED BY <4>1
    <3> QED BY <2>1, <3>1, <3>2, <3>3
  <2>4. CASE Top.loc = {"while"}
    <3> DEFINE t == Build("while", 0)
    <3>1. make = <<Skip({";"})>> \o <<t>>
      BY <2>4 DEF Build
    <3>2. Puts(<<t>>, 3)
      BY FoldsBuild, PutsLast
    <3>3. Puts(<<Skip({";"})>> \o <<t>>, 3)
      BY <3>2, SkipKeeps, PutsKeeps
    <3> HIDE DEF t, make
    <3> QED BY <2>1, <3>1, <3>3
  <2> HIDE DEF make
  <2> QED BY <2>2, <2>3, <2>4 DEF Conditions
<1> HIDE DEF make
<1>3. CASE Top.do = "else" /\ \E k \in {0, 1} : Then(k, <<Do("if")>> \o make)
  <2>1. Top.do \in FromTwo /\ Puts(make, 2 + 1)
    BY <1>2, <1>3
  <2>2. Folds(Do("if"), 0)
    BY DoFolds DEF Makers
  <2>3. Puts(<<Do("if")>> \o make, 2)
    BY <2>1, <2>2, PutsMore
  <2> QED BY <1>1, <1>3, <2>1, <2>3, FromTwoPuts
<1>4. CASE Top.do = "else" /\ Then(1, <<Do("stmt"), Do("else_end")>> \o make)
  <2>1. Top.do \in FromTwo /\ Puts(make, 2 + 1)
    BY <1>2, <1>4
  <2>2. Folds(Do("stmt"), 0) /\ Folds(Do("else_end"), 1)
    <3>1. Do("else_end").do \in {"no_any", "else_end"}
      BY DEF Do, T
    <3> QED BY <3>1, FoldsSame, DoFolds DEF Makers
  <2>3. Puts(<<Do("stmt"), Do("else_end")>>, 0)
    <3>1. Puts(<<Do("stmt"), Do("else_end")>>, 0 + 1 - 1)
      BY <2>2, PutsTwo
    <3> QED BY <3>1
  <2>4. Puts(<<Do("stmt"), Do("else_end")>> \o make, 2)
    BY <2>1, <2>3, PutsJoined
  <2> QED BY <1>1, <1>4, <2>1, <2>4, FromTwoPuts
<1>5. CASE Top.do = "else" /\ Turn(0, 0, <<NullPtr>>, make)
  <2>1. Top.do \in FromTwo /\ Puts(make, 3)
    BY <1>2, <1>5
  <2> QED BY <1>1, <1>5, <2>1, NullFits, FromTwoPuts
<1>6. CASE Top.do = "else_end" /\ Then(0, << >>)
  <2>1. PICK a, b \in Shape : Fit(vals, a, Cur) /\ Ok(Top, a, b) /\ Runs(Tail(todo), b, Final)
    BY <1>1, TopTask
  <2>2. Leq(Plain(a), b)
    BY <1>6, <2>1, OkNoAnyIs
  <2> QED BY <1>1, <1>6, <2>1, <2>2, ThenDone
<1>7. ASSUME NEW k, NEW drop, NEW give, NEW ts, Report(k, drop, give, ts) PROVE Safe'
  BY <1>7, ReportSafe
<1> QED BY <1>3, <1>4, <1>5, <1>6, <1>7 DEF ParseElse, Doing, make

LEMMA ImportSafe == Going /\ panic /\ ParseImport => Safe'
<1> SUFFICES ASSUME Going, panic, ParseImport PROVE Safe'
  OBVIOUS
<1>1. phase = "parse" /\ todo # << >>
  BY DEF ParseImport, Doing
<1>2. Folds(Do("import_name"), 1) /\ Folds(Do("import_as"), 1)
  BY DoFolds DEF FromOne
<1>3. \A at : Fits(Node("symbol", at, << >>), "A")
  BY LeafAny DEF Strict
<1>4. CASE Top.do = "import" /\ Then(1, <<Expr(default_bp), Do("import_name")>>)
  <2>1. Top.do \in Makers
    BY <1>4 DEF Makers
  <2>2. Puts(<<Do("import_name")>>, 0 + 1)
    BY <1>2, PutsLast
  <2>3. Puts(<<Expr(default_bp)>> \o <<Do("import_name")>>, 0)
    BY <2>2, FoldsExpr, PutsMore DEF default_bp
  <2>4. Puts(<<Expr(default_bp), Do("import_name")>>, 0)
    BY <2>3, ConsTwo
  <2> QED BY <1>1, <1>4, <2>1, <2>4, MakerPuts
<1>5. CASE Top.do = "import" /\ Turn(4, 0, <<Node("symbol", pos + 3, << >>)>>, <<Do("import_as")>>)
  <2>1. Top.do \in Makers
    BY <1>5 DEF Makers
  <2>2. Puts(<<Do("import_as")>>, 1)
    BY <1>2, PutsLast
  <2> QED BY <1>1, <1>3, <1>5, <2>1, <2>2, MakerPuts
<1>6. CASE Top.do = "import_name" /\ Then(0, <<Do("import_as")>>)
  <2>1. Top.do \in FromOne
    BY <1>6 DEF FromOne
  <2>2. Puts(<<Do("import_as")>>, 1)
    BY <1>2, PutsLast
  <2> QED BY <1>1, <1>6, <2>1, <2>2, FromOnePuts
<1>7. CASE Top.do = "import_name" /\ End("crashed")
  BY <1>7 DEF End, Safe, Top
<1> DEFINE make == <<Skip({";"}), Build("import", 0)>>
<1>8. ASSUME Top.do = "import_as" PROVE Top.do \in FromOne /\ Puts(make, 2)
  <2>1. Puts(make, 2)
    BY SkipKeeps, FoldsBuild, PutsTwo
  <2> QED BY <1>8, <2>1 DEF FromOne
<1> HIDE DEF make
<1>9. CASE Top.do = "import_as" /\ Turn(2, 0, <<Node("symbol", pos + 2, << >>)>>, make)
  BY <1>1, <1>3, <1>8, <1>9, FromOnePuts
<1>10. CASE Top.do = "import_as" /\ Turn(0, 0, <<NullPtr>>, make)
  BY <1>1, <1>8, <1>10, NullFits, FromOnePuts
<1>11. ASSUME NEW k, NEW drop, NEW give, NEW ts, Report(k, drop, give, ts) PROVE Safe'
  BY <1>11, ReportSafe
<1> QED BY <1>4, <1>5, <1>6, <1>7, <1>9, <1>10, <1>11 DEF ParseImport, Doing, make

LEMMA TypeChangeSafe == Going /\ panic /\ ParseTypeChange => Safe'
<1> SUFFICES ASSUME Going, panic, ParseTypeChange PROVE Safe'
  OBVIOUS
<1>1. phase = "parse" /\ todo # << >> /\ Top.do \in Makers
  BY DEF ParseTypeChange, Doing, Makers
<1> DEFINE name == Node("symbol", pos + 2, << >>)
           make == <<Expect({";"}), Build("typechange", 0)>>
           args == <<Expect({"("}), Expr(default_bp), Expect({")"})>>
<1>2. Fits(name, "A")
  BY LeafAny DEF Strict
<1>3. Puts(make, 2)
  BY TokenKeeps, FoldsBuild, PutsTwo DEF AA
<1>4. Puts(args, 0)
  <2>1. Keeps(Expect({"("})) /\ Keeps(Expect({")"})) /\ Folds(Expr(default_bp), 0)
    BY TokenKeeps, FoldsExpr DEF AA, default_bp
  <2>2. Puts(<<Expr(default_bp), Expect({")"})>>, 0)
    BY <2>1, PutsTwo
  <2> QED BY <2>1, <2>2, PutsKeeps, ConsThree
<1> HIDE DEF name, make, args
<1>5. Puts(make, 1 + 1)
  BY <1>3
<1>6. CASE Turn(4, 0, <<name>>, args \o make)
  <2>1. Puts(args \o make, 1)
    BY <1>4, <1>5, PutsJoined
  <2> QED BY <1>1, <1>2, <1>6, <2>1, MakerPuts
<1>7. CASE Turn(3, 0, <<name>>, <<Type(default_bp)>> \o make)
  <2>1. Puts(<<Type(default_bp)>> \o make, 1)
    BY <1>5, FoldsType, PutsMore
  <2> QED BY <1>1, <1>2, <1>7, <2>1, MakerPuts
<1>8. ASSUME NEW k, NEW drop, NEW give, NEW ts, Report(k, drop, give, ts) PROVE Safe'
  BY <1>8, ReportSafe
<1> QED BY <1>6, <1>7, <1>8 DEF ParseTypeChange, name, make, args

LEMMA StmtKinds == \A kind : stmt_lu(kind) # "none" => stmt_lu(kind) \in Makers /\ stmt_lu(kind) # "condition"
BY DEF stmt_lu, Makers

LEMMA StmtSafe == Going /\ panic /\ ParseStmt => Safe'
<1> SUFFICES ASSUME Going, panic, ParseStmt PROVE Safe'
  OBVIOUS
<1>1. phase = "parse" /\ todo # << >> /\ Top.do \in Makers
  BY DEF ParseStmt, Doing, Makers
<1>2. CASE Then(0, <<Do("block")>>)
  <2>1. Puts(<<Do("block")>>, 0)
    BY DoFolds, PutsLast DEF Makers
  <2> QED BY <1>1, <1>2, <2>1, MakerPuts
<1>3. ASSUME NEW loc, Then(0, <<Expr(default_bp), With("expr_stmt", loc)>>) PROVE Safe'
  <2>1. Folds(With("expr_stmt", loc), 1) /\ Folds(Expr(default_bp), 0)
    BY WithFolds, FoldsExpr DEF FromOne, default_bp
  <2>2. Puts(<<With("expr_stmt", loc)>>, 0 + 1)
    BY <2>1, PutsLast
  <2>3. Puts(<<Expr(default_bp)>> \o <<With("expr_stmt", loc)>>, 0)
    BY <2>1, <2>2, PutsMore
  <2>4. Puts(<<Expr(default_bp), With("expr_stmt", loc)>>, 0)
    BY <2>3, ConsTwo
  <2> QED BY <1>1, <1>3, <2>4, MakerPuts
<1>4. ASSUME NEW d, d # "none", d = stmt_lu(Cur), Then(0, <<Do(d)>>) PROVE Safe'
  <2>1. d \in Makers /\ d # "condition"
    BY <1>4, StmtKinds
  <2>2. Puts(<<Do(d)>>, 0)
    BY <2>1, DoFolds, PutsLast
  <2> QED BY <1>1, <1>4, <2>2, MakerPuts
<1> QED BY <1>2, <1>3, <1>4 DEF ParseStmt

LEMMA AccessSafe == Going /\ panic /\ (ParseAccessModifier \/ ParseStatic) => Safe'
<1> SUFFICES ASSUME Going, panic, ParseAccessModifier \/ ParseStatic PROVE Safe'
  OBVIOUS
<1>1. phase = "parse" /\ todo # << >> /\ Top.do \in Makers
  BY DEF ParseAccessModifier, ParseStatic, Doing, Makers
<1>2. ASSUME NEW k \in Nat, NEW d \in {"access", "static", "member"}, NEW loc, Then(k, <<Next1(d, loc)>>) PROVE Safe'
  <2>1. Next1(d, loc).do = d
    BY DEF Next1, T
  <2>2. Folds(Next1(d, loc), 0)
    BY <2>1, FoldsMake DEF Makers
  <2>3. Puts(<<Next1(d, loc)>>, 0)
    BY <2>2, PutsLast
  <2> QED BY <1>1, <1>2, <2>3, MakerPuts
<1>3. ASSUME NEW k, NEW drop, NEW give, NEW ts, Report(k, drop, give, ts) PROVE Safe'
  BY <1>3, ReportSafe
<1>4. CASE ParseAccessModifier
  BY <1>2, <1>3, <1>4 DEF ParseAccessModifier
<1>5. CASE ParseStatic
  BY <1>2, <1>3, <1>5 DEF ParseStatic
<1> QED BY <1>4, <1>5

LEMMA RecoverSafe == Going /\ panic /\ (RecoverSemicolon \/ ParamSeparator) => Safe'
<1> SUFFICES ASSUME Going, panic, RecoverSemicolon \/ ParamSeparator PROVE Safe'
  OBVIOUS
<1>1. phase = "parse" /\ todo # << >> /\ Top.do \in Quiet
  BY DEF RecoverSemicolon, ParamSeparator, Doing, Quiet
<1>2. ASSUME NEW k \in Nat, Then(k, << >>) PROVE Safe'
  BY <1>1, <1>2, QuietDone
<1>3. ASSUME NEW k, NEW drop, NEW give, NEW ts, Report(k, drop, give, ts) PROVE Safe'
  BY <1>3, ReportSafe
<1> QED BY <1>2, <1>3 DEF RecoverSemicolon, ParamSeparator

LEMMA NotAnySafe == Going /\ panic /\ MemberNotAny => Safe'
<1> SUFFICES ASSUME Going, panic, MemberNotAny PROVE Safe'
  OBVIOUS
<1>1. phase = "parse" /\ todo # << >> /\ Top.do = "no_any"
  BY DEF MemberNotAny, Doing
<1>2. CASE Then(0, << >>)
  <2>1. PICK a, b \in Shape : Fit(vals, a, Cur) /\ Ok(Top, a, b) /\ Runs(Tail(todo), b, Final)
    BY <1>1, TopTask
  <2>2. Leq(Plain(a), b)
    BY <1>1, <2>1, OkNoAnyIs
  <2> QED BY <1>1, <1>2, <2>1, <2>2, ThenDone
<1>3. ASSUME NEW k, NEW drop, NEW give, NEW ts, Report(k, drop, give, ts) PROVE Safe'
  BY <1>3, ReportSafe
<1> QED BY <1>2, <1>3 DEF MemberNotAny

\* A declaration of the last three results.
LEMMA NamedFits ==
  ASSUME Going, NEW d \in Nat, d >= 3, Takes(d), NEW is, is \notin Printed
  PROVE  Fits(Named(is), "A")
<1>1. PICK a, b \in Shape : Fit(vals, a, Cur) /\ a.open = FALSE /\ a.n \in Nat /\ a.n >= d
  BY DEF Takes
<1>2. Fits(V(1), "A") /\ Fits(V(3), "A")
  <2>1. a.n >= 1 /\ a.n >= 3 /\ ~a.open
    BY <1>1
  <2> QED BY <1>1, <2>1, LastAre
<1> DEFINE kids == <<V(3), V(1)>>
<1>3. \A i \in DOMAIN kids : Fits(kids[i], "A")
  BY <1>2
<1> HIDE DEF kids
<1>4. Fits(Node(is, V(2).at, kids), "A")
  BY <1>3, NodeAny
<1> QED BY <1>4 DEF Named, kids

LEMMA VarMakeSafe == Going /\ panic /\ BuildVarDecl => Safe'
<1> SUFFICES ASSUME Going, panic, BuildVarDecl PROVE Safe'
  OBVIOUS
<1>1. phase = "parse" /\ todo # << >> /\ Top.do \in Typed3
  BY DEF BuildVarDecl, Doing, Typed3
<1>2. Takes(3) /\ Fits(V(3), "N")
  BY <1>1, TakesVar
<1>3. ~V(3).holed
  BY <1>2 DEF Fits
<1>4. Fits(Named("decl"), "A")
  BY <1>2, NamedFits DEF Printed
<1>5. CASE Turn(0, 3, <<Named("decl")>>, << >>)
  BY <1>1, <1>2, <1>4, <1>5, TakesDone
<1>6. ASSUME NEW k, NEW drop, NEW give, NEW ts, Report(k, drop, give, ts) PROVE Safe'
  BY <1>6, ReportSafe
<1> QED BY <1>3, <1>5, <1>6 DEF BuildVarDecl

LEMMA MakeThreeSafe == Going /\ panic /\ (BuildProperty \/ BuildParam) => Safe'
<1> SUFFICES ASSUME Going, panic, BuildProperty \/ BuildParam PROVE Safe'
  OBVIOUS
<1>1. phase = "parse" /\ todo # << >> /\ Top.do \in FromThree
  BY DEF BuildProperty, BuildParam, Doing, FromThree
<1>2. Takes(3)
  BY <1>1, TakesThree
<1>3. Fits(Named("property"), "A") /\ Fits(Named("param"), "A")
  BY <1>2, NamedFits DEF Printed
<1>4. CASE BuildParam
  <2>1. Turn(0, 3, <<Named("param")>>, << >>)
    BY <1>4 DEF BuildParam
  <2> QED BY <1>1, <1>2, <1>3, <2>1, TakesDone
<1>5. CASE BuildProperty
  <2> DEFINE next == <<Expect({";"})>>
             d == 3
             e == 1
  <2>1. Turn(0, d, <<Named("property")>>, next)
    BY <1>5 DEF BuildProperty
  <2>2. Puts(next, e)
    BY TokenKeeps, KeepsFolds, PutsLast DEF AA
  <2>3. d \in Nat /\ d <= d /\ e = d - d + 1 /\ Takes(d)
    BY <1>2
  <2> HIDE DEF next, d, e
  <2> QED BY <1>1, <1>3, <2>1, <2>2, <2>3, TakesTurn
<1> QED BY <1>4, <1>5

-----------------------------------------------------------------------------
(* Blocks and structs.                                                     *)

LEMMA BlockSafe == Going /\ panic /\ ParseBlock => Safe'
<1> SUFFICES ASSUME Going, panic, ParseBlock PROVE Safe'
  OBVIOUS
<1> DEFINE n == Len(vals)
           open == Expect({"{"})
           body == T("statements", {"}"}, n, {})
           close == Expect({"}"})
           skip == Skip({";"})
           next == <<open, body, close, skip>>
<1>1. phase = "parse" /\ todo # << >> /\ Top.do \in Makers /\ Then(0, next)
  BY DEF ParseBlock, Doing, Makers
<1>2. body.do = "statements" /\ body.n = n
  BY DEF T
<1>3. Keeps(open) /\ Keeps(close) /\ Keeps(skip)
  BY TokenKeeps, SkipKeeps DEF AA
<1> HIDE DEF open, body, close, skip
<1>4. Puts(<<close, skip>>, 1)
  BY <1>3, KeepsFolds, PutsTwo
<1>5. \A a, b \in Shape : (/\ a.open = FALSE /\ a.live = FALSE /\ a.n \in Nat /\ a.n = Len(vals)
                           /\ (Top.do = "condition" => Top.loc \in Conditions)
                           /\ Leq(At(a, a.n, "A", FALSE), b)) => Runs(next, a, b)
  <2> SUFFICES ASSUME NEW a \in Shape, NEW b \in Shape, a.open = FALSE, a.live = FALSE, a.n \in Nat, a.n = n,
                      Leq(At(a, a.n, "A", FALSE), b)
               PROVE  Runs(next, a, b)
    OBVIOUS
  <2> DEFINE m == At(a, n, "A", FALSE)
  <2>2. m \in Shape /\ m.open = FALSE /\ m.live = FALSE /\ m.n = n + 1 /\ Leq(m, m) /\ Leq(m, b)
    <3>1. n = a.n /\ Leq(m, b)
      OBVIOUS
    <3> HIDE DEF n
    <3> QED BY <3>1, Push DEF Classes
  <2> HIDE DEF m
  <2>3. Ok(body, a, m)
    <3>1. n \in Nat /\ n <= a.n /\ ~a.open
      OBVIOUS
    <3>2. Leq(At(a, n, "A", FALSE), m)
      BY <2>2 DEF m
    <3> HIDE DEF n
    <3> QED BY <1>2, <3>1, <3>2, OkStatementsIs
  <2>4. Ok(open, a, a)
    BY <1>3, LeqReflexive DEF Keeps
  <2>5. Ok(close, m, m) /\ Ok(skip, m, b)
    BY <1>3, <2>2 DEF Keeps
  <2> HIDE DEF n
  <2> QED BY <2>2, <2>3, <2>4, <2>5, RunsFour
<1> HIDE DEF next
<1> QED BY <1>1, <1>5, MakerGoes

LEMMA StatementsSafe == Going /\ panic /\ ParseStatements => Safe'
<1> SUFFICES ASSUME Going, panic, ParseStatements PROVE Safe'
  OBVIOUS
<1> DEFINE n == Top.n
<1>1. phase = "parse" /\ todo # << >> /\ Top.do = "statements"
  BY DEF ParseStatements, Doing
<1>2. PICK a, b \in Shape : Fit(vals, a, Cur) /\ Ok(Top, a, b) /\ Runs(Tail(todo), b, Final)
  BY <1>1, TopTask
<1>3. ~a.open /\ n \in Nat /\ n <= a.n /\ Leq(At(a, n, "A", FALSE), b)
  BY <1>1, <1>2, OkStatementsIs
<1>4. CASE Then(0, <<Do("stmt"), Top>>)
  <2> DEFINE p == Plain(a)
             m == At(p, p.n, "A", FALSE)
             h == p.n
  <2>1. p \in Shape /\ p.open = FALSE /\ p.live = FALSE /\ h \in Nat /\ n <= h /\ Leq(At(p, n, "A", FALSE), b)
    <3>1. p \in Shape /\ p.open = FALSE /\ p.live = FALSE /\ p.n = a.n
      BY <1>2, <1>3, PlainFits
    <3>2. Leq(At(p, n, "A", FALSE), b)
      BY <1>3 DEF Plain, At
    <3> QED BY <1>3, <3>1, <3>2 DEF Shape
  <2>2. /\ m \in Shape /\ m.open = FALSE /\ m.live = FALSE /\ m.n = h + 1 /\ Leq(m, m)
        /\ \A i \in 1 .. h : m.c[i] = p.c[i]
    <3> HIDE DEF p
    <3>1. /\ m \in Shape /\ m.open = FALSE /\ m.live = FALSE /\ m.n = p.n + 1
          /\ \A i \in 1 .. p.n : m.c[i] = p.c[i]
      BY <2>1 DEF At, Shape, Classes
    <3> HIDE DEF m
    <3>2. Leq(m, m)
      BY <3>1, LeqReflexive
    <3> QED BY <3>1, <3>2
  <2>3. Ok(Do("stmt"), p, m)
    <3>1. Folds(Do("stmt"), 0)
      BY DoFolds DEF Makers
    <3> HIDE DEF p
    <3>2. p.n - 0 = p.n /\ p.n >= 0
      BY <2>1
    <3>3. Leq(At(p, p.n - 0, "A", FALSE), m)
      BY <2>2, <3>2
    <3> HIDE DEF m
    <3> QED BY <2>1, <2>2, <3>1, <3>2, <3>3 DEF Folds
  <2> HIDE DEF p, m, h, n
  <2>4. Leq(At(m, n, "A", FALSE), b)
    <3>1. \A i \in 1 .. n : m.c[i] = p.c[i]
      <4>1. \A i \in 1 .. n : i \in 1 .. h
        BY <1>3, <2>1
      <4> QED BY <4>1, <2>2
    <3> QED BY <1>3, <2>1, <2>2, <3>1, Under
  <2>5. Ok(Top, m, b)
    <3>1. n <= m.n
      BY <1>3, <2>1, <2>2
    <3> QED BY <1>1, <1>3, <2>2, <2>4, <3>1, OkStatementsIs DEF n
  <2>6. Runs(<<Do("stmt"), Top>>, p, b)
    BY <2>1, <2>2, <2>3, <2>5, RunsTwo
  <2> QED BY <1>1, <1>2, <1>4, <2>6, ThenGoes DEF p
<1>5. CASE Turn(0, Len(vals) - n, <<Node("block", 0, Present(Above(n)))>>, << >>)
  <2> DEFINE v == Node("block", 0, Present(Above(n)))
  <2>1. Turn(0, Len(vals) - n, <<v>>, << >>)
    BY <1>5
  <2>2. Len(vals) - (Len(vals) - n) = n
    <3>1. a.n \in Nat /\ Len(vals) \in Nat
      BY <1>2, AllKept DEF Shape
    <3> QED BY <3>1, <1>3
  <2>3. Fits(v, "A")
    <3> DEFINE I == {i \in DOMAIN Above(n) : Above(n)[i] # NullPtr}
    <3>1. I \in SUBSET DOMAIN Above(n) /\ Present(Above(n)) = Those(Above(n), I)
      BY DEF Present
    <3> HIDE DEF I
    <3>2. "block" \notin Strict
      BY DEF Strict
    <3>3. Fits(Node("block", 0, Those(Above(n), I)), "A")
      BY <1>2, <1>3, <3>1, <3>2, AboveNode
    <3> QED BY <3>1, <3>3
  <2> HIDE DEF v, n
  <2>4. "A" \in Classes
    BY DEF Classes
  <2> QED BY <1>1, <1>2, <1>3, <2>1, <2>2, <2>3, <2>4, TurnDone
<1> QED BY <1>4, <1>5 DEF ParseStatements

LEMMA MembersSafe == Going /\ panic /\ ParseMembers => Safe'
<1> SUFFICES ASSUME Going, panic, ParseMembers PROVE Safe'
  OBVIOUS
<1>1. phase = "parse" /\ todo # << >> /\ Top.do \in {"params", "members"}
  BY DEF ParseMembers, Doing
<1>2. PICK a, b \in Shape : Fit(vals, a, Cur) /\ Ok(Top, a, b) /\ Runs(Tail(todo), b, Final)
  BY <1>1, TopTask
<1>3. Opens(a, b, "A")
  BY <1>1, <1>2, OkParamsIs
<1> DEFINE p == Plain(a)
<1>4. p \in Shape /\ p.open = FALSE /\ p.live = FALSE /\ Leq(p, b) /\ Opens(p, b, "A")
  BY <1>3, PlainShape, OpensLeq DEF Classes
<1>5. CASE Then(0, << >>)
  BY <1>1, <1>2, <1>4, <1>5, ThenDone
<1>6. CASE Then(0, <<Next1("access", {"first"}), Top>>)
  <2> DEFINE t == Next1("access", {"first"})
             r == At(p, p.n, "A", FALSE)
  <2>1. t.do \in Makers /\ t.do # "condition"
    BY DEF Next1, T, Makers
  <2> HIDE DEF p, t
  <2>2. r \in Shape /\ Ok(t, p, r)
    BY <1>4, <2>1, ThenMake, Push DEF Classes
  <2>3. Ok(Top, r, b)
    <3>1. Opens(r, b, "A")
      BY <1>4, OpensNext DEF Classes
    <3> HIDE DEF r
    <3> QED BY <1>1, <3>1, OkParamsIs
  <2> HIDE DEF r
  <2>4. Runs(<<t, Top>>, p, b)
    BY <1>4, <2>2, <2>3, RunsTwo
  <2> QED BY <1>1, <1>2, <1>6, <2>4, ThenGoes DEF p, t
<1> QED BY <1>5, <1>6 DEF ParseMembers

LEMMA StructMakeSafe == Going /\ panic /\ BuildStruct => Safe'
<1> SUFFICES ASSUME Going, panic, BuildStruct PROVE Safe'
  OBVIOUS
<1> DEFINE n == Top.n
           v == Node("struct", vals[n].at, Latest(Above(n)))
<1>1. phase = "parse" /\ todo # << >> /\ Top.do = "struct_make" /\ Turn(0, Len(vals) - n + 1, <<v>>, << >>)
  BY DEF BuildStruct, Doing
<1>2. PICK a, b \in Shape : Fit(vals, a, Cur) /\ Ok(Top, a, b) /\ Runs(Tail(todo), b, Final)
  BY <1>1, TopTask
<1>3. n \in Nat \ {0} /\ n <= a.n /\ Leq(At(a, n - 1, "A", FALSE), b)
  BY <1>1, <1>2, OkStructMakeIs
<1>4. /\ n - 1 \in Nat /\ n - 1 <= a.n /\ Len(vals) - (Len(vals) - n + 1) = n - 1
  <2>1. a.n \in Nat /\ Len(vals) \in Nat
    BY <1>2, AllKept DEF Shape
  <2> QED BY <2>1, <1>3
<1>5. Fits(v, "A")
  <2> DEFINE I == {i \in DOMAIN Above(n) : ~ \E j \in DOMAIN Above(n) :
                     Above(n)[j].is = Above(n)[i].is /\ Text(Above(n)[j]) = Text(Above(n)[i]) /\ Above(n)[j].at > Above(n)[i].at}
  <2>1. I \in SUBSET DOMAIN Above(n) /\ Latest(Above(n)) = Those(Above(n), I)
    BY DEF Latest
  <2> HIDE DEF I
  <2>2. "struct" \notin Strict /\ n \in Nat
    BY <1>3 DEF Strict
  <2>3. Fits(Node("struct", vals[n].at, Those(Above(n), I)), "A")
    BY <1>2, <1>3, <2>1, <2>2, AboveNode
  <2> QED BY <2>1, <2>3
<1> HIDE DEF v, n
<1>6. "A" \in Classes
  BY DEF Classes
<1> QED BY <1>1, <1>2, <1>3, <1>4, <1>5, <1>6, TurnDone

LEMMA StructRuns ==
  ASSUME NEW a \in Shape, NEW b \in Shape, a.open = FALSE, a.live = FALSE, NEW h, h = a.n,
         Leq(At(a, h, "A", FALSE), b)
  PROVE  Runs(<<Expect({"STRUCT"}), Do("name"), Expect({"{"}), T("members", {}, h + 1, {}),
                Expect({"}"}), Skip({";"}), T("struct_make", {}, h + 1, {})>>, a, b)
<1> DEFINE s == At(a, h, "A", FALSE)
           g == Grown(s, "A")
           t1 == Expect({"STRUCT"})
           t2 == Do("name")
           t3 == Expect({"{"})
           t4 == T("members", {}, h + 1, {})
           t5 == Expect({"}"})
           t6 == Skip({";"})
           t7 == T("struct_make", {}, h + 1, {})
<1>1. /\ h \in Nat /\ s \in Shape /\ s.open = FALSE /\ s.live = FALSE /\ s.n = h + 1
      /\ \A i \in 1 .. h : s.c[i] = a.c[i]
  BY DEF At, Shape, Classes
<1>2. Ok(t2, a, s)
  <2>1. t2.do \in Makers /\ t2.do # "condition"
    BY DEF Do, T, Makers
  <2> HIDE DEF t2
  <2> QED BY <2>1, ThenMake
<1>3. t4.do = "members" /\ t7.do = "struct_make" /\ t7.n = h + 1 /\ t6.do \in Quiet
  BY DEF T, Skip, Quiet
<1>4. {"STRUCT"} \cap AA = {} /\ {"{"} \cap AA = {} /\ {"}"} \cap AA = {}
  BY DEF AA
<1>5. Ok(t1, a, a)
  BY <1>4, ThenExpect
<1> HIDE DEF s
<1>6. Ok(t3, s, s)
  BY <1>1, <1>4, ThenExpect
<1>7. /\ g \in Shape /\ g.n = s.n /\ g.open = TRUE /\ g.live = FALSE
      /\ \A i \in 1 .. s.n : g.c[i] = s.c[i]
      /\ Opens(s, g, "A")
  BY <1>1, GrownIs DEF Classes
<1> HIDE DEF g
<1>8. Ok(t4, s, g)
  <2> HIDE DEF t4
  <2>1. t4.do \in {"params", "members"}
    BY <1>3
  <2> QED BY <1>7, <2>1, OkParamsIs
<1>9. Ok(t5, g, g) /\ Ok(t6, g, g)
  <2>1. Ok(t5, g, g)
    BY <1>4, <1>7, ThenExpect
  <2> HIDE DEF t6
  <2> QED BY <1>3, <1>7, <2>1, ThenQuiet
<1>10. Ok(t7, g, b)
  <2>1. \A i \in 1 .. h : g.c[i] = a.c[i]
    <3>1. \A i \in 1 .. h : i \in 1 .. s.n
      BY <1>1
    <3> QED BY <3>1, <1>1, <1>7
  <2>2. Leq(At(g, h, "A", FALSE), b)
    BY <1>1, <1>7, <2>1, Under
  <2> HIDE DEF t7
  <2>3. t7.n \in Nat \ {0} /\ t7.n <= g.n /\ t7.n - 1 = h
    <3>1. h \in Nat /\ t7.n = h + 1 /\ g.n = h + 1
      BY <1>1, <1>3, <1>7
    <3> QED BY <3>1
  <2>4. Leq(At(g, t7.n - 1, "A", FALSE), b)
    BY <2>2, <2>3
  <2> QED BY <1>3, <2>3, <2>4, OkStructMakeIs
<1> HIDE DEF t1, t2, t3, t4, t5, t6, t7
<1>11. Runs(<<t1, t2, t3, t4, t5, t6, t7>>, a, b)
  BY <1>1, <1>2, <1>5, <1>6, <1>7, <1>8, <1>9, <1>10, RunsSeven
<1> QED BY <1>11 DEF t1, t2, t3, t4, t5, t6, t7

LEMMA StructSafe == Going /\ panic /\ ParseStructDecl => Safe'
<1> SUFFICES ASSUME Going, panic, ParseStructDecl PROVE Safe'
  OBVIOUS
<1> DEFINE h == Len(vals)
           next == <<Expect({"STRUCT"}), Do("name"), Expect({"{"}), T("members", {}, h + 1, {}),
                     Expect({"}"}), Skip({";"}), T("struct_make", {}, h + 1, {})>>
<1>1. phase = "parse" /\ todo # << >> /\ Top.do \in Makers /\ Then(0, next)
  BY DEF ParseStructDecl, Doing, Makers
<1>2. \A a, b \in Shape : (/\ a.open = FALSE /\ a.live = FALSE /\ a.n \in Nat /\ a.n = Len(vals)
                           /\ (Top.do = "condition" => Top.loc \in Conditions)
                           /\ Leq(At(a, a.n, "A", FALSE), b)) => Runs(next, a, b)
  <2> SUFFICES ASSUME NEW a \in Shape, NEW b \in Shape, a.open = FALSE, a.live = FALSE, a.n = h,
                      Leq(At(a, a.n, "A", FALSE), b)
               PROVE  Runs(next, a, b)
    OBVIOUS
  <2>1. Leq(At(a, h, "A", FALSE), b)
    OBVIOUS
  <2> HIDE DEF h
  <2> QED BY <2>1, StructRuns
<1> HIDE DEF next
<1> QED BY <1>1, <1>2, MakerGoes

-----------------------------------------------------------------------------
(* Types after colons.                                                     *)

\* The colon of a type that may already be there, before tasks that put d results in one.
LEMMA ColonRuns ==
  ASSUME NEW p \in Shape, NEW b \in Shape, p.open = FALSE, p.live = FALSE, NEW d, p.n >= d,
         Leq(At(p, p.n - d, "A", FALSE), b), NEW rest, Puts(rest, d),
         NEW t, t.do = "colon", t.n \in Nat \ {0}, t.n <= p.n, p.c[t.n] # "A"
  PROVE  Runs(<<t>> \o rest, p, b)
<1>1. Plain(p) = p /\ Leq(p, p)
  BY LeqReflexive DEF Plain, Shape
<1>2. Ok(t, p, p)
  BY <1>1, OkColonIs
<1>3. Runs(<<t>>, p, p) /\ Runs(rest, p, b)
  BY <1>2, RunsOne DEF Puts
<1> QED BY <1>3, RunsJoined

LEMMA FoldsThree ==
  ASSUME NEW t, t.do \in FromThree
  PROVE  Folds(t, 3)
BY OkPropertyMakeIs DEF Folds

\* A task that makes a result of any class.
LEMMA OneMore ==
  ASSUME NEW t, Folds(t, 0), NEW a \in Shape, a.open = FALSE, a.live = FALSE, NEW h, h = a.n
  PROVE  /\ Ok(t, a, At(a, h, "A", FALSE)) /\ h \in Nat
         /\ At(a, h, "A", FALSE) \in Shape /\ At(a, h, "A", FALSE).open = FALSE
         /\ At(a, h, "A", FALSE).live = FALSE /\ At(a, h, "A", FALSE).n = h + 1
         /\ \A i \in 1 .. h : At(a, h, "A", FALSE).c[i] = a.c[i]
<1> DEFINE m == At(a, h, "A", FALSE)
<1>1. /\ h \in Nat /\ m \in Shape /\ m.open = FALSE /\ m.live = FALSE /\ m.n = h + 1
      /\ \A i \in 1 .. h : m.c[i] = a.c[i]
  BY DEF At, Shape, Classes
<1>2. Leq(m, m)
  <2> HIDE DEF m
  <2> QED BY <1>1, LeqReflexive
<1>3. a.n - 0 = h /\ a.n >= 0
  BY <1>1
<1>4. Leq(At(a, a.n - 0, "A", FALSE), m)
  BY <1>2, <1>3
<1> HIDE DEF m
<1>5. Ok(t, a, m)
  BY <1>1, <1>3, <1>4 DEF Folds
<1> QED BY <1>1, <1>5 DEF m

LEMMA VarInitSafe == Going /\ panic /\ ParseVarInit => Safe'
<1> SUFFICES ASSUME Going, panic, ParseVarInit PROVE Safe'
  OBVIOUS
<1> DEFINE t1 == Do("initializer")
           t2 == Expect({";"})
           t3 == With("var_make", Top.loc)
<1>1. phase = "parse" /\ todo # << >> /\ Top.do \in Typed2
  BY DEF ParseVarInit, Doing, Typed2
<1>2. CASE Then(0, <<t1, t2, t3>>)
  <2>1. PICK a, b \in Shape : /\ Fit(vals, a, Cur) /\ Runs(Tail(todo), b, Final) /\ Ok(Top, a, b)
                              /\ Plain(a) \in Shape /\ Plain(a).n = a.n /\ Plain(a).c = a.c
                              /\ Plain(a).open = a.open /\ Plain(a).live = FALSE /\ a.n \in Nat
    BY <1>1, ContinuedShape
  <2>2. ~a.open /\ a.n >= 2 /\ a.c[a.n - 1] # "A" /\ Leq(At(a, a.n - 2, "A", FALSE), b)
    BY <1>1, <2>1, OkVarInitIs
  <2> DEFINE p == Plain(a)
             n == p.n
             h == n - 2
             m == At(p, n, "A", FALSE)
  <2>3. p.open = FALSE /\ n \in Nat /\ h \in Nat /\ n >= 2 /\ n - 1 \in Nat /\ p.c[n - 1] # "A"
    BY <2>1, <2>2 DEF Shape
  <2>4. Leq(At(p, h, "A", FALSE), b)
    BY <2>1, <2>2 DEF Plain, At
  <2> HIDE DEF p
  <2>5. Folds(t1, 0) /\ Keeps(t2)
    BY DoFolds, TokenKeeps DEF Makers, AA
  <2>6. t3.do \in Typed3
    BY DEF With, T, Typed3
  <2> HIDE DEF t1, t2, t3
  <2>7. /\ m \in Shape /\ m.open = FALSE /\ m.live = FALSE /\ m.n = n + 1 /\ Ok(t1, p, m)
        /\ \A i \in 1 .. n : m.c[i] = p.c[i]
    BY <2>1, <2>3, <2>5, OneMore DEF p
  <2> HIDE DEF m
  <2>8. Ok(t2, m, m)
    BY <2>5, <2>7, LeqReflexive DEF Keeps
  <2>9. Ok(t3, m, b)
    <3>1. m.n - 3 = h /\ m.n - 2 = n - 1 /\ m.n >= 3 /\ n - 1 \in 1 .. n /\ (\A i \in 1 .. h : i \in 1 .. n)
      BY <2>3, <2>7
    <3> HIDE DEF n, h
    <3>2. m.c[m.n - 2] # "A"
      BY <2>3, <2>7, <3>1
    <3>3. Leq(At(m, h, "A", FALSE), b)
      <4>1. \A i \in 1 .. h : m.c[i] = p.c[i]
        BY <2>7, <3>1
      <4>2. p \in Shape /\ h \in Nat
        BY <2>1, <2>3 DEF p
      <4> QED BY <2>4, <2>7, <4>1, <4>2, Under
    <3> QED BY <2>6, <2>7, <3>1, <3>2, <3>3, OkVarMakeIs
  <2>10. Runs(<<t1, t2, t3>>, p, b)
    BY <2>1, <2>7, <2>8, <2>9, RunsThree DEF p
  <2> QED BY <1>1, <1>2, <2>1, <2>10, ThenGoes DEF p
<1>3. ASSUME NEW k, NEW drop, NEW give, NEW ts, Report(k, drop, give, ts) PROVE Safe'
  BY <1>3, ReportSafe
<1> QED BY <1>2, <1>3 DEF ParseVarInit

-----------------------------------------------------------------------------
(* Variables and parameters: a type or null, a name and a value or null.   *)

\* Task t makes the results of shape m, n all in all, of those of shape a, and
\* keeps the first h.
Adds(t, a, h, m, n) ==
  /\ Ok(t, a, m) /\ m.open = FALSE /\ m.live = FALSE /\ m.n = n /\ h \in Nat
  /\ Plain(m) = m /\ Leq(m, m) /\ \A i \in 1 .. h : m.c[i] = a.c[i]

\* One result of any class more.
LEMMA AnyMore ==
  ASSUME NEW t, Folds(t, 0), NEW a \in Shape, a.open = FALSE, a.live = FALSE
  PROVE  \E m \in Shape : Adds(t, a, a.n, m, a.n + 1)
<1> DEFINE h == a.n
           m == At(a, h, "A", FALSE)
<1>1. /\ Ok(t, a, m) /\ h \in Nat /\ m \in Shape /\ m.open = FALSE /\ m.live = FALSE /\ m.n = h + 1
      /\ \A i \in 1 .. h : m.c[i] = a.c[i]
  BY OneMore
<1> HIDE DEF m
<1>2. Plain(m) = m /\ Leq(m, m)
  BY <1>1, LeqReflexive DEF Plain, Shape
<1> HIDE DEF h
<1>3. Adds(t, a, h, m, h + 1)
  BY <1>1, <1>2 DEF Adds
<1> QED BY <1>1, <1>3 DEF h

TypeClasses == {"S", "N"}

\* A type, which is no value of any class, and a name.
LEMMA TypeAndName ==
  ASSUME NEW t, Folds(t, 0), NEW a \in Shape, a.open = FALSE, NEW h, h = a.n, NEW x \in TypeClasses
  PROVE  \E m \in Shape : Adds(t, At(a, h, x, FALSE), h, m, h + 2) /\ m.c[h + 1] # "A"
<1> DEFINE s == At(a, h, x, FALSE)
           n == s.n
<1>1. /\ h \in Nat /\ s \in Shape /\ s.open = FALSE /\ s.live = FALSE /\ s.n = h + 1 /\ s.c[h + 1] = x
  BY DEF At, Shape, Classes, TypeClasses
<1> HIDE DEF s
<1>2. PICK m \in Shape : Adds(t, s, s.n, m, s.n + 1)
  BY <1>1, AnyMore
<1> HIDE DEF n
<1>3. /\ Ok(t, s, m) /\ m.open = FALSE /\ m.live = FALSE /\ m.n = n + 1
      /\ Plain(m) = m /\ Leq(m, m) /\ \A i \in 1 .. n : m.c[i] = s.c[i]
  BY <1>2 DEF Adds, n
<1>4. n = h + 1 /\ n + 1 = h + 2 /\ h + 1 \in 1 .. n /\ \A i \in 1 .. h : i \in 1 .. n
  BY <1>1 DEF n
<1>5. m.c[h + 1] # "A" /\ \A i \in 1 .. h : m.c[i] = s.c[i]
  BY <1>1, <1>3, <1>4 DEF TypeClasses
<1>6. Adds(t, s, h, m, h + 2)
  BY <1>1, <1>3, <1>4, <1>5 DEF Adds
<1> QED BY <1>5, <1>6 DEF s

LEMMA VarRuns ==
  ASSUME NEW a \in Shape, NEW b \in Shape, a.open = FALSE, NEW h, h = a.n, Leq(At(a, h, "A", FALSE), b),
         NEW x \in TypeClasses, NEW loc
  PROVE  Runs(<<Do("name"), T("colon", {}, h + 1, {"var"}), With("var_init", loc)>>, At(a, h, x, FALSE), b)
<1> DEFINE t1 == Do("name")
           t2 == T("colon", {}, h + 1, {"var"})
           t3 == With("var_init", loc)
<1>1. Folds(t1, 0)
  BY DoFolds DEF Makers
<1>2. t2.do = "colon" /\ t2.n = h + 1 /\ t3.do \in Typed2
  BY DEF T, With, Typed2
<1> HIDE DEF t1, t2, t3
<1>a. PICK m \in Shape : Adds(t1, At(a, h, x, FALSE), h, m, h + 2) /\ m.c[h + 1] # "A"
  BY <1>1, TypeAndName
<1>b. \A i \in 1 .. h : At(a, h, x, FALSE).c[i] = a.c[i]
  <2>1. x \in Classes /\ h \in Nat /\ \A i \in 1 .. h : i \in Nat /\ i # h + 1
    BY DEF Classes, TypeClasses, Shape
  <2>2. \A i \in Nat : i # h + 1 => At(a, h, x, FALSE).c[i] = a.c[i]
    BY <2>1 DEF At, Shape
  <2> QED BY <2>1, <2>2
<1>3. /\ Ok(t1, At(a, h, x, FALSE), m)
      /\ m.open = FALSE /\ m.live = FALSE /\ m.n = h + 2 /\ h \in Nat /\ m.c[h + 1] # "A"
      /\ Plain(m) = m /\ Leq(m, m) /\ \A i \in 1 .. h : m.c[i] = a.c[i]
  BY <1>a, <1>b DEF Adds
<1>4. h + 1 \in Nat \ {0} /\ h + 1 <= m.n /\ m.n >= 2 /\ m.n - 1 = h + 1 /\ m.n - 2 = h
  BY <1>3
<1>5. Ok(t2, m, m)
  BY <1>2, <1>3, <1>4, OkColonIs
<1>6. Leq(At(m, h, "A", FALSE), b)
  BY <1>3, Under
<1>7. Ok(t3, m, b)
  BY <1>2, <1>3, <1>4, <1>6, OkVarInitIs
<1>8. At(a, h, x, FALSE) \in Shape
  BY <1>3, AtShape DEF Classes, TypeClasses
<1>9. Runs(<<t1, t2, t3>>, At(a, h, x, FALSE), b)
  BY <1>3, <1>5, <1>7, <1>8, RunsThree
<1> QED BY <1>9 DEF t1, t2, t3

LEMMA VarSafe == Going /\ panic /\ ParseVarDecl => Safe'
<1> SUFFICES ASSUME Going, panic, ParseVarDecl PROVE Safe'
  OBVIOUS
<1> DEFINE n == Len(vals)
           rest(loc) == <<Do("name"), T("colon", {}, n + 1, {"var"}), With("var_init", loc)>>
<1>1. phase = "parse" /\ todo # << >> /\ Top.do \in Makers
  BY DEF ParseVarDecl, Doing, Makers
<1>2. ASSUME NEW k \in Nat, Turn(k, 0, <<NullPtr>>, << >>) PROVE Safe'
  BY <1>1, <1>2, NullFits, MakeDone
<1>3. ASSUME NEW a \in Shape, NEW b \in Shape, a.open = FALSE, a.n = Len(vals), Leq(At(a, a.n, "A", FALSE), b),
             NEW x \in TypeClasses, NEW loc
      PROVE  Runs(rest(loc), At(a, a.n, x, FALSE), b)
  <2>1. n = a.n
    BY <1>3
  <2>2. Leq(At(a, n, "A", FALSE), b)
    BY <1>3
  <2> HIDE DEF n
  <2>3. Runs(rest(loc), At(a, n, x, FALSE), b)
    BY <1>3, <2>1, <2>2, VarRuns
  <2> QED BY <2>1, <2>3
<1> HIDE DEF rest
<1>0. "N" \in TypeClasses /\ "S" \in TypeClasses
  BY DEF TypeClasses
<1>4. ASSUME NEW k \in Nat, NEW loc, Turn(k, 0, <<NullPtr>>, rest(loc)) PROVE Safe'
  <2>1. \A a, b \in Shape : (/\ a.open = FALSE /\ a.live = FALSE /\ a.n \in Nat /\ a.n = Len(vals)
                             /\ (Top.do = "condition" => Top.loc \in Conditions)
                             /\ Leq(At(a, a.n, "A", FALSE), b)) => Runs(rest(loc), At(a, a.n, "N", FALSE), b)
    BY <1>0, <1>3
  <2>2. "N" \in Classes /\ "N" \in TypeClasses
    BY DEF Classes, TypeClasses
  <2> QED BY <1>1, <1>4, <2>1, <2>2, NullFits, MakerTurns
<1>5. ASSUME NEW k \in Nat, NEW loc, Then(k, <<Type(default_bp)>> \o rest(loc)) PROVE Safe'
  <2> DEFINE next == <<Type(default_bp)>> \o rest(loc)
  <2>1. \A a, b \in Shape : (/\ a.open = FALSE /\ a.live = FALSE /\ a.n \in Nat /\ a.n = Len(vals)
                             /\ (Top.do = "condition" => Top.loc \in Conditions)
                             /\ Leq(At(a, a.n, "A", FALSE), b)) => Runs(next, a, b)
    <3> SUFFICES ASSUME NEW a \in Shape, NEW b \in Shape, a.open = FALSE, a.n = Len(vals), a.n \in Nat,
                        Leq(At(a, a.n, "A", FALSE), b)
                 PROVE  Runs(next, a, b)
      OBVIOUS
    <3>1. Runs(rest(loc), At(a, a.n, "S", FALSE), b)
      BY <1>0, <1>3
    <3>2. Ok(Type(default_bp), a, At(a, a.n, "S", FALSE))
      BY ThenType
    <3>3. At(a, a.n, "S", FALSE) \in Shape
      BY AtShape DEF Classes
    <3>4. Runs(<<Type(default_bp)>>, a, At(a, a.n, "S", FALSE))
      BY <3>2, <3>3, RunsOne
    <3> QED BY <3>1, <3>4, RunsJoined
  <2>2. Then(k, next)
    BY <1>5
  <2> HIDE DEF next
  <2> QED BY <1>1, <2>1, <2>2, MakerGoes
<1> DEFINE u == IF Cur = "USED" THEN 1 ELSE 0
           p == u + (IF Ahead(u) \in {"LET", "CONST", "MUT"} THEN 1 ELSE 0)
           loc0 == IF Ahead(u) \in {"LET", "MUT"} THEN {} ELSE {"const"}
<1>6. u + 2 \in Nat /\ p \in Nat
  OBVIOUS
<1>7. \/ Turn(u + 2, 0, <<NullPtr>>, << >>)
      \/ Then(p, <<Type(default_bp)>> \o rest(loc0))
      \/ Turn(p, 0, <<NullPtr>>, rest(loc0))
  BY DEF ParseVarDecl, rest
<1> HIDE DEF u, p, loc0
<1> QED BY <1>2, <1>4, <1>5, <1>6, <1>7

LEMMA ParamRuns ==
  ASSUME NEW a \in Shape, NEW b \in Shape, a.open = FALSE, a.live = FALSE, Opens(a, b, "A"), NEW h, h = a.n,
         NEW x \in TypeClasses, NEW loc, NEW par, par.do \in Typed3, NEW top, top.do = "params"
  PROVE  Runs(<<Do("any_name"), T("colon", {}, h + 1, loc), Do("initializer"), par, top>>, At(a, h, x, FALSE), b)
<1> DEFINE t1 == Do("any_name")
           t2 == T("colon", {}, h + 1, loc)
           t3 == Do("initializer")
           r == At(a, h, "A", FALSE)
<1>1. Folds(t1, 0) /\ Folds(t3, 0)
  BY DoFolds DEF Makers
<1>2. t2.do = "colon" /\ t2.n = h + 1
  BY DEF T
<1> HIDE DEF t1, t2, t3
<1>a. PICK m \in Shape : Adds(t1, At(a, h, x, FALSE), h, m, h + 2) /\ m.c[h + 1] # "A"
  BY <1>1, TypeAndName
<1>b. \A i \in 1 .. h : At(a, h, x, FALSE).c[i] = a.c[i]
  <2>1. x \in Classes /\ h \in Nat /\ \A i \in 1 .. h : i \in Nat /\ i # h + 1
    BY DEF Classes, TypeClasses, Shape
  <2>2. \A i \in Nat : i # h + 1 => At(a, h, x, FALSE).c[i] = a.c[i]
    BY <2>1 DEF At, Shape
  <2> QED BY <2>1, <2>2
<1>3. /\ Ok(t1, At(a, h, x, FALSE), m)
      /\ m.open = FALSE /\ m.live = FALSE /\ m.n = h + 2 /\ h \in Nat /\ m.c[h + 1] # "A"
      /\ Plain(m) = m /\ Leq(m, m) /\ \A i \in 1 .. h : m.c[i] = a.c[i]
  BY <1>a, <1>b DEF Adds
<1>4. h + 1 \in Nat \ {0} /\ h + 1 <= m.n
  BY <1>3
<1>5. Ok(t2, m, m)
  BY <1>2, <1>3, <1>4, OkColonIs
<1> DEFINE n == m.n
<1>c. PICK q \in Shape : Adds(t3, m, m.n, q, m.n + 1)
  BY <1>1, <1>3, AnyMore
<1>6. /\ Ok(t3, m, q) /\ q.open = FALSE /\ q.live = FALSE /\ q.n = n + 1
      /\ \A i \in 1 .. n : q.c[i] = m.c[i]
  BY <1>c DEF Adds
<1>7. n = h + 2 /\ h + 1 \in 1 .. n /\ q.n >= 3 /\ q.n - 2 = h + 1 /\ q.n - 3 = h /\ \A i \in 1 .. h : i \in 1 .. n
  BY <1>3, <1>6
<1> HIDE DEF n
<1>8. q.c[h + 1] # "A" /\ \A i \in 1 .. h : q.c[i] = a.c[i]
  BY <1>3, <1>6, <1>7
<1>9. r \in Shape /\ Leq(At(a, h, "A", FALSE), r)
  BY <1>3, AtNext, Push DEF Classes
<1>10. Ok(top, r, b)
  <2>1. Opens(r, b, "A")
    BY OpensNext DEF Classes
  <2> HIDE DEF r
  <2> QED BY <2>1, OkParamsIs
<1> HIDE DEF r
<1>11. Leq(At(q, h, "A", FALSE), r)
  BY <1>3, <1>8, <1>9, Under
<1>12. Ok(par, q, r)
  BY <1>6, <1>7, <1>8, <1>11, OkVarMakeIs
<1>13. At(a, h, x, FALSE) \in Shape
  BY <1>3, AtShape DEF Classes, TypeClasses
<1>14. Runs(<<t1, t2, t3, par, top>>, At(a, h, x, FALSE), b)
  BY <1>3, <1>5, <1>6, <1>9, <1>10, <1>12, <1>13, RunsFive
<1> QED BY <1>14 DEF t1, t2, t3

LEMMA ParamsSafe == Going /\ panic /\ ParseParams => Safe'
<1> SUFFICES ASSUME Going, panic, ParseParams PROVE Safe'
  OBVIOUS
<1> DEFINE n == Len(vals)
           rest(loc) == <<Do("any_name"), T("colon", {}, n + 1, loc), Do("initializer"), Next1("param", Top.loc), Top>>
<1>1. phase = "parse" /\ todo # << >> /\ Top.do \in {"params", "members"} /\ Top.do = "params"
  BY DEF ParseParams, Doing
<1>2. PICK a, b \in Shape : Fit(vals, a, Cur) /\ Ok(Top, a, b) /\ Runs(Tail(todo), b, Final)
  BY <1>1, TopTask
<1>3. Opens(a, b, "A")
  BY <1>1, <1>2, OkParamsIs
<1> DEFINE p == Plain(a)
<1>4. p \in Shape /\ p.open = FALSE /\ p.live = FALSE /\ Leq(p, b) /\ Opens(p, b, "A")
  BY <1>3, PlainShape, OpensLeq DEF Classes
<1>5. n = p.n /\ n = a.n /\ n \in Nat /\ \A x : At(p, n, x, FALSE) = At(a, n, x, FALSE)
  BY <1>2, <1>3, LastAre DEF Opens, Plain, At
<1> HIDE DEF p
<1>6. ASSUME NEW x \in TypeClasses, NEW loc PROVE Runs(rest(loc), At(p, n, x, FALSE), b)
  <2> DEFINE par == Next1("param", Top.loc)
  <2>1. par.do \in Typed3
    BY DEF Next1, T, Typed3
  <2> HIDE DEF par, n
  <2>2. Runs(<<Do("any_name"), T("colon", {}, n + 1, loc), Do("initializer"), par, Top>>, At(p, n, x, FALSE), b)
    BY <1>1, <1>4, <1>5, <2>1, ParamRuns
  <2> QED BY <2>2 DEF par
<1> HIDE DEF rest
<1>0. "N" \in TypeClasses /\ "S" \in TypeClasses
  BY DEF TypeClasses
<1>7. CASE Then(0, << >>)
  BY <1>1, <1>2, <1>4, <1>7, ThenDone DEF p
<1>8. ASSUME NEW k \in Nat, NEW loc, Turn(k, 0, <<NullPtr>>, rest(loc)) PROVE Safe'
  <2>1. Runs(rest(loc), At(a, n, "N", FALSE), b)
    BY <1>0, <1>5, <1>6
  <2>2. "N" \in Classes /\ n <= a.n /\ n \in Nat /\ Len(vals) - 0 = n
    BY <1>5 DEF Classes
  <2> HIDE DEF n
  <2> QED BY <1>1, <1>2, <1>8, <2>1, <2>2, NullFits, TurnGoes
<1>9. ASSUME NEW k \in Nat, NEW loc, Then(k, <<Type(default_bp)>> \o rest(loc)) PROVE Safe'
  <2> DEFINE next == <<Type(default_bp)>> \o rest(loc)
  <2>1. Runs(next, p, b)
    <3> HIDE DEF n
    <3>1. Runs(rest(loc), At(p, n, "S", FALSE), b)
      BY <1>0, <1>6
    <3>2. Ok(Type(default_bp), p, At(p, n, "S", FALSE))
      BY <1>4, <1>5, ThenType
    <3>3. At(p, n, "S", FALSE) \in Shape
      BY <1>4, <1>5, AtShape DEF Classes
    <3>4. Runs(<<Type(default_bp)>>, p, At(p, n, "S", FALSE))
      BY <1>4, <3>2, <3>3, RunsOne
    <3> QED BY <3>1, <3>4, RunsJoined
  <2>2. Then(k, next)
    BY <1>9
  <2> HIDE DEF next
  <2> QED BY <1>1, <1>2, <2>1, <2>2, ThenGoes DEF p
<1>10. ASSUME NEW k, NEW drop, NEW give, NEW ts, Report(k, drop, give, ts) PROVE Safe'
  BY <1>10, ReportSafe
<1> DEFINE method == "method" \in Top.loc
           c == IF Cur = "CONST" THEN 1 ELSE 0
           k0 == c + (IF Ahead(c) = "ALIAS" THEN 1 ELSE 0)
           stops == IF method THEN {")", ","} ELSE {")", ",", ";"}
           loc0 == {f \in {"alias", "fn"} : IF f = "alias" THEN k0 > c ELSE ~method}
<1>11. k0 \in Nat
  OBVIOUS
<1>12. \/ Then(0, << >>)
       \/ Report(k0, 0, << >>, <<Until(stops), Top>>)
       \/ Then(k0, <<Type(default_bp)>> \o rest(loc0))
       \/ Turn(k0, 0, <<NullPtr>>, rest(loc0))
  BY DEF ParseParams, rest
<1> HIDE DEF k0, loc0, stops
<1> QED BY <1>7, <1>8, <1>9, <1>10, <1>11, <1>12

-----------------------------------------------------------------------------
(* The rest of a declaration, whose type may follow.                       *)

TakesTyped(d) == \E a, b \in Shape : /\ Fit(vals, a, Cur) /\ Runs(Tail(todo), b, Final) /\ a.open = FALSE
                                     /\ a.n \in Nat /\ a.n >= d /\ a.n = Len(vals) /\ a.c[a.n - d + 1] # "A"
                                     /\ Leq(At(a, a.n - d, "A", FALSE), b)

LEMMA TakesTypedIs ==
  ASSUME Going, todo # << >>
  PROVE  /\ Top.do \in Typed2 => TakesTyped(2)
         /\ Top.do \in Typed3 => TakesTyped(3)
<1>1. PICK a, b \in Shape : /\ Fit(vals, a, Cur) /\ Runs(Tail(todo), b, Final) /\ Ok(Top, a, b)
                            /\ a.n \in Nat /\ (~a.open => a.n = Len(vals))
  BY ContinuedShape
<1>2. ASSUME Top.do \in Typed2 PROVE TakesTyped(2)
  <2>1. ~a.open /\ a.n >= 2 /\ a.c[a.n - 1] # "A" /\ Leq(At(a, a.n - 2, "A", FALSE), b)
    BY <1>1, <1>2, OkVarInitIs
  <2>2. a.open = FALSE /\ a.n - 2 + 1 = a.n - 1
    BY <1>1, <2>1 DEF Shape
  <2> QED BY <1>1, <2>1, <2>2 DEF TakesTyped
<1>3. ASSUME Top.do \in Typed3 PROVE TakesTyped(3)
  <2>1. ~a.open /\ a.n >= 3 /\ a.c[a.n - 2] # "A" /\ Leq(At(a, a.n - 3, "A", FALSE), b)
    BY <1>1, <1>3, OkVarMakeIs
  <2>2. a.open = FALSE /\ a.n - 3 + 1 = a.n - 2
    BY <1>1, <2>1 DEF Shape
  <2> QED BY <1>1, <2>1, <2>2 DEF TakesTyped
<1> QED BY <1>2, <1>3

LEMMA TypedThen ==
  ASSUME Going, phase = "parse", todo # << >>, NEW d, TakesTyped(d), NEW k \in Nat, NEW next, Then(k, next),
         \A a, b \in Shape : (/\ a.open = FALSE /\ a.live = FALSE /\ a.n \in Nat /\ a.n >= d /\ a.n = Len(vals)
                              /\ a.c[a.n - d + 1] # "A"
                              /\ Leq(At(a, a.n - d, "A", FALSE), b)) => Runs(next, a, b)
  PROVE  Safe'
<1>1. PICK a, b \in Shape : /\ Fit(vals, a, Cur) /\ Runs(Tail(todo), b, Final) /\ a.open = FALSE
                            /\ a.n \in Nat /\ a.n >= d /\ a.n = Len(vals) /\ a.c[a.n - d + 1] # "A"
                            /\ Leq(At(a, a.n - d, "A", FALSE), b)
  BY DEF TakesTyped
<1> DEFINE p == Plain(a)
<1>2. p \in Shape /\ p.open = FALSE /\ p.live = FALSE /\ p.n = a.n /\ p.c = a.c
  BY <1>1, PlainShape
<1>3. Leq(At(p, p.n - d, "A", FALSE), b)
  BY <1>1, <1>2 DEF Plain, At
<1> HIDE DEF p
<1>4. Runs(next, p, b)
  BY <1>1, <1>2, <1>3
<1> QED BY <1>1, <1>4, ThenGoes DEF p

\* A colon and what puts the last d results in one.
LEMMA TypedColon ==
  ASSUME Going, phase = "parse", todo # << >>, NEW d \in Nat \ {0}, TakesTyped(d),
         NEW t, t.do = "colon", t.n = Len(vals) - d + 1, NEW rest, Puts(rest, d), NEW next, next = <<t>> \o rest,
         Then(0, next)
  PROVE  Safe'
<1>1. \A a, b \in Shape : (/\ a.open = FALSE /\ a.live = FALSE /\ a.n \in Nat /\ a.n >= d /\ a.n = Len(vals)
                           /\ a.c[a.n - d + 1] # "A"
                           /\ Leq(At(a, a.n - d, "A", FALSE), b)) => Runs(next, a, b)
  <2> SUFFICES ASSUME NEW a \in Shape, NEW b \in Shape, a.open = FALSE, a.live = FALSE, a.n \in Nat, a.n >= d,
                      a.n = Len(vals), a.c[a.n - d + 1] # "A", Leq(At(a, a.n - d, "A", FALSE), b)
               PROVE  Runs(next, a, b)
    OBVIOUS
  <2>1. t.n \in Nat \ {0} /\ t.n <= a.n /\ a.c[t.n] # "A"
    OBVIOUS
  <2>2. Runs(<<t>> \o rest, a, b)
    BY <2>1, ColonRuns
  <2> QED BY <2>2
<1> QED BY <1>1, TypedThen

LEMMA ParamSafe == Going /\ panic /\ ParseParam => Safe'
<1> SUFFICES ASSUME Going, panic, ParseParam PROVE Safe'
  OBVIOUS
<1>1. phase = "parse" /\ todo # << >> /\ Top.do \in Typed3
  BY DEF ParseParam, Doing, Typed3
<1>2. Takes(3) /\ TakesTyped(3)
  BY <1>1, TakesVar, TakesTypedIs
<1>3. ASSUME NEW k, NEW drop, NEW give, NEW ts, Report(k, drop, give, ts) PROVE Safe'
  BY <1>3, ReportSafe
<1>4. CASE Turn(0, 3, <<Named("param")>>, <<Skip({","})>>)
  <2> DEFINE next == <<Skip({","})>>
             d == 3
             e == 1
  <2>1. Puts(next, e)
    BY SkipKeeps, KeepsFolds, PutsLast
  <2>2. Turn(0, d, <<Named("param")>>, next)
    BY <1>4
  <2>3. d \in Nat /\ d <= d /\ e = d - d + 1 /\ Takes(d)
    BY <1>2
  <2>4. Fits(Named("param"), "A")
    BY <1>2, NamedFits DEF Printed
  <2> HIDE DEF next, d, e
  <2> QED BY <1>1, <2>1, <2>2, <2>3, <2>4, TakesTurn
<1>5. CASE Then(0, <<T("colon", {}, Len(vals) - 2, {}), Do("param_make"), Do("param_end")>>)
  <2> DEFINE t1 == T("colon", {}, Len(vals) - 2, {})
             t2 == Do("param_make")
             t3 == Do("param_end")
             rest == <<t2, t3>>
             next == <<t1, t2, t3>>
             d == 3
  <2>1. t1.do = "colon" /\ t1.n = Len(vals) - 2 /\ t2.do \in FromThree
    BY DEF T, Do, FromThree
  <2>2. Keeps(t3)
    BY DoFolds DEF Quiet
  <2>3. Then(0, next)
    BY <1>5
  <2> HIDE DEF t1, t2, t3
  <2>4. Folds(t2, d)
    BY <2>1, FoldsThree
  <2>5. d \in Nat \ {0} /\ d \in Nat /\ TakesTyped(d)
    BY <1>2
  <2>6. next = <<t1>> \o rest
    BY ConsThree
  <2>7. t1.n = Len(vals) - d + 1
    <3>1. Len(vals) \in Nat
      BY <1>2 DEF Takes
    <3> QED BY <2>1, <3>1
  <2> HIDE DEF d
  <2>8. Puts(rest, d)
    BY <2>2, <2>4, <2>5, PutsTwo
  <2> HIDE DEF rest, next
  <2> QED BY <1>1, <2>1, <2>3, <2>5, <2>6, <2>7, <2>8, TypedColon
<1> QED BY <1>3, <1>4, <1>5 DEF ParseParam

-----------------------------------------------------------------------------
(* Functions and methods.                                                  *)

LEMMA RoutineRuns ==
  ASSUME NEW a \in Shape, NEW b \in Shape, a.open = FALSE, a.live = FALSE, NEW n, n = a.n, NEW h \in Nat, n = h + 2,
         a.c[h + 1] # "A", Leq(At(a, h, "A", FALSE), b), NEW flags, NEW loc,
         NEW is, is \in {{"func"}, {"method"}}
  PROVE  Runs(<<Expect({"("}), T("params", {}, n, flags), Expect({")"}), T("colon", {}, n - 1, {}),
                With("body", loc), T("routine", {}, n, is)>>, a, b)
<1> DEFINE g == Grown(a, "A")
           t1 == Expect({"("})
           t2 == T("params", {}, n, flags)
           t3 == Expect({")"})
           t4 == T("colon", {}, n - 1, {})
           t5 == With("body", loc)
           t6 == T("routine", {}, n, is)
<1>1. t2.do = "params" /\ t4.do = "colon" /\ t4.n = n - 1 /\ t5.do = "body"
  BY DEF T, With
<1>2. t6.do = "routine" /\ t6.n = n /\ t6.loc = is
  BY DEF T
<1>3. n \in Nat /\ n - 1 \in Nat \ {0} /\ n - 1 = h + 1 /\ n - 2 = h /\ 2 <= n
  OBVIOUS
<1>4. {"("} \cap AA = {} /\ {")"} \cap AA = {}
  BY DEF AA
<1>5. /\ g \in Shape /\ g.n = n /\ g.open = TRUE /\ g.live = FALSE
      /\ \A i \in 1 .. n : g.c[i] = a.c[i]
      /\ \A i \in Nat : i > n => g.c[i] = "A"
      /\ Opens(a, g, "A")
  <2>1. /\ g \in Shape /\ g.n = a.n /\ g.open = TRUE /\ g.live = FALSE
        /\ \A i \in 1 .. a.n : g.c[i] = a.c[i]
        /\ \A i \in Nat : i > a.n => g.c[i] = "A"
        /\ Opens(a, g, "A")
    <3>1. "A" \in Classes
      BY DEF Classes
    <3> QED BY <3>1, GrownIs
  <2> HIDE DEF g
  <2> QED BY <2>1
<1>6. Opens(Exact(g, g.n), g, "A")
  BY <1>5 DEF Opens, Exact, Sub, Shape
<1>7. Plain(g) = g /\ Leq(g, g)
  BY <1>5, LeqReflexive DEF Plain, Grown
<1> HIDE DEF g, t1, t2, t3, t4, t5, t6
<1>8. Ok(t1, a, a) /\ Ok(t3, g, g)
  BY <1>4, <1>5, ThenExpect DEF t1, t3
<1>9. Ok(t2, a, g)
  BY <1>1, <1>5, OkParamsIs
<1>10. h + 1 \in 1 .. n /\ \A i \in 1 .. h : i \in 1 .. n
  BY <1>3
<1>11. Ok(t4, g, g)
  <2>1. t4.n \in Nat \ {0} /\ t4.n <= g.n /\ g.c[t4.n] # "A"
    BY <1>1, <1>3, <1>5, <1>10
  <2> QED BY <1>1, <1>7, <2>1, OkColonIs
<1>12. Ok(t5, g, g)
  <2>1. \A i \in Nat : i > g.n => g.c[i] = "A"
    BY <1>5
  <2> QED BY <1>1, <1>5, <1>6, <2>1, OkBodyIs
<1>13. Ok(t6, g, b)
  <2>1. \A i \in 1 .. h : g.c[i] = a.c[i]
    BY <1>5, <1>10
  <2>2. Leq(At(g, h, "A", FALSE), b)
    BY <1>5, <2>1, Under
  <2>3. t6.n \in Nat /\ 2 <= t6.n /\ t6.n <= g.n /\ t6.n - 2 = h /\ t6.loc \in {{"func"}, {"method"}}
    BY <1>2, <1>3, <1>5
  <2>4. Leq(At(g, t6.n - 2, "A", FALSE), b)
    BY <2>2, <2>3
  <2> QED BY <1>2, <2>3, <2>4, OkRoutineIs
<1>14. Runs(<<t1, t2, t3, t4, t5, t6>>, a, b)
  BY <1>5, <1>8, <1>9, <1>11, <1>12, <1>13, RunsSix
<1> QED BY <1>14 DEF t1, t2, t3, t4, t5, t6

LEMMA RoutineSafe == Going /\ panic /\ BuildRoutine => Safe'
<1> SUFFICES ASSUME Going, panic, BuildRoutine PROVE Safe'
  OBVIOUS
<1> DEFINE n == Top.n
           kids == <<vals[n - 1]>> \o Above(n)
<1>1. phase = "parse" /\ todo # << >> /\ Top.do = "routine"
  BY DEF BuildRoutine, Doing
<1>2. PICK is \in Top.loc : Turn(0, Len(vals) - n + 2, <<Node(is, vals[n].at, kids)>>, << >>)
  BY DEF BuildRoutine
<1>3. PICK a, b \in Shape : Fit(vals, a, Cur) /\ Ok(Top, a, b) /\ Runs(Tail(todo), b, Final)
  BY <1>1, TopTask
<1>4. /\ Top.loc \in {{"func"}, {"method"}} /\ n \in Nat /\ 2 <= n /\ n <= a.n
      /\ Leq(At(a, n - 2, "A", FALSE), b)
  BY <1>1, <1>3, OkRoutineIs
<1>5. is \notin Printed /\ "A" \in Classes
  BY <1>2, <1>4 DEF Printed, Classes
<1>6. a.n \in Nat /\ Len(vals) \in Nat /\ n <= Len(vals)
  BY <1>3, <1>4, AllKept, AboveFit DEF Shape
<1>7. /\ n - 2 \in Nat /\ n - 2 <= a.n /\ Len(vals) - (Len(vals) - n + 2) = n - 2 /\ n - 1 \in 1 .. Len(vals)
  BY <1>4, <1>6
<1> DEFINE v == Node(is, vals[n].at, kids)
<1>8. Fits(v, "A")
  <2>1. Fits(vals[n - 1], "A")
    BY <1>3, <1>7 DEF Fit, Fits
  <2>2. IsSeq(Above(n)) /\ \A i \in DOMAIN Above(n) : Fits(Above(n)[i], "A")
    BY <1>3, <1>4, <1>6, AboveAre, AboveFit
  <2> DEFINE u == vals[n - 1]
             s == Above(n)
  <2> HIDE DEF u, s, n
  <2>3. PICK S : s \in Seq(S)
    BY <2>2 DEF IsSeq, s
  <2>4. <<u>> \in Seq(S \cup {u}) /\ s \in Seq(S \cup {u})
    BY <2>3
  <2>5. \A i \in DOMAIN (<<u>> \o s) : (<<u>> \o s)[i] = u \/ \E j \in DOMAIN s : (<<u>> \o s)[i] = s[j]
    <3> SUFFICES ASSUME NEW i \in 1 .. 1 + Len(s)
                 PROVE  (<<u>> \o s)[i] = u \/ \E j \in DOMAIN s : (<<u>> \o s)[i] = s[j]
      BY <2>4
    <3>1. CASE i = 1
      BY <2>4, <3>1
    <3>2. CASE i # 1
      <4>1. i - 1 \in DOMAIN s /\ (<<u>> \o s)[i] = s[i - 1]
        BY <2>4, <3>2
      <4> QED BY <4>1
    <3> QED BY <3>1, <3>2
  <2>6. \A i \in DOMAIN kids : Fits(kids[i], "A")
    BY <2>1, <2>2, <2>5 DEF u, s
  <2> HIDE DEF kids
  <2> QED BY <1>5, <2>6, NodeAny
<1> HIDE DEF v, n
<1>9. Turn(0, Len(vals) - n + 2, <<v>>, << >>)
  BY <1>2 DEF v
<1> QED BY <1>1, <1>3, <1>4, <1>5, <1>7, <1>8, <1>9, TurnDone

\* A name, and the rest of a method or a property.
LEMMA MemberRuns ==
  ASSUME NEW a \in Shape, NEW b \in Shape, a.open = FALSE, NEW h, h = a.n, Leq(At(a, h, "A", FALSE), b),
         NEW x \in TypeClasses, NEW t, t.do = "member_name"
  PROVE  Runs(<<Do("any_name"), t>>, At(a, h, x, FALSE), b)
<1> DEFINE t1 == Do("any_name")
           s == At(a, h, x, FALSE)
<1>1. Folds(t1, 0)
  BY DoFolds DEF Makers
<1>2. t.do \in Typed2
  BY DEF Typed2
<1> HIDE DEF t1
<1>3. PICK m \in Shape : Adds(t1, s, h, m, h + 2) /\ m.c[h + 1] # "A"
  BY <1>1, TypeAndName
<1>4. h \in Nat /\ s \in Shape /\ \A i \in 1 .. h : s.c[i] = a.c[i]
  BY DEF At, Shape, Classes, TypeClasses
<1> HIDE DEF s
<1>5. Ok(t1, s, m) /\ m.open = FALSE /\ m.n = h + 2 /\ \A i \in 1 .. h : m.c[i] = a.c[i]
  BY <1>3, <1>4 DEF Adds
<1>6. m.n >= 2 /\ m.n - 1 = h + 1 /\ m.n - 2 = h
  BY <1>4, <1>5
<1>7. Leq(At(m, h, "A", FALSE), b)
  BY <1>4, <1>5, Under
<1>8. Ok(t, m, b)
  BY <1>2, <1>3, <1>5, <1>6, <1>7, OkVarInitIs
<1>9. Runs(<<t1, t>>, s, b)
  BY <1>4, <1>5, <1>8, RunsTwo
<1> QED BY <1>9 DEF t1, s

LEMMA MemberSafe == Going /\ panic /\ ParseMember => Safe'
<1> SUFFICES ASSUME Going, panic, ParseMember PROVE Safe'
  OBVIOUS
<1> DEFINE c == IF Cur = "CONST" THEN 1 ELSE 0
           method == Ahead(c) = "FN" \/ Ahead(c + 1) = "(" \/ Ahead(c + 2) = "("
           k == c + (IF method /\ Ahead(c + 1) # "(" THEN 1 ELSE 0)
           t == Next1("member_name", IF method THEN {"method"} ELSE {})
           name == <<Do("any_name"), t>>
           first == <<Type(default_bp), Do("no_any")>>
           next == first \o name
<1>1. phase = "parse" /\ todo # << >> /\ Top.do \in Makers
  BY DEF ParseMember, Doing, Makers
<1>2. k \in Nat /\ t.do = "member_name"
  BY DEF Next1, T
<1>3. Then(k, next) \/ Turn(k, 0, <<NullPtr>>, name)
  BY DEF ParseMember
<1> HIDE DEF k, t
<1>4. ASSUME NEW a \in Shape, NEW b \in Shape, a.open = FALSE, a.n \in Nat, Leq(At(a, a.n, "A", FALSE), b),
             NEW x \in TypeClasses
      PROVE  Runs(name, At(a, a.n, x, FALSE), b)
  BY <1>2, <1>4, MemberRuns
<1>5. "N" \in TypeClasses /\ "S" \in TypeClasses /\ "N" \in Classes
  BY DEF TypeClasses, Classes
<1> HIDE DEF name
<1>6. CASE Turn(k, 0, <<NullPtr>>, name)
  <2>1. \A a, b \in Shape : (/\ a.open = FALSE /\ a.live = FALSE /\ a.n \in Nat /\ a.n = Len(vals)
                             /\ (Top.do = "condition" => Top.loc \in Conditions)
                             /\ Leq(At(a, a.n, "A", FALSE), b)) => Runs(name, At(a, a.n, "N", FALSE), b)
    BY <1>4, <1>5
  <2> QED BY <1>1, <1>2, <1>5, <1>6, <2>1, NullFits, MakerTurns
<1>7. CASE Then(k, next)
  <2>1. \A a, b \in Shape : (/\ a.open = FALSE /\ a.live = FALSE /\ a.n \in Nat /\ a.n = Len(vals)
                             /\ (Top.do = "condition" => Top.loc \in Conditions)
                             /\ Leq(At(a, a.n, "A", FALSE), b)) => Runs(next, a, b)
    <3> SUFFICES ASSUME NEW a \in Shape, NEW b \in Shape, a.open = FALSE, a.n \in Nat,
                        Leq(At(a, a.n, "A", FALSE), b)
                 PROVE  Runs(next, a, b)
      OBVIOUS
    <3> DEFINE q == At(a, a.n, "S", FALSE)
    <3>1. Runs(name, q, b)
      BY <1>4, <1>5
    <3>2. Ok(Type(default_bp), a, q)
      BY ThenType
    <3>3. q \in Shape /\ q.open = FALSE /\ q.live = FALSE /\ q.n >= 1 /\ Plain(q) = q
      BY DEF At, Shape, Classes, Plain
    <3> HIDE DEF q
    <3>4. Ok(Do("no_any"), q, q)
      <4> DEFINE u == Do("no_any")
      <4>1. u.do \in {"no_any", "else_end"}
        BY DEF Do, T
      <4>2. Leq(Plain(q), q)
        BY <3>3, LeqReflexive
      <4> HIDE DEF u
      <4>3. Ok(u, q, q)
        BY <3>3, <4>1, <4>2, OkNoAnyIs
      <4> QED BY <4>3 DEF u
    <3>5. Runs(first, a, q)
      BY <3>2, <3>3, <3>4, RunsTwo
    <3> HIDE DEF first
    <3> QED BY <3>1, <3>5, RunsJoined
  <2> HIDE DEF next
  <2> QED BY <1>1, <1>2, <1>7, <2>1, MakerGoes
<1> QED BY <1>3, <1>6, <1>7

\* A list of six tasks, one before them and one after.
LEMMA SnocSix ==
  ASSUME NEW t, NEW u, NEW v, NEW w, NEW x, NEW y, NEW z
  PROVE  <<t, u, v, w, x, y>> \o <<z>> = <<t, u, v, w, x, y, z>>
<1>1. /\ <<t, u, v, w, x, y>> \in Seq({t, u, v, w, x, y, z}) /\ <<z>> \in Seq({t, u, v, w, x, y, z}) /\ <<t, u, v, w, x, y, z>> \in Seq({t, u, v, w, x, y, z})
      /\ Len(<<t, u, v, w, x, y>>) = 6 /\ Len(<<z>>) = 1 /\ Len(<<t, u, v, w, x, y, z>>) = 7
  OBVIOUS
<1>2. /\ <<t, u, v, w, x, y>> \o <<z>> \in Seq({t, u, v, w, x, y, z}) /\ Len(<<t, u, v, w, x, y>> \o <<z>>) = 7
      /\ (<<t, u, v, w, x, y>> \o <<z>>)[1] = t
      /\ (<<t, u, v, w, x, y>> \o <<z>>)[2] = u
      /\ (<<t, u, v, w, x, y>> \o <<z>>)[3] = v
      /\ (<<t, u, v, w, x, y>> \o <<z>>)[4] = w
      /\ (<<t, u, v, w, x, y>> \o <<z>>)[5] = x
      /\ (<<t, u, v, w, x, y>> \o <<z>>)[6] = y
      /\ (<<t, u, v, w, x, y>> \o <<z>>)[7] = z
  BY <1>1
<1>3. \A q \in 1 .. 7 : (<<t, u, v, w, x, y>> \o <<z>>)[q] = <<t, u, v, w, x, y, z>>[q]
  BY <1>2
<1> QED BY <1>1, <1>2, <1>3, SeqEqual

LEMMA ConsEight ==
  ASSUME NEW s, NEW t, NEW u, NEW v, NEW w, NEW x, NEW y, NEW z
  PROVE  <<s>> \o <<t, u, v, w, x, y, z>> = <<s, t, u, v, w, x, y, z>>
<1>1. /\ <<s>> \in Seq({s, t, u, v, w, x, y, z}) /\ <<t, u, v, w, x, y, z>> \in Seq({s, t, u, v, w, x, y, z}) /\ <<s, t, u, v, w, x, y, z>> \in Seq({s, t, u, v, w, x, y, z})
      /\ Len(<<s>>) = 1 /\ Len(<<t, u, v, w, x, y, z>>) = 7 /\ Len(<<s, t, u, v, w, x, y, z>>) = 8
  OBVIOUS
<1>2. /\ <<s>> \o <<t, u, v, w, x, y, z>> \in Seq({s, t, u, v, w, x, y, z}) /\ Len(<<s>> \o <<t, u, v, w, x, y, z>>) = 8
      /\ (<<s>> \o <<t, u, v, w, x, y, z>>)[1] = s
      /\ (<<s>> \o <<t, u, v, w, x, y, z>>)[2] = t
      /\ (<<s>> \o <<t, u, v, w, x, y, z>>)[3] = u
      /\ (<<s>> \o <<t, u, v, w, x, y, z>>)[4] = v
      /\ (<<s>> \o <<t, u, v, w, x, y, z>>)[5] = w
      /\ (<<s>> \o <<t, u, v, w, x, y, z>>)[6] = x
      /\ (<<s>> \o <<t, u, v, w, x, y, z>>)[7] = y
      /\ (<<s>> \o <<t, u, v, w, x, y, z>>)[8] = z
  BY <1>1
<1>3. \A q \in 1 .. 8 : (<<s>> \o <<t, u, v, w, x, y, z>>)[q] = <<s, t, u, v, w, x, y, z>>[q]
  BY <1>2
<1> QED BY <1>1, <1>2, <1>3, SeqEqual

LEMMA MemberNameSafe == Going /\ panic /\ ParseMemberName => Safe'
<1> SUFFICES ASSUME Going, panic, ParseMemberName PROVE Safe'
  OBVIOUS
<1> DEFINE at == Len(vals)
           colon == T("colon", {}, at - 1, {"member"})
<1>1. phase = "parse" /\ todo # << >> /\ Top.do \in Typed2
  BY DEF ParseMemberName, Doing, Typed2
<1>2. Takes(2) /\ TakesTyped(2)
  BY <1>1, TakesVar, TakesTypedIs
<1>3. at \in Nat /\ at >= 2
  BY <1>2 DEF Takes
<1>4. colon.do = "colon" /\ colon.n = at - 1
  BY DEF T
<1> DEFINE property == <<colon, Do("initializer"), Do("property_make")>>
           method == <<colon, Expect({"("}), T("params", {}, at, {"method"}), Expect({")"}),
                       T("colon", {}, at - 1, {}), With("body", {"method"}),
                       T("routine", {}, at, {"method"}), Skip({";"})>>
<1>5. \/ \E k, drop, give, ts : Report(k, drop, give, ts)
      \/ Then(0, property)
      \/ Then(0, method)
  BY DEF ParseMemberName
<1>6. CASE Then(0, property)
  <2> DEFINE t2 == Do("initializer")
             t3 == Do("property_make")
             rest == <<t2, t3>>
             d == 2
             e == 0
             f == 3
  <2>1. t3.do \in FromThree
    BY DEF Do, T, FromThree
  <2>2. Folds(t2, e)
    BY DoFolds DEF Makers
  <2>3. property = <<colon>> \o rest
    <3> HIDE DEF colon, t2, t3
    <3>1. <<colon>> \o <<t2, t3>> = <<colon, t2, t3>>
      BY ConsThree
    <3> QED BY <3>1 DEF t2, t3
  <2> HIDE DEF colon, property, t2, t3
  <2>4. Folds(t3, f)
    BY <2>1, FoldsThree
  <2>5. d \in Nat \ {0} /\ d \in Nat /\ TakesTyped(d) /\ e \in Nat /\ f \in Nat /\ f >= 1 /\ d = e + f - 1
    BY <1>2
  <2>6. colon.n = Len(vals) - d + 1
    BY <1>3, <1>4
  <2> HIDE DEF d, e, f
  <2>7. Puts(rest, d)
    BY <2>2, <2>4, <2>5, PutsTwo
  <2> HIDE DEF rest
  <2> QED BY <1>1, <1>4, <1>6, <2>3, <2>5, <2>6, <2>7, TypedColon
<1>7. CASE Then(0, method)
  <2> DEFINE mid == <<Expect({"("}), T("params", {}, at, {"method"}), Expect({")"}),
                       T("colon", {}, at - 1, {}), With("body", {"method"}),
                       T("routine", {}, at, {"method"})>>
             last == Skip({";"})
  <2>1. method = <<colon>> \o (mid \o <<last>>)
    <3> DEFINE u2 == Expect({"("})
               u3 == T("params", {}, at, {"method"})
               u4 == Expect({")"})
               u5 == T("colon", {}, at - 1, {})
               u6 == With("body", {"method"})
               u7 == T("routine", {}, at, {"method"})
    <3> HIDE DEF colon, u2, u3, u4, u5, u6, u7, last
    <3>1. <<colon>> \o (<<u2, u3, u4, u5, u6, u7>> \o <<last>>) = <<colon, u2, u3, u4, u5, u6, u7, last>>
      <4>1. <<u2, u3, u4, u5, u6, u7>> \o <<last>> = <<u2, u3, u4, u5, u6, u7, last>>
        BY SnocSix
      <4>2. <<colon>> \o <<u2, u3, u4, u5, u6, u7, last>> = <<colon, u2, u3, u4, u5, u6, u7, last>>
        BY ConsEight
      <4> QED BY <4>1, <4>2
    <3> QED BY <3>1 DEF u2, u3, u4, u5, u6, u7, last
  <2>2. ASSUME NEW a \in Shape, NEW b \in Shape, a.open = FALSE, a.live = FALSE, a.n = at, a.c[a.n - 2 + 1] # "A",
               Leq(At(a, a.n - 2, "A", FALSE), b)
        PROVE  Runs(method, a, b)
    <3> DEFINE h == at - 2
               r == At(a, h, "A", FALSE)
    <3>1. h \in Nat /\ at = h + 2 /\ h + 1 = a.n - 2 + 1 /\ h = a.n - 2 /\ at - 1 \in Nat \ {0} /\ at - 1 <= a.n
          /\ at - 1 = h + 1
      <4> HIDE DEF method, mid, last, colon
      <4>1. a.n = at
        BY <2>2
      <4> HIDE DEF at
      <4> QED BY <1>3, <4>1
    <3> HIDE DEF h
    <3>2. r \in Shape /\ r.open = FALSE /\ r.live = FALSE /\ Leq(r, b)
      <4>1. r \in Shape /\ r.open = FALSE /\ r.live = FALSE
        BY <3>1 DEF At, Shape, Classes
      <4>2. Leq(r, b)
        BY <2>2, <3>1
      <4> QED BY <4>1, <4>2
    <3> HIDE DEF r
    <3>3. Leq(r, r)
      BY <3>2, LeqReflexive
    <3>4. Leq(At(a, h, "A", FALSE), r)
      BY <3>3 DEF r
    <3>5. Runs(mid, a, r)
      <4> DEFINE is == {"method"}
      <4>1. is \in {{"func"}, {"method"}} /\ a.c[h + 1] # "A"
        BY <2>2, <3>1
      <4> HIDE DEF h, is, at
      <4>2. Runs(<<Expect({"("}), T("params", {}, at, {"method"}), Expect({")"}), T("colon", {}, at - 1, {}),
                   With("body", {"method"}), T("routine", {}, at, is)>>, a, r)
        BY <2>2, <3>1, <3>2, <3>4, <4>1, RoutineRuns
      <4> QED BY <4>2 DEF is, at
    <3>6. Runs(<<last>>, r, b)
      <4>1. Ok(last, r, b)
        BY <3>2, SkipKeeps DEF Keeps
      <4> QED BY <3>2, <4>1, RunsOne
    <3>7. Runs(<<colon>>, a, a)
      <4>1. Plain(a) = a /\ Leq(a, a)
        BY <2>2, LeqReflexive DEF Plain, Shape
      <4>2. colon.n \in Nat \ {0} /\ colon.n <= a.n /\ a.c[colon.n] # "A"
        BY <1>4, <2>2, <3>1
      <4> HIDE DEF colon
      <4>3. Ok(colon, a, a)
        BY <1>4, <4>1, <4>2, OkColonIs
      <4> QED BY <4>3, RunsOne
    <3> HIDE DEF mid, last, colon, method
    <3>8. Runs(<<colon>> \o (mid \o <<last>>), a, b)
      BY <3>5, <3>6, <3>7, RunsJoined
    <3> QED BY <2>1, <3>8
  <2> DEFINE d == 2
  <2>3. TakesTyped(d) /\ \A a, b \in Shape : (/\ a.open = FALSE /\ a.live = FALSE /\ a.n \in Nat /\ a.n >= d /\ a.n = Len(vals)
                             /\ a.c[a.n - d + 1] # "A"
                             /\ Leq(At(a, a.n - d, "A", FALSE), b)) => Runs(method, a, b)
    <3> HIDE DEF method
    <3> QED BY <1>2, <2>2
  <2> HIDE DEF d, method
  <2> QED BY <1>1, <1>7, <2>3, TypedThen
<1>8. ASSUME NEW k, NEW drop, NEW give, NEW ts, Report(k, drop, give, ts) PROVE Safe'
  BY <1>8, ReportSafe
<1> QED BY <1>5, <1>6, <1>7, <1>8

\* The results of shape s are those of shape a and two more, a null pointer or a
\* type and any other.
Two(vs, cur, s, a) ==
  /\ Fit(vs, s, cur) /\ s.open = FALSE /\ s.live = FALSE /\ s.n = a.n + 2 /\ a.n \in Nat
  /\ s.c[a.n + 1] = "N" /\ \A i \in 1 .. a.n : s.c[i] = a.c[i]

LEMMA FitTwo ==
  ASSUME NEW vs, NEW cur, NEW a \in Shape, Fit(vs, a, cur), a.open = FALSE,
         NEW u, Fits(u, "N"), NEW v, Fits(v, "A"), NEW cur2
  PROVE  \E s \in Shape : Two(SubSeq(vs, 1, Len(vs) - 0) \o <<u, v>>, cur2, s, a)
<1> DEFINE h == a.n
           m == At(a, h, "N", FALSE)
           g == h + 1
           s == At(m, g, "A", FALSE)
           w == vs \o <<u>>
<1>1. /\ h \in Nat /\ m \in Shape /\ m.open = FALSE /\ m.live = FALSE /\ m.n = h + 1 /\ m.c[h + 1] = "N"
      /\ \A i \in 1 .. h : m.c[i] = a.c[i]
  BY DEF At, Shape, Classes
<1>2. h <= a.n /\ Len(vs) = h /\ SubSeq(vs, 1, Len(vs) - 0) = vs /\ SubSeq(vs, 1, h) = vs
  <2>1. SubSeq(vs, 1, Len(vs) - 0) = vs /\ SubSeq(vs, 1, Len(vs)) = vs /\ Len(vs) = a.n
    BY AllKept DEF Fit
  <2> QED BY <1>1, <2>1
<1>3. "N" \in Classes /\ "A" \in Classes
  BY DEF Classes
<1>4. Fit(SubSeq(vs, 1, h) \o <<u>>, At(a, h, "N", FALSE), cur2)
  BY <1>1, <1>2, <1>3, FitAt
<1>5. Fit(w, m, cur2)
  BY <1>2, <1>4
<1>6. PICK S : vs \in Seq(S)
  BY DEF Fit, IsSeq
<1>7. w \o <<v>> = vs \o <<u, v>>
  <2>1. vs \in Seq(S \cup {u, v}) /\ <<u>> \in Seq(S \cup {u, v}) /\ <<v>> \in Seq(S \cup {u, v})
    BY <1>6
  <2>2. (vs \o <<u>>) \o <<v>> = vs \o (<<u>> \o <<v>>)
    BY <2>1, ConcatAssociative
  <2> QED BY <2>2, ConsTwo
<1> HIDE DEF m, w
<1>8. g \in Nat /\ g <= m.n /\ Len(w) = g /\ SubSeq(w, 1, g) = w
  <2>1. Len(w) = m.n /\ SubSeq(w, 1, Len(w)) = w
    BY <1>1, <1>5, AllKept DEF Fit
  <2> QED BY <1>1, <2>1
<1>9. Fit(SubSeq(w, 1, g) \o <<v>>, At(m, g, "A", FALSE), cur2)
  BY <1>1, <1>3, <1>5, <1>8, FitAt
<1>10. /\ s \in Shape /\ s.open = FALSE /\ s.live = FALSE /\ s.n = g + 1
       /\ \A i \in Nat : i # g + 1 => s.c[i] = m.c[i]
  BY <1>1, <1>8 DEF At, Shape, Classes
<1> HIDE DEF s
<1>11. s.n = h + 2 /\ s.c[h + 1] = "N" /\ \A i \in 1 .. h : s.c[i] = a.c[i]
  <2>1. g + 1 = h + 2 /\ h + 1 \in Nat /\ h + 1 # g + 1 /\ \A i \in 1 .. h : i \in Nat /\ i # g + 1
    BY <1>1
  <2> QED BY <1>1, <1>10, <2>1
<1>12. Fit(SubSeq(vs, 1, Len(vs) - 0) \o <<u, v>>, s, cur2)
  BY <1>2, <1>7, <1>8, <1>9 DEF s
<1>13. Two(SubSeq(vs, 1, Len(vs) - 0) \o <<u, v>>, cur2, s, a)
  BY <1>1, <1>10, <1>11, <1>12 DEF Two
<1> QED BY <1>10, <1>13

LEMMA FuncSafe == Going /\ panic /\ ParseFuncDecl => Safe'
<1> SUFFICES ASSUME Going, panic, ParseFuncDecl PROVE Safe'
  OBVIOUS
<1>1. phase = "parse" /\ todo # << >> /\ Top.do \in Makers
  BY DEF ParseFuncDecl, Doing, Makers
<1>2. ASSUME NEW k, NEW drop, NEW give, NEW ts, Report(k, drop, give, ts) PROVE Safe'
  BY <1>2, ReportSafe
<1>3. ASSUME NEW k \in Nat, NEW loc, Then(k, <<With("fn", loc)>>) PROVE Safe'
  <2> DEFINE t == With("fn", loc)
             next == <<t>>
  <2>1. Folds(t, 0)
    BY WithFolds DEF Makers
  <2> HIDE DEF t
  <2>2. Puts(next, 0) /\ Then(k, next)
    BY <1>3, <2>1, PutsLast DEF t
  <2> HIDE DEF next
  <2> QED BY <1>1, <2>2, MakerPuts
<1>4. CASE Then(1, <<Do("func_name")>>)
  <2> DEFINE t == Do("func_name")
             next == <<t>>
  <2>1. Folds(t, 0)
    BY DoFolds DEF Makers
  <2> HIDE DEF t
  <2>2. Puts(next, 0) /\ Then(1, next)
    BY <1>4, <2>1, PutsLast DEF t
  <2> HIDE DEF next
  <2> QED BY <1>1, <2>2, MakerPuts
<1> DEFINE at == Len(vals) + 2
           next == <<Expect({"("}), T("params", {}, at, {}), Expect({")"}), T("colon", {}, at - 1, {}),
                     With("body", {}), T("routine", {}, at, {"func"})>>
           give == <<NullPtr, Leaf("symbol")>>
<1>5. CASE Turn(1, 0, give, next)
  <2>1. PICK a, b \in Shape : /\ Fit(vals, a, Cur) /\ Runs(Tail(todo), b, Final)
                              /\ ~a.open /\ a.n = Len(vals) /\ a.n \in Nat /\ Leq(At(a, a.n, "A", FALSE), b)
    BY <1>1, MakerShape
  <2>2. a.open = FALSE
    BY <2>1 DEF Shape
  <2> DEFINE h == a.n
             v == Leaf("symbol")
  <2>3. Fits(v, "A") /\ Fits(NullPtr, "N")
    BY NullFits, LeafFits DEF Strict
  <2> HIDE DEF h, v
  <2>a. PICK s \in Shape : Two(SubSeq(vals, 1, Len(vals) - 0) \o <<NullPtr, v>>, Cur', s, a)
    BY <2>1, <2>2, <2>3, FitTwo
  <2>4. /\ Fit(SubSeq(vals, 1, Len(vals) - 0) \o <<NullPtr, v>>, s, Cur')
        /\ s.open = FALSE /\ s.live = FALSE /\ s.n = h + 2 /\ h \in Nat
        /\ s.c[h + 1] = "N" /\ \A i \in 1 .. h : s.c[i] = a.c[i]
    BY <2>a DEF Two, h
  <2>5. vals' = SubSeq(vals, 1, Len(vals) - 0) \o <<NullPtr, v>>
    BY <1>5 DEF Turn, v
  <2>6. Leq(At(s, h, "A", FALSE), b)
    <3>1. Leq(At(a, h, "A", FALSE), b)
      BY <2>1 DEF h
    <3> QED BY <2>4, <3>1, Under
  <2>7. at = s.n /\ at = h + 2 /\ s.c[h + 1] # "A"
    BY <2>1, <2>4 DEF h
  <2>8. Runs(next, s, b)
    <3> DEFINE is == {"func"}
    <3>1. is \in {{"func"}, {"method"}}
      OBVIOUS
    <3> HIDE DEF at, is
    <3>2. Runs(<<Expect({"("}), T("params", {}, at, {}), Expect({")"}), T("colon", {}, at - 1, {}),
                     With("body", {}), T("routine", {}, at, is)>>, s, b)
      BY <2>4, <2>6, <2>7, <3>1, RoutineRuns
    <3> QED BY <3>2 DEF is
  <2> HIDE DEF next, give
  <2> QED BY <1>1, <1>5, <2>1, <2>4, <2>5, <2>8, Continue
<1> HIDE DEF next, give
<1>6. CASE Doing("func_decl")
  <2> DEFINE k == IF Cur = "INLINE" THEN 1 ELSE 0
             loc == IF k = 1 THEN {"lining"} ELSE {}
  <2>1. k \in Nat
    OBVIOUS
  <2>2. (\E ts : Report(k, 0, << >>, ts)) \/ Then(k, <<With("fn", loc)>>)
    BY <1>6 DEF ParseFuncDecl, Doing
  <2> HIDE DEF k, loc
  <2> QED BY <1>2, <1>3, <2>1, <2>2
<1>7. CASE Doing("fn")
  <2>1. (\E g, ts : Report(0, 0, g, ts)) \/ Then(1, <<Do("func_name")>>)
    BY <1>7 DEF ParseFuncDecl, Doing
  <2> QED BY <1>2, <1>4, <2>1
<1>8. CASE Doing("func_name")
  <2>1. (\E ts : Report(1, 0, <<NullPtr>>, ts)) \/ Turn(1, 0, give, next)
    BY <1>8 DEF ParseFuncDecl, Doing, give, next
  <2> QED BY <1>2, <1>5, <2>1
<1> QED BY <1>6, <1>7, <1>8 DEF ParseFuncDecl

\* A body is one result more, whatever the number of parameters.
LEMMA TakesBody ==
  ASSUME Going, todo # << >>, Top.do = "body"
  PROVE  Takes(0)
<1>1. PICK a, b \in Shape : Fit(vals, a, Cur) /\ Ok(Top, a, b) /\ Runs(Tail(todo), b, Final)
  BY TopTask
<1>2. a.open /\ Opens(Exact(a, a.n), b, "A") /\ \A i \in Nat : i > a.n => a.c[i] = "A"
  BY <1>1, OkBodyIs
<1> DEFINE m == Len(vals)
           e == Exact(a, m)
           q == At(e, m, "A", FALSE)
<1>3. e \in Shape /\ Fit(vals, e, Cur) /\ a.n <= m /\ m \in Nat /\ a.n \in Nat
  BY <1>1, FitExact, AllKept DEF Shape
<1>4. e.n = m /\ e.open = FALSE /\ e.c = a.c
  BY DEF Exact
<1>5. /\ q.n = m + 1 /\ q.open = FALSE /\ q.live = FALSE /\ q.c[m + 1] = "A"
      /\ \A i \in Nat : i # m + 1 => q.c[i] = a.c[i]
  BY <1>3, <1>4 DEF At, Shape
<1>6. /\ b.open /\ ~b.live /\ b.n <= a.n
      /\ \A i \in Nat \ {0} : Sub(IF i <= a.n THEN a.c[i] ELSE "A", b.c[i])
  BY <1>2 DEF Opens, Exact
<1> HIDE DEF m, e, q
<1>7. \A i \in Nat \ {0} : i <= m + 1 => Sub(q.c[i], b.c[i])
  <2> SUFFICES ASSUME NEW i \in Nat \ {0}, i <= m + 1 PROVE Sub(q.c[i], b.c[i])
    OBVIOUS
  <2>1. CASE i <= a.n
    BY <1>3, <1>5, <1>6, <2>1
  <2>2. CASE i > a.n
    <3>1. q.c[i] = "A"
      BY <1>2, <1>3, <1>5, <2>2
    <3>2. Sub("A", b.c[i])
      BY <1>3, <1>6, <2>2
    <3> QED BY <3>1, <3>2
  <2> QED BY <1>3, <2>1, <2>2
<1>8. Leq(q, b)
  <2>1. b.n <= q.n /\ b.n \in Nat
    BY <1>3, <1>5, <1>6 DEF Shape
  <2> QED BY <1>5, <1>6, <1>7, <2>1 DEF Leq
<1>9. e.n - 0 = m /\ e.n \in Nat /\ e.n >= 0
  BY <1>3, <1>4
<1>10. Leq(At(e, e.n - 0, "A", FALSE), b) /\ e.n = Len(vals)
  BY <1>4, <1>8, <1>9 DEF q, m
<1> QED BY <1>1, <1>3, <1>4, <1>9, <1>10 DEF Takes

LEMMA ReturnedPuts == Puts(<<Expr(assignment), Build("return", 0)>>, 0)
<1> DEFINE ts == <<Expr(assignment), Build("return", 0)>>
<1> SUFFICES ASSUME NEW a \in Shape, NEW b \in Shape, a.open = FALSE, a.live = FALSE,
                    Leq(At(a, a.n - 0, "A", FALSE), b)
             PROVE  Runs(ts, a, b)
  BY DEF Puts
<1>1. a.n \in Nat /\ a.n - 0 = a.n
  BY DEF Shape
<1> DEFINE h == a.n
<1>2. Leq(At(a, h, "A", FALSE), b)
  BY <1>1
<1>3. h \in Nat /\ "A" \in Classes /\ Sub("A", "A") /\ TRUE \in BOOLEAN /\ FALSE \in BOOLEAN
  BY <1>1 DEF Classes, Sub
<1> HIDE DEF h
<1>4. Leq(At(a, h, "A", TRUE), b)
  BY <1>2, <1>3, LeqAt
<1>5. assignment \in Nat
  BY DEF assignment
<1> HIDE DEF ts
<1>6. Leq(At(a, a.n, "A", TRUE), b)
  BY <1>4 DEF h
<1> DEFINE is == "return"
<1>7. is \in {"prefix", "return", "typeof"}
  OBVIOUS
<1> HIDE DEF is
<1>8. Runs(<<Expr(assignment), Build(is, 0)>>, a, b)
  BY <1>5, <1>6, <1>7, WrapRuns
<1> QED BY <1>8 DEF ts, is

LEMMA BodySafe == Going /\ panic /\ ParseBody => Safe'
<1> SUFFICES ASSUME Going, panic, ParseBody PROVE Safe'
  OBVIOUS
<1>1. phase = "parse" /\ todo # << >> /\ Top.do = "body"
  BY DEF ParseBody, Doing
<1>2. Takes(0)
  BY <1>1, TakesBody
<1> DEFINE returned == <<Expr(assignment), Build("return", 0)>>
           block == <<Do("block")>>
           end == Expect({";"})
           method == Append(returned, end)
           func == returned \o <<Do("semicolon"), end>>
<1>3. Then(0, block) \/ Then(1, block) \/ Then(1, method) \/ Then(1, func)
  BY DEF ParseBody
<1>4. Keeps(end) /\ Folds(end, 1)
  BY TokenKeeps, KeepsFolds DEF AA
<1>5. Puts(block, 0)
  <2> DEFINE t == Do("block")
  <2>1. Folds(t, 0)
    BY DoFolds DEF Makers
  <2> HIDE DEF t
  <2>2. Puts(<<t>>, 0)
    BY <2>1, PutsLast
  <2> QED BY <2>2 DEF t
<1>6. Puts(returned, 0)
  BY ReturnedPuts
<1> HIDE DEF block, end
<1>7. Puts(method, 0)
  <2>1. method = returned \o <<end>>
    <3> DEFINE e1 == Expr(assignment)
               e2 == Build("return", 0)
    <3> HIDE DEF e1, e2
    <3>1. Append(<<e1, e2>>, end) = <<e1, e2>> \o <<end>>
      <4>1. <<e1, e2>> \in Seq({e1, e2, end}) /\ end \in {e1, e2, end}
        OBVIOUS
      <4> DEFINE s == <<e1, e2>>
                 S == {e1, e2, end}
      <4> HIDE DEF s, S
      <4>2. s \in Seq(S) /\ end \in S
        BY <4>1 DEF s, S
      <4>3. Append(s, end) = s \o <<end>>
        BY <4>2
      <4> QED BY <4>3 DEF s
    <3> QED BY <3>1 DEF e1, e2
  <2> DEFINE rest == <<end>>
             d == 0
             e == 1
  <2>2. Puts(rest, e)
    BY <1>4, PutsLast
  <2>3. d \in Nat /\ d + 1 = e /\ Puts(returned, 0)
    BY <1>6
  <2> HIDE DEF method, returned, rest, d, e
  <2>4. Puts(returned \o rest, d)
    BY <2>2, <2>3, PutsJoined
  <2> QED BY <2>1, <2>4 DEF rest, d
<1>8. Puts(func, 0)
  <2> DEFINE t == Do("semicolon")
             rest == <<t, end>>
             d == 0
             e == 1
  <2>1. Keeps(t)
    BY DoFolds DEF Quiet
  <2> HIDE DEF t
  <2>2. Folds(end, e)
    BY <1>4
  <2>3. d \in Nat /\ d + 1 = e /\ Puts(returned, 0)
    BY <1>6
  <2> HIDE DEF returned, d, e
  <2>4. Puts(rest, e)
    BY <2>1, <2>2, PutsTwo
  <2> HIDE DEF rest
  <2>5. Puts(returned \o rest, d)
    BY <2>3, <2>4, PutsJoined
  <2> QED BY <2>5 DEF rest, d, t
<1> HIDE DEF method, func
<1> QED BY <1>1, <1>2, <1>3, <1>5, <1>7, <1>8, TakesThen

-----------------------------------------------------------------------------
(* The colon and the type after it, where there may be any number of       *)
(* parameters.                                                             *)

LEMMA ColonSafe == Going /\ panic /\ ColonType => Safe'
<1> SUFFICES ASSUME Going, panic, ColonType PROVE Safe'
  OBVIOUS
<1> DEFINE n == Top.n
           t == T("retype", {}, n, Top.loc)
           next == <<Type(default_bp), t>>
<1>1. phase = "parse" /\ todo # << >> /\ Top.do = "colon"
  BY DEF ColonType, Doing
<1>2. PICK a, b \in Shape : Fit(vals, a, Cur) /\ Ok(Top, a, b) /\ Runs(Tail(todo), b, Final)
  BY <1>1, TopTask
<1>3. n \in Nat \ {0} /\ n <= a.n /\ a.c[n] # "A" /\ Leq(Plain(a), b)
  BY <1>1, <1>2, OkColonIs
<1>4. t.do = "retype" /\ t.n = n
  BY DEF T
<1> HIDE DEF t, n
<1>5. CASE Then(0, << >>)
  BY <1>1, <1>2, <1>3, <1>5, ThenDone
<1>6. CASE Then(1, next)
  <2> DEFINE p == Plain(a)
             m == Len(vals)
             e == Exact(p, m)
             q == At(e, m, "S", FALSE)
             l == Less(q)
  <2>1. p \in Shape /\ p.n = a.n /\ p.c = a.c /\ p.live = FALSE
    BY PlainShape
  <2>2. Fit(vals, p, Cur)
    BY <1>2 DEF Fit, Plain
  <2>3. e \in Shape /\ Fit(vals, e, Cur) /\ Leq(e, p) /\ p.n <= m /\ m \in Nat
    <3> HIDE DEF p
    <3>1. Len(vals) \in Nat
      BY <2>2, AllKept
    <3> QED BY <2>1, <2>2, <3>1, FitExact
  <2> HIDE DEF p
  <2>4. e.n = m /\ e.open = FALSE /\ e.c = a.c /\ Plain(e) = e
    BY <2>1 DEF Exact, Plain
  <2> HIDE DEF e, m
  <2>5. /\ q \in Shape /\ q.open = FALSE /\ q.live = FALSE /\ q.n = m + 1 /\ q.c[m + 1] = "S"
        /\ \A i \in Nat : i # m + 1 => q.c[i] = e.c[i]
    BY <2>3 DEF At, Shape, Classes
  <2>6. Ok(Type(default_bp), e, q)
    BY <2>3, <2>4, ThenType
  <2> HIDE DEF q
  <2>7. l \in Shape /\ l.n = m /\ l.open = FALSE /\ l.live = FALSE /\ l.c = q.c
    BY <2>3, <2>5 DEF Less, Shape
  <2> HIDE DEF l
  <2>8. Leq(l, e)
    <3>1. \A i \in Nat \ {0} : i <= m => l.c[i] = e.c[i]
      BY <2>3, <2>5, <2>7
    <3>2. e.live = FALSE
      BY <2>4 DEF Plain
    <3> QED BY <2>4, <2>7, <3>1, <3>2 DEF Leq, Sub
  <2>9. Leq(l, b)
    <3>1. Leq(l, p)
      BY <2>1, <2>3, <2>7, <2>8, LeqTransitive
    <3> QED BY <1>3, <2>1, <2>7, <3>1, LeqTransitive DEF p
  <2>10. Ok(t, q, b)
    <3>1. t.n \in Nat \ {0} /\ t.n < q.n /\ q.c[t.n] # "A" /\ q.c[q.n] = "S"
      BY <1>3, <1>4, <2>1, <2>3, <2>4, <2>5 DEF Shape
    <3> QED BY <1>4, <2>5, <2>9, <3>1, OkRetypeIs DEF l
  <2>11. Runs(next, e, b)
    BY <2>3, <2>5, <2>6, <2>10, RunsTwo
  <2> HIDE DEF next
  <2> QED BY <1>1, <1>2, <1>6, <2>3, <2>4, <2>11, ThenGoes
<1>7. ASSUME NEW k, NEW drop, NEW give, NEW ts, Report(k, drop, give, ts) PROVE Safe'
  BY <1>7, ReportSafe
<1> QED BY <1>5, <1>6, <1>7 DEF ColonType, t, n

\* One of the first results replaced, and the last one dropped.
LEMMA FitReplace ==
  ASSUME NEW vs, NEW cur, NEW a \in Shape, Fit(vs, a, cur), a.open = FALSE, NEW n \in Nat \ {0}, n < a.n,
         NEW v, Fits(v, a.c[n]), NEW cur2
  PROVE  Fit([SubSeq(vs, 1, Len(vs) - 1) EXCEPT ![n] = v], Less(a), cur2)
<1> DEFINE m == Len(vs) - 1
           w == SubSeq(vs, 1, m)
           r == [w EXCEPT ![n] = v]
           s == Less(a)
<1>1. PICK S : vs \in Seq(S)
  BY DEF Fit, IsSeq
<1>2. Len(vs) = a.n /\ a.n \in Nat /\ m \in Nat /\ m <= Len(vs) /\ n \in 1 .. m /\ m = a.n - 1
  BY DEF Fit, Shape
<1>3. \A i \in 1 .. m : vs[i] \in S
  BY <1>1, <1>2
<1>4. w \in Seq(S) /\ Len(w) = m /\ \A i \in 1 .. m : w[i] = vs[i]
  BY <1>1, <1>2, <1>3
<1>5. s.n = m /\ s.open = FALSE /\ s.live = FALSE /\ s.c = a.c
  BY <1>2 DEF Less
<1>6. \A i \in 1 .. m : Fits(vs[i], a.c[i])
  BY <1>2 DEF Fit
<1> HIDE DEF w, s, m
<1>7. r \in Seq(S \cup {v}) /\ Len(r) = m /\ r[n] = v /\ \A i \in 1 .. m : i # n => r[i] = w[i]
  <2>1. w \in Seq(S \cup {v}) /\ v \in S \cup {v}
    BY <1>4
  <2> QED BY <1>2, <1>4, <2>1
<1> HIDE DEF r
<1>8. \A i \in 1 .. m : Fits(r[i], a.c[i])
  BY <1>4, <1>6, <1>7
<1>9. IsSeq(r)
  BY <1>7 DEF IsSeq
<1>10. Fit(r, s, cur2)
  BY <1>5, <1>7, <1>8, <1>9 DEF Fit
<1> QED BY <1>10 DEF r, w, s, m

LEMMA RetypeSafe == Going /\ panic /\ Retype => Safe'
<1> SUFFICES ASSUME Going, panic, Retype PROVE Safe'
  OBVIOUS
<1> DEFINE n == Top.n
           old == vals[n]
           new == IF V(1) = NullPtr /\ "fn" \in Top.loc THEN AutoType ELSE V(1)
<1>1. phase = "parse" /\ todo # << >> /\ Top.do = "retype"
  BY DEF Retype, Doing
<1>2. PICK a, b \in Shape : Fit(vals, a, Cur) /\ Ok(Top, a, b) /\ Runs(Tail(todo), b, Final)
  BY <1>1, TopTask
<1>3. ~a.open /\ n \in Nat \ {0} /\ n < a.n /\ a.c[n] # "A" /\ a.c[a.n] = "S" /\ Leq(Less(a), b)
  BY <1>1, <1>2, OkRetypeIs
<1>4. a.open = FALSE /\ a.n \in Nat /\ a.n >= 1 /\ n \in 1 .. a.n /\ a.c[n] \in Classes
  BY <1>3 DEF Shape
<1>5. Fits(V(1), "S")
  BY <1>2, <1>3, <1>4, LastAre
<1>6. Fits(old, a.c[n])
  BY <1>2, <1>3, <1>4 DEF Fit
<1>7. ~old.holed /\ ~Unread(V(1)) /\ V(1) # NullPtr
  BY <1>3, <1>5, <1>6 DEF Fits, Unread
<1>8. Fits(V(1), a.c[n])
  BY <1>4, <1>5 DEF Fits, Classes
<1>9. ASSUME NEW k, NEW drop, NEW give, NEW ts, Report(k, drop, give, ts) PROVE Safe'
  BY <1>9, ReportSafe
<1>10. ASSUME vals' = [SubSeq(vals, 1, Len(vals) - 1) EXCEPT ![n] = V(1)], todo' = Tail(todo),
              UNCHANGED <<tokens, panic, pos, failed, phase>>
       PROVE  Safe'
  <2> HIDE DEF n
  <2>1. Fit(vals', Less(a), Cur')
    BY <1>2, <1>3, <1>4, <1>8, <1>10, FitReplace
  <2>2. Less(a) \in Shape
    BY <1>4 DEF Less, Shape
  <2>3. Fit(vals', b, Cur')
    BY <1>3, <2>1, <2>2, FitLeq
  <2>4. Typed'
    BY <1>2, <1>10, <2>3 DEF Typed
  <2> QED BY <1>1, <1>10, <2>4 DEF Safe, Going
<1>11. \/ /\ vals' = [SubSeq(vals, 1, Len(vals) - 1) EXCEPT ![n] = V(1)] /\ todo' = Tail(todo)
          /\ UNCHANGED <<tokens, panic, pos, failed, phase>>
       \/ \E k, drop, give, ts : Report(k, drop, give, ts)
  BY <1>7 DEF Retype
<1> QED BY <1>9, <1>10, <1>11

-----------------------------------------------------------------------------
(* The steps that are never taken, and the last one.                       *)

LEMMA OtherSafe == Going /\ panic /\ (Advance \/ advanceDepth \/ FinishParse) => Safe'
<1> SUFFICES ASSUME Going, panic, Advance \/ advanceDepth \/ FinishParse PROVE Safe'
  OBVIOUS
<1>1. CASE Advance \/ advanceDepth
  <2>1. todo # << >> /\ Top.do \in {"advance", "depth"}
    BY <1>1 DEF Advance, advanceDepth, Doing
  <2>2. PICK a, b \in Shape : Ok(Top, a, b)
    BY <2>1, TopTask
  <2> QED BY <2>1, <2>2 DEF Ok, Quiet, Makers, Operands, Operations, FromOne, FromTwo, FromThree, Typed2, Typed3
<1>2. CASE FinishParse
  BY <1>2, EndSafe DEF FinishParse
<1> QED BY <1>1, <1>2

-----------------------------------------------------------------------------
(* The specification.                                                      *)

LEMMA InitSafe == Init => Safe
<1> SUFFICES ASSUME Init PROVE Safe
  OBVIOUS
<1> DEFINE z == [n |-> 0, c |-> [i \in Nat |-> "A"], open |-> FALSE, live |-> FALSE]
           t == T("statements", {"EOF"}, 0, {})
<1>1. vals = << >> /\ todo = <<t>> /\ pos = 0 /\ phase = "parse"
  BY DEF Init
<1>2. IsSeq(tokens)
  <2>1. PICK i \in Inputs : tokens = i.tokens
    BY DEF Init
  <2>2. i.tokens \in Seq((Kinds \ {"IDENTIFIER", "EOF"}) \cup Names)
    BY InputAssumption
  <2> QED BY <2>1, <2>2 DEF IsSeq
<1>3. z \in Shape /\ z.n = 0 /\ z.open = FALSE /\ z.live = FALSE
  BY DEF Shape, Classes
<1>4. Fit(vals, z, Cur)
  <2>1. << >> \in Seq({}) /\ Len(<< >>) = 0
    OBVIOUS
  <2>2. IsSeq(<< >>)
    BY <2>1 DEF IsSeq
  <2> QED BY <1>1, <1>3, <2>1, <2>2 DEF Fit
<1>5. Final \in Shape
  BY DEF Final, Shape, Classes
<1>6. Leq(At(z, 0, "A", FALSE), Final)
  BY DEF At, Leq, Final, Sub
<1>7. t.do = "statements" /\ t.n = 0
  BY DEF T
<1> HIDE DEF z, t
<1>8. t.n \in Nat /\ t.n <= z.n /\ Leq(At(z, t.n, "A", FALSE), Final)
  <2>1. t.n \in Nat /\ t.n <= z.n
    BY <1>3, <1>7
  <2>2. Leq(At(z, t.n, "A", FALSE), Final)
    BY <1>6, <1>7
  <2> QED BY <2>1, <2>2
<1>9. Ok(t, z, Final)
  BY <1>3, <1>7, <1>8, OkStatementsIs
<1>10. Runs(todo, z, Final)
  BY <1>1, <1>3, <1>5, <1>9, RunsOne
<1> QED BY <1>1, <1>2, <1>3, <1>4, <1>10 DEF Safe, Going, Typed

\* A step is one of parsing, and leaves the panic option as it is.
Steps == phase = "parse" /\ panic' = panic

LEMMA TurnSteps ==
  /\ \A k, drop, give, next : Turn(k, drop, give, next) => panic' = panic
  /\ \A k, next : Then(k, next) => panic' = panic
  /\ \A k, drop, give, next : Report(k, drop, give, next) => panic' = panic
  /\ \A outcome : End(outcome) => panic' = panic
BY DEF Turn, Then, Report, End

LEMMA CursorSteps == Cursor => Steps
<1>1. ExpectToken => Steps
  BY TurnSteps DEF ExpectToken, Doing, Steps
<1>2. ExpectName => Steps
  BY TurnSteps DEF ExpectName, Doing, Steps
<1>3. Advance => Steps
  BY TurnSteps DEF Advance, Doing, Steps
<1>4. Optional => Steps
  BY TurnSteps DEF Optional, Doing, Steps
<1>5. advanceUntil => Steps
  BY TurnSteps DEF advanceUntil, Doing, Steps
<1>6. advanceDepth => Steps
  BY TurnSteps DEF advanceDepth, Doing, Steps
<1>7. Discard => Steps
  BY TurnSteps DEF Discard, Doing, Steps
<1> QED BY <1>1, <1>2, <1>3, <1>4, <1>5, <1>6, <1>7 DEF Cursor

LEMMA ExpressionsSteps == Expressions => Steps
<1>1. ParseExpr => Steps
  BY TurnSteps DEF ParseExpr, Doing, Steps
<1>2. ParseLed => Steps
  BY TurnSteps DEF ParseLed, Doing, Steps
<1>3. ParsePrimary => Steps
  BY TurnSteps DEF ParsePrimary, Doing, Steps
<1>4. ParseArrayInitializer => Steps
  BY TurnSteps DEF ParseArrayInitializer, Doing, Steps
<1>5. ParseArrayInstantiation => Steps
  BY TurnSteps DEF ParseArrayInstantiation, Doing, Steps
<1>6. ParseItems => Steps
  BY TurnSteps DEF ParseItems, Doing, Steps
<1>7. ParseSeparator => Steps
  BY TurnSteps DEF ParseSeparator, Doing, Steps
<1>8. ParseBinary => Steps
  BY TurnSteps DEF ParseBinary, Doing, Steps
<1>9. ParsePrefix => Steps
  BY TurnSteps DEF ParsePrefix, Doing, Steps
<1>10. ParseAssignment => Steps
  BY TurnSteps DEF ParseAssignment, Doing, Steps
<1>11. ParseGrouping => Steps
  BY TurnSteps DEF ParseGrouping, Doing, Steps
<1>12. ParseFunctionCall => Steps
  BY TurnSteps DEF ParseFunctionCall, Doing, Steps
<1>13. BuildCall => Steps
  BY TurnSteps DEF BuildCall, Doing, Steps
<1>14. ParseStructInstantiation => Steps
  BY TurnSteps DEF ParseStructInstantiation, Doing, Steps
<1>15. ParseFields => Steps
  BY TurnSteps DEF ParseFields, Doing, Steps
<1>16. BuildField => Steps
  BY TurnSteps DEF BuildField, Doing, Steps
<1>17. BuildStructValue => Steps
  BY TurnSteps DEF BuildStructValue, Doing, Steps
<1>18. ParseReturn => Steps
  BY TurnSteps DEF ParseReturn, Doing, Steps
<1>19. ParseBreak => Steps
  BY TurnSteps DEF ParseBreak, Doing, Steps
<1>20. ParseTypeof => Steps
  BY TurnSteps DEF ParseTypeof, Doing, Steps
<1>21. ParseVolatile => Steps
  BY TurnSteps DEF ParseVolatile, Doing, Steps
<1>22. BuildNode => Steps
  BY TurnSteps DEF BuildNode, Doing, Steps
<1>23. CollectNode => Steps
  BY TurnSteps DEF CollectNode, Doing, Steps
<1>24. ParseType => Steps
  BY TurnSteps DEF ParseType, Doing, Steps
<1>25. ParseTypeLed => Steps
  BY TurnSteps DEF ParseTypeLed, Doing, Steps
<1> QED BY <1>1, <1>2, <1>3, <1>4, <1>5, <1>6, <1>7, <1>8, <1>9, <1>10, <1>11, <1>12, <1>13, <1>14, <1>15, <1>16, <1>17, <1>18, <1>19, <1>20, <1>21, <1>22, <1>23, <1>24, <1>25 DEF Expressions

LEMMA DeclarationsSteps == Declarations => Steps
<1>1. AdvanceName => Steps
  BY TurnSteps DEF AdvanceName, Doing, Steps
<1>2. Initializer => Steps
  BY TurnSteps DEF Initializer, Doing, Steps
<1>3. ColonType => Steps
  BY TurnSteps DEF ColonType, Doing, Steps
<1>4. Retype => Steps
  BY TurnSteps DEF Retype, Doing, Steps
<1>5. ParseVarDecl => Steps
  BY TurnSteps DEF ParseVarDecl, Doing, Steps
<1>6. ParseVarInit => Steps
  BY TurnSteps DEF ParseVarInit, Doing, Steps
<1>7. BuildVarDecl => Steps
  BY TurnSteps DEF BuildVarDecl, Doing, Steps
<1>8. ParseUnused => Steps
  BY TurnSteps DEF ParseUnused, Doing, Steps
<1>9. ParseAliasDecl => Steps
  BY TurnSteps DEF ParseAliasDecl, Doing, Steps
<1>10. ParseStructDecl => Steps
  BY TurnSteps DEF ParseStructDecl, Doing, Steps
<1>11. BuildStruct => Steps
  BY TurnSteps DEF BuildStruct, Doing, Steps
<1>12. ParseMembers => Steps
  BY TurnSteps DEF ParseMembers, Doing, Steps
<1>13. ParseAccessModifier => Steps
  BY TurnSteps DEF ParseAccessModifier, Doing, Steps
<1>14. ParseStatic => Steps
  BY TurnSteps DEF ParseStatic, Doing, Steps
<1>15. ParseMember => Steps
  BY TurnSteps DEF ParseMember, Doing, Steps
<1>16. MemberNotAny => Steps
  BY TurnSteps DEF MemberNotAny, Doing, Steps
<1>17. ParseMemberName => Steps
  BY TurnSteps DEF ParseMemberName, Doing, Steps
<1>18. BuildProperty => Steps
  BY TurnSteps DEF BuildProperty, Doing, Steps
<1>19. BuildRoutine => Steps
  BY TurnSteps DEF BuildRoutine, Doing, Steps
<1>20. ParseBody => Steps
  BY TurnSteps DEF ParseBody, Doing, Steps
<1>21. RecoverSemicolon => Steps
  BY TurnSteps DEF RecoverSemicolon, Doing, Steps
<1>22. ParseParams => Steps
  BY TurnSteps DEF ParseParams, Doing, Steps
<1>23. ParseParam => Steps
  BY TurnSteps DEF ParseParam, Doing, Steps
<1>24. BuildParam => Steps
  BY TurnSteps DEF BuildParam, Doing, Steps
<1>25. ParamSeparator => Steps
  BY TurnSteps DEF ParamSeparator, Doing, Steps
<1>26. ParseFuncDecl => Steps
  BY TurnSteps DEF ParseFuncDecl, Doing, Steps
<1> QED BY <1>1, <1>2, <1>3, <1>4, <1>5, <1>6, <1>7, <1>8, <1>9, <1>10, <1>11, <1>12, <1>13, <1>14, <1>15, <1>16, <1>17, <1>18, <1>19, <1>20, <1>21, <1>22, <1>23, <1>24, <1>25, <1>26 DEF Declarations

LEMMA StatementsSteps == Statements => Steps
<1>1. ParseStatements => Steps
  BY TurnSteps DEF ParseStatements, Doing, Steps
<1>2. ParseBlock => Steps
  BY TurnSteps DEF ParseBlock, Doing, Steps
<1>3. ParseStmt => Steps
  BY TurnSteps DEF ParseStmt, Doing, Steps
<1>4. ParseExprStmt => Steps
  BY TurnSteps DEF ParseExprStmt, Doing, Steps
<1>5. ParseTypeChange => Steps
  BY TurnSteps DEF ParseTypeChange, Doing, Steps
<1>6. ParseIf => Steps
  BY TurnSteps DEF ParseIf, Doing, Steps
<1>7. ParseWhile => Steps
  BY TurnSteps DEF ParseWhile, Doing, Steps
<1>8. ParseCondition => Steps
  BY TurnSteps DEF ParseCondition, Doing, Steps
<1>9. ParseElse => Steps
  BY TurnSteps DEF ParseElse, Doing, Steps
<1>10. ParseImport => Steps
  BY TurnSteps DEF ParseImport, Doing, Steps
<1> QED BY <1>1, <1>2, <1>3, <1>4, <1>5, <1>6, <1>7, <1>8, <1>9, <1>10 DEF Statements

LEMMA CursorAreSafe == Going /\ panic /\ Cursor => Safe'
BY ExpectSafe, NameSafe, QuietSafe, DiscardSafe, OtherSafe
   DEF Cursor

LEMMA ExpressionsAreSafe == Going /\ panic /\ Expressions => Safe'
BY ExprSafe, LedSafe, InitializerSafe, InstantiationSafe, PrimarySafe, ItemsSafe, SeparatorSafe,
   OperatorSafe, GroupingSafe, CallSafe, BuildCallSafe, FieldsSafe, FieldSafe, StructValueSafe,
   CollectSafe, ReturnSafe, BreakSafe, TypeofSafe, VolatileSafe, BuildSafe, TypeSafe, TypeLedSafe
   DEF Expressions

LEMMA DeclarationsAreSafe == Going /\ panic /\ Declarations => Safe'
BY NameSafe, DefaultSafe, UnusedSafe, AliasSafe, AccessSafe, RecoverSafe, NotAnySafe, VarMakeSafe,
   MakeThreeSafe, MembersSafe, StructMakeSafe, StructSafe, VarInitSafe, VarSafe, ParamsSafe, ParamSafe,
   RoutineSafe, MemberSafe, MemberNameSafe, FuncSafe, BodySafe, ColonSafe, RetypeSafe
   DEF Declarations

LEMMA StatementsAreSafe == Going /\ panic /\ Statements => Safe'
BY ExprStmtSafe, IfSafe, ConditionSafe, ElseSafe, ImportSafe, TypeChangeSafe, StmtSafe, BlockSafe,
   StatementsSafe
   DEF Statements

\* The inductive invariant.
NullInv == panic => Safe

\* With panic the parser reads no null pointer that an error left behind, except
\* where a module's name is no string.
THEOREM NullNeverRead == Spec => []NothingReadAfterError
<1>1. Init => NullInv
  BY InitSafe DEF NullInv
<1>2. NullInv /\ [Next]_vars => NullInv'
  <2> SUFFICES ASSUME NullInv, [Next]_vars, panic' PROVE Safe'
    BY DEF NullInv
  <2>1. CASE UNCHANGED vars
    <3>1. panic /\ Safe
      BY <2>1 DEF NullInv, vars
    <3> QED BY <2>1, <3>1 DEF vars, Safe, Going, Typed, Cur, Ahead, Top
  <2>2. CASE Next
    <3>1. phase = "parse" /\ panic' = panic
      BY <2>2, CursorSteps, ExpressionsSteps, DeclarationsSteps, StatementsSteps, TurnSteps
         DEF Next, Steps, FinishParse
    <3>2. Going /\ panic
      BY <3>1 DEF NullInv, Safe
    <3> QED BY <2>2, <3>2, CursorAreSafe, ExpressionsAreSafe, DeclarationsAreSafe, StatementsAreSafe, OtherSafe DEF Next
  <2> QED BY <2>1, <2>2
<1>3. NullInv => NothingReadAfterError
  BY DEF NullInv, Safe, NothingReadAfterError
<1> QED BY <1>1, <1>2, <1>3, PTL DEF Spec
=============================================================================
