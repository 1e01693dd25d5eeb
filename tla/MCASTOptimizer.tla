---------------------------- MODULE MCASTOptimizer ----------------------------
(* Trees for TLC, written as nested nodes and put into a heap. *)
EXTENDS ASTMeaning

None == Node("none", "", 0, << >>)

RECURSIVE Size(_), Load(_, _)
Size(n) == IF n = None THEN 0 ELSE 1 + FoldSeq(+, 0, [i \in DOMAIN n.kids |-> Size(n.kids[i])])

\* The nodes of tree n when it is put at address a.
Load(n, a) ==
  LET at(i) == a + 1 + FoldSeq(+, 0, [j \in 1 .. i - 1 |-> Size(n.kids[j])])
  IN  IF n = None THEN << >>
      ELSE <<[n EXCEPT !.kids = [i \in DOMAIN n.kids |-> IF n.kids[i] = None THEN 0 ELSE at(i)]]>>
             \o FlattenSeq([i \in DOMAIN n.kids |-> Load(n.kids[i], at(i))])

Block(kids)      == Node("block", "", 0, kids)
Program(kids)    == <<Node("frame", "", 0, <<Root>>)>> \o Load(Block(kids), Root)
Num(n)           == Node("number", "", n, << >>)
Bool(val)        == Node("bool", val, 0, << >>)
Symbol(name)     == Node("symbol", name, 0, << >>)
Call             == Node("call", "f", 0, << >>)
Prefix(op, e)    == Node("prefix", op, 0, <<e>>)
Binary(l, op, r) == Node("binary", op, 0, <<l, r>>)
If(c, t, e)      == Node("if", "", 0, <<c, t, e>>)
While(c, b, e)   == Node("while", "", 0, <<c, b, e>>)
ExprStmt(e)      == Node("exprstmt", "", 0, <<e>>)
Assign(name, e)  == ExprStmt(Node("assign", "=", 0, <<Symbol(name), e>>))
Decl(type, n, e) == Node("decl", type, n, <<e>>)
Other            == Node("other", "", 0, << >>)

\* MCInputs are programs whose meaning the optimizer keeps and AlteredInputs
\* have those of the five kinds whose meaning it changes (Altered).  In no
\* input are two negations of a number, which are skipped by design.

\* Expressions.
Atoms    == {Num(1), Num(2), Symbol("a"), Symbol("b")}
Sums     == {Binary(l, op, r) : l, r \in Atoms, op \in {"+", "-"}}
Products == {Binary(l, "*", r) : l, r \in Atoms}
Signed   == {Prefix(op, e) : op \in {"-", "+"}, e \in Atoms \cup Products} \cup {Prefix("+", e) : e \in Sums}
Twice    == {Prefix(op, e) : op \in {"-", "+"}, e \in Signed}
Mixed    == {Binary(l, op, r) : l \in Sums \cup Signed, op \in {"-", "*"}, r \in {Num(2), Symbol("a")}}
Compared == {Binary(l, op, r) : l, r \in {Num(1), Num(2), Symbol("a"), Prefix("-", Num(1))}, op \in {"==", "!=", "<", ">", "<=", ">="}}
Truths   == {Bool("true"), Bool("false"), Symbol("x"), Call} \cup {Binary(Num(1), op, Num(2)) : op \in {"==", "<"}}
Negated  == {Prefix("!", e) : e \in Truths \cup Compared}
Joined   == {Binary(l, "&&", r) : l, r \in Truths}

ExprPrograms ==
  {Program(<<Assign("z", e)>>) : e \in Atoms \cup Sums \cup Signed \cup Twice \cup Mixed \cup Compared \cup Negated
                                         \cup {Prefix("!", Prefix("!", Symbol("x")))}}

FastPrograms == {Program(<<Assign("z", e)>>) : e \in Compared \cup Joined}

\* Statements.
Set(n)     == Assign("z", Num(n))
Conditions == {Symbol("x"), Prefix("!", Symbol("x")), Binary(Num(1), "==", Num(1)), Bool("false")}
Vanishing  == {Block(<< >>), If(Symbol("x"), Block(<< >>), None)}
Simple1    == {Set(1), Block(<<Set(1)>>), Block(<<Decl("any", 1, Num(1)), Set(2)>>), Block(<<Block(<<Set(1)>>), If(Bool("false"), Set(2), None)>>)}
Branches   == Simple1 \cup Vanishing \cup {Block(<<v>>) : v \in Vanishing \ {Block(<< >>)}}
Ifs1       == {If(c, t, e) : c \in Conditions \cup {Call}, t \in Simple1, e \in Branches \cup {None}}
                \cup {If(c, t, e) : c \in Conditions, t \in Branches, e \in Branches \cup {None}}
Whiles1    == {While(c, b, e) : c \in Conditions \cup {Call}, b \in Simple1, e \in Branches \cup {None}}
                \cup {While(Symbol("x"), b, Set(2)) : b \in Vanishing}
Ifs2       == {If(Symbol("x"), s, e) : s \in Ifs1 \cup Whiles1, e \in {Set(2), None}}
                \cup {If(Prefix("!", Symbol("x")), Block(<< >>), s) : s \in Ifs1 \cup Whiles1}
\* A while directly in a while has the same condition and no else branch.
Whiles2    == {While(Symbol("x"), s, None) : s \in Ifs1 \cup {Block(<<w, Other>>) : w \in Whiles1}}
                \cup {While(Symbol("x"), While(Bool("false"), Set(1), Set(2)), None)}
                \cup {While(Symbol("x"), While(Symbol("x"), b, None), e) : b \in Simple1, e \in {None, Set(2)}}
                \cup {While(Symbol("x"), While(Symbol("x"), While(Symbol("x"), Set(1), None), None), None)}
Endless    == {While(c, Block(<< >>), None) : c \in {Symbol("x"), Num(1), Bool("false")}}
Declared   == {Decl("auto", 1, Num(1)), Decl("number", 1, Num(1)), Decl("number", 1, Bool("true")), Decl("bool", 1, Symbol("x")),
               Decl("uint8", 1, Num(1)), Decl("any", 1, Binary(Num(1), "+", Num(2)))}

\* Ifs that leave a block without statements, which must not be the only
\* statement of a block.
Emptied ==
  {s \in Ifs1 : s.kids[1] \in {Bool("false"), Binary(Num(1), "==", Num(1))}
                  /\ s.kids[IF s.kids[1] = Bool("false") THEN 3 ELSE 2] \in Branches \ (Simple1 \cup {If(Symbol("x"), Block(<< >>), None)})}

StmtPrograms ==
  {Program(<<s>>) : s \in (Ifs1 \ Emptied) \cup Whiles1 \cup Ifs2 \cup Whiles2}
    \cup {Program(<<s, Other>>) : s \in Emptied \cup Endless}
    \cup {Program(<<Block(<<s, Set(3)>>)>>) : s \in Ifs1 \cup Whiles1}

MCInputs ==
  [heap : ExprPrograms \cup StmtPrograms, fast : {FALSE}, panic : {TRUE}]
    \cup [heap : {Program(<<s>>) : s \in Declared}, fast : {FALSE}, panic : BOOLEAN]
    \cup [heap : FastPrograms, fast : {TRUE}, panic : {TRUE}]

\* Blocks in blocks, of which one is left without statements.
NestedInputs ==
  [heap : {Program(<<s, Other>>) : s \in {Block(<<Block(<<Block(<< >>)>>)>>), Block(<<Block(<<If(Symbol("x"), Block(<< >>), None)>>)>>)}}
            \cup {Program(<<Block(<<v, Block(<<Block(<< >>)>>)>>), Other>>) : v \in Vanishing},
   fast : {FALSE}, panic : {TRUE}]

\* Where the meaning changes (Altered), next to inputs where it does not.
AlteredInputs ==
  [heap : {Program(<<Assign("z", Prefix("-", s))>>) : s \in Sums}
            \cup {Program(<<While(Symbol("x"), w, None)>>) : w \in {w \in Whiles1 : w.kids[3] \in Simple1 \cup {None}}}
            \cup {Program(<<If(Call, Block(<< >>), e), Set(1)>>) : e \in {Block(<< >>), None}}
            \cup {Program(<<If(Symbol("x"), Set(1), Block(<<s>>)), Set(2)>>) : s \in {Set(3), Decl("any", 1, Num(1))}},
   fast : {FALSE}, panic : {TRUE}]
    \cup [heap : {Program(<<Assign("z", e)>>) : e \in Joined \cup {Binary(Call, op, Call) : op \in {"==", "!="}}},
          fast : BOOLEAN, panic : {TRUE}]

AllInputs == MCInputs \cup AlteredInputs

\* One program with a node of each of the five kinds.
AllFiveInputs ==
  [heap : {Program(<<Assign("z", Prefix("-", Binary(Symbol("a"), "-", Symbol("b")))), If(Call, Block(<< >>), None),
                     Assign("z", Binary(Call, "==", Call)), If(Symbol("x"), Set(1), Block(<<Decl("any", 1, Num(1))>>)),
                     While(Symbol("x"), While(Call, Set(1), Set(2)), None)>>)},
   fast : {TRUE}, panic : {TRUE}]
=============================================================================
