--------------------------- MODULE ParserProperties ---------------------------
(***************************************************************************)
(* What the parser owes its caller.  The properties are stated on the      *)
(* token list and on the tree that is returned for it, never on the way    *)
(* the tree was built.                                                     *)
(***************************************************************************)
EXTENDS Parser, SequencesExt

RECURSIVE Nodes(_), Written(_, _)

\* All nodes of a tree.
Nodes(n) == <<n>> \o FlattenSeq([i \in DOMAIN n.kids |-> Nodes(n.kids[i])])

Accepted == phase = "done" /\ ~failed

-----------------------------------------------------------------------------
(* Types.                                                                  *)

StmtNodes == {"block", "exprstmt", "decl", "unused", "alias", "struct", "func", "typechange", "if", "while", "import"}
ExprNodes == {"symbol", "string", "literal", "arrayvalue", "binary", "prefix", "assign", "call", "structvalue",
              "return", "break", "typeof", "volatile"}
TypeNodes == {"type", "array"}

KidsOf(is) ==
  CASE is = "block" -> StmtNodes
    [] is = "struct" -> {"property", "method"}
    [] is \in {"if", "while"} -> ExprNodes \cup StmtNodes
    [] is \in {"func", "method"} -> TypeNodes \cup StmtNodes \cup {"param", "return"}
    [] is = "structvalue" -> {"field"}
    [] is \in {"arrayvalue", "param", "property", "decl", "typechange"} -> TypeNodes \cup ExprNodes
    [] is = "array" -> TypeNodes
    [] is = "volatile" -> StmtNodes
    [] OTHER -> ExprNodes

\* Types: the cursor never moves back before the first token, and every node
\* of a tree that is returned has subnodes of the kinds its class has.
TypeOK ==
  /\ pos \in Nat /\ panic \in BOOLEAN /\ failed \in BOOLEAN
  /\ phase \in {"parse", "done", "exited", "crashed", "threw"}
  /\ phase = "done" =>
       /\ Len(vals) = 1
       /\ \A n \in ToSet(Nodes(vals[1])) : \A k \in ToSet(Present(n.kids)) : k.is \in KidsOf(n.is)

-----------------------------------------------------------------------------
(* Completeness.                                                           *)

TextKinds == {"IDENTIFIER", "NUMBER", "HUGE", "STRING", "LITERAL", "NULL", "TYPE", "AUTO", "ANY", "+=", "&&", "+", "-", "!"}
Kind(i)   == IF tokens[i] \in Names THEN "IDENTIFIER" ELSE tokens[i]

\* A type name that is a statement by itself is skipped on purpose.  An import
\* needs no semicolon before the next statement.
Alone(i) ==
  /\ Kind(i) \in TypeNames /\ i < Len(tokens) /\ Kind(i + 1) = ";"
  /\ \/ i = 1
     \/ Kind(i - 1) \in {";", "{", "}", ")", "ELSE", "IF", "ELIF", "WHILE", "USED", "VOLATILE"}
     \/ \E j \in 1 .. i - 1 : Kind(j) = "IMPORT" /\ \A l \in j .. i : Kind(l) # ";"

\* Nothing lost: every name, literal, type and operator of an accepted
\* program is in its tree, and in one place of it, but for what stands before
\* the name of a method without fn: it is skipped as if it were the fn, also
\* when it is the type, and is in none.
NothingLost ==
  Accepted =>
    LET nodes     == Nodes(vals[1])
        methods   == {nodes[j].at : j \in {j \in DOMAIN nodes : nodes[j].is = "method"}}
        places(i) == {j \in DOMAIN nodes : nodes[j].at = i}
    IN  /\ \A i \in DOMAIN tokens :
             Kind(i) \in TextKinds /\ ~Alone(i) => (places(i) = {} <=> i + 1 \in methods /\ Kind(i - 1) # "FN")
        /\ \A i, j \in DOMAIN nodes : nodes[i].at = nodes[j].at /\ nodes[i].at # 0 => i = j

-----------------------------------------------------------------------------
(* Expressions.                                                            *)

\* The operators, the weakest first.
Operators == <<{"=", "+="}, {"&&"}, {"<", ">"}, {"+", "-"}, {"*"}, {"."}>>
Strength(kind) == CHOOSE i \in DOMAIN Operators : kind \in Operators[i]

Least(S)    == CHOOSE x \in S : \A y \in S : x <= y
Greatest(S) == CHOOSE x \in S : \A y \in S : x >= y

\* The tree of the expression written from token a to token b: the weakest
\* operator outside parentheses is its root, the first of its strength for an
\* assignment and the last one for the others.
Written(a, b) ==
  LET count(k, i, j) == Cardinality({m \in i .. j : Kind(m) = k})
      outside(i) == count("(", a, i) = count(")", a, i - 1)
      infix      == {i \in a + 1 .. b : /\ \E l \in DOMAIN Operators : Kind(i) \in Operators[l]
                                        /\ outside(i)
                                        /\ Kind(i - 1) \in {"IDENTIFIER", "NUMBER", "LITERAL", ")"}}
      weakest    == Least({Strength(Kind(i)) : i \in infix})
      roots      == {i \in infix : Strength(Kind(i)) = weakest}
      root       == IF weakest = 1 THEN Least(roots) ELSE Greatest(roots)
      open       == Greatest({i \in a .. b : Kind(i) = "(" /\ count("(", i, b) = count(")", i, b)
                                               /\ \A j \in i + 1 .. b : count("(", j, b) < count(")", j, b)})
      commas     == {i \in open + 1 .. b - 1 : Kind(i) = "," /\ count("(", open + 1, i) = count(")", open + 1, i)}
      ends       == SetToSortSeq(commas \cup {open, b}, <)
      full       == SelectSeq([i \in 1 .. Len(ends) - 1 |-> <<ends[i] + 1, ends[i + 1] - 1>>], LAMBDA s : s[1] <= s[2])
  IN  CASE infix # {} -> Node(IF weakest = 1 THEN "assign" ELSE "binary", root,
                              <<Written(a, root - 1), Written(root + 1, b)>>)
        [] infix = {} /\ Kind(a) \in PrefixKinds -> Node("prefix", a, <<Written(a + 1, b)>>)
        [] infix = {} /\ Kind(b) = ")" /\ open = a -> Written(a + 1, b - 1)
        [] infix = {} /\ Kind(a) \notin PrefixKinds /\ Kind(b) = ")" /\ open # a ->
             Node("call", 0, <<Written(a, open - 1)>> \o [i \in DOMAIN full |-> Written(full[i][1], full[i][2])])
        [] OTHER -> Node(IF Kind(a) = "IDENTIFIER" THEN "symbol" ELSE "literal", a, << >>)

ExprKinds == {"IDENTIFIER", "NUMBER", "LITERAL", "(", ")", ","} \cup PrefixKinds \cup UNION {Operators[i] : i \in DOMAIN Operators}

\* Parsed as written: the tree of an expression statement is the one the
\* strengths of its operators and its parentheses give it.
ParsedAsWritten ==
  LET last == Len(tokens)
  IN  (/\ Accepted
       /\ Kind(last) = ";" /\ \A i \in 1 .. last - 1 : Kind(i) \in ExprKinds
       /\ [i \in DOMAIN vals[1].kids |-> vals[1].kids[i].is] = <<"exprstmt">>)
      => vals[1].kids[1].kids[1] = Written(1, last - 1)

-----------------------------------------------------------------------------
(* The end.                                                                *)

\* Without panic the parser may stay in a list of parameters, and nowhere else.
InParameters == ~panic /\ failed /\ todo # << >> /\ \E i \in DOMAIN todo : todo[i].do = "params"

\* The parser comes to an end, except where a parameter is wrong.
EndsOutsideParameters == <>(phase # "parse" \/ []InParameters)

\* The parser comes to an end with and without panic.
Ends == <>(phase # "parse")
=============================================================================
