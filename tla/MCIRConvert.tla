----------------------------- MODULE MCIRConvert -----------------------------
(* All programs of a small shape, for TLC.                                 *)
EXTENDS IRMeaning

CONSTANTS WithNullThen,  \* include an if without a then node but with an else
          Widest         \* number of statements of the outermost block

MCNames == {"x"}

Leaf(kind, flag)    == [kind |-> kind, name |-> "x", flag |-> flag, kids |-> << >>]
Compound(kind, flag, kids) == [kind |-> kind, name |-> "x", flag |-> flag, kids |-> kids]

NullPtr == Leaf("null", FALSE)
Work    == Leaf("other", FALSE)

Level0 == {NullPtr, Work}

IfsOver(S, neg) ==
  {Compound("if", neg, <<t, e>>) : t \in S, e \in S}
     \ (IF WithNullThen THEN {} ELSE {Compound("if", neg, <<NullPtr, e>>) : e \in S \ {NullPtr}})
WhilesOver(S) ==
  {Compound("while", FALSE, <<b, NullPtr>>) : b \in S \ {NullPtr}}
    \cup {Compound("while", FALSE, <<Work, Work>>)}
BlocksOver(S) == {Compound("block", FALSE, << >>)}
                   \cup {Compound("block", FALSE, <<a>>) : a \in S \ {NullPtr}}

Level1 == Level0 \cup IfsOver(Level0, FALSE) \cup WhilesOver(Level0) \cup BlocksOver(Level0)
Level2 == Level1 \cup IfsOver(Level1, FALSE) \cup WhilesOver(Level1) \cup BlocksOver(Level1)

\* Nested control flow in a block of up to Widest statements.
NestedBodies ==
  {<<a>> : a \in Level2}
    \cup (IF Widest >= 2 THEN {<<a, b>> : a \in Level2, b \in Level1 \ {NullPtr}} ELSE {})
    \cup (IF Widest >= 2 THEN {<<a, b>> : a \in Level1 \ {NullPtr}, b \in Level2} ELSE {})

\* Every kind of leaf, next to one another and under a negated if.
Leaves == {Leaf(k, f) : k \in LeafKinds, f \in BOOLEAN} \cup {Leaf("badassign", FALSE)}
FlatBodies ==
  {<<a, b>> : a \in Leaves, b \in Leaves}
    \cup {<<Compound("if", TRUE, <<a, b>>)>> : a \in Leaves \ {NullPtr, Leaf("null", TRUE)}, b \in Leaves}

MCPrograms == {Compound("block", FALSE, b) : b \in NestedBodies \cup FlatBodies}
MCStmts    == MCPrograms \cup Level2 \cup Leaves
               \cup UNION {{b[i] : i \in DOMAIN b} : b \in NestedBodies \cup FlatBodies}
=============================================================================
