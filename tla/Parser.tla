-------------------------------- MODULE Parser --------------------------------
(***************************************************************************)
(* The Pratt parser, src/src/parser: Parse, the statement, expression and  *)
(* type functions, their lookup tables and the error recovery that goes on *)
(* when panic is off.                                                      *)
(*                                                                         *)
(* The call stack of the code is todo, the list of what is still to be     *)
(* done: a function is replaced by what it does next, and a decision taken *)
(* after a call is a task of its own.  Results are pushed on vals.  A      *)
(* token is its kind; kinds the code never tells apart are one kind here   *)
(* ("TYPE" is every keyword of a type but auto, void, any and null, "AUTO" *)
(* auto and void, "LITERAL" every literal but numbers, strings and null,   *)
(* "PRIVATE" every access modifier but internal); sbyte, of which only     *)
(* half of the tables know, and the operators that behave like one that is *)
(* here are left out.                                                      *)
(***************************************************************************)
EXTENDS Integers, Sequences, FiniteSets

CONSTANTS
  Names,    \* identifiers, each a token of kind "IDENTIFIER"
  Inputs    \* token lists, each with the panic option it is parsed under

Kinds ==
  {"IDENTIFIER", "NUMBER", "HUGE", "STRING", "LITERAL", "NULL", "TYPE", "AUTO", "ANY",
   "LET", "CONST", "MUT", "USED", "UNUSED", "ALIAS", "STRUCT", "PRIVATE", "INTERNAL", "STATIC",
   "IF", "ELIF", "ELSE", "WHILE", "INLINE", "FN", "RETURN", "BREAK", "TYPEOF", "VOLATILE",
   "IMPORT", "AS", "=", "+=", "&&", "<", ">", "+", "-", "*", "!", ".", "(", ")", "{", "}", "[", "]",
   ",", ";", ":", "=>", "?", "EOF"}

ASSUME InputAssumption ==
  Inputs \subseteq [tokens : Seq((Kinds \ {"IDENTIFIER", "EOF"}) \cup Names), panic : BOOLEAN]

VARIABLES
  tokens,   \* the token list
  panic,    \* CompilerOptions.panic
  pos,      \* tokens consumed, Parser::pos
  todo,     \* what is still to be done, the next first
  vals,     \* results of what is done, the last one last
  failed,   \* a message has been printed or an error recorded
  phase     \* "parse", "done", "exited", "crashed", "threw"

vars == <<tokens, panic, pos, todo, vals, failed, phase>>

-----------------------------------------------------------------------------
(* Tokens.                                                                 *)

Types       == {"TYPE", "AUTO", "ANY", "NULL"}
TypeNames   == {"TYPE", "AUTO", "ANY", "IDENTIFIER"}
MaybeTypes  == Types \cup {"IDENTIFIER"}
AccessKinds == {"PRIVATE", "INTERNAL"}

\* The kind of the token i places after the cursor.
Ahead(i) ==
  IF pos + i >= Len(tokens) THEN "EOF"
  ELSE IF tokens[pos + i + 1] \in Names THEN "IDENTIFIER" ELSE tokens[pos + i + 1]

Cur       == Ahead(0)
HasTokens == Cur # "EOF"

\* The number of tokens before the first one of a kind in K.
Distance(K) == CHOOSE d \in 0 .. Len(tokens) + 1 :
                 Ahead(d) \in K \cup {"EOF"} /\ \A e \in 0 .. d - 1 : Ahead(e) \notin K \cup {"EOF"}

\* The number of tokens before the "}" that closes the "{" at the cursor.
BlockLength ==
  LET depth(d) == Cardinality({e \in 0 .. d : Ahead(e) = "{"})
                    - Cardinality({e \in 0 .. d : Ahead(e) = "}"})
      stops(d) == Ahead(d) = "EOF" \/ depth(d) <= 0
  IN  CHOOSE d \in 0 .. Len(tokens) + 1 : stops(d) /\ \A e \in 0 .. d - 1 : ~stops(e)

-----------------------------------------------------------------------------
(* Binding powers and handlers.                                            *)

default_bp     == 0
assignment     == 2
logical        == 3
relational     == 4
additive       == 5
multiplicative == 6
unary          == 7
member         == 8
call           == 9

AssignKinds == {"=", "+="}
BinaryKinds == {"&&", "<", ">", "+", "-", "*", "."}

bp_lu(kind) ==
  CASE kind \in AssignKinds  -> assignment
    [] kind = "&&"           -> logical
    [] kind \in {"<", ">"}   -> relational
    [] kind \in {"+", "-"}   -> additive
    [] kind = "*"            -> multiplicative
    [] kind = "."            -> member
    [] kind \in {"(", "{"}   -> call
    [] OTHER                 -> default_bp

PrimaryKinds == {"NUMBER", "HUGE", "STRING", "LITERAL", "NULL", "AUTO", "ANY", "IDENTIFIER"}
PrefixKinds  == {"-", "+", "!"}
nud_lu       == PrimaryKinds \cup PrefixKinds \cup {"(", "[", "RETURN", "BREAK", "TYPEOF", "VOLATILE"}
type_nud_lu  == MaybeTypes \cup {"["}

nud_fn(kind) ==
  CASE kind \in PrimaryKinds -> "primary"
    [] kind \in PrefixKinds  -> "prefix"
    [] kind = "("            -> "grouping"
    [] kind = "["            -> "array_instantiation"
    [] kind = "RETURN"       -> "return"
    [] kind = "BREAK"        -> "break"
    [] kind = "TYPEOF"       -> "typeof"
    [] kind = "VOLATILE"     -> "volatile"

led_fn(kind) ==
  CASE kind \in AssignKinds -> "assignment"
    [] kind \in BinaryKinds -> "binary"
    [] kind = "{"           -> "struct_instantiation"
    [] kind = "("           -> "function_call"

stmt_lu(kind) ==
  CASE kind \in {"LET", "CONST", "MUT", "[", "USED", "TYPE", "AUTO", "ANY", "IDENTIFIER"} -> "var_decl"
    [] kind \in {"INLINE", "FN"} -> "func_decl"
    [] kind = "ALIAS"            -> "alias_decl"
    [] kind = "STRUCT"           -> "struct_decl"
    [] kind = "IF"               -> "if"
    [] kind = "WHILE"            -> "while"
    [] kind = "UNUSED"           -> "unused"
    [] kind = "TYPEOF"           -> "type_change"
    [] kind = "IMPORT"           -> "import"
    [] OTHER                     -> "none"

-----------------------------------------------------------------------------
(* Nodes.  at is the position of the token a node is named by, kids are    *)
(* its subnodes in the order they are parsed.  A node is holed when its    *)
(* GetValue runs into a null pointer, and unprinted when its GetName or    *)
(* Dump does, which most nodes write to skip a subnode that is null.       *)

NullPtr == [is |-> "null", at |-> 0, kids |-> << >>, holed |-> FALSE, unprinted |-> FALSE]

IsAny(n) == n.is = "type" /\ n.at \in DOMAIN tokens /\ tokens[n.at] = "ANY"

\* Nodes whose GetValue reads their subnodes without a test, and those of
\* them whose GetName does too.
Strict  == {"binary", "prefix", "assign", "call", "array"}
Printed == {"call", "array"}

\* A volatile expression has the dump of its statement as its value.
Node(is, at, kids) ==
  LET hole  == \E i \in DOMAIN kids : kids[i] = NullPtr
      print == (is \in Printed /\ hole) \/ \E i \in DOMAIN kids : kids[i].unprinted
      value == (is \in Strict /\ hole) \/ \E i \in DOMAIN kids : kids[i].holed
  IN  [is |-> is, at |-> at, kids |-> kids,
       holed |-> IF is = "volatile" THEN print ELSE value, unprinted |-> print]

Leaf(is)     == Node(is, pos + 1, << >>)
Text(n)      == IF n.at \in DOMAIN tokens THEN tokens[n.at] ELSE "EOF"
Unread(n)    == n = NullPtr \/ n.holed

\* The elements of seq at the indices I, in their order (by index and not with
\* SelectSeq, of which a proof knows nothing).
Place(I, k)   == CHOOSE i \in I : Cardinality({j \in I : j < i}) = k - 1
Those(seq, I) == [k \in 1 .. Cardinality(I) |-> seq[Place(I, k)]]

Present(seq) == Those(seq, {i \in DOMAIN seq : seq[i] # NullPtr})

\* What an unordered_map keeps of nodes stored in it one after the other.
Latest(seq)  == Those(seq, {i \in DOMAIN seq : ~ \E j \in DOMAIN seq :
                  seq[j].is = seq[i].is /\ Text(seq[j]) = Text(seq[i]) /\ seq[j].at > seq[i].at})

-----------------------------------------------------------------------------
(* Tasks.  n is a binding power or the length vals had when a loop began,  *)
(* loc the local flags of the function.                                    *)

T(do, kinds, n, loc) == [do |-> do, kinds |-> kinds, n |-> n, loc |-> loc]

Do(do)         == T(do, {}, 0, {})
With(do, loc)  == T(do, {}, 0, loc)
Expect(kinds)  == T("expect", kinds, 0, {})
Skip(kinds)    == T("skip", kinds, 0, {})
Until(kinds)   == T("until", kinds, 0, {})
Expr(bp)       == T("expr", {}, bp, {})
Type(bp)       == T("type", {}, bp, {})
Build(is, at)  == T("build", {}, at, {is})
Collect(is, h) == T("collect", {}, h, {is})   \* a node of all results above h

SkipStatement  == <<Until({";"}), Expect({";"})>>

Top      == Head(todo)
Doing(d) == phase = "parse" /\ todo # << >> /\ Top.do = d
V(i)     == vals[Len(vals) + 1 - i]       \* the i-th last result
Above(h) == SubSeq(vals, h + 1, Len(vals))

\* Consumes k tokens, replaces the last drop results by give and the task by next.
Turn(k, drop, give, next) ==
  /\ pos' = pos + k
  /\ vals' = SubSeq(vals, 1, Len(vals) - drop) \o give
  /\ todo' = next \o Tail(todo)
  /\ UNCHANGED <<tokens, panic, failed, phase>>

Then(k, next) == Turn(k, 0, << >>, next)

End(outcome) ==
  /\ phase' = outcome
  /\ UNCHANGED <<tokens, panic, pos, todo, vals, failed>>

\* Mutant: the error is reported and parsing goes on, panic or not.
ReportOnly(k, drop, give, next) ==
  /\ pos' = pos + k
  /\ vals' = SubSeq(vals, 1, Len(vals) - drop) \o give
  /\ todo' = next \o Tail(todo)
  /\ failed' = TRUE
  /\ UNCHANGED <<tokens, panic, phase>>

\* An error: with panic the process ends, without it goes on like Turn.
Report(k, drop, give, next) ==
  IF panic
  THEN failed' = TRUE /\ phase' = "exited" /\ UNCHANGED <<tokens, panic, pos, todo, vals>>
  ELSE /\ pos' = pos + k
       /\ vals' = SubSeq(vals, 1, Len(vals) - drop) \o give
       /\ todo' = next \o Tail(todo)
       /\ failed' = TRUE
       /\ UNCHANGED <<tokens, panic, phase>>

Init ==
  /\ \E i \in Inputs : tokens = i.tokens /\ panic = i.panic
  /\ pos = 0
  /\ vals = << >>
  /\ todo = <<T("statements", {"EOF"}, 0, {})>>
  /\ failed = FALSE
  /\ phase = "parse"

-----------------------------------------------------------------------------
(* The cursor.                                                             *)

\* expect, expectError: a wrong token is reported and consumed.
ExpectToken ==
  /\ Doing("expect")
  /\ IF Cur \in Top.kinds THEN Then(1, << >>) ELSE Report(1, 0, << >>, << >>)

\* expectError(IDENTIFIER, ...) where the name is kept.
ExpectName ==
  /\ Doing("name")
  /\ IF Cur = "IDENTIFIER" THEN Turn(1, 0, <<Leaf("symbol")>>, << >>)
     ELSE Report(1, 0, <<Leaf("symbol")>>, << >>)

Advance      == Doing("advance") /\ Then(1, << >>)
Optional     == Doing("skip") /\ Then(IF Cur \in Top.kinds THEN 1 ELSE 0, << >>)
advanceUntil == Doing("until") /\ Then(Distance(Top.kinds), << >>)
advanceDepth == Doing("depth") /\ Then(BlockLength, << >>)

\* Mutant: a result that should not be kept stays.
DiscardKept == Doing("discard") /\ Then(0, << >>)

\* A result that is not kept.
Discard == Doing("discard") /\ Turn(0, 1, << >>, << >>)

-----------------------------------------------------------------------------
(* Expressions.                                                            *)

ParseExpr ==
  /\ Doing("expr")
  /\ IF Cur \in nud_lu
     THEN Then(0, <<Do(nud_fn(Cur)), T("led", {}, Top.n, {})>>)
     ELSE Report(0, 0, <<NullPtr>>, << >>)

\* Mutant: an operator of the same power continues the right operand.
ParseLedEqual ==
  /\ Doing("led")
  /\ IF bp_lu(Cur) >= Top.n /\ bp_lu(Cur) > 0 THEN Then(0, <<Do(led_fn(Cur)), Top>>) ELSE Then(0, << >>)

\* The loop of parse_expr.  Every kind with a power has a led handler.
ParseLed ==
  /\ Doing("led")
  /\ IF bp_lu(Cur) > Top.n THEN Then(0, <<Do(led_fn(Cur)), Top>>) ELSE Then(0, << >>)

\* is_postfix_array_instantiation_start
PostfixArrayStart ==
  /\ Cur \in MaybeTypes
  /\ \E k \in 1 .. Len(tokens) :
       Ahead(2 * k + 1) = "{" /\ \A j \in 1 .. k : Ahead(2 * j - 1) = "[" /\ Ahead(2 * j) = "]"

\* A type keyword is recorded as an error without panic and not consumed.
ParsePrimary ==
  /\ Doing("primary")
  /\ \/ PostfixArrayStart /\ Then(0, <<Type(default_bp), Do("array_initializer")>>)
     \/ ~PostfixArrayStart /\ Cur = "HUGE" /\ Report(1, 0, <<NullPtr>>, << >>)
     \/ /\ ~PostfixArrayStart /\ Cur \in {"AUTO", "ANY"}
        /\ failed' = TRUE /\ vals' = Append(vals, NullPtr) /\ todo' = Tail(todo)
        /\ UNCHANGED <<tokens, panic, pos, phase>>
     \/ /\ ~PostfixArrayStart /\ Cur \notin {"HUGE", "AUTO", "ANY"}
        /\ LET is == CASE Cur = "IDENTIFIER" -> "symbol" [] Cur = "STRING" -> "string" [] OTHER -> "literal"
           IN  Turn(1, 0, <<Leaf(is)>>, << >>)

ParseArrayInitializer ==
  /\ Doing("array_initializer")
  /\ Then(0, <<Expect({"{"}), T("items", {"}"}, 0, {}), Expect({"}"}), Collect("arrayvalue", Len(vals) - 1)>>)

ParseArrayInstantiation ==
  /\ Doing("array_instantiation")
  /\ Then(0, <<Expect({"["}), Expect({"]"}), Type(unary), Do("array_initializer")>>)

\* The loops over arguments and array elements.
ParseItems ==
  /\ Doing("items")
  /\ IF HasTokens /\ Cur \notin Top.kinds
     THEN Then(0, <<Expr(default_bp), T("separator", Top.kinds, 0, {","}), Top>>)
     ELSE Then(0, << >>)

ParseSeparator ==
  /\ Doing("separator")
  /\ Then(0, IF Cur \in Top.kinds THEN << >> ELSE <<Expect(Top.loc)>>)

ParseBinary == Doing("binary") /\ Then(1, <<Expr(bp_lu(Cur)), Build("binary", pos + 1)>>)
ParsePrefix == Doing("prefix") /\ Then(1, <<Expr(unary), Build("prefix", pos + 1)>>)

\* Right associative.
ParseAssignment == Doing("assignment") /\ Then(1, <<Expr(assignment - 1), Build("assign", pos + 1)>>)

ParseGrouping == Doing("grouping") /\ Then(0, <<Expect({"("}), Expr(default_bp), Expect({")"})>>)

ParseFunctionCall ==
  /\ Doing("function_call")
  /\ Then(0, <<Expect({"("}), T("items", {")"}, 0, {}), Expect({")"}), T("call", {}, Len(vals) - 1, {})>>)

\* FunctionCallExpr(left->GetValue(), arguments)
BuildCall ==
  /\ Doing("call")
  /\ IF Unread(vals[Top.n + 1]) THEN End("crashed")
     ELSE Turn(0, Len(vals) - Top.n, <<Node("call", 0, Above(Top.n))>>, << >>)

ParseStructInstantiation ==
  /\ Doing("struct_instantiation")
  /\ IF V(1).is = "symbol"
     THEN Then(0, <<Expect({"{"}), Do("fields"), Expect({"}"}), T("structvalue", {}, Len(vals), {})>>)
     ELSE Report(0, 1, <<NullPtr>>, <<Do("depth"), Expect({"}"})>>)

\* Mutant: a separator without a field before it is not consumed.
ParseFieldsStuck ==
  /\ Doing("fields")
  /\ IF ~HasTokens \/ Cur = "}" THEN Then(0, << >>)
     ELSE IF Cur \in {",", ";"} THEN Then(0, <<Top>>)
     ELSE Then(0, <<Do("name"), Expect({":", "="}), Expr(logical), Do("field"),
                    T("separator", {"}"}, 0, {",", ";"}), Top>>)

ParseFields ==
  /\ Doing("fields")
  /\ IF ~HasTokens \/ Cur = "}" THEN Then(0, << >>)
     ELSE IF Cur \in {",", ";"} THEN Then(1, <<Top>>)
     ELSE Then(0, <<Do("name"), Expect({":", "="}), Expr(logical), Do("field"),
                    T("separator", {"}"}, 0, {",", ";"}), Top>>)

BuildField == Doing("field") /\ Turn(0, 2, <<Node("field", V(2).at, <<V(1)>>)>>, << >>)

BuildStructValue ==
  /\ Doing("structvalue")
  /\ Turn(0, Len(vals) - Top.n + 1, <<Node("structvalue", vals[Top.n].at, Latest(Above(Top.n)))>>, << >>)

ParseReturn ==
  \/ Doing("return") /\ Then(0, <<Expect({"RETURN"}), Do("return_value")>>)
  \/ /\ Doing("return_value")
     /\ IF Cur = ";" THEN Turn(1, 0, <<Node("return", 0, << >>)>>, << >>)
        ELSE Then(0, <<Expr(default_bp), Build("return", 0)>>)

Levels(i) == Node("break", pos + 1, <<Node("literal", pos + 1 + i, << >>)>>)

ParseBreak ==
  /\ Doing("break")
  /\ LET dot == IF Ahead(1) = "." THEN 1 ELSE 0
         k   == Ahead(1 + dot)
     IN  CASE k = "NUMBER"                      -> Turn(2 + dot, 0, <<Levels(1 + dot)>>, << >>)
           [] k = "HUGE"                        -> End("threw")
           [] k \notin {"NUMBER", "HUGE"} /\ dot = 1 -> Turn(2, 0, <<Leaf("break")>>, << >>)
           [] dot = 0 /\ k = ";"                -> Turn(1, 0, <<Leaf("break")>>, << >>)
           [] dot = 0 /\ k \in {"FN", "*"}      -> Turn(2, 0, <<Leaf("break")>>, << >>)
           [] OTHER                             -> Report(1, 0, <<Leaf("break")>>, << >>)

ParseTypeof ==
  \/ Doing("typeof") /\ Then(0, <<Expect({"TYPEOF"}), Do("typeof_open")>>)
  \/ /\ Doing("typeof_open")
     /\ CASE Cur = "(" -> Then(1, <<Expr(unary), Expect({")"}), Build("typeof", 0)>>)
          [] Cur = ";" -> Report(1, 0, <<Node("typeof", 0, << >>)>>, << >>)
          [] OTHER     -> Report(1, 0, << >>, <<Expr(unary), Build("typeof", 0)>>)

ParseVolatile == Doing("volatile") /\ Then(1, <<Do("stmt"), Build("volatile", 0)>>)

\* A node of as many results as its kind takes.
Arity(is) ==
  CASE is \in {"if", "while"} -> 3
    [] is \in {"binary", "assign", "typechange", "alias", "import"} -> 2
    [] OTHER -> 1

BuildNode ==
  /\ Doing("build")
  /\ \E is \in Top.loc :
       Turn(0, Arity(is), <<Node(is, Top.n, Above(Len(vals) - Arity(is)))>>, << >>)

\* A node of a name, the first result, and what is there of the others.
CollectNode ==
  /\ Doing("collect")
  /\ \E is \in Top.loc :
       Turn(0, Len(vals) - Top.n, <<Node(is, 0, Present(Above(Top.n)))>>, << >>)

-----------------------------------------------------------------------------
(* Types.                                                                  *)

ParseType ==
  /\ Doing("type")
  /\ LET led == T("type_led", {}, Top.n, {})
     IN  CASE Cur \notin type_nud_lu -> Report(0, 0, <<NullPtr>>, << >>)
           [] Cur = "["   -> Then(0, <<Expect({"["}), Expect({"]"}), Type(unary), Build("array", 0), led>>)
           [] OTHER       -> Turn(1, 0, <<Leaf("type")>>, <<led>>)

ParseTypeLed ==
  /\ Doing("type_led")
  /\ IF Cur = "[" /\ call > Top.n
     THEN Then(0, <<Expect({"["}), Expect({"]"}), Build("array", 0), Top>>)
     ELSE Then(0, << >>)

-----------------------------------------------------------------------------
(* Statements.                                                             *)

\* The loops of Parse and parse_block_stmt; null statements are not kept.
ParseStatements ==
  /\ Doing("statements")
  /\ IF HasTokens /\ Cur \notin Top.kinds
     THEN Then(0, <<Do("stmt"), Top>>)
     ELSE Turn(0, Len(vals) - Top.n, <<Node("block", 0, Present(Above(Top.n)))>>, << >>)

ParseBlock ==
  /\ Doing("block")
  /\ Then(0, <<Expect({"{"}), T("statements", {"}"}, Len(vals), {}), Expect({"}"}), Skip({";"})>>)

ParseStmt ==
  /\ Doing("stmt")
  /\ LET assigns == Cur = "IDENTIFIER" /\ Ahead(1) \in AssignKinds
         loc     == IF Cur = "VOLATILE" THEN {"volatile"} ELSE {}
     IN  \/ Cur = "{" /\ Then(0, <<Do("block")>>)
         \/ /\ Cur # "{" /\ (assigns \/ stmt_lu(Cur) = "none")
            /\ Then(0, <<Expr(default_bp), With("expr_stmt", loc)>>)
         \/ Cur # "{" /\ ~assigns /\ stmt_lu(Cur) # "none" /\ Then(0, <<Do(stmt_lu(Cur))>>)

ParseExprStmt ==
  /\ Doing("expr_stmt")
  /\ IF V(1) = NullPtr THEN Then(0, SkipStatement)
     ELSE Then(0, (IF "volatile" \in Top.loc THEN << >> ELSE <<Expect({";"})>>) \o <<Build("exprstmt", 0)>>)

-----------------------------------------------------------------------------
(* What several declarations have in common.  Their results are a type     *)
(* (or null), a name and the value or default (or null).                   *)

Named(is) == Node(is, V(2).at, <<V(3), V(1)>>)

\* A name that is whatever token is there.
AdvanceName == Doing("any_name") /\ Turn(1, 0, <<Leaf("symbol")>>, << >>)

Initializer ==
  /\ Doing("initializer")
  /\ IF Cur = "=" THEN Then(1, <<Expr(assignment)>>) ELSE Turn(0, 0, <<NullPtr>>, << >>)

\* A type after a colon; vals[n] is the one there may already be.
ColonType ==
  /\ Doing("colon")
  /\ IF Cur # ":" THEN Then(0, << >>)
     ELSE IF "member" \in Top.loc /\ vals[Top.n] # NullPtr THEN Report(2, 0, << >>, << >>)
     ELSE Then(1, <<Type(default_bp), T("retype", {}, Top.n, Top.loc)>>)

AutoType == Node("type", 0, << >>)

\* Two types are an error whose message reads both; all but a variable
\* declaration skip one more token then.  The parameter of a function always
\* has a type afterwards.
Retype ==
  /\ Doing("retype")
  /\ LET old  == vals[Top.n]
         new  == IF V(1) = NullPtr /\ "fn" \in Top.loc THEN AutoType ELSE V(1)
         two  == old # NullPtr \/ "alias" \in Top.loc
         null == old.holed \/ ("var" \in Top.loc /\ Unread(V(1)))
     IN  \/ /\ ~two
            /\ vals' = [SubSeq(vals, 1, Len(vals) - 1) EXCEPT ![Top.n] = new]
            /\ todo' = Tail(todo)
            /\ UNCHANGED <<tokens, panic, pos, failed, phase>>
         \/ two /\ null /\ End("crashed")
         \/ /\ two /\ ~null
            /\ IF old = NullPtr /\ "fn" \in Top.loc THEN Report(1, 3, <<AutoType, V(2)>>, << >>)
               ELSE Report(IF "var" \in Top.loc THEN 0 ELSE 1, 1, << >>, << >>)

-----------------------------------------------------------------------------
(* Variables and aliases.                                                  *)

ParseVarDecl ==
  /\ Doing("var_decl")
  /\ LET u     == IF Cur = "USED" THEN 1 ELSE 0
         p     == u + (IF Ahead(u) \in {"LET", "CONST", "MUT"} THEN 1 ELSE 0)
         alone == Ahead(u) \in TypeNames /\ Ahead(u + 1) = ";"
         typed == Ahead(p) # "IDENTIFIER" \/ Ahead(p + 1) \in {"IDENTIFIER", "["}
         loc   == IF Ahead(u) \in {"LET", "MUT"} THEN {} ELSE {"const"}
         rest  == <<Do("name"), T("colon", {}, Len(vals) + 1, {"var"}), With("var_init", loc)>>
     IN  \/ alone /\ Turn(u + 2, 0, <<NullPtr>>, << >>)
         \/ ~alone /\ typed /\ Then(p, <<Type(default_bp)>> \o rest)
         \/ ~alone /\ ~typed /\ Turn(p, 0, <<NullPtr>>, rest)

ParseVarInit ==
  /\ Doing("var_init")
  /\ IF Cur \in {";", "="}
     THEN Then(0, <<Do("initializer"), Expect({";"}), With("var_make", Top.loc)>>)
     ELSE Report(0, 2, <<NullPtr>>, SkipStatement)

BuildVarDecl ==
  /\ Doing("var_make")
  /\ LET const == "const" \in Top.loc
     IN  CASE const /\ V(3).holed                      -> End("crashed")
           [] const /\ ~V(3).holed
                /\ (IsAny(V(3)) \/ V(1) = NullPtr)     -> Report(0, 3, <<Named("decl")>>, << >>)
           [] OTHER                                    -> Turn(0, 3, <<Named("decl")>>, << >>)

ParseUnused ==
  \/ Doing("unused") /\ Then(0, <<Expect({"UNUSED"}), Do("name"), Do("unused_end")>>)
  \/ /\ Doing("unused_end")
     /\ IF Ahead(-1) # "IDENTIFIER" THEN Turn(0, 1, <<NullPtr>>, SkipStatement)
        ELSE Then(0, <<Expect({";"}), Build("unused", 0)>>)

ParseAliasDecl ==
  \/ Doing("alias_decl") /\ Then(0, <<Expect({"ALIAS"}), Skip({":"}), Do("alias_name")>>)
  \/ /\ Doing("alias_name")
     /\ IF Cur \in MaybeTypes /\ Ahead(1) = "IDENTIFIER"
        THEN Report(0, 0, << >>, <<Type(default_bp), Do("discard"), Do("name"), Do("alias_colon")>>)
        ELSE Then(0, <<Do("name"), Do("alias_colon")>>)
  \/ /\ Doing("alias_colon")
     /\ CASE Ahead(-1) # "IDENTIFIER" -> Turn(0, 1, <<NullPtr>>, SkipStatement)
          [] Ahead(-1) = "IDENTIFIER" /\ Cur = ":" ->
               Report(1, 0, << >>, (IF Ahead(1) \in MaybeTypes THEN <<Type(default_bp), Do("discard")>>
                                    ELSE << >>) \o <<Do("alias_init")>>)
          [] OTHER -> Then(0, <<Do("alias_init")>>)
  \/ /\ Doing("alias_init")
     /\ IF Cur # "=" THEN Report(0, 1, <<NullPtr>>, SkipStatement)
        ELSE Then(1, <<Expr(assignment), Expect({";"}), Do("alias_make")>>)
  \/ /\ Doing("alias_make")
     /\ IF V(1) = NullPtr THEN Report(0, 0, << >>, <<Build("alias", 0)>>)
        ELSE Then(0, <<Build("alias", 0)>>)

-----------------------------------------------------------------------------
(* Structs.  n is the place of the struct's name in vals.                  *)

Next1(do, loc) == T(do, {}, Top.n, loc)   \* the function goes on

ParseStructDecl ==
  /\ Doing("struct_decl")
  /\ Then(0, <<Expect({"STRUCT"}), Do("name"), Expect({"{"}), T("members", {}, Len(vals) + 1, {}),
               Expect({"}"}), Skip({";"}), T("struct_make", {}, Len(vals) + 1, {})>>)

BuildStruct ==
  /\ Doing("struct_make")
  /\ Turn(0, Len(vals) - Top.n + 1, <<Node("struct", vals[Top.n].at, Latest(Above(Top.n)))>>, << >>)

ParseMembers ==
  /\ Doing("members")
  /\ IF ~HasTokens \/ Cur = "}" THEN Then(0, << >>) ELSE Then(0, <<Next1("access", {"first"}), Top>>)

\* parse_access_modifier: internal may stand beside one of the others.
ParseAccessModifier ==
  /\ Doing("access")
  /\ LET two       == Cur \in AccessKinds /\ Ahead(1) \in AccessKinds
         next(set) == IF "first" \in Top.loc THEN <<Next1("static", set)>> ELSE <<Next1("member", {})>>
     IN  CASE two /\ (Cur = "INTERNAL" <=> Ahead(1) = "INTERNAL") ->
                Report(Distance({"IDENTIFIER", "STATIC", "FN", "STRUCT", ";"}), 0, << >>, next({}))
           [] two /\ ~(Cur = "INTERNAL" <=> Ahead(1) = "INTERNAL") -> Then(2, next({"set"}))
           [] Cur \in AccessKinds /\ ~two -> Then(1, next({"set"}))
           [] OTHER -> Then(0, next({}))

ParseStatic ==
  /\ Doing("static")
  /\ LET k == IF Cur = "STATIC" THEN 1 ELSE 0
     IN  CASE Ahead(k) \in AccessKinds /\ "set" \in Top.loc    -> Report(k, 0, << >>, <<Next1("access", {})>>)
           [] Ahead(k) \in AccessKinds /\ "set" \notin Top.loc -> Then(k, <<Next1("access", {})>>)
           [] OTHER -> Then(k, <<Next1("member", {})>>)

ParseMember ==
  /\ Doing("member")
  /\ LET c      == IF Cur = "CONST" THEN 1 ELSE 0
         method == Ahead(c) = "FN" \/ Ahead(c + 1) = "(" \/ Ahead(c + 2) = "("
         p      == c + (IF method /\ Ahead(c + 1) # "(" THEN 1 ELSE 0)
         typed  == Ahead(p) \in MaybeTypes /\ Ahead(p + 1) = "IDENTIFIER"
         name   == <<Do("any_name"), Next1("member_name", IF method THEN {"method"} ELSE {})>>
     IN  IF typed THEN Then(p, <<Type(default_bp), Do("no_any")>> \o name) ELSE Turn(p, 0, <<NullPtr>>, name)

MemberNotAny ==
  /\ Doing("no_any")
  /\ IF IsAny(V(1)) THEN Report(0, 1, <<AutoType>>, << >>) ELSE Then(0, << >>)

\* The collision check looks at the token after the name.
ParseMemberName ==
  /\ Doing("member_name")
  /\ LET collides == \E i \in Top.n + 1 .. Len(vals) - 2 :
                       vals[i].is = "property" /\ Text(vals[i]) = Text(V(1))
         colon == T("colon", {}, Len(vals) - 1, {"member"})
         at    == Len(vals)
     IN  \/ /\ "method" \notin Top.loc /\ Cur = "IDENTIFIER" /\ collides
            /\ Report(Distance({";"}), 2, << >>, << >>)
         \/ /\ "method" \notin Top.loc /\ ~(Cur = "IDENTIFIER" /\ collides)
            /\ Then(0, <<colon, Do("initializer"), Do("property_make")>>)
         \/ /\ "method" \in Top.loc
            /\ Then(0, <<colon, Expect({"("}), T("params", {}, at, {"method"}), Expect({")"}),
                         T("colon", {}, at - 1, {}), With("body", {"method"}),
                         T("routine", {}, at, {"method"}), Skip({";"})>>)

BuildProperty == Doing("property_make") /\ Turn(0, 3, <<Named("property")>>, <<Expect({";"})>>)

\* Mutant: the body of a method is not kept.
BuildRoutineOnly ==
  /\ Doing("routine")
  /\ \E is \in Top.loc :
       Turn(0, Len(vals) - Top.n + 2,
            <<Node(is, vals[Top.n].at, <<vals[Top.n - 1]>> \o SubSeq(vals, Top.n + 1, Len(vals) - 1))>>, << >>)

\* A function or method: its type, name, parameters and body.
BuildRoutine ==
  /\ Doing("routine")
  /\ \E is \in Top.loc :
       Turn(0, Len(vals) - Top.n + 2, <<Node(is, vals[Top.n].at, <<vals[Top.n - 1]>> \o Above(Top.n))>>, << >>)

ParseBody ==
  /\ Doing("body")
  /\ LET returned == <<Expr(assignment), Build("return", 0)>>
     IN  \/ Cur # "=>" /\ Then(0, <<Do("block")>>)
         \/ Cur = "=>" /\ "method" \in Top.loc
            /\ Then(1, IF Ahead(1) = "{" THEN <<Do("block")>> ELSE Append(returned, Expect({";"})))
         \/ Cur = "=>" /\ "method" \notin Top.loc /\ Then(1, returned \o <<Do("semicolon"), Expect({";"})>>)

RecoverSemicolon ==
  /\ Doing("semicolon")
  /\ IF Cur = ";" THEN Then(0, << >>) ELSE Report(Distance({";"}), 0, << >>, << >>)

-----------------------------------------------------------------------------
(* Parameters and functions.                                               *)

\* The loops over parameters.  A parameter without a name is skipped up to
\* a token of stops, which is not consumed.
ParseParams ==
  /\ Doing("params")
  /\ LET c      == IF Cur = "CONST" THEN 1 ELSE 0
         p      == c + (IF Ahead(c) = "ALIAS" THEN 1 ELSE 0)
         alias  == p > c
         method == "method" \in Top.loc
         named  == Ahead(p) \in (IF method THEN MaybeTypes ELSE TypeNames)
         typed  == Ahead(p + 1) = "IDENTIFIER" /\ ~alias
         stops  == IF method THEN {")", ","} ELSE {")", ",", ";"}
         rest   == <<Do("any_name"),
                     T("colon", {}, Len(vals) + 1,
                       {f \in {"alias", "fn"} : IF f = "alias" THEN alias ELSE ~method}),
                     Do("initializer"), Next1("param", Top.loc), Top>>
     IN  \/ (~HasTokens \/ Cur = ")") /\ Then(0, << >>)
         \/ HasTokens /\ Cur # ")" /\ ~named /\ Report(p, 0, << >>, <<Until(stops), Top>>)
         \/ HasTokens /\ Cur # ")" /\ named /\ typed /\ Then(p, <<Type(default_bp)>> \o rest)
         \/ HasTokens /\ Cur # ")" /\ named /\ ~typed /\ Turn(p, 0, <<NullPtr>>, rest)

\* A function's parameter may have its type after the default value.
ParseParam ==
  /\ Doing("param")
  /\ LET twice == \E i \in Top.n + 1 .. Len(vals) - 3 : Text(vals[i]) = Text(V(2))
     IN  \/ "method" \in Top.loc /\ twice /\ Report(0, 3, << >>, <<Until({","})>>)
         \/ "method" \in Top.loc /\ ~twice /\ Turn(0, 3, <<Named("param")>>, <<Skip({","})>>)
         \/ "method" \notin Top.loc
            /\ Then(0, <<T("colon", {}, Len(vals) - 2, {}), Do("param_make"), Do("param_end")>>)

BuildParam == Doing("param_make") /\ Turn(0, 3, <<Named("param")>>, << >>)

ParamSeparator ==
  /\ Doing("param_end")
  /\ CASE Cur \in {",", ";"} -> Then(1, << >>)
       [] Cur = ")"          -> Then(0, << >>)
       [] OTHER              -> Report(0, 0, << >>, <<Until({",", ";", ")"}), Skip({",", ";", "EOF"})>>)

ParseFuncDecl ==
  \/ /\ Doing("func_decl")
     /\ LET k    == IF Cur = "INLINE" THEN 1 ELSE 0
            next == <<With("fn", IF k = 1 THEN {"lining"} ELSE {})>>
        IN  IF Ahead(k) = "INLINE" THEN Report(k, 0, << >>, <<Until(Kinds \ {"INLINE"})>> \o next)
            ELSE Then(k, next)
  \/ /\ Doing("fn")
     /\ CASE Cur = "FN"         -> Then(1, <<Do("func_name")>>)
          [] Cur = "IDENTIFIER" -> Report(0, 0, << >>, <<Do("func_name")>>)
          [] OTHER              -> Report(0, 0, <<NullPtr>>, SkipStatement)
  \/ /\ Doing("func_name")
     /\ LET at == Len(vals) + 2
        IN  IF Ahead(1) # "(" THEN Report(1, 0, <<NullPtr>>, SkipStatement)
            ELSE Turn(1, 0, <<NullPtr, Leaf("symbol")>>,
                      <<Expect({"("}), T("params", {}, at, {}), Expect({")"}), T("colon", {}, at - 1, {}),
                        With("body", {}), T("routine", {}, at, {"func"})>>)

-----------------------------------------------------------------------------
(* The other statements.                                                   *)

ParseTypeChange ==
  /\ Doing("type_change")
  /\ LET name    == Node("symbol", pos + 2, << >>)
         make    == <<Expect({";"}), Build("typechange", 0)>>
         wrong   == IF Ahead(1) # "IDENTIFIER" THEN 1 ELSE IF Ahead(2) # "=" THEN 2 ELSE 3
     IN  IF wrong = 3 /\ Ahead(3) = "TYPEOF"
         THEN Turn(4, 0, <<name>>, <<Expect({"("}), Expr(default_bp), Expect({")"})>> \o make)
         ELSE IF wrong = 3 /\ Ahead(3) \in TypeNames THEN Turn(3, 0, <<name>>, <<Type(default_bp)>> \o make)
         ELSE Report(wrong, 0, <<NullPtr>>, <<Until({";"}), Do("advance")>>)

ParseIf    == Doing("if") /\ Then(0, <<Expect({"IF", "ELIF"}), With("condition", {"if"})>>)
ParseWhile == Doing("while") /\ Then(0, <<Expect({"WHILE"}), With("condition", {"while"})>>)

TrueLiteral == Node("literal", 0, << >>)

\* Without a condition it is true; so is the wrong condition of a while.
ParseCondition ==
  \/ /\ Doing("condition")
     /\ IF Cur = "(" THEN Then(1, <<Expr(default_bp), Expect({")"}), With("branch", Top.loc)>>)
        ELSE Turn(0, 0, <<TrueLiteral>>, <<With("branch", Top.loc)>>)
  \/ /\ Doing("branch")
     /\ LET wrong == V(1) = NullPtr /\ "while" \in Top.loc
        IN  IF Cur = ";" THEN Report(1, 1, <<NullPtr>>, << >>)
            ELSE Turn(0, IF wrong THEN 1 ELSE 0, IF wrong THEN <<TrueLiteral>> ELSE << >>,
                      <<Do("stmt"), With("else", Top.loc)>>)

ParseElse ==
  \/ /\ Doing("else")
     /\ LET chained == IF "if" \in Top.loc THEN {"IF", "ELIF"} ELSE {"IF"}
            make    == (IF "while" \in Top.loc THEN <<Skip({";"})>> ELSE << >>) \o <<T("build", {}, 0, Top.loc)>>
        IN  CASE Cur = "ELIF" -> Then(0, <<Do("if")>> \o make)
              [] Cur = "ELSE" /\ Ahead(1) \in chained -> Then(1, <<Do("if")>> \o make)
              [] Cur = "ELSE" /\ Ahead(1) \notin chained -> Then(1, <<Do("stmt"), Do("else_end")>> \o make)
              [] OTHER -> Turn(0, 0, <<NullPtr>>, make)
  \/ /\ Doing("else_end")
     /\ IF V(1) = NullPtr THEN Report(0, 0, << >>, <<Until({"{", ";"}), Do("depth"), Do("advance")>>)
        ELSE Then(0, << >>)

\* The cast of a module name that is no string reads another class's memory.
ParseImport ==
  \/ /\ Doing("import")
     /\ CASE Ahead(1) # "<" -> Then(1, <<Expr(default_bp), Do("import_name")>>)
          [] Ahead(1) = "<" /\ Ahead(2) # "IDENTIFIER" -> Report(2, 0, <<NullPtr>>, << >>)
          [] Ahead(1) = "<" /\ Ahead(2) = "IDENTIFIER" /\ Ahead(3) # ">" -> Report(3, 0, <<NullPtr>>, << >>)
          [] OTHER -> Turn(4, 0, <<Node("symbol", pos + 3, << >>)>>, <<Do("import_as")>>)
  \/ /\ Doing("import_name")
     /\ \/ V(1) = NullPtr /\ Report(0, 0, << >>, << >>)
        \/ V(1) # NullPtr /\ Then(0, <<Do("import_as")>>)
        \/ V(1) # NullPtr /\ V(1).is # "string" /\ End("crashed")
  \/ /\ Doing("import_as")
     /\ LET make == <<Skip({";"}), Build("import", 0)>>
        IN  CASE Cur = "AS" /\ Ahead(1) = "IDENTIFIER" -> Turn(2, 0, <<Node("symbol", pos + 2, << >>)>>, make)
              [] Cur = "AS" /\ Ahead(1) # "IDENTIFIER" -> Report(1, 0, <<NullPtr>>, make)
              [] OTHER -> Turn(0, 0, <<NullPtr>>, make)

-----------------------------------------------------------------------------

FinishParse == phase = "parse" /\ todo = << >> /\ End("done")

Cursor ==
  ExpectToken \/ ExpectName \/ Advance \/ Optional \/ advanceUntil \/ advanceDepth \/ Discard
Expressions ==
  \/ ParseExpr \/ ParseLed \/ ParsePrimary \/ ParseArrayInitializer \/ ParseArrayInstantiation
  \/ ParseItems \/ ParseSeparator \/ ParseBinary \/ ParsePrefix \/ ParseAssignment \/ ParseGrouping
  \/ ParseFunctionCall \/ BuildCall \/ ParseStructInstantiation \/ ParseFields \/ BuildField
  \/ BuildStructValue \/ ParseReturn \/ ParseBreak \/ ParseTypeof \/ ParseVolatile \/ BuildNode
  \/ CollectNode \/ ParseType \/ ParseTypeLed
Declarations ==
  \/ AdvanceName \/ Initializer \/ ColonType \/ Retype \/ ParseVarDecl \/ ParseVarInit \/ BuildVarDecl
  \/ ParseUnused \/ ParseAliasDecl \/ ParseStructDecl \/ BuildStruct \/ ParseMembers
  \/ ParseAccessModifier \/ ParseStatic \/ ParseMember \/ MemberNotAny \/ ParseMemberName
  \/ BuildProperty \/ BuildRoutine \/ ParseBody \/ RecoverSemicolon \/ ParseParams \/ ParseParam
  \/ BuildParam \/ ParamSeparator \/ ParseFuncDecl
Statements ==
  \/ ParseStatements \/ ParseBlock \/ ParseStmt \/ ParseExprStmt \/ ParseTypeChange \/ ParseIf
  \/ ParseWhile \/ ParseCondition \/ ParseElse \/ ParseImport

Next     == Cursor \/ Expressions \/ Declarations \/ Statements \/ FinishParse
Spec     == Init /\ [][Next]_vars
FairSpec == Spec /\ WF_vars(Next)

-----------------------------------------------------------------------------
(* Errors.                                                                 *)

\* With panic no handler reads a null pointer an earlier one left: only a
\* module name that is not a string makes the parser read what is not there.
NothingReadAfterError ==
  phase = "crashed" /\ panic => Top.do = "import_name"
=============================================================================
