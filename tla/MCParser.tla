------------------------------- MODULE MCParser -------------------------------
(* Programs for TLC: one or more statements of every kind, and each of them *)
(* with one token left out, replaced or put in.                             *)
EXTENDS ParserProperties

MCNames == {"a", "b", "c", "d", "n"}

\* Programs that are accepted, the declarations first.
Programs == {
  <<"LET", "a", "=", "NUMBER", ";">>,
  <<"TYPE", "a", "=", "b", ";">>,
  <<"USED", "MUT", "b", "a", ";">>,
  <<"CONST", "a", ":", "TYPE", "=", "STRING", ";">>,
  <<"TYPE", "[", "]", "a", "=", "TYPE", "[", "]", "{", "b", ",", "c", "}", ";">>,
  <<"UNUSED", "a", ";", "a", "+=", "b", ";">>,
  <<"ALIAS", "a", "=", "b", ";">>,
  <<"STRUCT", "a", "{", "PRIVATE", "STATIC", "CONST", "TYPE", "b", "=", "NUMBER", ";", "c", ":", "d", ";", "}">>,
  <<"STRUCT", "a", "{", "INTERNAL", "PRIVATE", "b", "c", "(", "CONST", "TYPE", "d", ")", "{", "}", "}">>,
  <<"STRUCT", "a", "{", "FN", "b", "(", "c", ":", "TYPE", ",", "ALIAS", "d", ")", "=>", "c", ";", "}", ";">>,
  <<"INLINE", "FN", "a", "(", "TYPE", "b", ",", "c", "=", "NUMBER", ":", "TYPE", ")", ":", "TYPE", "{", "}">>,
  <<"FN", "a", "(", "ALIAS", "b", ";", "CONST", "c", ":", "d", ")", "=>", "RETURN", "b", ";">>,
  <<"TYPEOF", "a", "=", "TYPEOF", "(", "b", ")", ";", "TYPEOF", "a", "=", "TYPE", ";">>,
  <<"IF", "(", "a", ")", "IF", "b", "=", "c", ";", "ELSE", "c", "=", "b", ";">>,
  <<"IF", "(", "a", ")", "{", "}", "ELIF", "(", "b", ")", "{", "}", "ELSE", "IF", "{", "}">>,
  <<"WHILE", "(", "a", ")", "BREAK", ".", "NUMBER", ";", "ELSE", "{", "BREAK", "*", ";", "}", ";">>,
  <<"WHILE", "{", "BREAK", ";", "}", "ELIF", "(", "a", ")", "{", "BREAK", "FN", ";", "}">>,
  <<"IMPORT", "<", "a", ">", "AS", "b", ";", "IMPORT", "STRING", ";">>,
  <<"VOLATILE", "a", "=", "b", "{", "c", ":", "NUMBER", ",", "d", "=", "NULL", "}", ";">>,
  <<"a", "=", "[", "]", "TYPE", "{", "b", "}", ";", "BREAK", "NUMBER", ";">>,
  <<"a", "=", "TYPEOF", "(", "b", ")", "&&", "LITERAL", ";">> }

\* Expression statements.
Infix    == {"=", "&&", "<", "+", "*", "."}
Infixes  == {<<"a", p, "b", q, "c", r, "d", ";">> : p \in {"=", "+="}, q, r \in Infix}
Grouped  == {<<"a", "=", "-", "b", p, "(", "c", q, "d", ")", r, "b", ";">> : p, q, r \in {"<", "-", "*"}}
Called   == {<<"a", "=", "b", p, "c", "(", "d", q, "b", ",", "!", "a", ")", r, "n", ";">> : p, q, r \in {"&&", "+", "."}}

\* A volatile expression with a null pointer in its statement, which is called.
Volatiles == {<<"VOLATILE", "STRUCT", "a", "{", "FN", "b", "(", "c", "=", p, "AUTO", "d", ")", "{", "}", "}",
                "(", ")", ";">> : p \in {"-", "!"}}

Replacing == {"NUMBER", "HUGE", "TYPE", "ANY", "NULL", "ALIAS", "PRIVATE", "IF", "ELSE", "=", "-", ".", "(", "[", ";", "=>"}

Inserted == {"n", "NUMBER", "AUTO", "INTERNAL", "INLINE", "(", ")", "{", "}", "=", ",", ";", ":"}

Edited(p) ==
  {RemoveAt(p, i) : i \in DOMAIN p}
    \cup {ReplaceAt(p, i, e) : i \in DOMAIN p, e \in Replacing}
    \cup {InsertAt(p, i, e) : i \in DOMAIN p, e \in Inserted}

Exprs    == Infixes \cup Grouped \cup Called
Sources  == Programs \cup UNION {Edited(p) : p \in Programs} \cup Exprs \cup Volatiles
MCInputs == [tokens : Sources, panic : BOOLEAN]

\* A parameter that starts with a number.
HangInputs == [tokens : {<<"FN", "a", "(", "NUMBER", ",", "b", ")", "{", "}">>}, panic : {FALSE}]
=============================================================================
