-------------------------------- MODULE Lexer --------------------------------
(***************************************************************************)
(* The lexer, src/src/lexer/lexer.hpp: Tokenize, the ordered pattern table *)
(* of createLexer, the handlers and the cursor of struct Lexer.  The       *)
(* source is a sequence of characters.  A pattern is modelled by the       *)
(* length of the text it matches at the cursor, a token by its kind and    *)
(* the stretch of source it was made from; reserved words and token texts  *)
(* are left out.                                                           *)
(***************************************************************************)
EXTENDS Integers, Sequences, FiniteSets

CONSTANT
  Inputs        \* source texts, each with the compiler options it is lexed under

Digit  == {"0", "1", "2", "3", "4", "5", "6", "7", "8", "9"}
Letter == {"a", "b", "c", "d", "e", "f", "i", "l", "r", "s", "t", "u", "x", "_", "$"}
White  == {" ", "\n"}
\* "\\" stands for the characters no pattern begins with, "U80" for those from
\* U+0080 on.
Char   == Digit \cup Letter \cup White \cup
          {"U80", "\"", "'", "@", "#", ";", "/", "*", "%", "?", ".", ":", ",", "+", "-", "=",
           "!", "<", ">", "|", "&", "^", "~", "[", "]", "{", "}", "(", ")", "\\"}

ASSUME InputAssumption ==
  Inputs \subseteq [source : Seq(Char), options : [panic : BOOLEAN, allowLexerErrors : BOOLEAN]]

-----------------------------------------------------------------------------
(* Matching at position i of s: the length of the match, 0 for none.       *)

At(s, i, C) == i <= Len(s) /\ s[i] \in C

\* Greedy repetition of a character class.
Run(s, i, C) ==
  IF ~At(s, i, C) THEN 0
  ELSE CHOOSE n \in 1 .. Len(s) - i + 1 : (\A k \in i .. i + n - 1 : s[k] \in C) /\ ~At(s, i + n, C)

Opt(s, i, C) == IF At(s, i, C) THEN 1 ELSE 0

Word(s, i, w) ==
  IF \A k \in DOMAIN w : At(s, i + k - 1, {w[k]}) THEN Len(w) ELSE 0

\* w followed by a greedy run of C, of at least least characters.
WordRun(s, i, w, C, least) ==
  LET n == Run(s, i + Len(w), C)
  IN  IF Word(s, i, w) > 0 /\ n >= least THEN Len(w) + n ELSE 0

\* Text between two quotes q, quotes included.
Quoted(s, i, q) ==
  LET n == Run(s, i + 1, Char \ {q})
  IN  IF At(s, i, {q}) /\ At(s, i + 1 + n, {q}) THEN n + 2 ELSE 0

WidthPrefix(s, i) ==
  IF At(s, i, {"8"}) THEN 1
  ELSE IF Word(s, i, <<"1", "6">>) > 0 \/ Word(s, i, <<"3", "2">>) > 0 THEN 2 ELSE 0

Prefixed(s, i, q) ==
  LET p == WidthPrefix(s, i)
      n == Quoted(s, i + p, q)
  IN  IF n > 0 THEN p + n ELSE 0

\* n characters and the optional suffixes b?@? or @?.
Suffixed(s, i, n, b) ==
  LET m == n + (IF b THEN Opt(s, i + n, {"b"}) ELSE 0)
  IN  IF n = 0 THEN 0 ELSE m + Opt(s, i + m, {"@"})

Digits(s, i) == Run(s, i, Digit)

\* [0-9][0-9_]*
DecimalRun(s, i) == IF At(s, i, Digit) THEN Run(s, i, Digit \cup {"_"}) ELSE 0

NumberLength(s, i) ==
  LET whole == DecimalRun(s, i)
      frac  == IF At(s, i + whole, {"."}) THEN 1 + Run(s, i + whole + 1, Digit \cup {"_"}) ELSE 0
      m     == i + whole + frac
      exp   == WordRun(s, m, <<"e">>, Digit \cup {"_", "+"}, 1)
  IN  IF whole = 0 THEN 0 ELSE Suffixed(s, i, whole + frac + exp, FALSE)

NotEndOfRule == Char \ (White \cup {";"})

\* The patterns before the operators, in the order they are tried.
PatternOrder ==
  <<"true", "false", "fstring", "symbol", "binary", "octal", "hex", "string", "character",
    "byte", "int", "number", "comment", "multiline", "semicolon", "space", "rule">>

PatternLength(p, s, i) ==
  CASE p = "true"      -> Word(s, i, <<"t", "r", "u", "e">>)
    [] p = "false"     -> Word(s, i, <<"f", "a", "l", "s", "e">>)
    [] p = "fstring"   -> IF At(s, i, {"$", "f"}) /\ Quoted(s, i + 1, "\"") > 0
                          THEN 1 + Quoted(s, i + 1, "\"") ELSE 0
    [] p = "symbol"    -> IF At(s, i, Letter \cup {"U80"}) THEN Run(s, i, Letter \cup Digit \cup {"U80"}) ELSE 0
    [] p = "binary"    -> Suffixed(s, i, WordRun(s, i, <<"0", "b">>, {"0", "1", "_"}, 1), TRUE)
    [] p = "octal"     -> Suffixed(s, i, WordRun(s, i, <<"0">>, (Digit \ {"8", "9"}) \cup {"_"}, 1), TRUE)
    [] p = "hex"       -> Suffixed(s, i, WordRun(s, i, <<"0", "x">>,
                            Digit \cup {"a", "b", "c", "d", "e", "f", "_"}, 1), FALSE)
    [] p = "string"    -> Prefixed(s, i, "\"")
    [] p = "character" -> Prefixed(s, i, "'")
    [] p = "byte"      -> LET n == DecimalRun(s, i)
                          IN  IF n > 0 /\ At(s, i + n, {"b"}) THEN Suffixed(s, i, n, TRUE) ELSE 0
    [] p = "int"       -> LET n == Digits(s, i)
                          IN  IF n > 0 /\ At(s, i + n, {"i", "u"})
                              THEN n + 1 + Run(s, i + n + 1, Digit) ELSE 0
    [] p = "number"    -> NumberLength(s, i)
    [] p = "comment"   -> WordRun(s, i, <<"/", "/">>, Char \ {"\n"}, 0)
    [] p = "multiline" -> Word(s, i, <<"/", "*">>)
    [] p = "semicolon" -> Run(s, i, {";"})
    [] p = "space"     -> Run(s, i, White)
    [] p = "rule"      -> LET n == [k \in 1 .. 3 |-> WordRun(s, i,
                                      <<<<"#">>, <<"%", ":">>, <<"?", "?", "=">>>>[k], NotEndOfRule, 0)]
                          IN  IF n[1] > 0 THEN n[1] ELSE IF n[2] > 0 THEN n[2] ELSE n[3]

\* The operators, in the order they are tried.
Operators ==
  << <<"[">>, <<"]">>, <<"{">>, <<"}">>, <<"(">>, <<")">>,
     <<"=", "=">>, <<"!", "=">>, <<"=", ">">>, <<"=">>, <<"!">>,
     <<">", ">", ">", "=">>, <<"<", "<", "<", "=">>, <<"<", "<", "<">>, <<">", ">", ">">>,
     <<">", ">", "=">>, <<"<", "<", "=">>, <<"<", "<">>, <<">", ">">>,
     <<"<", "=">>, <<"<">>, <<">", "=">>, <<">">>,
     <<"|", "|">>, <<"&", "&">>, <<".", ".">>, <<".">>, <<":">>, <<"?">>, <<",">>,
     <<"+", "+">>, <<"-", "-">>, <<"+", "=">>, <<"-", "=">>, <<"/", "=">>, <<"*", "=">>,
     <<"%", "=">>, <<"+">>, <<"-">>, <<"/">>, <<"*">>, <<"%">>,
     <<"|", "=">>, <<"|">>, <<"&", "=">>, <<"&">>, <<"^", "=">>, <<"^">>, <<"~", "=">>, <<"~">> >>

\* The first pattern of the table that matches.
FirstPattern(s, i) ==
  LET hits == {k \in DOMAIN PatternOrder : PatternLength(PatternOrder[k], s, i) > 0}
      ops  == {k \in DOMAIN Operators : Word(s, i, Operators[k]) > 0}
  IN  IF hits # {} THEN PatternOrder[CHOOSE k \in hits : \A j \in hits : k <= j]
      ELSE IF ops # {} THEN "operator" ELSE "none"

\* Mutant: the operators are tried from the end of the table.
LastOperator(s, i) ==
  LET ops == {k \in DOMAIN Operators : Word(s, i, Operators[k]) > 0}
  IN  Operators[CHOOSE k \in ops : \A j \in ops : k >= j]

FirstOperator(s, i) ==
  LET ops == {k \in DOMAIN Operators : Word(s, i, Operators[k]) > 0}
  IN  Operators[CHOOSE k \in ops : \A j \in ops : k <= j]

-----------------------------------------------------------------------------
(* Literals.                                                               *)

Without(v, c) == SelectSeq(v, LAMBDA x : x # c)

IntTypes == << << >>, <<"8">>, <<"1", "6">>, <<"2", "4">>, <<"3", "2">>, <<"6", "4">> >>

\* The token kind of an integer literal, "none" for a width there is not.
IntKind(v) ==
  LET unsigned == \E k \in DOMAIN v : v[k] = "u"
      suffix   == CHOOSE k \in DOMAIN v : v[k] \in {"i", "u"}
      type     == SubSeq(v, suffix + 1, Len(v))
      which    == {k \in DOMAIN IntTypes : IntTypes[k] = type}
  IN  IF which = {} THEN "none"
      ELSE IF unsigned
           THEN <<"UINT32", "BYTE", "USHORT", "UINT24", "UINT32", "UINT64">>[CHOOSE k \in which : TRUE]
           ELSE <<"INT32", "SBYTE", "SHORT", "INT24", "INT32", "INT64">>[CHOOSE k \in which : TRUE]

DigitValue == [d \in Digit |-> CHOOSE n \in 0 .. 9 :
                 <<"0", "1", "2", "3", "4", "5", "6", "7", "8", "9">>[n + 1] = d]

\* tryParseUnsigned of a text short enough not to overflow; -1 on failure.
Unsigned(v) ==
  LET f[k \in 0 .. Len(v)] == IF k = 0 THEN 0 ELSE 10 * f[k - 1] + DigitValue[v[k]]
  IN  IF v = << >> \/ \E k \in DOMAIN v : v[k] \notin Digit THEN -1 ELSE f[Len(v)]

\* expandScientificNotation: "ok", "invalid", or "throws" when substr is
\* given a position behind the digits left after stripping leading zeros.
Expansion(v) ==
  IF ~\E k \in DOMAIN v : v[k] = "e" THEN "ok"
  ELSE
    LET e        == CHOOSE k \in DOMAIN v : v[k] = "e" /\ \A j \in 1 .. k - 1 : v[j] # "e"
        base     == SubSeq(v, 1, e - 1)
        tail     == SubSeq(v, e + 1, Len(v))
        exponent == Unsigned(IF tail # << >> /\ Head(tail) = "+" THEN Tail(tail) ELSE tail)
        digits   == Without(base, ".")
        zeros    == Run(digits, 1, {"0"})
        left     == IF zeros = Len(digits) THEN 1 ELSE Len(digits) - zeros
        fraction == IF Len(digits) = Len(base) THEN 0
                    ELSE Len(base) - CHOOSE k \in DOMAIN base : base[k] = "."
    IN  IF exponent < 0 THEN "invalid"
        ELSE IF exponent < fraction /\ left < fraction - exponent THEN "throws"
        ELSE "ok"

-----------------------------------------------------------------------------
VARIABLES
  options,   \* CompilerOptions.panic and CompilerOptions.allowLexerErrors
  source,
  pos,       \* characters consumed
  line, column,
  tokens,
  errors,    \* the cursor positions of the recorded errors
  phase      \* "lexing", "done", "exited" by panic, "threw" out of Tokenize

vars == <<options, source, pos, line, column, tokens, errors, phase>>

Here    == pos + 1
Pattern == IF pos < Len(source) THEN FirstPattern(source, Here) ELSE "end"
Matched(p) == PatternLength(p, source, Here)
Lexeme(n) == SubSeq(source, Here, pos + n)

\* The position of the last of a set of line breaks.
LastBreak(breaks) == CHOOSE k \in breaks : \A j \in breaks : j <= k

\* Line and column of the character after the first n.
LineAfter(s, n)   == 1 + Cardinality({k \in 1 .. n : s[k] = "\n"})
ColumnAfter(s, n) ==
  LET breaks == {k \in 1 .. n : s[k] = "\n"}
  IN  1 + n - (IF breaks = {} THEN 0 ELSE LastBreak(breaks))

\* Mutant: columns are counted from zero after a line break.
AdvanceNFromZero(n) ==
  LET breaks == {k \in Here .. pos + n : source[k] = "\n"}
  IN  /\ pos' = pos + n
      /\ line' = line + Cardinality(breaks)
      /\ column' = IF breaks = {} THEN column + n
                   ELSE pos + n - LastBreak(breaks)

\* Mutant: what follows the last line break is not counted.
AdvanceNToLineStart(n) ==
  LET breaks == {k \in Here .. pos + n : source[k] = "\n"}
  IN  /\ pos' = pos + n
      /\ line' = line + Cardinality(breaks)
      /\ column' = IF breaks = {} THEN column + n ELSE 1

\* Lexer::advanceN counts from the current line and column.
AdvanceN(n) ==
  LET stop   == IF pos + n < Len(source) THEN pos + n ELSE Len(source)
      breaks == {k \in Here .. stop : source[k] = "\n"}
  IN  /\ pos' = stop
      /\ line' = line + Cardinality(breaks)
      /\ column' = IF breaks = {} THEN column + (stop - pos)
                   ELSE 1 + stop - LastBreak(breaks)

\* A token with the line and column of the cursor, made from the n
\* characters the pattern matched.
Push(kind, n) ==
  tokens' = Append(tokens, [kind |-> kind, from |-> pos, lexeme |-> n,
                            line |-> line, column |-> column])

\* An error is recorded, and ends the process, only where the options say so.
Report ==
  /\ errors' = IF options.allowLexerErrors THEN errors \cup {pos} ELSE errors
  /\ phase' = IF options.allowLexerErrors /\ options.panic THEN "exited" ELSE phase

Init ==
  /\ \E input \in Inputs : source = input.source /\ options = input.options
  /\ pos = 0 /\ line = 1 /\ column = 1
  /\ tokens = << >>
  /\ errors = {}
  /\ phase = "lexing"

Lexing(p, patterns) == phase = "lexing" /\ p \in patterns

\* Patterns whose handler makes one token of the whole match.
PlainKind == [true |-> "BOOL", false |-> "BOOL", fstring |-> "FSTRING", symbol |-> "IDENTIFIER",
              string |-> "STRING", semicolon |-> "SEMICOLON", rule |-> "RULE"]

HandlePlain(p) ==
  /\ Lexing(p, {"true", "false", "fstring", "symbol", "string", "semicolon", "rule"})
  /\ Push(PlainKind[p], Matched(p))
  /\ AdvanceN(Matched(p))
  /\ UNCHANGED <<options, source, errors, phase>>

HandleOperator(p) ==
  /\ Lexing(p, {"operator"})
  /\ Push("OPERATOR", Len(FirstOperator(source, Here)))
  /\ AdvanceN(Len(FirstOperator(source, Here)))
  /\ UNCHANGED <<options, source, errors, phase>>

\* Mutant: the suffixes are cut off and not consumed.
HandleRadixWithoutSuffix(p) ==
  /\ Lexing(p, {"binary", "octal", "hex"})
  /\ LET v    == Lexeme(Matched(p))
         last == v[Len(v)]
     IN  /\ Push("NUMBER", Matched(p))
         /\ AdvanceN(IF last = "@" \/ (p # "hex" /\ last = "b") THEN Len(v) - 1 ELSE Len(v))
  /\ UNCHANGED <<options, source, errors, phase>>

\* binary, octal and hexNumberHandler: the suffixes are cut off the value and
\* consumed on their own.
HandleRadix(p) ==
  /\ Lexing(p, {"binary", "octal", "hex"})
  /\ LET v       == Lexeme(Matched(p))
         last    == v[Len(v)]
         isByte  == p # "hex" /\ last = "b"
         precise == last = "@"
         value   == IF isByte \/ precise THEN Len(v) - 1 ELSE Len(v)
     IN  /\ Push(IF isByte THEN "BYTE" ELSE IF precise THEN "PNUMBER" ELSE "NUMBER", Matched(p))
         /\ AdvanceN(value + (IF isByte THEN 1 ELSE 0) + (IF precise THEN 1 ELSE 0))
  /\ UNCHANGED <<options, source, errors, phase>>

\* byteHandler erases the underscores from the text whose length it then
\* advances by.
HandleByte(p) ==
  /\ Lexing(p, {"byte"})
  /\ LET v       == Lexeme(Matched(p))
         precise == v[Len(v)] = "@"
     IN  /\ IF precise THEN Report ELSE UNCHANGED <<errors, phase>>
         /\ IF phase' = "exited" THEN UNCHANGED <<tokens, pos, line, column>>
            ELSE /\ Push(IF precise THEN "PNUMBER" ELSE "BYTE", Matched(p))
                 /\ AdvanceN(Cardinality({k \in DOMAIN v : v[k] # "_"}))
  /\ UNCHANGED <<options, source>>

\* intHandler returns without consuming a literal of an unknown width.
HandleInt(p) ==
  /\ Lexing(p, {"int"})
  /\ LET kind == IntKind(Lexeme(Matched(p)))
     IN  IF kind = "none"
         THEN Report /\ UNCHANGED <<tokens, pos, line, column>>
         ELSE Push(kind, Matched(p)) /\ AdvanceN(Matched(p)) /\ UNCHANGED <<errors, phase>>
  /\ UNCHANGED <<options, source>>

HandleNumber(p) ==
  /\ Lexing(p, {"number"})
  /\ LET v         == Without(Lexeme(Matched(p)), "_")
         precise   == v[Len(v)] = "@"
         expansion == IF precise THEN Expansion(SubSeq(v, 1, Len(v) - 1)) ELSE "ok"
     IN  /\ CASE expansion = "ok"      -> UNCHANGED <<errors, phase>>
              [] expansion = "invalid" -> Report
              [] expansion = "throws"  -> phase' = "threw" /\ UNCHANGED errors
         /\ IF phase' = "lexing"
            THEN Push(IF precise THEN "PNUMBER" ELSE "NUMBER", Matched(p)) /\ AdvanceN(Matched(p))
            ELSE UNCHANGED <<tokens, pos, line, column>>
  /\ UNCHANGED <<options, source>>

\* characterHandler advances first and pushes with the line and column it
\* saved; more or less than one character is an error.
HandleCharacter(p) ==
  /\ Lexing(p, {"character"})
  /\ LET inside == Matched(p) - 2 - WidthPrefix(source, Here)
     IN  IF inside # 1 THEN Report ELSE UNCHANGED <<errors, phase>>
  /\ IF phase' = "exited" THEN UNCHANGED <<tokens, pos, line, column>>
     ELSE Push("CHAR", Matched(p)) /\ AdvanceN(Matched(p))
  /\ UNCHANGED <<options, source>>

Skip(p) ==
  /\ Lexing(p, {"space", "comment"})
  /\ AdvanceN(Matched(p))
  /\ UNCHANGED <<options, source, tokens, errors, phase>>

\* Up to and including the closing tag, or to the end without one.
SkipMultiline(p) ==
  /\ Lexing(p, {"multiline"})
  /\ LET closings == {k \in Here + 2 .. Len(source) : Word(source, k, <<"*", "/">>) > 0}
     IN  AdvanceN(IF closings = {} THEN Len(source) - pos
                  ELSE (CHOOSE k \in closings : \A j \in closings : k <= j) + 1 - pos)
  /\ UNCHANGED <<options, source, tokens, errors, phase>>

\* Mutant: the character is not dropped.
SkipUnmatchedStays(p) ==
  /\ Lexing(p, {"none"})
  /\ UNCHANGED vars

\* No pattern matches: a warning, and one character is dropped.
SkipUnmatched(p) ==
  /\ Lexing(p, {"none"})
  /\ AdvanceN(1)
  /\ UNCHANGED <<options, source, tokens, errors, phase>>

Finish(p) ==
  /\ Lexing(p, {"end"})
  /\ Push("EOF", 0)
  /\ phase' = "done"
  /\ UNCHANGED <<options, source, pos, line, column, errors>>

Handle(p) ==
  \/ HandlePlain(p) \/ HandleOperator(p) \/ HandleRadix(p) \/ HandleByte(p) \/ HandleInt(p)
  \/ HandleNumber(p) \/ HandleCharacter(p)
  \/ Skip(p) \/ SkipMultiline(p) \/ SkipUnmatched(p)
  \/ Finish(p)

Next == \E p \in {Pattern} : Handle(p)

Spec     == Init /\ [][Next]_vars
\* Tokenize is a loop of one thread.
FairSpec == Spec /\ WF_vars(Next)

-----------------------------------------------------------------------------
(* Properties.                                                             *)

TokenKinds ==
  {"BOOL", "FSTRING", "IDENTIFIER", "STRING", "CHAR", "SEMICOLON", "RULE", "OPERATOR", "EOF",
   "NUMBER", "PNUMBER", "BYTE", "SBYTE", "USHORT", "SHORT", "UINT24", "INT24", "UINT32",
   "INT32", "UINT64", "INT64"}

TokenType ==
  [kind : TokenKinds, from : Nat, lexeme : Nat, line : Nat \ {0}, column : Nat \ {0}]

\* The cursor is inside the source and the tokens are well formed.
TypeOK ==
  /\ [source |-> source, options |-> options] \in Inputs
  /\ pos \in 0 .. Len(source)
  /\ line \in Nat \ {0} /\ column \in Nat \ {0}
  /\ tokens \in Seq(TokenType)
  /\ errors \subseteq 0 .. Len(source)
  /\ phase \in {"lexing", "done", "exited", "threw"}

\* Every token, the EOF token included, carries the line and column of the
\* first character of its lexeme, counted from the source text alone: across
\* comments, strings with line breaks in them, dropped characters and the
\* character handler, which moves the cursor before it makes its token.
TokenPositions ==
  \A k \in DOMAIN tokens : /\ tokens[k].line = LineAfter(source, tokens[k].from)
                           /\ tokens[k].column = ColumnAfter(source, tokens[k].from)

\* "Always advance by the original matched lexeme length to keep cursor/line
\* state correct" (lexer.hpp): the source after a token goes on where its
\* lexeme ended, so no character is lexed twice and none is lost.
AdvanceByLexeme ==
  [][tokens' # tokens /\ phase' = "lexing"
       => pos' = tokens'[Len(tokens')].from + tokens'[Len(tokens')].lexeme]_vars

\* An operator token is the longest operator of the table at its place: no
\* entry shadows a longer one further down.
LongestOperator ==
  \A k \in DOMAIN tokens : tokens[k].kind = "OPERATOR" =>
     \A j \in DOMAIN Operators :
        Word(source, tokens[k].from + 1, Operators[j]) <= tokens[k].lexeme

\* Tokenize ends, by returning or by panicking.
Terminates == <>(phase # "lexing")
=============================================================================
