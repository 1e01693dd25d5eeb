------------------------------- MODULE MCLexer -------------------------------
(* All source texts up to a length over alphabets chosen so that the       *)
(* patterns of the table compete.                                          *)
EXTENDS Lexer

UpTo(n, A) == UNION {[1 .. k -> A] : k \in 0 .. n}

\* Words, strings, characters, comments, rules and line breaks.
TextSources ==
  UpTo(4, {"a", "\"", "'", "/", "*", "\n"}) \cup UpTo(3, {"8", "\"", "'", ";", "\\"})
    \cup UpTo(3, {"f", "#", "\"", " ", "\n"})

OperatorSources ==
  UpTo(4, {"<", ">", "="}) \cup UpTo(3, {"+", "-", "=", "/"}) \cup UpTo(3, {"|", "&", "=", "!"})
    \cup UpTo(3, {"%", ":", "?", "="}) \cup UpTo(2, {"^", "~", "=", "*", ".", ",", "[", "]", "{", "}", "(", ")"})

KeywordSources ==
  {w \o t : w \in {<<"t", "r", "u", "e">>, <<"f", "a", "l", "s", "e">>}, t \in UpTo(2, {"a", "8", "\""})}

MCTextSources == TextSources \cup OperatorSources \cup KeywordSources

\* Number literals, without underscores in a byte literal.
MCNumberSources ==
  UpTo(4, {"0", "1", "8", "b", "i", "u", "@", "."}) \cup UpTo(4, {"0", "6", "1", "i", "u"})
    \cup UpTo(4, {"0", "1", "x", "e", "_", "@", "."})
    \cup {<<"1", "e">> \o t : t \in UpTo(3, {"1", "+", "_", "@"})}

AnyOptions == [panic : BOOLEAN, allowLexerErrors : BOOLEAN]
Default    == [panic |-> TRUE, allowLexerErrors |-> TRUE]

Under(sources, optionSets) == [source : sources, options : optionSets]

\* Texts under all options; numbers under the default ones.
MCInputs == Under(MCTextSources, AnyOptions) \cup Under(MCNumberSources, {Default})
=============================================================================
