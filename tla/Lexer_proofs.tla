----------------------------- MODULE Lexer_proofs -----------------------------
(***************************************************************************)
(* Type correctness of the lexer, the positions of its tokens, the length  *)
(* of its operators and where the cursor is after a token, for all source  *)
(* texts.  First least and greatest elements, on which the greedy          *)
(* repetitions, the order of the pattern table and the column of a place   *)
(* rest; then the lengths of the matches, which all end in the text; then  *)
(* the table of operators, the cursor and the steps.                       *)
(***************************************************************************)
EXTENDS Lexer, FiniteSetTheorems, WellFoundedInduction, SequenceTheorems, TLAPS

PatternNames ==
  {"true", "false", "fstring", "symbol", "binary", "octal", "hex", "string", "character",
   "byte", "int", "number", "comment", "multiline", "semicolon", "space", "rule"}

\* A set of numbers has a least member.
LEMMA LeastExists ==
  ASSUME NEW S, S \subseteq Nat, S # {}
  PROVE  \E x \in S : \A y \in S : x <= y
<1> DEFINE R == OpToRel(<, Nat)
<1>1. IsWellFoundedOn(R, Nat)
  BY NatLessThanWellFounded
<1>2. \A x, y \in Nat : <<y, x>> \in R <=> y < x
  BY DEF OpToRel
<1> HIDE DEF R
<1>3. PICK x \in S : \A y \in S : ~(<<y, x>> \in R)
  BY <1>1, WFMin
<1>4. ASSUME NEW y \in S
      PROVE  x <= y
  <2>1. x \in Nat /\ y \in Nat
    OBVIOUS
  <2>2. ~(y < x)
    BY <1>2, <1>3, <2>1
  <2> QED BY <2>1, <2>2
<1> QED BY <1>4

\* A bounded set of numbers has a greatest member.
LEMMA GreatestExists ==
  ASSUME NEW n \in Nat, NEW S, S \subseteq 0 .. n, S # {}
  PROVE  \E x \in S : \A y \in S : y <= x
<1> DEFINE T == {k \in 0 .. n : n - k \in S}
<1>1. T \subseteq Nat
  OBVIOUS
<1>2. T # {}
  <2>1. PICK x \in S : TRUE
    OBVIOUS
  <2>2. n - x \in 0 .. n /\ n - (n - x) = x
    OBVIOUS
  <2> QED BY <2>1, <2>2
<1>3. PICK k \in T : \A m \in T : k <= m
  BY <1>1, <1>2, LeastExists
<1>4. \A y \in S : n - y \in T
  <2>1. \A y \in S : n - y \in 0 .. n /\ n - (n - y) = y
    OBVIOUS
  <2> QED BY <2>1
<1>5. n - k \in S /\ \A y \in S : y <= n - k
  BY <1>3, <1>4
<1> QED BY <1>5

\* The last of a set of line breaks is one of them, behind the others.
LEMMA LastBreakIs ==
  ASSUME NEW n \in Nat, NEW S, S \subseteq 1 .. n, S # {}
  PROVE  LastBreak(S) \in S /\ \A j \in S : j <= LastBreak(S)
<1>1. S \subseteq 0 .. n
  OBVIOUS
<1>2. \E k \in S : \A j \in S : j <= k
  BY <1>1, GreatestExists
<1> QED BY <1>2 DEF LastBreak

-----------------------------------------------------------------------------
(* Lengths of matches.                                                     *)

\* A match of n characters at position i of s ends in the text.
Fits(s, i, n) == n \in Nat /\ (n = 0 \/ i + n <= Len(s) + 1)

\* A match and another where it ends make one.
LEMMA FitsMore ==
  ASSUME NEW s \in Seq(Char), NEW i \in Nat, NEW m, NEW n, Fits(s, i, m), Fits(s, i + m, n)
  PROVE  m + n \in Nat /\ Fits(s, i, m + n)
<1>1. Len(s) \in Nat /\ m \in Nat /\ n \in Nat
  BY DEF Fits
<1>2. (m = 0 \/ i + m <= Len(s) + 1) /\ (n = 0 \/ i + m + n <= Len(s) + 1)
  BY DEF Fits
<1>3. m + n = 0 \/ i + (m + n) <= Len(s) + 1
  BY <1>1, <1>2
<1> QED BY <1>1, <1>3 DEF Fits

\* A character matches with length one, and no match fits anywhere.
LEMMA FitsOne ==
  ASSUME NEW s \in Seq(Char), NEW i \in Nat
  PROVE  Fits(s, i, 0) /\ \A C : At(s, i, C) => Fits(s, i, 1)
<1>1. Len(s) \in Nat
  OBVIOUS
<1> QED BY <1>1 DEF Fits, At

\* A greedy repetition matches some number of characters: it ends, at the
\* latest at the end of the text.
LEMMA RunFits ==
  ASSUME NEW s \in Seq(Char), NEW i \in Nat \ {0}, NEW C
  PROVE  Fits(s, i, Run(s, i, C))
<1>1. Len(s) \in Nat
  OBVIOUS
<1>2. CASE ~At(s, i, C)
  BY <1>2 DEF Run, Fits
<1>3. CASE At(s, i, C)
  <2> DEFINE N    == {n \in 1 .. Len(s) - i + 1 : ~At(s, i + n, C)}
             P(n) == (\A k \in i .. i + n - 1 : s[k] \in C) /\ ~At(s, i + n, C)
  <2>1. Len(s) - i + 1 \in N
    BY <1>1, <1>3 DEF At
  <2>2. N \subseteq Nat
    BY <1>1
  <2>n. N # {}
    BY <2>1
  <2>3. PICK n \in N : \A m \in N : n <= m
    BY <2>2, <2>n, LeastExists
  <2>4. ASSUME NEW k \in i .. i + n - 1
        PROVE  s[k] \in C
    <3>1. CASE k = i
      BY <1>3, <3>1 DEF At
    <3>2. CASE k # i
      <4>1. k - i \in 1 .. Len(s) - i + 1 /\ ~(n <= k - i) /\ i + (k - i) = k
        BY <1>1, <2>3, <3>2
      <4>2. At(s, k, C)
        BY <2>3, <4>1
      <4> QED BY <4>2 DEF At
    <3> QED BY <3>1, <3>2
  <2>5. n \in 1 .. Len(s) - i + 1 /\ P(n)
    BY <2>3, <2>4
  <2> HIDE DEF P
  <2>6. (CHOOSE m \in 1 .. Len(s) - i + 1 : P(m)) \in 1 .. Len(s) - i + 1
    BY <2>5
  <2>7. Run(s, i, C) = CHOOSE m \in 1 .. Len(s) - i + 1 : P(m)
    BY <1>3 DEF Run, P
  <2>8. \A m \in 1 .. Len(s) - i + 1 : m \in Nat /\ i + m <= Len(s) + 1
    BY <1>1
  <2> QED BY <2>6, <2>7, <2>8 DEF Fits
<1> QED BY <1>2, <1>3

\* The words of the patterns are texts.
LEMMA WordsAreTexts ==
  /\ \A a \in Char : <<a>> \in Seq(Char)
  /\ \A a, b \in Char : <<a, b>> \in Seq(Char) /\ Len(<<a, b>>) = 2
  /\ \A a, b, c \in Char : <<a, b, c>> \in Seq(Char)
  /\ \A a, b, c, d \in Char : <<a, b, c, d>> \in Seq(Char)
  /\ \A a, b, c, d, e \in Char : <<a, b, c, d, e>> \in Seq(Char)
OBVIOUS

\* A word matches with its length or not at all, and so does what is made of
\* a word and a repetition.
LEMMA WordFits ==
  ASSUME NEW s \in Seq(Char), NEW i \in Nat \ {0}, NEW w \in Seq(Char)
  PROVE  Fits(s, i, Word(s, i, w)) /\ \A C, least : Fits(s, i, WordRun(s, i, w, C, least))
<1>1. Len(s) \in Nat /\ Len(w) \in Nat /\ DOMAIN w = 1 .. Len(w)
  OBVIOUS
<1>2. Fits(s, i, Word(s, i, w))
  <2>1. CASE Word(s, i, w) = 0
    BY <2>1 DEF Fits
  <2>2. CASE Word(s, i, w) # 0
    <3>1. Word(s, i, w) = Len(w) /\ \A k \in DOMAIN w : At(s, i + k - 1, {w[k]})
      BY <2>2 DEF Word
    <3>n. Len(w) \in DOMAIN w
      BY <1>1, <2>2, <3>1
    <3>2. At(s, i + Len(w) - 1, {w[Len(w)]})
      BY <3>1, <3>n
    <3>3. i + Len(w) <= Len(s) + 1
      BY <1>1, <3>2 DEF At
    <3> QED BY <1>1, <3>1, <3>3 DEF Fits
  <2> QED BY <2>1, <2>2
<1>3. ASSUME NEW C, NEW least
      PROVE  Fits(s, i, WordRun(s, i, w, C, least))
  <2> DEFINE n == Run(s, i + Len(w), C)
  <2>1. CASE Word(s, i, w) > 0 /\ n >= least
    <3>1. Word(s, i, w) = Len(w)
      BY <2>1 DEF Word
    <3>2. i + Len(w) \in Nat \ {0}
      BY <1>1
    <3>3. Fits(s, i + Len(w), n)
      BY <3>2, RunFits
    <3>4. WordRun(s, i, w, C, least) = Len(w) + n
      BY <2>1 DEF WordRun
    <3> HIDE DEF n
    <3> QED BY <1>2, <3>1, <3>3, <3>4, FitsMore
  <2>2. CASE ~(Word(s, i, w) > 0 /\ n >= least)
    BY <2>2 DEF WordRun, Fits
  <2> QED BY <2>1, <2>2
<1> QED BY <1>2, <1>3

\* So do the other building blocks of the patterns.
LEMMA BlocksFit ==
  ASSUME NEW s \in Seq(Char), NEW i \in Nat \ {0}
  PROVE  /\ \A C : Fits(s, i, Opt(s, i, C))
         /\ \A q : Fits(s, i, Quoted(s, i, q))
         /\ Fits(s, i, WidthPrefix(s, i))
         /\ \A n, b : Fits(s, i, n) => Fits(s, i, Suffixed(s, i, n, b))
         /\ Fits(s, i, DecimalRun(s, i))
         /\ Fits(s, i, Digits(s, i))
<1>1. \A j \in Nat \ {0} : \A C : Fits(s, j, Opt(s, j, C))
  BY FitsOne DEF Opt
<1>2. ASSUME NEW q
      PROVE  Fits(s, i, Quoted(s, i, q))
  <2> DEFINE n == Run(s, i + 1, Char \ {q})
  <2>1. i + 1 \in Nat \ {0} /\ Len(s) \in Nat
    OBVIOUS
  <2>2. n \in Nat
    BY <2>1, RunFits DEF Fits
  <2>3. Quoted(s, i, q) = IF At(s, i, {q}) /\ At(s, i + 1 + n, {q}) THEN n + 2 ELSE 0
    BY DEF Quoted
  <2> HIDE DEF n
  <2>4. At(s, i + 1 + n, {q}) => i + (n + 2) <= Len(s) + 1
    BY <2>1, <2>2 DEF At
  <2>5. n + 2 \in Nat
    BY <2>2
  <2> QED BY <2>3, <2>4, <2>5 DEF Fits
<1>3. Fits(s, i, WidthPrefix(s, i))
  <2>1. CASE At(s, i, {"8"})
    BY <2>1, FitsOne DEF WidthPrefix
  <2>2. CASE ~At(s, i, {"8"}) /\ \E w \in {<<"1", "6">>, <<"3", "2">>} : Word(s, i, w) > 0
    <3>1. PICK w \in {<<"1", "6">>, <<"3", "2">>} : Word(s, i, w) > 0
      BY <2>2
    <3>2. w \in Seq(Char) /\ Len(w) = 2
      <4>1. {"1", "2", "3", "6"} \subseteq Char
        BY DEF Char, Digit
      <4> QED BY <3>1, <4>1, WordsAreTexts
    <3>3. Word(s, i, w) = 2
      <4>1. Word(s, i, w) = Len(w) \/ Word(s, i, w) = 0
        BY DEF Word
      <4> QED BY <3>1, <3>2, <4>1
    <3>4. WidthPrefix(s, i) = 2
      BY <2>2, <3>1 DEF WidthPrefix
    <3> QED BY <3>2, <3>3, <3>4, WordFits
  <2>3. CASE ~At(s, i, {"8"}) /\ ~\E w \in {<<"1", "6">>, <<"3", "2">>} : Word(s, i, w) > 0
    BY <2>3, FitsOne DEF WidthPrefix
  <2> QED BY <2>1, <2>2, <2>3
<1>4. ASSUME NEW n, NEW b, Fits(s, i, n)
      PROVE  Fits(s, i, Suffixed(s, i, n, b))
  <2> DEFINE m == n + (IF b THEN Opt(s, i + n, {"b"}) ELSE 0)
  <2>1. n \in Nat /\ i + n \in Nat \ {0}
    BY <1>4 DEF Fits
  <2>2. Fits(s, i + n, Opt(s, i + n, {"b"}))
    BY <1>1, <2>1
  <2>3. m \in Nat /\ Fits(s, i, m)
    <3>1. CASE b
      BY <1>4, <2>2, <3>1, FitsMore
    <3>2. CASE ~b
      BY <1>4, <2>1, <3>2
    <3> QED BY <3>1, <3>2
  <2> HIDE DEF m
  <2>4. i + m \in Nat \ {0}
    BY <2>3
  <2>5. Fits(s, i + m, Opt(s, i + m, {"@"}))
    BY <1>1, <2>4
  <2>6. Suffixed(s, i, n, b) = IF n = 0 THEN 0 ELSE m + Opt(s, i + m, {"@"})
    BY DEF Suffixed, m
  <2> QED BY <2>3, <2>5, <2>6, FitsMore, FitsOne
<1>5. Fits(s, i, DecimalRun(s, i))
  BY RunFits, FitsOne DEF DecimalRun
<1>6. Fits(s, i, Digits(s, i))
  BY RunFits DEF Digits
<1> QED BY <1>1, <1>2, <1>3, <1>4, <1>5, <1>6

\* What a pattern matches ends in the text.
LEMMA LengthFits ==
  ASSUME NEW s \in Seq(Char), NEW i \in Nat \ {0}, NEW p \in PatternNames
  PROVE  Fits(s, i, PatternLength(p, s, i))
<1>1. CASE p \in {"true", "false", "multiline"}
  <2>1. /\ <<"t", "r", "u", "e">> \in Seq(Char)
        /\ <<"f", "a", "l", "s", "e">> \in Seq(Char)
        /\ <<"/", "*">> \in Seq(Char)
    <3>1. {"t", "r", "u", "e", "f", "a", "l", "s", "/", "*"} \subseteq Char
      BY DEF Char, Letter
    <3> QED BY <3>1, WordsAreTexts
  <2> QED BY <1>1, <2>1, WordFits DEF PatternLength
<1>2. CASE p = "fstring"
  <2> DEFINE n == Quoted(s, i + 1, "\"")
  <2>1. i + 1 \in Nat \ {0}
    OBVIOUS
  <2>2. Fits(s, i + 1, n)
    BY <2>1, BlocksFit
  <2>3. PatternLength(p, s, i) = IF At(s, i, {"$", "f"}) /\ n > 0 THEN 1 + n ELSE 0
    BY <1>2, Zenon DEF PatternLength, n
  <2> HIDE DEF n
  <2>4. At(s, i, {"$", "f"}) => Fits(s, i, 1 + n)
    BY <2>2, FitsOne, FitsMore
  <2> QED BY <2>3, <2>4, FitsOne, Zenon
<1>3. CASE p = "symbol"
  BY <1>3, RunFits, FitsOne DEF PatternLength
<1>4. CASE p \in {"binary", "octal", "hex"}
  <2>1. <<"0", "b">> \in Seq(Char) /\ <<"0">> \in Seq(Char) /\ <<"0", "x">> \in Seq(Char)
    <3>1. {"0", "b", "x"} \subseteq Char
      BY DEF Char, Digit, Letter
    <3> QED BY <3>1, WordsAreTexts
  <2>2. \A C : /\ Fits(s, i, WordRun(s, i, <<"0", "b">>, C, 1))
               /\ Fits(s, i, WordRun(s, i, <<"0">>, C, 1))
               /\ Fits(s, i, WordRun(s, i, <<"0", "x">>, C, 1))
    BY <2>1, WordFits
  <2>3. \A n, b : Fits(s, i, n) => Fits(s, i, Suffixed(s, i, n, b))
    BY BlocksFit
  <2> QED BY <1>4, <2>2, <2>3 DEF PatternLength
<1>5. CASE p \in {"string", "character"}
  <2> DEFINE w == WidthPrefix(s, i)
  <2>1. w \in Nat /\ Fits(s, i, w)
    BY BlocksFit DEF Fits
  <2> HIDE DEF w
  <2>2. i + w \in Nat \ {0}
    BY <2>1
  <2>3. \A q : Fits(s, i + w, Quoted(s, i + w, q))
    BY <2>2, BlocksFit
  <2>4. \A q : Fits(s, i, w + Quoted(s, i + w, q))
    BY <2>1, <2>3, FitsMore
  <2>5. \A q : Fits(s, i, Prefixed(s, i, q))
    BY <2>4, FitsOne DEF Prefixed, w
  <2> QED BY <1>5, <2>5 DEF PatternLength
<1>6. CASE p = "byte"
  BY <1>6, BlocksFit, FitsOne DEF PatternLength
<1>7. CASE p = "int"
  <2> DEFINE n == Digits(s, i)
             r == Run(s, i + n + 1, Digit)
  <2>1. n \in Nat /\ Fits(s, i, n)
    BY BlocksFit DEF Fits
  <2>2. PatternLength(p, s, i) = IF n > 0 /\ At(s, i + n, {"i", "u"}) THEN n + 1 + r ELSE 0
    BY <1>7 DEF PatternLength, n, r
  <2> HIDE DEF n
  <2>3. i + n \in Nat /\ i + n + 1 \in Nat \ {0} /\ n + 1 \in Nat /\ i + (n + 1) = i + n + 1
    BY <2>1
  <2>4. Fits(s, i + n + 1, r)
    BY <2>3, RunFits
  <2> HIDE DEF r
  <2>5. At(s, i + n, {"i", "u"}) => Fits(s, i, n + 1)
    BY <2>1, <2>3, FitsOne, FitsMore
  <2>6. At(s, i + n, {"i", "u"}) => Fits(s, i, n + 1 + r)
    BY <2>3, <2>4, <2>5, FitsMore
  <2> QED BY <2>2, <2>6, FitsOne
<1>8. CASE p = "number"
  <2> DEFINE whole == DecimalRun(s, i)
             rest  == Run(s, i + whole + 1, Digit \cup {"_"})
             frac  == IF At(s, i + whole, {"."}) THEN 1 + rest ELSE 0
             m     == i + whole + frac
             exp   == WordRun(s, m, <<"e">>, Digit \cup {"_", "+"}, 1)
  <2>1. whole \in Nat /\ Fits(s, i, whole)
    BY BlocksFit DEF Fits
  <2> HIDE DEF whole
  <2>2. i + whole \in Nat \ {0} /\ i + whole + 1 \in Nat \ {0}
    BY <2>1
  <2>3. Fits(s, i + whole + 1, rest)
    BY <2>2, RunFits
  <2> HIDE DEF rest
  <2>4. Fits(s, i + whole, frac)
    <3>1. CASE At(s, i + whole, {"."})
      <4>1. Fits(s, i + whole, 1)
        BY <2>2, <3>1, FitsOne
      <4> QED BY <2>2, <2>3, <3>1, <4>1, FitsMore
    <3>2. CASE ~At(s, i + whole, {"."})
      BY <2>2, <3>2, FitsOne
    <3> QED BY <3>1, <3>2
  <2> HIDE DEF frac
  <2>5. frac \in Nat /\ whole + frac \in Nat /\ Fits(s, i, whole + frac)
    <3>1. frac \in Nat
      BY <2>4 DEF Fits
    <3> QED BY <2>1, <2>4, <3>1, FitsMore
  <2>6. m \in Nat \ {0} /\ m = i + (whole + frac)
    BY <2>1, <2>5
  <2> HIDE DEF m
  <2>7. Fits(s, m, exp)
    <3>1. <<"e">> \in Seq(Char)
      <4>1. "e" \in Char
        BY DEF Char, Letter
      <4> QED BY <4>1, WordsAreTexts
    <3> QED BY <2>6, <3>1, WordFits
  <2> HIDE DEF exp
  <2>8. Fits(s, i, whole + frac + exp)
    BY <2>5, <2>6, <2>7, FitsMore
  <2>9. Fits(s, i, Suffixed(s, i, whole + frac + exp, FALSE))
    BY <2>8, BlocksFit
  <2>10. NumberLength(s, i) = IF whole = 0 THEN 0 ELSE Suffixed(s, i, whole + frac + exp, FALSE)
    BY DEF NumberLength, whole, rest, frac, m, exp
  <2>11. PatternLength(p, s, i) = NumberLength(s, i)
    BY <1>8, Zenon DEF PatternLength
  <2> QED BY <2>9, <2>10, <2>11, FitsOne, Zenon
<1>9. CASE p = "comment"
  <2>1. <<"/", "/">> \in Seq(Char)
    <3>1. "/" \in Char
      BY DEF Char
    <3> QED BY <3>1, WordsAreTexts
  <2> QED BY <1>9, <2>1, WordFits DEF PatternLength
<1>10. CASE p \in {"semicolon", "space"}
  BY <1>10, RunFits DEF PatternLength
<1>11. CASE p = "rule"
  <2> DEFINE w == <<<<"#">>, <<"%", ":">>, <<"?", "?", "=">>>>
             n == [k \in 1 .. 3 |-> WordRun(s, i, w[k], NotEndOfRule, 0)]
  <2>1. \A k \in 1 .. 3 : w[k] \in Seq(Char)
    <3>1. {"#", "%", ":", "?", "="} \subseteq Char
      BY DEF Char
    <3>2. <<"#">> \in Seq(Char) /\ <<"%", ":">> \in Seq(Char) /\ <<"?", "?", "=">> \in Seq(Char)
      BY <3>1, WordsAreTexts
    <3>3. w[1] = <<"#">> /\ w[2] = <<"%", ":">> /\ w[3] = <<"?", "?", "=">>
      OBVIOUS
    <3>4. \A k \in 1 .. 3 : k = 1 \/ k = 2 \/ k = 3
      OBVIOUS
    <3> HIDE DEF w
    <3>5. w[1] \in Seq(Char) /\ w[2] \in Seq(Char) /\ w[3] \in Seq(Char)
      BY <3>2, <3>3
    <3> QED BY <3>4, <3>5
  <2> HIDE DEF w
  <2>2. \A k \in 1 .. 3 : Fits(s, i, n[k])
    BY <2>1, WordFits
  <2>3. Fits(s, i, n[1]) /\ Fits(s, i, n[2]) /\ Fits(s, i, n[3])
    BY <2>2
  <2>4. PatternLength(p, s, i) = IF n[1] > 0 THEN n[1] ELSE IF n[2] > 0 THEN n[2] ELSE n[3]
    BY <1>11 DEF PatternLength, w
  <2> HIDE DEF n
  <2> QED BY <2>3, <2>4
<1> QED BY <1>1, <1>2, <1>3, <1>4, <1>5, <1>6, <1>7, <1>8, <1>9, <1>10, <1>11 DEF PatternNames

-----------------------------------------------------------------------------
(* The cursor.                                                             *)

\* The line breaks of a stretch are finitely many.
LEMMA BreaksFinite ==
  ASSUME NEW s, NEW a \in Nat, NEW b \in Nat
  PROVE  /\ IsFiniteSet({k \in a .. b : s[k] = "\n"})
         /\ Cardinality({k \in a .. b : s[k] = "\n"}) \in Nat
<1>1. IsFiniteSet(a .. b)
  BY FS_Interval
<1>2. {k \in a .. b : s[k] = "\n"} \subseteq a .. b
  OBVIOUS
<1> QED BY <1>1, <1>2, FS_Subset, FS_CardinalityType

\* Lines and columns start at one.
LEMMA AfterPositive ==
  ASSUME NEW s, NEW n \in Nat
  PROVE  LineAfter(s, n) \in Nat \ {0} /\ ColumnAfter(s, n) \in Nat \ {0}
<1> DEFINE breaks == {k \in 1 .. n : s[k] = "\n"}
<1>1. Cardinality(breaks) \in Nat
  BY BreaksFinite
<1>2. LineAfter(s, n) = 1 + Cardinality(breaks)
  BY DEF LineAfter
<1>3. ColumnAfter(s, n) = 1 + n - (IF breaks = {} THEN 0 ELSE LastBreak(breaks))
  BY DEF ColumnAfter
<1>4. breaks # {} => LastBreak(breaks) \in 1 .. n
  BY LastBreakIs
<1> HIDE DEF breaks
<1>5. LineAfter(s, n) \in Nat \ {0}
  BY <1>1, <1>2
<1>6. ColumnAfter(s, n) \in Nat \ {0}
  BY <1>3, <1>4
<1> QED BY <1>5, <1>6

\* Counting on from a place counts what counting from the start does.
LEMMA AfterMore ==
  ASSUME NEW s, NEW a \in Nat, NEW b \in Nat, a <= b
  PROVE  LET breaks == {k \in a + 1 .. b : s[k] = "\n"}
         IN  /\ LineAfter(s, b) = LineAfter(s, a) + Cardinality(breaks)
             /\ ColumnAfter(s, b) = IF breaks = {} THEN ColumnAfter(s, a) + (b - a)
                                    ELSE 1 + b - LastBreak(breaks)
<1> DEFINE A == {k \in 1 .. a : s[k] = "\n"}
           B == {k \in a + 1 .. b : s[k] = "\n"}
           C == {k \in 1 .. b : s[k] = "\n"}
<1>1. C = A \cup B /\ A \cap B = {}
  OBVIOUS
<1>2. IsFiniteSet(A) /\ IsFiniteSet(B) /\ Cardinality(A) \in Nat /\ Cardinality(B) \in Nat
  <2>1. a + 1 \in Nat /\ 1 \in Nat
    OBVIOUS
  <2> QED BY <2>1, BreaksFinite
<1>3. A \subseteq 1 .. a /\ B \subseteq 1 .. b /\ C \subseteq 1 .. b /\ B \subseteq a + 1 .. b
  OBVIOUS
<1>4. /\ LineAfter(s, a) = 1 + Cardinality(A) /\ LineAfter(s, b) = 1 + Cardinality(C)
      /\ ColumnAfter(s, a) = 1 + a - (IF A = {} THEN 0 ELSE LastBreak(A))
      /\ ColumnAfter(s, b) = 1 + b - (IF C = {} THEN 0 ELSE LastBreak(C))
  BY DEF LineAfter, ColumnAfter
<1> HIDE DEF A, B, C
<1>5. LineAfter(s, b) = LineAfter(s, a) + Cardinality(B)
  <2>1. Cardinality(C) = Cardinality(A) + Cardinality(B) - Cardinality(A \cap B)
    BY <1>1, <1>2, FS_Union
  <2>2. Cardinality(A \cap B) = 0
    BY <1>1, FS_EmptySet
  <2> QED BY <1>2, <1>4, <2>1, <2>2
<1>6. ColumnAfter(s, b) = IF B = {} THEN ColumnAfter(s, a) + (b - a) ELSE 1 + b - LastBreak(B)
  <2>1. CASE B = {}
    <3>1. C = A
      BY <1>1, <2>1
    <3>2. A # {} => LastBreak(A) \in 1 .. a
      BY <1>3, LastBreakIs
    <3> QED BY <1>4, <2>1, <3>1, <3>2
  <2>2. CASE B # {}
    <3>1. C # {}
      BY <1>1, <2>2
    <3>2. LastBreak(B) \in B /\ \A j \in B : j <= LastBreak(B)
      BY <1>3, <2>2, LastBreakIs
    <3>3. LastBreak(C) \in C /\ \A j \in C : j <= LastBreak(C)
      BY <1>3, <3>1, LastBreakIs
    <3>4. LastBreak(B) <= LastBreak(C)
      BY <1>1, <3>2, <3>3
    <3>5. LastBreak(B) \in a + 1 .. b /\ LastBreak(C) \in 1 .. b
      BY <1>3, <3>2, <3>3
    <3>6. LastBreak(C) \in B
      BY <1>1, <1>3, <3>3, <3>4, <3>5
    <3>7. LastBreak(C) <= LastBreak(B)
      BY <3>2, <3>6
    <3>8. LastBreak(B) = LastBreak(C)
      BY <3>4, <3>5, <3>7
    <3> QED BY <1>4, <2>2, <3>1, <3>8
  <2> QED BY <2>1, <2>2
<1> QED BY <1>5, <1>6 DEF B

\* The cursor stands inside the source, at its line and column.
CursorOK ==
  /\ source \in Seq(Char)
  /\ pos \in 0 .. Len(source)
  /\ line = LineAfter(source, pos)
  /\ column = ColumnAfter(source, pos)

\* advanceN leaves it there.
LEMMA AdvanceOK ==
  ASSUME CursorOK, NEW n \in Nat, AdvanceN(n), UNCHANGED source
  PROVE  CursorOK'
<1> DEFINE stop == IF pos + n < Len(source) THEN pos + n ELSE Len(source)
<1>1. Len(source) \in Nat /\ pos \in Nat /\ pos <= Len(source)
  BY DEF CursorOK
<1>2. stop \in Nat /\ pos <= stop /\ stop <= Len(source)
  BY <1>1
<1>3. /\ pos' = stop
      /\ line' = line + Cardinality({k \in pos + 1 .. stop : source[k] = "\n"})
      /\ column' = IF {k \in pos + 1 .. stop : source[k] = "\n"} = {} THEN column + (stop - pos)
                   ELSE 1 + stop - LastBreak({k \in pos + 1 .. stop : source[k] = "\n"})
  BY DEF AdvanceN, Here
<1> HIDE DEF stop
<1>4. line' = LineAfter(source, stop) /\ column' = ColumnAfter(source, stop)
  BY <1>1, <1>2, <1>3, AfterMore DEF CursorOK
<1> QED BY <1>1, <1>2, <1>3, <1>4 DEF CursorOK

-----------------------------------------------------------------------------
(* What the handlers make.                                                 *)

\* The kind of an integer literal is a kind of token other than an operator,
\* or it has none.
LEMMA IntKindOK ==
  ASSUME NEW v
  PROVE  IntKind(v) \in (TokenKinds \ {"OPERATOR"}) \cup {"none"}
<1> DEFINE unsigned == \E k \in DOMAIN v : v[k] = "u"
           suffix   == CHOOSE k \in DOMAIN v : v[k] \in {"i", "u"}
           type     == SubSeq(v, suffix + 1, Len(v))
           which    == {k \in DOMAIN IntTypes : IntTypes[k] = type}
           U == <<"UINT32", "BYTE", "USHORT", "UINT24", "UINT32", "UINT64">>
           I == <<"INT32", "SBYTE", "SHORT", "INT24", "INT32", "INT64">>
<1>1. IntKind(v) = IF which = {} THEN "none"
                   ELSE IF unsigned THEN U[CHOOSE k \in which : TRUE]
                                    ELSE I[CHOOSE k \in which : TRUE]
  BY DEF IntKind
<1>2. DOMAIN IntTypes = 1 .. 6
  BY DEF IntTypes
<1>3. which \subseteq 1 .. 6
  BY <1>2
<1> HIDE DEF which, unsigned
<1>4. which # {} => (CHOOSE k \in which : TRUE) \in 1 .. 6
  BY <1>3
<1>5. \A k \in 1 .. 6 : /\ U[k] \in TokenKinds \ {"OPERATOR"}
                        /\ I[k] \in TokenKinds \ {"OPERATOR"}
  BY DEF TokenKinds
<1> HIDE DEF U, I
<1> QED BY <1>1, <1>4, <1>5

\* The operators are words.
LEMMA OperatorsWords ==
  /\ DOMAIN Operators = 1 .. 50
  /\ \A k \in DOMAIN Operators : /\ Operators[k] \in Seq(Char)
                                 /\ Len(Operators[k]) \in Nat \ {0}
                                 /\ 1 \in DOMAIN Operators[k]
<1>1. Operators \in Seq(Seq(Char) \ {<< >>})
  BY DEF Operators, Char, Digit, Letter, White
<1>2. DOMAIN Operators = 1 .. 50
  BY DEF Operators
<1>3. ASSUME NEW w \in Seq(Char) \ {<< >>}
      PROVE  Len(w) \in Nat \ {0} /\ 1 \in DOMAIN w
  BY EmptySeq
<1>4. \A k \in DOMAIN Operators : Operators[k] \in Seq(Char) \ {<< >>}
  BY <1>1
<1> QED BY <1>2, <1>3, <1>4

\* No entry of the pattern table is called as the operators are.
LEMMA NamesOfPatterns ==
  /\ DOMAIN PatternOrder = 1 .. 17
  /\ \A k \in 1 .. 17 : PatternOrder[k] # "operator"
BY DEF PatternOrder

\* The first characters of the operators of more than one character, and the
\* length and the first character of entry k of the table.
LongerFirst == {"=", "!", ">", "<", "|", "&", ".", "+", "-", "/", "*", "%", "^", "~"}
OperatorLength(k) == Len(Operators[k])
OperatorFirst(k)  == Operators[k][1]

\* The table by rows.
LEMMA OperatorRows ==
  /\ OperatorLength(1) = 1 /\ OperatorFirst(1) \notin LongerFirst
  /\ OperatorLength(2) = 1 /\ OperatorFirst(2) \notin LongerFirst
  /\ OperatorLength(3) = 1 /\ OperatorFirst(3) \notin LongerFirst
  /\ OperatorLength(4) = 1 /\ OperatorFirst(4) \notin LongerFirst
  /\ OperatorLength(5) = 1 /\ OperatorFirst(5) \notin LongerFirst
  /\ OperatorLength(6) = 1 /\ OperatorFirst(6) \notin LongerFirst
  /\ OperatorLength(7) = 2 /\ OperatorFirst(7) = "="
  /\ OperatorLength(8) = 2 /\ OperatorFirst(8) = "!"
  /\ OperatorLength(9) = 2 /\ OperatorFirst(9) = "="
  /\ OperatorLength(10) = 1 /\ OperatorFirst(10) = "="
  /\ OperatorLength(11) = 1 /\ OperatorFirst(11) = "!"
  /\ OperatorLength(12) = 4 /\ OperatorFirst(12) = ">"
  /\ OperatorLength(13) = 4 /\ OperatorFirst(13) = "<"
  /\ OperatorLength(14) = 3 /\ OperatorFirst(14) = "<"
  /\ OperatorLength(15) = 3 /\ OperatorFirst(15) = ">"
  /\ OperatorLength(16) = 3 /\ OperatorFirst(16) = ">"
  /\ OperatorLength(17) = 3 /\ OperatorFirst(17) = "<"
  /\ OperatorLength(18) = 2 /\ OperatorFirst(18) = "<"
  /\ OperatorLength(19) = 2 /\ OperatorFirst(19) = ">"
  /\ OperatorLength(20) = 2 /\ OperatorFirst(20) = "<"
  /\ OperatorLength(21) = 1 /\ OperatorFirst(21) = "<"
  /\ OperatorLength(22) = 2 /\ OperatorFirst(22) = ">"
  /\ OperatorLength(23) = 1 /\ OperatorFirst(23) = ">"
  /\ OperatorLength(24) = 2 /\ OperatorFirst(24) = "|"
  /\ OperatorLength(25) = 2 /\ OperatorFirst(25) = "&"
  /\ OperatorLength(26) = 2 /\ OperatorFirst(26) = "."
  /\ OperatorLength(27) = 1 /\ OperatorFirst(27) = "."
  /\ OperatorLength(28) = 1 /\ OperatorFirst(28) \notin LongerFirst
  /\ OperatorLength(29) = 1 /\ OperatorFirst(29) \notin LongerFirst
  /\ OperatorLength(30) = 1 /\ OperatorFirst(30) \notin LongerFirst
  /\ OperatorLength(31) = 2 /\ OperatorFirst(31) = "+"
  /\ OperatorLength(32) = 2 /\ OperatorFirst(32) = "-"
  /\ OperatorLength(33) = 2 /\ OperatorFirst(33) = "+"
  /\ OperatorLength(34) = 2 /\ OperatorFirst(34) = "-"
  /\ OperatorLength(35) = 2 /\ OperatorFirst(35) = "/"
  /\ OperatorLength(36) = 2 /\ OperatorFirst(36) = "*"
  /\ OperatorLength(37) = 2 /\ OperatorFirst(37) = "%"
  /\ OperatorLength(38) = 1 /\ OperatorFirst(38) = "+"
  /\ OperatorLength(39) = 1 /\ OperatorFirst(39) = "-"
  /\ OperatorLength(40) = 1 /\ OperatorFirst(40) = "/"
  /\ OperatorLength(41) = 1 /\ OperatorFirst(41) = "*"
  /\ OperatorLength(42) = 1 /\ OperatorFirst(42) = "%"
  /\ OperatorLength(43) = 2 /\ OperatorFirst(43) = "|"
  /\ OperatorLength(44) = 1 /\ OperatorFirst(44) = "|"
  /\ OperatorLength(45) = 2 /\ OperatorFirst(45) = "&"
  /\ OperatorLength(46) = 1 /\ OperatorFirst(46) = "&"
  /\ OperatorLength(47) = 2 /\ OperatorFirst(47) = "^"
  /\ OperatorLength(48) = 1 /\ OperatorFirst(48) = "^"
  /\ OperatorLength(49) = 2 /\ OperatorFirst(49) = "~"
  /\ OperatorLength(50) = 1 /\ OperatorFirst(50) = "~"
BY Zenon DEF OperatorLength, OperatorFirst, LongerFirst, Operators

\* No entry is a beginning of a later one: the entries before an entry are as
\* long as it or begin with another character.
LEMMA NothingShadowed ==
  ASSUME NEW j \in 1 .. 50, NEW k \in 1 .. j - 1, OperatorLength(k) < OperatorLength(j)
  PROVE  OperatorFirst(k) # OperatorFirst(j)
BY SMTT(40), OperatorRows DEF LongerFirst

\* Where the operators are tried and one matches, the first of them is found.
LEMMA OperatorFound ==
  ASSUME NEW s, NEW i, FirstPattern(s, i) = "operator"
  PROVE  /\ Len(FirstOperator(s, i)) \in Nat
         /\ \E k \in DOMAIN Operators :
              /\ FirstOperator(s, i) = Operators[k] /\ Word(s, i, Operators[k]) > 0
              /\ \A j \in DOMAIN Operators : Word(s, i, Operators[j]) > 0 => k <= j
<1> DEFINE hits == {k \in DOMAIN PatternOrder : PatternLength(PatternOrder[k], s, i) > 0}
           ops  == {k \in DOMAIN Operators : Word(s, i, Operators[k]) > 0}
           hit  == CHOOSE k \in hits : \A j \in hits : k <= j
           op   == CHOOSE k \in ops : \A j \in ops : k <= j
<1>1. FirstPattern(s, i) = IF hits # {} THEN PatternOrder[hit]
                           ELSE IF ops # {} THEN "operator" ELSE "none"
  BY DEF FirstPattern
<1>2. hits \subseteq 1 .. 17
  BY NamesOfPatterns
<1>3. DOMAIN Operators \subseteq Nat
  BY DEF Operators
<1>4. ops \subseteq Nat /\ ops \subseteq DOMAIN Operators
  BY <1>3
<1>5. FirstOperator(s, i) = Operators[op]
  BY DEF FirstOperator
<1> HIDE DEF hits, ops
<1>6. hits = {}
  <2>1. SUFFICES ASSUME hits # {} PROVE FALSE
    OBVIOUS
  <2>2. \E k \in hits : \A j \in hits : k <= j
    <3>1. hits \subseteq Nat
      BY <1>2
    <3> QED BY <2>1, <3>1, LeastExists
  <2>3. hit \in 1 .. 17
    BY <1>2, <2>2
  <2> QED BY <1>1, <2>1, <2>3, NamesOfPatterns
<1>7. ops # {}
  BY <1>1, <1>6
<1>8. \E k \in ops : \A j \in ops : k <= j
  BY <1>4, <1>7, LeastExists
<1>9. op \in ops /\ \A j \in ops : op <= j
  BY <1>8
<1>10. \A j \in DOMAIN Operators : Word(s, i, Operators[j]) > 0 => j \in ops
  BY DEF ops
<1>11. op \in DOMAIN Operators /\ Word(s, i, Operators[op]) > 0
  BY <1>9 DEF ops
<1> HIDE DEF op
<1> QED BY <1>5, <1>9, <1>10, <1>11, OperatorsWords

\* It is the longest that matches: a longer one stands behind it in the table,
\* so begins with another character, and both match the same character first.
LEMMA FirstIsLongest ==
  ASSUME NEW s, NEW i \in Nat, FirstPattern(s, i) = "operator", NEW j \in DOMAIN Operators
  PROVE  Word(s, i, Operators[j]) <= Len(FirstOperator(s, i))
<1>1. PICK k \in DOMAIN Operators :
        /\ FirstOperator(s, i) = Operators[k] /\ Word(s, i, Operators[k]) > 0
        /\ \A m \in DOMAIN Operators : Word(s, i, Operators[m]) > 0 => k <= m
  BY OperatorFound
<1>2. /\ DOMAIN Operators = 1 .. 50
      /\ \A m \in DOMAIN Operators : Len(Operators[m]) \in Nat \ {0}
  BY OperatorsWords
<1>3. \A m \in DOMAIN Operators : Word(s, i, Operators[m]) \in {0, Len(Operators[m])}
  BY DEF Word
<1>4. \A m \in DOMAIN Operators : Word(s, i, Operators[m]) > 0 => s[i] = OperatorFirst(m)
  <2>1. SUFFICES ASSUME NEW m \in DOMAIN Operators, Word(s, i, Operators[m]) > 0
                 PROVE  s[i] = OperatorFirst(m)
    OBVIOUS
  <2>2. \A n \in DOMAIN Operators[m] : At(s, i + n - 1, {Operators[m][n]})
    BY <2>1 DEF Word
  <2>3. 1 \in DOMAIN Operators[m]
    BY OperatorsWords
  <2>4. At(s, i + 1 - 1, {Operators[m][1]})
    BY <2>2, <2>3, Zenon
  <2>5. i + 1 - 1 = i
    OBVIOUS
  <2> QED BY <2>4, <2>5 DEF At, OperatorFirst
<1>5. SUFFICES ASSUME ~(Word(s, i, Operators[j]) <= Len(Operators[k]))
               PROVE  FALSE
  BY <1>1
<1>6. /\ Word(s, i, Operators[j]) > 0 /\ Word(s, i, Operators[j]) = Len(Operators[j])
      /\ Len(Operators[k]) < Len(Operators[j])
  <2> DEFINE m == Word(s, i, Operators[j])
             n == Len(Operators[k])
             o == Len(Operators[j])
  <2>1. n \in Nat \ {0} /\ o \in Nat \ {0} /\ m \in {0, o} /\ ~(m <= n)
    BY <1>2, <1>3, <1>5
  <2> HIDE DEF m, n, o
  <2>2. m > 0 /\ m = o /\ n < o
    BY <2>1
  <2> QED BY <2>2 DEF m, n, o
<1>7. k <= j /\ k # j
  <2>1. k <= j
    BY <1>1, <1>6
  <2>2. k # j
    <3>1. SUFFICES ASSUME k = j PROVE FALSE
      OBVIOUS
    <3>2. Len(Operators[j]) < Len(Operators[j]) /\ Len(Operators[j]) \in Nat
      BY <1>2, <1>6, <3>1
    <3> QED BY <3>2
  <2> QED BY <2>1, <2>2
<1>8. OperatorFirst(k) = OperatorFirst(j)
  BY <1>1, <1>4, <1>6
<1>9. OperatorLength(k) < OperatorLength(j)
  BY <1>6 DEF OperatorLength
<1>10. j \in 1 .. 50 /\ k \in 1 .. j - 1
  <2>1. j \in 1 .. 50 /\ k \in 1 .. 50
    BY <1>2
  <2> QED BY <1>7, <2>1
<1> QED BY <1>8, <1>9, <1>10, NothingShadowed

\* The inductive invariant.
LexInv ==
  /\ CursorOK
  /\ [source |-> source, options |-> options] \in Inputs
  /\ tokens \in Seq(TokenType)
  /\ TokenPositions
  /\ errors \subseteq 0 .. Len(source)
  /\ phase \in {"lexing", "done", "exited", "threw"}

\* A token is made at the cursor, with the line and column of the cursor.
LEMMA PushOK ==
  ASSUME LexInv, NEW kind \in TokenKinds, NEW n \in Nat, Push(kind, n), UNCHANGED source
  PROVE  tokens' \in Seq(TokenType) /\ TokenPositions'
<1> DEFINE t == [kind |-> kind, from |-> pos, lexeme |-> n, line |-> line, column |-> column]
<1>1. tokens' = Append(tokens, t)
  BY DEF Push
<1>2. pos \in Nat /\ line = LineAfter(source, pos) /\ column = ColumnAfter(source, pos)
  BY DEF LexInv, CursorOK
<1>3. line \in Nat \ {0} /\ column \in Nat \ {0}
  BY <1>2, AfterPositive
<1>4. t \in TokenType
  BY <1>2, <1>3 DEF TokenType
<1>5. t.line = LineAfter(source, t.from) /\ t.column = ColumnAfter(source, t.from)
  BY <1>2
<1> HIDE DEF t
<1>6. tokens' \in Seq(TokenType)
  BY <1>1, <1>4 DEF LexInv
<1>7. ASSUME NEW k \in DOMAIN tokens'
      PROVE  /\ tokens'[k].line = LineAfter(source, tokens'[k].from)
             /\ tokens'[k].column = ColumnAfter(source, tokens'[k].from)
  <2>1. tokens \in Seq(TokenType) /\ k \in 1 .. Len(tokens) + 1
    BY <1>1, <1>4 DEF LexInv
  <2>2. CASE k = Len(tokens) + 1
    <3>1. tokens'[k] = t
      BY <1>1, <2>1, <2>2
    <3> QED BY <1>5, <3>1
  <2>3. CASE k \in 1 .. Len(tokens)
    <3>1. tokens'[k] = tokens[k] /\ k \in DOMAIN tokens
      BY <1>1, <2>1, <2>3
    <3> QED BY <3>1 DEF LexInv, TokenPositions
  <2> QED BY <2>1, <2>2, <2>3
<1>8. TokenPositions'
  BY <1>7 DEF TokenPositions
<1> QED BY <1>6, <1>8

\* A reported error lies inside the source.
LEMMA ReportOK ==
  ASSUME LexInv, Report, UNCHANGED source
  PROVE  /\ errors' \subseteq 0 .. Len(source')
         /\ phase' \in {"lexing", "done", "exited", "threw"}
BY DEF LexInv, CursorOK, Report

-----------------------------------------------------------------------------
(* The steps.                                                              *)

\* A step that moves the cursor over some characters and makes at most one
\* token, where it stood, keeps the invariant.
LEMMA MoveOK ==
  ASSUME LexInv, NEW n \in Nat, AdvanceN(n), UNCHANGED <<source, options>>,
         tokens' = tokens \/ \E kind \in TokenKinds, m \in Nat : Push(kind, m),
         errors' \subseteq 0 .. Len(source'), phase' \in {"lexing", "done", "exited", "threw"}
  PROVE  LexInv'
<1>1. CursorOK'
  BY AdvanceOK DEF LexInv
<1>2. tokens' \in Seq(TokenType) /\ TokenPositions'
  <2>1. CASE tokens' = tokens
    BY <2>1 DEF LexInv, TokenPositions
  <2>2. CASE \E kind \in TokenKinds, m \in Nat : Push(kind, m)
    BY <2>2, PushOK
  <2> QED BY <2>1, <2>2
<1> QED BY <1>1, <1>2 DEF LexInv

\* So does a step that leaves the cursor.
LEMMA StayOK ==
  ASSUME LexInv, UNCHANGED <<source, options, pos, line, column>>,
         tokens' = tokens \/ \E kind \in TokenKinds, m \in Nat : Push(kind, m),
         errors' \subseteq 0 .. Len(source'), phase' \in {"lexing", "done", "exited", "threw"}
  PROVE  LexInv'
<1>1. CursorOK'
  BY DEF LexInv, CursorOK
<1>2. tokens' \in Seq(TokenType) /\ TokenPositions'
  <2>1. CASE tokens' = tokens
    BY <2>1 DEF LexInv, TokenPositions
  <2>2. CASE \E kind \in TokenKinds, m \in Nat : Push(kind, m)
    BY <2>2, PushOK
  <2> QED BY <2>1, <2>2
<1> QED BY <1>1, <1>2 DEF LexInv

\* The length matched at the cursor, and that of its text, are numbers.
LEMMA MatchedNat ==
  ASSUME LexInv, NEW p \in PatternNames
  PROVE  /\ Matched(p) \in Nat /\ pos + Matched(p) <= Len(source)
         /\ LET v == Lexeme(Matched(p)) IN Len(v) = Matched(p) /\ Len(v) \in Nat /\ DOMAIN v = 1 .. Len(v)
<1>1. source \in Seq(Char) /\ pos + 1 \in Nat \ {0} /\ pos \in 0 .. Len(source) /\ Len(source) \in Nat
  BY DEF LexInv, CursorOK
<1>2. Matched(p) \in Nat /\ pos + Matched(p) <= Len(source)
  <2>1. Fits(source, pos + 1, Matched(p))
    BY <1>1, LengthFits DEF Matched, Here
  <2> QED BY <1>1, <2>1 DEF Fits
<1>3. ASSUME NEW n \in Nat
      PROVE  Len(Lexeme(n)) = n /\ DOMAIN Lexeme(n) = 1 .. n
  <2>1. IF pos + 1 <= pos + n THEN (pos + n) - (pos + 1) + 1 = n ELSE n = 0
    BY <1>1
  <2> QED BY <1>1, <2>1 DEF Lexeme, Here
<1> QED BY <1>2, <1>3

\* A token of the whole match.
LEMMA HandlePlainOK ==
  ASSUME LexInv, NEW p, HandlePlain(p)
  PROVE  LexInv'
<1>1. p \in PatternNames /\ PlainKind[p] \in TokenKinds
  BY DEF HandlePlain, Lexing, PatternNames, PlainKind, TokenKinds
<1>2. Matched(p) \in Nat
  BY <1>1, MatchedNat
<1>3. /\ Push(PlainKind[p], Matched(p)) /\ AdvanceN(Matched(p))
      /\ UNCHANGED <<options, source, errors, phase>>
  BY DEF HandlePlain
<1>4. errors' \subseteq 0 .. Len(source') /\ phase' \in {"lexing", "done", "exited", "threw"}
  BY <1>3 DEF LexInv
<1> QED BY <1>1, <1>2, <1>3, <1>4, MoveOK

\* An operator token: the operator found has a length.
LEMMA HandleOperatorOK ==
  ASSUME LexInv, HandleOperator(Pattern)
  PROVE  LexInv'
<1> DEFINE n == Len(FirstOperator(source, Here))
<1>1. FirstPattern(source, Here) = "operator"
  BY DEF HandleOperator, Lexing, Pattern
<1>2. n \in Nat
  BY <1>1, OperatorFound
<1>3. Push("OPERATOR", n) /\ AdvanceN(n) /\ UNCHANGED <<options, source, errors, phase>>
  BY DEF HandleOperator
<1> HIDE DEF n
<1>4. errors' \subseteq 0 .. Len(source') /\ phase' \in {"lexing", "done", "exited", "threw"}
  BY <1>3 DEF LexInv
<1>5. "OPERATOR" \in TokenKinds
  BY DEF TokenKinds
<1> QED BY <1>2, <1>3, <1>4, <1>5, MoveOK

\* A binary, octal or hexadecimal literal: the value and the suffix cut off
\* it make the whole match.
LEMMA HandleRadixOK ==
  ASSUME LexInv, NEW p, HandleRadix(p)
  PROVE  LexInv'
<1> DEFINE v       == Lexeme(Matched(p))
           last    == v[Len(v)]
           isByte  == p # "hex" /\ last = "b"
           precise == last = "@"
           value   == IF isByte \/ precise THEN Len(v) - 1 ELSE Len(v)
           n       == value + (IF isByte THEN 1 ELSE 0) + (IF precise THEN 1 ELSE 0)
           kind    == IF isByte THEN "BYTE" ELSE IF precise THEN "PNUMBER" ELSE "NUMBER"
<1>1. p \in PatternNames
  BY DEF HandleRadix, Lexing, PatternNames
<1>2. Matched(p) \in Nat /\ Len(v) \in Nat
  BY <1>1, MatchedNat
<1>3. Push(kind, Matched(p)) /\ AdvanceN(n) /\ UNCHANGED <<options, source, errors, phase>>
  BY DEF HandleRadix
<1>4. errors' \subseteq 0 .. Len(source') /\ phase' \in {"lexing", "done", "exited", "threw"}
  BY <1>3 DEF LexInv
<1>5. kind \in TokenKinds
  BY DEF TokenKinds
<1>6. n \in Nat
  <2>1. ~(isByte /\ precise)
    OBVIOUS
  <2> HIDE DEF v, isByte, precise
  <2>2. n = Len(v)
    <3>1. CASE isByte
      BY <1>2, <2>1, <3>1
    <3>2. CASE ~isByte /\ precise
      BY <1>2, <3>2
    <3>3. CASE ~isByte /\ ~precise
      BY <1>2, <3>3
    <3> QED BY <3>1, <3>2, <3>3
  <2> QED BY <1>2, <2>2
<1> HIDE DEF n, kind
<1> QED BY <1>2, <1>3, <1>4, <1>5, <1>6, MoveOK

\* A byte literal, with or without a report.
LEMMA HandleByteOK ==
  ASSUME LexInv, NEW p, HandleByte(p)
  PROVE  LexInv'
<1> DEFINE v       == Lexeme(Matched(p))
           precise == v[Len(v)] = "@"
           n       == Cardinality({k \in DOMAIN v : v[k] # "_"})
           kind    == IF precise THEN "PNUMBER" ELSE "BYTE"
<1>1. p \in PatternNames
  BY DEF HandleByte, Lexing, PatternNames
<1>2. Matched(p) \in Nat /\ Len(v) \in Nat
  BY <1>1, MatchedNat
<1>3. /\ IF precise THEN Report ELSE UNCHANGED <<errors, phase>>
      /\ IF phase' = "exited" THEN UNCHANGED <<tokens, pos, line, column>>
         ELSE Push(kind, Matched(p)) /\ AdvanceN(n)
      /\ UNCHANGED <<options, source>>
  BY DEF HandleByte
<1>4. errors' \subseteq 0 .. Len(source') /\ phase' \in {"lexing", "done", "exited", "threw"}
  <2> HIDE DEF precise
  <2>1. CASE precise
    BY <1>3, <2>1, ReportOK
  <2>2. CASE ~precise
    BY <1>3, <2>2 DEF LexInv
  <2> QED BY <2>1, <2>2
<1>5. kind \in TokenKinds
  BY DEF TokenKinds
<1>6. n \in Nat
  <2>1. DOMAIN v = 1 .. Len(v)
    BY <1>1, MatchedNat
  <2>2. {k \in DOMAIN v : v[k] # "_"} \subseteq 1 .. Len(v)
    BY <2>1
  <2> HIDE DEF v
  <2>3. IsFiniteSet(1 .. Len(v))
    BY <1>2, FS_Interval
  <2> QED BY <2>2, <2>3, FS_Subset, FS_CardinalityType
<1> HIDE DEF n, kind, precise
<1> QED BY <1>2, <1>3, <1>4, <1>5, <1>6, MoveOK, StayOK

\* An integer literal, or a report of its width.
LEMMA HandleIntOK ==
  ASSUME LexInv, NEW p, HandleInt(p)
  PROVE  LexInv'
<1> DEFINE kind == IntKind(Lexeme(Matched(p)))
<1>1. p \in PatternNames
  BY DEF HandleInt, Lexing, PatternNames
<1>2. Matched(p) \in Nat
  BY <1>1, MatchedNat
<1>3. /\ IF kind = "none" THEN Report /\ UNCHANGED <<tokens, pos, line, column>>
         ELSE Push(kind, Matched(p)) /\ AdvanceN(Matched(p)) /\ UNCHANGED <<errors, phase>>
      /\ UNCHANGED <<options, source>>
  BY DEF HandleInt
<1>4. kind \in TokenKinds \cup {"none"}
  BY IntKindOK
<1> HIDE DEF kind
<1>5. CASE kind = "none"
  BY <1>3, <1>5, ReportOK, StayOK
<1>6. CASE kind # "none"
  <2>1. errors' \subseteq 0 .. Len(source') /\ phase' \in {"lexing", "done", "exited", "threw"}
    BY <1>3, <1>6 DEF LexInv
  <2> QED BY <1>2, <1>3, <1>4, <1>6, <2>1, MoveOK
<1> QED BY <1>5, <1>6

\* A number, a report of its exponent, or the end by an exception.
LEMMA HandleNumberOK ==
  ASSUME LexInv, NEW p, HandleNumber(p)
  PROVE  LexInv'
<1> DEFINE v         == Without(Lexeme(Matched(p)), "_")
           precise   == v[Len(v)] = "@"
           expansion == IF precise THEN Expansion(SubSeq(v, 1, Len(v) - 1)) ELSE "ok"
           kind      == IF precise THEN "PNUMBER" ELSE "NUMBER"
<1>1. p \in PatternNames
  BY DEF HandleNumber, Lexing, PatternNames
<1>2. Matched(p) \in Nat
  BY <1>1, MatchedNat
<1>3. /\ CASE expansion = "ok"      -> UNCHANGED <<errors, phase>>
           [] expansion = "invalid" -> Report
           [] expansion = "throws"  -> phase' = "threw" /\ UNCHANGED errors
      /\ IF phase' = "lexing" THEN Push(kind, Matched(p)) /\ AdvanceN(Matched(p))
         ELSE UNCHANGED <<tokens, pos, line, column>>
      /\ UNCHANGED <<options, source>>
  BY DEF HandleNumber
<1>4. expansion \in {"ok", "invalid", "throws"}
  BY DEF Expansion
<1>5. kind \in TokenKinds
  BY DEF TokenKinds
<1> HIDE DEF expansion, kind
<1>6. errors' \subseteq 0 .. Len(source') /\ phase' \in {"lexing", "done", "exited", "threw"}
  <2>1. CASE expansion = "ok"
    BY <1>3, <2>1 DEF LexInv
  <2>2. CASE expansion = "invalid"
    <3>1. Report
      BY <1>3, <2>2
    <3> QED BY <1>3, <3>1, ReportOK
  <2>3. CASE expansion = "throws"
    BY <1>3, <2>3 DEF LexInv
  <2> QED BY <1>4, <2>1, <2>2, <2>3
<1>7. CASE phase' = "lexing"
  BY <1>2, <1>3, <1>5, <1>6, <1>7, MoveOK
<1>8. CASE phase' # "lexing"
  BY <1>3, <1>6, <1>8, StayOK
<1> QED BY <1>7, <1>8

\* A character literal, with or without a report.
LEMMA HandleCharacterOK ==
  ASSUME LexInv, NEW p, HandleCharacter(p)
  PROVE  LexInv'
<1> DEFINE inside == Matched(p) - 2 - WidthPrefix(source, Here)
<1>1. p \in PatternNames
  BY DEF HandleCharacter, Lexing, PatternNames
<1>2. Matched(p) \in Nat
  BY <1>1, MatchedNat
<1>3. /\ IF inside # 1 THEN Report ELSE UNCHANGED <<errors, phase>>
      /\ IF phase' = "exited" THEN UNCHANGED <<tokens, pos, line, column>>
         ELSE Push("CHAR", Matched(p)) /\ AdvanceN(Matched(p))
      /\ UNCHANGED <<options, source>>
  BY DEF HandleCharacter
<1> HIDE DEF inside
<1>4. errors' \subseteq 0 .. Len(source') /\ phase' \in {"lexing", "done", "exited", "threw"}
  <2>1. CASE inside # 1
    BY <1>3, <2>1, ReportOK
  <2>2. CASE inside = 1
    BY <1>3, <2>2 DEF LexInv
  <2> QED BY <2>1, <2>2
<1>5. "CHAR" \in TokenKinds
  BY DEF TokenKinds
<1> QED BY <1>2, <1>3, <1>4, <1>5, MoveOK, StayOK

\* White space, comments and characters no pattern begins with are skipped.
LEMMA SkipOK ==
  ASSUME LexInv, NEW p, Skip(p) \/ SkipMultiline(p) \/ SkipUnmatched(p)
  PROVE  LexInv'
<1>1. ASSUME NEW n \in Nat, AdvanceN(n), UNCHANGED <<options, source, tokens, errors, phase>>
      PROVE  LexInv'
  <2>1. errors' \subseteq 0 .. Len(source') /\ phase' \in {"lexing", "done", "exited", "threw"}
    BY <1>1 DEF LexInv
  <2> QED BY <1>1, <2>1, MoveOK
<1>2. CASE Skip(p)
  <2>1. p \in PatternNames
    BY <1>2 DEF Skip, Lexing, PatternNames
  <2>2. Matched(p) \in Nat
    BY <2>1, MatchedNat
  <2> QED BY <1>1, <1>2, <2>2 DEF Skip
<1>3. CASE SkipMultiline(p)
  <2> DEFINE closings == {k \in Here + 2 .. Len(source) : Word(source, k, <<"*", "/">>) > 0}
             first    == CHOOSE k \in closings : \A j \in closings : k <= j
             n        == IF closings = {} THEN Len(source) - pos ELSE first + 1 - pos
  <2>1. Len(source) \in Nat /\ pos \in Nat /\ pos <= Len(source)
    BY DEF LexInv, CursorOK
  <2>2. closings \subseteq Nat /\ closings \subseteq pos + 3 .. Len(source)
    BY <2>1 DEF Here
  <2>3. AdvanceN(n) /\ UNCHANGED <<options, source, tokens, errors, phase>>
    BY <1>3 DEF SkipMultiline
  <2> HIDE DEF closings
  <2>4. closings # {} => first \in closings
    <3>1. closings # {} => \E k \in closings : \A j \in closings : k <= j
      BY <2>2, LeastExists
    <3> QED BY <3>1
  <2>5. n \in Nat
    <3>1. CASE closings = {}
      BY <2>1, <3>1
    <3>2. CASE closings # {}
      <4>1. first \in pos + 3 .. Len(source)
        BY <2>2, <2>4, <3>2
      <4> HIDE DEF first
      <4>2. first + 1 - pos \in Nat
        BY <2>1, <4>1
      <4> QED BY <3>2, <4>2
    <3> QED BY <3>1, <3>2
  <2> HIDE DEF first
  <2> HIDE DEF n
  <2> QED BY <1>1, <2>3, <2>5
<1>4. CASE SkipUnmatched(p)
  BY <1>1, <1>4 DEF SkipUnmatched
<1> QED BY <1>2, <1>3, <1>4

\* The end of the source makes the EOF token.
LEMMA FinishOK ==
  ASSUME LexInv, NEW p, Finish(p)
  PROVE  LexInv'
<1>1. /\ Push("EOF", 0) /\ phase' = "done"
      /\ UNCHANGED <<options, source, pos, line, column, errors>>
  BY DEF Finish
<1>2. "EOF" \in TokenKinds /\ 0 \in Nat
  BY DEF TokenKinds
<1>3. errors' \subseteq 0 .. Len(source')
  BY <1>1 DEF LexInv
<1> QED BY <1>1, <1>2, <1>3, StayOK

-----------------------------------------------------------------------------
(* The longest operator.                                                   *)

\* Only the handler of operators makes an operator token.
LEMMA OtherTokens ==
  ASSUME NEW p, Handle(p), ~HandleOperator(p)
  PROVE  tokens' = tokens \/ \E kind \in TokenKinds \ {"OPERATOR"} : \E m : Push(kind, m)
<1>1. CASE HandlePlain(p)
  <2>1. PlainKind[p] \in TokenKinds \ {"OPERATOR"}
    BY <1>1 DEF HandlePlain, Lexing, PlainKind, TokenKinds
  <2> QED BY <1>1, <2>1 DEF HandlePlain
<1>2. CASE HandleRadix(p)
  <2>1. \E kind \in {"BYTE", "PNUMBER", "NUMBER"} : Push(kind, Matched(p))
    BY <1>2, Zenon DEF HandleRadix
  <2> QED BY <2>1 DEF TokenKinds
<1>3. CASE HandleByte(p)
  <2>1. tokens' = tokens \/ \E kind \in {"PNUMBER", "BYTE"} : Push(kind, Matched(p))
    BY <1>3, Zenon DEF HandleByte
  <2> QED BY <2>1 DEF TokenKinds
<1>4. CASE HandleInt(p)
  BY <1>4, IntKindOK DEF HandleInt
<1>5. CASE HandleNumber(p)
  <2>1. tokens' = tokens \/ \E kind \in {"PNUMBER", "NUMBER"} : Push(kind, Matched(p))
    BY <1>5, Zenon DEF HandleNumber
  <2> QED BY <2>1 DEF TokenKinds
<1>6. CASE HandleCharacter(p)
  <2>1. "CHAR" \in TokenKinds \ {"OPERATOR"}
    BY DEF TokenKinds
  <2> QED BY <1>6, <2>1 DEF HandleCharacter
<1>7. CASE Finish(p)
  <2>1. "EOF" \in TokenKinds \ {"OPERATOR"}
    BY DEF TokenKinds
  <2> QED BY <1>7, <2>1 DEF Finish
<1>8. CASE Skip(p) \/ SkipMultiline(p) \/ SkipUnmatched(p)
  BY <1>8 DEF Skip, SkipMultiline, SkipUnmatched
<1> QED BY <1>1, <1>2, <1>3, <1>4, <1>5, <1>6, <1>7, <1>8 DEF Handle

\* A token that is no operator, or is the longest that matches at the cursor,
\* leaves every operator token the longest of its place.
LEMMA PushKeepsLongest ==
  ASSUME LexInv, LongestOperator, NEW kind, NEW m, Push(kind, m), UNCHANGED source,
         kind = "OPERATOR" => \A j \in DOMAIN Operators : Word(source, pos + 1, Operators[j]) <= m
  PROVE  LongestOperator'
<1> DEFINE t == [kind |-> kind, from |-> pos, lexeme |-> m, line |-> line, column |-> column]
<1>1. tokens' = Append(tokens, t) /\ tokens \in Seq(TokenType)
  BY DEF Push, LexInv
<1>2. t.kind = kind /\ t.from = pos /\ t.lexeme = m
  OBVIOUS
<1> HIDE DEF t
<1>3. ASSUME NEW k \in DOMAIN tokens'
      PROVE  (k \in DOMAIN tokens /\ tokens'[k] = tokens[k]) \/ tokens'[k] = t
  BY <1>1
<1>4. ASSUME NEW k \in DOMAIN tokens', tokens'[k].kind = "OPERATOR", NEW j \in DOMAIN Operators
      PROVE  Word(source, tokens'[k].from + 1, Operators[j]) <= tokens'[k].lexeme
  <2>1. CASE k \in DOMAIN tokens /\ tokens'[k] = tokens[k]
    BY <1>4, <2>1 DEF LongestOperator
  <2>2. CASE tokens'[k] = t
    BY <1>2, <1>4, <2>2
  <2> QED BY <1>3, <2>1, <2>2
<1> QED BY <1>4 DEF LongestOperator

\* Every step of the lexer keeps operator tokens the longest of their place.
LEMMA NextLongest == LexInv /\ LongestOperator /\ [Next]_vars => LongestOperator'
<1> SUFFICES ASSUME LexInv, LongestOperator, [Next]_vars PROVE LongestOperator'
  OBVIOUS
<1>1. CASE UNCHANGED vars
  BY <1>1 DEF vars, LongestOperator
<1>2. CASE HandleOperator(Pattern)
  <2>1. FirstPattern(source, Here) = "operator" /\ pos + 1 \in Nat
    BY <1>2 DEF HandleOperator, Lexing, Pattern, LexInv, CursorOK
  <2>2. \A j \in DOMAIN Operators :
           Word(source, pos + 1, Operators[j]) <= Len(FirstOperator(source, Here))
    BY <2>1, FirstIsLongest DEF Here
  <2>3. Push("OPERATOR", Len(FirstOperator(source, Here))) /\ UNCHANGED source
    BY <1>2 DEF HandleOperator
  <2> QED BY <2>2, <2>3, PushKeepsLongest
<1>3. CASE Handle(Pattern) /\ ~HandleOperator(Pattern)
  <2>1. UNCHANGED source
    BY <1>3 DEF Handle, HandlePlain, HandleRadix, HandleByte, HandleInt, HandleNumber,
       HandleCharacter, Skip, SkipMultiline, SkipUnmatched, Finish
  <2>2. tokens' = tokens \/ \E kind \in TokenKinds \ {"OPERATOR"} : \E m : Push(kind, m)
    BY <1>3, OtherTokens
  <2>3. CASE tokens' = tokens
    BY <2>1, <2>3 DEF LongestOperator
  <2>4. CASE \E kind \in TokenKinds \ {"OPERATOR"} : \E m : Push(kind, m)
    BY <2>1, <2>4, PushKeepsLongest
  <2> QED BY <2>2, <2>3, <2>4
<1> QED BY <1>1, <1>2, <1>3 DEF Next

-----------------------------------------------------------------------------
(* The cursor and the lexemes.                                             *)

\* No byte literal of the texts has an underscore in it: byteHandler erases
\* them and consumes that much less.
PlainBytes ==
  \A input \in Inputs : \A i \in 1 .. Len(input.source) :
     \A k \in i .. i + PatternLength("byte", input.source, i) - 1 : input.source[k] # "_"

\* A step that makes a token leaves the cursor where the lexeme ends.
Advances ==
  tokens' # tokens /\ phase' = "lexing"
    => pos' = tokens'[Len(tokens')].from + tokens'[Len(tokens')].lexeme

\* A token of n characters that are all there, and an advance over them.
LEMMA PushAdvances ==
  ASSUME LexInv, NEW kind, NEW n \in Nat, pos + n <= Len(source), Push(kind, n), AdvanceN(n)
  PROVE  Advances
<1> DEFINE t == [kind |-> kind, from |-> pos, lexeme |-> n, line |-> line, column |-> column]
<1>1. tokens' = Append(tokens, t) /\ tokens \in Seq(TokenType)
  BY DEF Push, LexInv
<1>2. t.from = pos /\ t.lexeme = n
  OBVIOUS
<1> HIDE DEF t
<1>3. tokens'[Len(tokens')] = t
  BY <1>1
<1>4. pos \in Nat /\ Len(source) \in Nat
  BY DEF LexInv, CursorOK
<1>5. pos' = pos + n
  <2>1. pos' = IF pos + n < Len(source) THEN pos + n ELSE Len(source)
    BY DEF AdvanceN
  <2> QED BY <1>4, <2>1
<1> QED BY <1>2, <1>3, <1>5 DEF Advances

\* An operator is consumed: it is a word that matches.
LEMMA OperatorAdvances ==
  ASSUME LexInv, HandleOperator(Pattern)
  PROVE  Advances
<1> DEFINE w == FirstOperator(source, Here)
<1>1. source \in Seq(Char) /\ pos \in Nat /\ Here \in Nat \ {0} /\ Here = pos + 1 /\ Len(source) \in Nat
  BY DEF LexInv, CursorOK, Here
<1>2. w \in Seq(Char) /\ Word(source, Here, w) > 0
  <2>1. FirstPattern(source, Here) = "operator"
    BY DEF HandleOperator, Lexing, Pattern
  <2> QED BY <2>1, OperatorFound, OperatorsWords
<1>3. Push("OPERATOR", Len(w)) /\ AdvanceN(Len(w))
  BY DEF HandleOperator
<1> HIDE DEF w
<1>4. Word(source, Here, w) = Len(w) /\ Len(w) \in Nat \ {0}
  BY <1>2 DEF Word
<1>5. pos + Len(w) <= Len(source)
  <2>1. Fits(source, Here, Word(source, Here, w))
    BY <1>1, <1>2, WordFits
  <2>2. Here + Len(w) <= Len(source) + 1
    BY <1>4, <2>1 DEF Fits
  <2> QED BY <1>1, <1>4, <2>2
<1> QED BY <1>3, <1>4, <1>5, PushAdvances

\* The value and the suffixes of a binary, octal or hexadecimal literal,
\* consumed one by one, are the lexeme.
LEMMA RadixAdvances ==
  ASSUME LexInv, NEW p, HandleRadix(p)
  PROVE  Advances
<1> DEFINE v       == Lexeme(Matched(p))
           last    == v[Len(v)]
           isByte  == p # "hex" /\ last = "b"
           precise == last = "@"
           value   == IF isByte \/ precise THEN Len(v) - 1 ELSE Len(v)
           n       == value + (IF isByte THEN 1 ELSE 0) + (IF precise THEN 1 ELSE 0)
           kind    == IF isByte THEN "BYTE" ELSE IF precise THEN "PNUMBER" ELSE "NUMBER"
<1>1. p \in PatternNames
  BY DEF HandleRadix, Lexing, PatternNames
<1>2. Matched(p) \in Nat /\ pos + Matched(p) <= Len(source) /\ Len(v) = Matched(p)
  BY <1>1, MatchedNat
<1>3. Push(kind, Matched(p)) /\ AdvanceN(n)
  BY DEF HandleRadix
<1>4. n = Matched(p)
  <2>1. ~(isByte /\ precise)
    OBVIOUS
  <2> HIDE DEF v, isByte, precise
  <2>2. CASE isByte
    BY <1>2, <2>1, <2>2
  <2>3. CASE ~isByte /\ precise
    BY <1>2, <2>3
  <2>4. CASE ~isByte /\ ~precise
    BY <1>2, <2>4
  <2> QED BY <2>2, <2>3, <2>4
<1> HIDE DEF n, kind
<1> QED BY <1>2, <1>3, <1>4, PushAdvances

\* Of a byte literal without underscores all characters are consumed.
LEMMA ByteAdvances ==
  ASSUME LexInv, PlainBytes, HandleByte(Pattern)
  PROVE  Advances
<1> DEFINE p       == "byte"
           v       == Lexeme(Matched(p))
           precise == v[Len(v)] = "@"
           n       == Cardinality({k \in DOMAIN v : v[k] # "_"})
           kind    == IF precise THEN "PNUMBER" ELSE "BYTE"
<1>1. Pattern = p /\ p \in PatternNames
  BY DEF HandleByte, Lexing, PatternNames
<1>2. /\ Matched(p) \in Nat /\ pos + Matched(p) <= Len(source)
      /\ Len(v) = Matched(p) /\ DOMAIN v = 1 .. Len(v)
  BY <1>1, MatchedNat
<1>3. IF phase' = "exited" THEN UNCHANGED <<tokens, pos, line, column>>
      ELSE Push(kind, Matched(p)) /\ AdvanceN(n)
  BY <1>1 DEF HandleByte
<1>4. source \in Seq(Char) /\ pos \in Nat /\ Len(source) \in Nat /\ pos < Len(source)
  <2>1. pos < Len(source)
    BY <1>1 DEF Pattern
  <2> QED BY <2>1 DEF LexInv, CursorOK
<1>5. \A k \in pos + 1 .. pos + Matched(p) : source[k] # "_"
  <2> DEFINE input == [source |-> source, options |-> options]
  <2>1. input \in Inputs /\ input.source = source
    BY DEF LexInv
  <2> HIDE DEF input
  <2>2. pos + 1 \in 1 .. Len(source)
    BY <1>4
  <2>3. \A k \in pos + 1 .. pos + 1 + Matched(p) - 1 : source[k] # "_"
    BY <2>1, <2>2 DEF PlainBytes, Matched, Here
  <2>4. pos + 1 + Matched(p) - 1 = pos + Matched(p)
    BY <1>2, <1>4
  <2> QED BY <2>3, <2>4
<1>6. \A k \in 1 .. Len(v) : v[k] # "_"
  <2> SUFFICES ASSUME NEW k \in 1 .. Len(v) PROVE v[k] # "_"
    OBVIOUS
  <2> DEFINE m == Matched(p)
  <2>1. m \in Nat /\ pos + m <= Len(source) /\ k \in 1 .. m
    BY <1>2
  <2>2. v = SubSeq(source, pos + 1, pos + m)
    BY DEF Lexeme, Here
  <2>3. \A j \in pos + 1 .. pos + m : source[j] # "_"
    BY <1>5
  <2> HIDE DEF v, m
  <2>4. v[k] = source[pos + 1 + k - 1] /\ pos + 1 + k - 1 \in pos + 1 .. pos + m
    BY <1>4, <2>1, <2>2
  <2> QED BY <2>3, <2>4
<1>7. n = Matched(p)
  <2>1. {k \in DOMAIN v : v[k] # "_"} = 1 .. Len(v)
    BY <1>2, <1>6
  <2>2. Cardinality(1 .. Matched(p)) = Matched(p)
    <3> DEFINE m == Matched(p)
    <3>1. m \in Nat
      BY <1>2
    <3> HIDE DEF m
    <3>2. Cardinality(1 .. m) = IF 1 > m THEN 0 ELSE m - 1 + 1
      BY <3>1, FS_Interval
    <3>3. Cardinality(1 .. m) = m
      BY <3>1, <3>2
    <3> QED BY <3>3 DEF m
  <2> QED BY <1>2, <2>1, <2>2
<1> HIDE DEF n, kind, p, v
<1>8. CASE phase' = "exited"
  BY <1>8 DEF Advances
<1>9. CASE phase' # "exited"
  BY <1>2, <1>3, <1>7, <1>9, PushAdvances
<1> QED BY <1>8, <1>9

\* The other handlers make no token, end, or consume what they matched.
LEMMA MatchAdvances ==
  ASSUME LexInv, NEW p, Handle(p), ~HandleOperator(p), ~HandleRadix(p), ~HandleByte(p)
  PROVE  Advances
<1>1. \/ tokens' = tokens
      \/ phase' # "lexing"
      \/ /\ p \in PatternNames
         /\ AdvanceN(Matched(p)) /\ \E kind : Push(kind, Matched(p))
  <2>1. CASE HandlePlain(p)
    BY <2>1 DEF HandlePlain, Lexing, PatternNames
  <2>2. CASE HandleInt(p)
    BY <2>2 DEF HandleInt, Lexing, PatternNames
  <2>3. CASE HandleNumber(p)
    BY <2>3 DEF HandleNumber, Lexing, PatternNames
  <2>4. CASE HandleCharacter(p)
    BY <2>4 DEF HandleCharacter, Lexing, PatternNames
  <2>5. CASE Skip(p) \/ SkipMultiline(p) \/ SkipUnmatched(p)
    BY <2>5 DEF Skip, SkipMultiline, SkipUnmatched
  <2>6. CASE Finish(p)
    BY <2>6 DEF Finish
  <2> QED BY <2>1, <2>2, <2>3, <2>4, <2>5, <2>6 DEF Handle
<1>2. CASE tokens' = tokens \/ phase' # "lexing"
  BY <1>2 DEF Advances
<1>3. CASE p \in PatternNames /\ AdvanceN(Matched(p)) /\ \E kind : Push(kind, Matched(p))
  BY <1>3, MatchedNat, PushAdvances
<1> QED BY <1>1, <1>2, <1>3

\* Every step leaves the cursor where the lexeme of its token ends.
LEMMA NextAdvances == PlainBytes /\ LexInv /\ [Next]_vars => [Advances]_vars
<1> SUFFICES ASSUME PlainBytes, LexInv, Handle(Pattern) PROVE Advances
  BY DEF Next
<1> QED BY OperatorAdvances, RadixAdvances, ByteAdvances, MatchAdvances

-----------------------------------------------------------------------------
(* The theorems.                                                           *)

\* A text is lexed from its first character, in line 1 and column 1.
LEMMA InitLexInv == Init => LexInv
<1> SUFFICES ASSUME Init PROVE LexInv
  OBVIOUS
<1>1. PICK input \in Inputs : source = input.source /\ options = input.options
  BY DEF Init
<1>2. /\ source \in Seq(Char)
      /\ [source |-> source, options |-> options] = input
  BY <1>1, InputAssumption
<1>3. LineAfter(source, 0) = 1 /\ ColumnAfter(source, 0) = 1
  <2>1. {k \in 1 .. 0 : source[k] = "\n"} = {}
    OBVIOUS
  <2> QED BY <2>1, FS_EmptySet DEF LineAfter, ColumnAfter
<1>4. CursorOK
  BY <1>2, <1>3 DEF Init, CursorOK
<1>5. tokens = << >> /\ errors = {} /\ phase = "lexing"
  BY DEF Init
<1>6. tokens \in Seq(TokenType) /\ TokenPositions
  BY <1>5 DEF TokenPositions
<1> QED BY <1>1, <1>2, <1>4, <1>5, <1>6 DEF LexInv

\* Every step of the lexer keeps the invariant.
LEMMA NextLexInv == LexInv /\ [Next]_vars => LexInv'
<1> SUFFICES ASSUME LexInv, [Next]_vars PROVE LexInv'
  OBVIOUS
<1>1. CASE UNCHANGED vars
  BY <1>1, StayOK DEF vars, LexInv
<1>2. CASE Handle(Pattern)
  BY <1>2, HandlePlainOK, HandleOperatorOK, HandleRadixOK, HandleByteOK, HandleIntOK,
     HandleNumberOK, HandleCharacterOK, SkipOK, FinishOK DEF Handle
<1> QED BY <1>1, <1>2 DEF Next

\* The invariant implies the type invariant: a place in the text has a line
\* and a column from one on.
LEMMA LexInvTypeOK == LexInv => TypeOK
BY AfterPositive DEF LexInv, CursorOK, TypeOK

\* For every source text and setting of the options: the cursor stays in the
\* text and the tokens are well formed.
THEOREM LexerTypes == Spec => []TypeOK
BY InitLexInv, NextLexInv, LexInvTypeOK, PTL DEF Spec

\* For every source text and setting of the options: each token, the EOF
\* token too, carries the line and column of the first character of its
\* lexeme, counted from the text alone.
THEOREM PositionsOfTokens == Spec => []TokenPositions
<1>1. LexInv => TokenPositions
  BY DEF LexInv
<1> QED BY <1>1, InitLexInv, NextLexInv, PTL DEF Spec

\* For every source text and setting of the options: an operator token is the
\* longest operator of the table that matches where it begins.  The table is
\* tried in order, so this rests on no entry being the beginning of a later one.
THEOREM OperatorsAreLongest == Spec => []LongestOperator
<1>1. Init => LongestOperator
  BY DEF Init, LongestOperator
<1> QED BY <1>1, InitLexInv, NextLexInv, NextLongest, PTL DEF Spec

\* For every setting of the options and every source text that has no
\* underscore in a byte literal: the text after a token goes on where its
\* lexeme ended, so no character is lexed twice and none is lost.  What any
\* pattern matches ends in the text, so advanceN never stops short of it.
THEOREM CursorFollowsLexemes == PlainBytes => (Spec => AdvanceByLexeme)
<1> SUFFICES ASSUME PlainBytes PROVE Spec => AdvanceByLexeme
  OBVIOUS
<1>1. LexInv /\ [Next]_vars => [Advances]_vars
  BY NextAdvances
<1>2. Spec => [][Advances]_vars
  BY <1>1, InitLexInv, NextLexInv, PTL DEF Spec
<1> QED BY <1>2 DEF AdvanceByLexeme, Advances

=============================================================================
