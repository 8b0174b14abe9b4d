--------------------------------- MODULE Lexer ---------------------------------
(***************************************************************************)
(* The lexer (include/parser/header.l).  Its rules differ in the first     *)
(* byte they match, but for the keywords, which are identifiers that are   *)
(* spelled just so; each matches as far as it can, and a byte no rule      *)
(* matches is echoed and forgotten.                                        *)
(*                                                                         *)
(* A text is a sequence of bytes, a token a pair <<kind, lexeme>>.  The    *)
(* lexeme of an identifier is the name spelled so, or "?"; of a number and *)
(* a character its value, or Malformed where strtoull stops inside it; of  *)
(* a string its bytes; of a mark 0.                                        *)
(***************************************************************************)
EXTENDS Integers, Sequences, TLC

CONSTANTS
  Spelling,    \* the bytes of every name and keyword
  CharMax,     \* the largest char32_t
  Malformed    \* the value of digits that are no number

SE == INSTANCE SequencesExt

RECURSIVE StringEnd(_, _), TokensFrom(_, _)

Digit    == 48..57
HexDigit == Digit \cup (65..70) \cup (97..102)
Alpha    == (65..90) \cup (97..122) \cup {36, 95}
Ident    == Alpha \cup Digit \cup {58}
Blank    == {32, 9, 10}
NewLine  == 10

Marks == 40 :> "OPEN_PAREN" @@ 41 :> "CLOSE_PAREN" @@ 91 :> "OPEN_SQUARE" @@
         93 :> "CLOSE_SQUARE" @@ 123 :> "OPEN_BLOCK" @@ 125 :> "CLOSE_BLOCK" @@
         44 :> "COMMA" @@ 59 :> "SEMICOLON"

-----------------------------------------------------------------------------
(***************************************************************************)
(* How far a rule matches: the place behind its match, 0 for none.         *)
(***************************************************************************)
At(text, i) == IF i \in DOMAIN text THEN text[i] ELSE 0

EndOf(text, i, S) == CHOOSE j \in i..(Len(text) + 1) :
                       At(text, j) \notin S /\ \A k \in i..(j - 1) : text[k] \in S

UnicodeEnd(text, i) ==
  IF At(text, i + 1) = 117 /\ At(text, i + 2) \in HexDigit THEN EndOf(text, i + 2, HexDigit) ELSE 0
LitCharEnd(text, i) ==
  IF At(text, i + 1) \notin {0, NewLine} /\ At(text, i + 2) = 39 THEN i + 3 ELSE 0

\* A backslash takes the byte behind it along, unless that ends the line.
StringEnd(text, j) ==
  CASE At(text, j) = 0  -> 0
    [] At(text, j) = 34 -> j + 1
    [] At(text, j) = 92 -> IF At(text, j + 1) \in {0, NewLine} THEN 0 ELSE StringEnd(text, j + 2)
    [] OTHER            -> StringEnd(text, j + 1)

MatchEnd(text, i) ==
  LET c == text[i] IN
  CASE c \in Digit         -> EndOf(text, i, Digit)
    [] c \in Alpha         -> EndOf(text, i, Ident)
    [] c \in Blank         -> EndOf(text, i, Blank)
    [] c \in DOMAIN Marks  -> i + 1
    [] c = 92              -> UnicodeEnd(text, i)
    [] c = 39              -> LitCharEnd(text, i)
    [] c = 34              -> StringEnd(text, i + 1)
    [] c = 45              -> IF At(text, i + 1) = 62 THEN i + 2 ELSE 0
    [] OTHER               -> 0

-----------------------------------------------------------------------------
(***************************************************************************)
(* The token of a match.                                                   *)
(***************************************************************************)
DigitValue(c) == IF c \in Digit THEN c - 48 ELSE IF c > 96 THEN c - 87 ELSE c - 55
Valued(digits, base) == SE!FoldLeft(LAMBDA n, c : n * base + DigitValue(c), 0, digits)

\* strtoull with base 0 and, for what follows \u, with base 16.
NumberOf(digits) ==
  IF digits[1] # 48 THEN Valued(digits, 10)
  ELSE IF \E i \in DOMAIN digits : digits[i] \in {56, 57} THEN Malformed
  ELSE Valued(digits, 8)

\* The char of a string is signed.
LitChar(c) == IF c < 128 THEN c ELSE CharMax - 255 + c

WordOf(s) == LET named == {n \in DOMAIN Spelling : Spelling[n] = s}
             IN  IF named = {} THEN "?" ELSE CHOOSE n \in named : TRUE

WordToken(word) ==
  CASE word = "value"            -> <<"KW_VALUE", 0>>
    [] word = "slots"            -> <<"KW_SLOTS", 0>>
    [] word \in {"true", "false"} -> <<"BOOLEAN", word = "true">>
    [] OTHER                     -> <<"IDENTIFIER", word>>

TokenOf(s) ==
  LET c == s[1] IN
  CASE c \in Digit        -> <<"NUMBER", NumberOf(s)>>
    [] c \in Alpha        -> WordToken(WordOf(s))
    [] c \in DOMAIN Marks -> <<Marks[c], 0>>
    [] c = 92             -> <<"UNICODE", Valued(SubSeq(s, 3, Len(s)), 16)>>
    [] c = 39             -> <<"LITCHAR", LitChar(s[2])>>
    [] c = 34             -> <<"STRING", SubSeq(s, 2, Len(s) - 1)>>
    [] c = 45             -> <<"ARROW", 0>>

(***************************************************************************)
(* yylex until it returns null.  The scanner is given a C string, which    *)
(* ends at the first byte of zero.                                         *)
(***************************************************************************)
TokensFrom(text, i) ==
  IF At(text, i) = 0 THEN <<>>
  ELSE LET end == MatchEnd(text, i) IN
       IF end = 0 THEN TokensFrom(text, i + 1)
       ELSE (IF text[i] \in Blank THEN <<>> ELSE <<TokenOf(SubSeq(text, i, end - 1))>>)
            \o TokensFrom(text, end)

Tokens(text) == TokensFrom(text, 1)

=============================================================================
