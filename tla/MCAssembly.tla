------------------------------ MODULE MCAssembly ------------------------------
(***************************************************************************)
(* Programs with every class of value and operation, the texts that stand  *)
(* for them, and those texts with a token or a byte lost, changed or       *)
(* doubled; and every short command line.                                  *)
(***************************************************************************)
EXTENDS Assembly, DeepValue, TLC

CONSTANT made

RECURSIVE TextFor(_), OperationText(_)

MCDescribe(v) == <<63>>
MCParsed(s)   == Null

\* Every word that may come to stand where a name is asked for, two letters each; the
\* keywords and two identifiers that begin with one are spelled as they are.
Vocabulary == <<"f", "g", "main", "x", "else", "block">> \o ValueTypes \o OperationTypes \o
         <<"divisionByZero", "typeMismatch", "notFound", "alreadyExisting",
           "insufficientArguments", "outOfBounds", "syntaxError", "unexpectedResult",
           "notImplemented", "?">>
KeywordSpelling ==
  "value" :> <<118, 97, 108, 117, 101>> @@ "slots" :> <<115, 108, 111, 116, 115>> @@
  "true" :> <<116, 114, 117, 101>> @@ "false" :> <<102, 97, 108, 115, 101>> @@
  "values" :> <<118, 97, 108, 117, 101, 115>> @@ "true:1" :> <<116, 114, 117, 101, 58, 49>>
MCSpelling == KeywordSpelling @@
  [w \in {Vocabulary[i] : i \in DOMAIN Vocabulary} |->
     LET n == CHOOSE i \in DOMAIN Vocabulary : Vocabulary[i] = w IN <<97 + (n % 26), 97 + (n \div 26)>>]

RECURSIVE Digits(_, _)
Digits(n, base) == LET d == n % base
                       c == IF d < 10 THEN 48 + d ELSE 87 + d
                   IN  IF n < base THEN <<c>> ELSE Digits(n \div base, base) \o <<c>>

\* The bytes of a token and of a text.
Printed(t) ==
  CASE t[1] = "IDENTIFIER" -> MCSpelling[t[2]]
    [] t[1] = "NUMBER"   -> IF t[2] = Malformed THEN <<48, 56>> ELSE Digits(t[2], 10)
    [] t[1] = "UNICODE"  -> <<92, 117>> \o Digits(t[2], 16)
    [] t[1] = "LITCHAR"  -> <<39, t[2], 39>>
    [] t[1] = "STRING"   -> <<34>> \o t[2] \o <<34>>
    [] t[1] = "BOOLEAN"  -> MCSpelling[IF t[2] THEN "true" ELSE "false"]
    [] t[1] = "KW_VALUE" -> MCSpelling["value"]
    [] t[1] = "KW_SLOTS" -> MCSpelling["slots"]
    [] t[1] = "ARROW"    -> <<45, 62>>
    [] OTHER -> <<CHOOSE c \in DOMAIN Lex!Marks : Lex!Marks[c] = t[1]>>

PrintedText(t) == Concat([i \in DOMAIN t |-> Printed(t[i]) \o <<32>>])

Word(w)  == <<"IDENTIFIER", w>>
Mark(k)  == <<k, 0>>
ErrorToken(code) == CHOOSE w \in DOMAIN ErrorWord : ErrorWord[w] = code
List(open, items, close) == <<Mark(open)>> \o Each(LAMBDA t : t, items) \o <<Mark(close)>>

TextFor(v) ==
  CASE v[1] = "atom"      -> <<Word("atom"), Word(v[2])>>
    [] v[1] = "boolean"   -> <<Word("boolean"), <<"BOOLEAN", v[2]>>>>
    [] v[1] = "character" -> <<Word("character"), <<IF v[2] < 128 THEN "LITCHAR" ELSE "UNICODE", v[2]>>>>
    [] v[1] = "empty"     -> <<Word("empty")>>
    [] v[1] = "error"     -> <<Word("error"), Word(ErrorToken(v[2]))>>
    [] v[1] = "number"    -> <<Word("number"), <<"NUMBER", v[2]>>>>
    [] v[1] = "string"    -> <<Word("string"), <<"STRING", ToUtf8(v[2])>>>>
    [] v[1] = "type"      -> <<Word("type"), Word(v[2])>>
    [] v[1] = "tuple" -> <<Word("tuple")>> \o
         List("OPEN_PAREN", [i \in DOMAIN v[2] |-> TextFor(v[2][i]) \o <<Mark("COMMA")>>], "CLOSE_PAREN")
    [] v[1] = "set" -> LET s == SE!SetToSeq(v[2]) IN <<Word("set")>> \o
         List("OPEN_SQUARE", [i \in DOMAIN s |-> TextFor(s[i])], "CLOSE_SQUARE")
    [] v[1] = "table" -> LET s == SE!SetToSeq(DOMAIN v[2]) IN <<Word("table")>> \o
         List("OPEN_SQUARE", [i \in DOMAIN s |-> TextFor(s[i]) \o <<Mark("ARROW")>> \o TextFor(v[2][s[i]])],
              "CLOSE_SQUARE")
    [] v[1] = "operation" /\ v[2][1] = "block" -> OperationText(v[2])
    [] v[1] = "operation" /\ v[2][1] = "bind" ->
         <<Word("bind")>> \o TextFor(v[2][2]) \o TextFor(<<"operation", v[2][3]>>)
    [] OTHER -> <<Word("operation")>> \o OperationText(v[2])

NamedOperations == {"load", "store", "clear", "loadslot", "storeslot"}

OperationText(o) ==
  CASE o[1] \in NamedOperations -> <<Word(o[1]), Word(o[2])>>
    [] o[1] = "loadnative" -> <<Word(o[1]), <<"STRING", o[2]>>>>
    [] o[1] = "push"   -> <<Word("push")>> \o TextFor(o[2])
    [] o[1] = "iftrue" -> <<Word("iftrue")>> \o OperationText(o[2])
    [] o[1] = "call"   -> <<Word("call"), Word(o[2])>> \o Tail(TextFor(Tuple(o[3])))
    [] o[1] = "select" -> <<Word("select")>> \o TextFor(<<"table", o[2]>>) \o
         IF o[3] = Null THEN <<>> ELSE <<Word("else")>> \o TextFor(o[3])
    [] o[1] = "block"  -> <<Word("block")>> \o
         (IF o[3] = <<>> THEN <<>> ELSE <<Mark("KW_SLOTS")>> \o [i \in DOMAIN o[3] |-> Word(o[3][i])]) \o
         List("OPEN_BLOCK", [i \in DOMAIN o[4] |-> OperationText(o[4][i]) \o <<Mark("SEMICOLON")>>],
              "CLOSE_BLOCK")
    [] OTHER -> <<Word(o[1])>>

NamedText(n, v) == <<Mark("KW_VALUE"), Word(n)>> \o TextFor(v)

Num(n)  == <<"number", n>>
Op(o)   == <<"operation", o>>
Block(names, body) == <<"block", NewBlock, names, body>>

Scalars == Tuple(<<Num(300), <<"atom", "g">>, Boolean(TRUE), Boolean(FALSE), <<"empty">>,
                   <<"string", <<104, 39, 955>>>>, <<"character", 955>>, Error("NOT_FOUND"),
                   <<"type", "set">>>>)

Routine == Op(Block(<<"x", "x">>,
  << <<"push", <<"string", <<>>>>>>, <<"iftrue", <<"break">>>>, <<"call", "g", <<Num(1)>>>>,
     <<"select", Num(1) :> <<"empty">> @@ Boolean(TRUE) :> Op(<<"dup">>), Op(<<"halt">>)>>,
     <<"loadnative", <<46>>>> >>))

Nested == Op(<<"bind", <<"set", {Num(1), Num(2)}>>, <<"iftrue", Block(<<>>, <<>>)>>>>)

Bound == Op(<<"bind", Num(18), <<"loadslot", "f">>>>)

Chooser == Op(<<"select", Num(18) :> Num(35), Null>>)

Means(names, values) == [n \in names |-> values[n]]

Programs ==
  {"f" :> Scalars @@ "main" :> Bound, "f" :> Routine, "g" :> Nested @@ "x" :> Num(7),
   "main" :> Chooser @@ "f" :> Tuple(<<Bound>>), "main" :> Scalars @@ "g" :> Num(0),
   "f" :> Op(<<"store", "x">>) @@ "g" :> Op(<<"clear", "f">>) @@ "main" :> Op(<<"storeslot", "x">>),
   "f" :> Op(<<"load", "f">>) @@ "g" :> <<"table", <<>>>>}

TextOf(p) == LET ns == SE!SetToSeq(DOMAIN p)
             IN  SE!FlattenSeq([i \in DOMAIN ns |-> NamedText(ns[i], p[ns[i]])])

\* The assembler on some words, with some texts on disk.
RunOn(argv, texts, whole, means, lost) ==
  [argv |-> argv, disk |-> [f \in DOMAIN texts |-> PrintedText(texts[f])],
   whole |-> whole, means |-> means, maxLost |-> lost, changes |-> {}]

WholeInputs == {RunOn(<<"f1">>, "f1" :> TextOf(p), TRUE, p, 300) : p \in Programs}

\* The same name twice, in two files: the first one stays, in the order of the words.
FirstFile  == NamedText("f", Num(1)) \o NamedText("values", <<"character", 65>>)
SecondFile == NamedText("f", Num(2)) \o NamedText("true:1", Num(3))
OnDisk     == "f1" :> FirstFile @@ "f2" :> SecondFile @@ "-o" :> NamedText("g", Num(4))
TwoFiles ==
  LET both == "values" :> <<"character", 65>> @@ "true:1" :> Num(3) IN
  {RunOn(<<"f1", "-o", "f3", "f2">>, OnDisk, TRUE, both @@ "f" :> Num(1), 300),
   RunOn(<<"--output", "-o", "f2", "f3", "f1">>, OnDisk, TRUE, both @@ "f" :> Num(2), 0),
   RunOn(<<"-o", "--", "--", "-o">>, OnDisk, TRUE, "g" :> Num(4), 0)}

\* Every short command line, of the assembler and of programs that declare other options and
\* arguments, with spellings in common, and handlers that go on.
ShortLines ==
  SE!BoundedSeq({"-o", "--output", "--", "", "f1"}, 3) \cup
  {<<"-o", "-o", "--output", "f1", "-o", "f1">>, <<"-o", "f1", "--output", "", "f1">>,
   <<"-o", "--", "--", "-o">>, <<"--", "f1", "f1", "f1">>}
SpoiltLines ==
  {RunOn(argv, "f1" :> NamedText("f", Num(1)), FALSE, <<>>, 0) : argv \in ShortLines}

Damages(t) ==
  {SubSeq(t, 1, n) : n \in 0..(Len(t) - 1)} \cup
  {SubSeq(t, 1, i - 1) \o SubSeq(t, i + 1, Len(t)) : i \in DOMAIN t} \cup
  {SubSeq(t, 1, i) \o SubSeq(t, i, Len(t)) : i \in DOMAIN t} \cup
  {[t EXCEPT ![i] = k] : i \in DOMAIN t,
      k \in {Word("number"), Word("x"), <<"NUMBER", 2>>, <<"NUMBER", 70000>>,
             <<"NUMBER", Malformed>>, <<"STRING", <<>>>>, Mark("CLOSE_BLOCK")}}

DamagedInputs ==
  {RunOn(<<"f1">>, "f1" :> t, FALSE, <<>>, 0) : t \in UNION {Damages(TextOf(p)) : p \in Programs}}

\* A byte of a text lost or changed.
Small == PrintedText(NamedText("values",
           Tuple(<<<<"string", <<104, 955, 92, 34>>>>, Num(17), Op(Block(<<"x">>, <<<<"dup">>>>))>>)))
SpoiltInputs ==
  {[RunOn(<<"f1">>, <<>>, FALSE, <<>>, 0) EXCEPT !.disk = "f1" :> t] : t \in
     {SubSeq(Small, 1, i - 1) \o SubSeq(Small, i + 1, Len(Small)) : i \in DOMAIN Small} \cup
     {[Small EXCEPT ![i] = c] : i \in DOMAIN Small, c \in {0, 10, 34, 39, 45, 46, 58, 92, 117, 200}}}

\* A byte of an image changed, one after the other.
SpoiltImage ==
  LET p == "f" :> <<"string", <<955, 104>>>>
  IN  {[RunOn(<<"f1">>, "f1" :> TextOf(p), FALSE, <<>>, 0) EXCEPT !.changes = {104, 200}]}

MCInputs == WholeInputs \cup TwoFiles \cup SpoiltLines \cup DamagedInputs \cup SpoiltInputs
            \cup SpoiltImage

MCSpellings    == {{"-o", "--output"}, {"-o", "-a"}, {"--"}}
MCCommandLines == ShortLines \cup {i.argv : i \in TwoFiles}

AssemblerOnly == {{"-o", "--output"}}
OneFile       == {<<"f1">>}

\* A library whose path holds the marker of names.
QuotedPath == LET p == "main" :> Op(<<"loadnative", <<39>>>>) @@ "f" :> Num(1)
              IN  {RunOn(<<"f1">>, "f1" :> TextOf(p), TRUE, p, 0)}

=============================================================================
