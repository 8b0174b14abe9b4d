----------------------------- MODULE Description -----------------------------
(***************************************************************************)
(* describe: the text of a value or of an operation, which a typecast to   *)
(* string returns, and the IndentingStream that most of it is written      *)
(* through (src/stream/indenting_stream.cpp).                              *)
(*                                                                         *)
(* A text is a sequence of characters, as in a string value.  How a word   *)
(* or a name is spelled is a constant; the layout is spelled out.          *)
(***************************************************************************)
EXTENDS Integers, Sequences, FiniteSets

LOCAL SE == INSTANCE SequencesExt

CONSTANTS
  Spelled(_),   \* the characters of a word or a name
  Buffer        \* the size of the buffer IndentingStream::append formats into

Newline == 10
Space   == 32
Opening == 123    \* the braces of a block
Closing == 125
Comma   == <<44, Space>>
Arrow   == <<Space, 45, 62, Space>>

(***************************************************************************)
(* IndentingStream: what append adds to the text at a depth of             *)
(* indentation.  vsnprintf drops what does not fit into the buffer.        *)
(***************************************************************************)
Fitting(text) == SubSeq(text, 1, IF Len(text) < Buffer THEN Len(text) ELSE Buffer - 1)

Appended(depth, text) ==
  SE!FlattenSeq([i \in DOMAIN Fitting(text) |->
    IF text[i] = Newline THEN <<Newline>> \o [j \in 1..depth |-> Space] ELSE <<text[i]>>])

Written(texts) == SE!FlattenSeq([i \in DOMAIN texts |-> Appended(0, texts[i])])

Quoted(word, name) == Written(<< Spelled(word) \o <<Space, 34>> \o Spelled(name) \o <<34>> >>)

RECURSIVE Decimal(_), Hexadecimal(_), DescribeValue(_), DescribeOperation(_)

Decimal(n)     == IF n < 10 THEN <<48 + n>> ELSE Decimal(n \div 10) \o Decimal(n % 10)
Hexadecimal(n) == IF n < 10 THEN <<48 + n>>
                  ELSE IF n < 16 THEN <<87 + n>> ELSE Hexadecimal(n \div 16) \o Hexadecimal(n % 16)

(***************************************************************************)
(* The values.  The items of a set and of a table come in the order of     *)
(* their hash table: here, in some order.                                  *)
(***************************************************************************)
DescribeCharacter(c) == Written(<< (IF c = 0 THEN <<>> ELSE <<48, 120>>) \o Hexadecimal(c) >>)
DescribeNumber(n)    == Written(<< Decimal(n) >>)
DescribeBoolean(b)   == IF b THEN Spelled("true") ELSE Spelled("false")
DescribeError(code)  == Spelled(code)
DescribeType(type)   == Spelled(type)
DescribeAtom(a)      == Written(<< Spelled("atom") \o <<40>> \o Spelled(a) \o <<41>> >>)
DescribeEmpty        == Spelled("empty")

Separated(items) == [i \in DOMAIN items |-> IF i = 1 THEN items[i] ELSE Comma \o items[i]]

DescribeTuple(s) ==
  Written(<< <<40>> >> \o Separated([i \in DOMAIN s |-> DescribeValue(s[i])]) \o << <<41>> >>)

DescribeSet(S) ==
  LET s == SE!SetToSeq(S)
  IN  Written(<< <<91>> >> \o Separated([i \in DOMAIN s |-> DescribeValue(s[i])]) \o << <<93>> >>)

DescribeTable(f) ==
  LET ks == SE!SetToSeq(DOMAIN f)
      \* Value_Table::valueAt: a null comes out as an empty value.
      Of(k) == IF f[k] = <<"null">> THEN DescribeEmpty ELSE DescribeValue(f[k])
  IN  Written(<< <<91>> >>
              \o Separated([i \in DOMAIN ks |-> DescribeValue(ks[i]) \o Arrow \o Of(ks[i])])
              \o << <<93>> >>)

DescribeValue(v) ==
  CASE v[1] = "character" -> DescribeCharacter(v[2])
    [] v[1] = "number"    -> DescribeNumber(v[2])
    [] v[1] = "boolean"   -> DescribeBoolean(v[2])
    [] v[1] = "error"     -> DescribeError(v[2])
    [] v[1] = "type"      -> DescribeType(v[2])
    [] v[1] = "atom"      -> DescribeAtom(v[2])
    [] v[1] = "empty"     -> DescribeEmpty
    [] v[1] = "string"    -> v[2]
    [] v[1] = "tuple"     -> DescribeTuple(v[2])
    [] v[1] = "set"       -> DescribeSet(v[2])
    [] v[1] = "table"     -> DescribeTable(v[2])
    [] v[1] = "operation" -> DescribeOperation(v[2])

(***************************************************************************)
(* The operations.  One with no describe of its own is its name.           *)
(***************************************************************************)
DescribePush(v)        == Written(<< Spelled("push") \o <<Space>> \o DescribeValue(v) >>)
DescribeLoad(k)        == Quoted("load", k)
DescribeStore(k)       == Quoted("store", k)
DescribeClear(k)       == Quoted("clear", k)
DescribeLoadslot(k)    == Quoted("loadslot", k)
DescribeStoreslot(k)   == Quoted("storeslot", k)
DescribeLoadnative(k)  == Quoted("loadnative", k)
DescribeNative(name)   == Written(<< Spelled("native") \o <<Space>> \o Spelled(name) >>)
DescribeIfTrue(op)     == Written(<< Spelled("iftrue") \o <<Space>> \o DescribeOperation(op) >>)
DescribeCall(name, args) ==
  Written(<< Spelled("call") \o <<Space>> \o Spelled(name) \o <<Space>> \o DescribeTuple(args) >>)
DescribeBind(v, op) ==
  Written(<< Spelled("bind") \o <<40>> \o DescribeValue(v) \o Comma \o DescribeOperation(op)
             \o <<41>> >>)
DescribeSelect(cases, orElse) ==
  Written(<< Spelled("select") \o <<Space>> \o DescribeTable(cases) >> \o
          (IF orElse = <<"null">> THEN <<>>
           ELSE << <<Space>> \o Spelled("else") \o <<Space>> \o DescribeValue(orElse) >>))

SlotsOf(names) ==
  IF names = <<>> THEN <<>>
  ELSE Spelled("slots") \o <<Space>>
       \o SE!FlattenSeq(Separated([i \in DOMAIN names |-> Spelled(names[i])])) \o <<Space>>

\* Mutant: the closing brace comes before the stream is dedented.
MutantDescribeBlock(names, body) ==
  Written(<< Spelled("block") \o <<Space>> >>) \o SlotsOf(names) \o <<Opening>>
  \o SE!FlattenSeq([i \in DOMAIN body |->
       Appended(1, <<Newline>> \o DescribeOperation(body[i]))])
  \o Appended(1, <<Newline, Closing>>)

\* Each operation on a line of its own, one deeper; the lines of a block inside it
\* were indented by its own describe and are indented once more.
DescribeBlock(names, body) ==
  Written(<< Spelled("block") \o <<Space>> >>) \o SlotsOf(names) \o <<Opening>>
  \o SE!FlattenSeq([i \in DOMAIN body |->
       Appended(1, <<Newline>> \o DescribeOperation(body[i]))])
  \o Appended(0, <<Newline, Closing>>)

DescribeOperation(o) ==
  CASE o[1] = "push"       -> DescribePush(o[2])
    [] o[1] = "load"       -> DescribeLoad(o[2])
    [] o[1] = "store"      -> DescribeStore(o[2])
    [] o[1] = "clear"      -> DescribeClear(o[2])
    [] o[1] = "loadslot"   -> DescribeLoadslot(o[2])
    [] o[1] = "storeslot"  -> DescribeStoreslot(o[2])
    [] o[1] = "loadnative" -> DescribeLoadnative(o[2])
    [] o[1] = "native"     -> DescribeNative(o[2])
    [] o[1] = "iftrue"     -> DescribeIfTrue(o[2])
    [] o[1] = "call"       -> DescribeCall(o[2], o[3])
    [] o[1] = "bind"       -> DescribeBind(o[2], o[3])
    [] o[1] = "select"     -> DescribeSelect(o[2], o[3])
    [] o[1] = "block"      -> DescribeBlock(o[3], o[4])
    [] OTHER               -> Spelled(o[1])

-----------------------------------------------------------------------------
(***************************************************************************)
(* The layout of a text: every line is indented by as many spaces as there *)
(* are blocks open around it.                                              *)
(***************************************************************************)
Braces(text, i, brace) == Cardinality({j \in 1..i : text[j] = brace})
Depth(text, i)         == Braces(text, i, Opening) - Braces(text, i, Closing)
SpacesAt(text, i) ==
  Cardinality({j \in i..Len(text) : \A k \in i..j : text[k] = Space})

Indented(text) ==
  \A i \in DOMAIN text : text[i] = Newline =>
    LET spaces == SpacesAt(text, i + 1)
        closes == i + spaces < Len(text) /\ text[i + spaces + 1] = Closing
    IN  spaces = Depth(text, i) - (IF closes THEN 1 ELSE 0)

=============================================================================
