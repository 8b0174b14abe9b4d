-------------------------------- MODULE Syntax --------------------------------
(***************************************************************************)
(* The parser of the textual language (src/parser/parser.cpp) and the      *)
(* fromParser functions of src/value and src/operation.                    *)
(*                                                                         *)
(* A text is the sequence of tokens module Lexer makes of it, each a pair  *)
(* <<kind, lexeme>>.  A parser is a record: the text, how many of its      *)
(* tokens are consumed, the errors reported, each the context it was       *)
(* reported in, and what the last function returned: Null for nullptr and  *)
(* nullopt, Forever when it never returns, Thrown when it threw.           *)
(***************************************************************************)
EXTENDS Value, Utf8

CONSTANT CharMax   \* the largest char32_t

RECURSIVE ValueFromParser(_), OperationFromParser(_), TupleItems(_, _), SetItems(_, _),
          TableItems(_, _), BlockItems(_, _), SlotNames(_, _), BlockFromParser(_),
          BindFromParser(_)

Malformed == -1
Forever   == <<"forever">>
EndOfText == <<"END", 0>>

Parsing(text) == [text |-> text, at |-> 0, errors |-> <<>>, v |-> Null]

-----------------------------------------------------------------------------
(***************************************************************************)
(* Parser: one token of lookahead.                                         *)
(***************************************************************************)
NextToken(s)    == IF s.at < Len(s.text) THEN s.text[s.at + 1] ELSE EndOfText
ConsumeToken(s) == [s EXCEPT !.at = @ + 1, !.v = NextToken(s)]
AtEnd(s)        == NextToken(s) = EndOfText
PeekIf(s, kind) == NextToken(s)[1] = kind

Returns(s, v) == [s EXCEPT !.v = v]
Fails(s)      == Returns(s, Null)

\* Mutant: one token too few.
MutantContext(s) == SubSeq(s.text, (IF s.at < 3 THEN 0 ELSE s.at - 3) + 1, s.at)
\* The last four tokens that were consumed, or as many as there are.
Context(s)    == SubSeq(s.text, (IF s.at < 4 THEN 0 ELSE s.at - 4) + 1, s.at)
Reports(s)    == [s EXCEPT !.v = Null, !.errors = Append(@, Context(s))]

NextIf(s, kind) == IF PeekIf(s, kind) THEN ConsumeToken(s) ELSE Fails(s)

\* Mutant: the missing token is not reported.
MutantExpected(s, kind) == IF PeekIf(s, kind) THEN ConsumeToken(s) ELSE Fails(s)
Expected(s, kind) == IF PeekIf(s, kind) THEN ConsumeToken(s) ELSE Reports(s)

\* Go on with what was parsed, if it was; report that it was not.
NoReturn     == {Forever, Thrown}
Succeeded(s) == s.v \notin NoReturn \cup {Null}
And(s, K(_)) == IF Succeeded(s) THEN K(s) ELSE s
OrReport(s)  == IF s.v = Null THEN Reports(s) ELSE s

-----------------------------------------------------------------------------
(***************************************************************************)
(* Values.                                                                 *)
(***************************************************************************)
EmptyFromParser(s)   == Returns(s, <<"empty">>)
AtomFromParser(s)    == And(Expected(s, "IDENTIFIER"), LAMBDA t : Returns(t, <<"atom", t.v[2]>>))
BooleanFromParser(s) == And(Expected(s, "BOOLEAN"), LAMBDA t : Returns(t, Boolean(t.v[2])))
StringFromParser(s)  == And(Expected(s, "STRING"), LAMBDA t : Returns(t, FromString(t.v[2])))

\* strtoull stays at the largest number.
NumberFromParser(s) ==
  And(Expected(s, "NUMBER"), LAMBDA t :
    IF t.v[2] = Malformed THEN Reports(t)
    ELSE Returns(t, IF t.v[2] < 2 ^ Width THEN Number(t.v[2]) ELSE Number(2 ^ Width - 1)))

CharacterFromParser(s) ==
  IF NextToken(s)[1] \notin {"UNICODE", "NUMBER", "LITCHAR"} THEN Reports(s)
  ELSE LET t == ConsumeToken(s) IN
       IF t.v[2] = Malformed \/ t.v[2] > CharMax THEN Reports(t)
       ELSE Returns(t, <<"character", t.v[2]>>)

ErrorWord == [divisionByZero |-> "DIV_BY_ZERO", typeMismatch |-> "TYPE_MISMATCH",
              notFound |-> "NOT_FOUND", alreadyExisting |-> "ALREADY_EXISTING",
              insufficientArguments |-> "INSUFFICIENT_ARGUMENTS",
              outOfBounds |-> "OUT_OF_BOUNDS", syntaxError |-> "SYNTAX_ERROR",
              unexpectedResult |-> "UNEXPECTED_RESULT", notImplemented |-> "NOT_IMPLEMENTED"]

ErrorFromParser(s) ==
  And(Expected(s, "IDENTIFIER"), LAMBDA t :
    IF t.v[2] \in DOMAIN ErrorWord THEN Returns(t, Error(ErrorWord[t.v[2]])) ELSE Reports(t))

TypeWords == {"empty", "number", "boolean", "block", "string", "error", "tuple", "type",
              "operation", "table", "bind", "set", "character", "atom"}

TypeFromParser(s) ==
  IF PeekIf(s, "IDENTIFIER") /\ NextToken(s)[2] \in TypeWords
  THEN Returns(ConsumeToken(s), <<"type", NextToken(s)[2]>>) ELSE Reports(s)

\* An item was parsed; the text must not end before the closing bracket.
Closing(s, K(_)) == And(s, LAMBDA r : IF AtEnd(r) THEN Reports(r) ELSE K(r))

TupleItems(s, items) ==
  IF PeekIf(s, "COMMA") THEN TupleItems(ConsumeToken(s), items)
  ELSE IF PeekIf(s, "CLOSE_PAREN") THEN Returns(ConsumeToken(s), Tuple(items))
  ELSE Closing(OrReport(ValueFromParser(s)), LAMBDA r : TupleItems(r, Append(items, r.v)))

SetItems(s, items) ==
  IF PeekIf(s, "COMMA") THEN SetItems(ConsumeToken(s), items)
  ELSE IF PeekIf(s, "CLOSE_SQUARE") THEN Returns(ConsumeToken(s), <<"set", items>>)
  ELSE Closing(OrReport(ValueFromParser(s)), LAMBDA r : SetItems(r, SetAdd(items, r.v)))

TableItems(s, f) ==
  IF PeekIf(s, "COMMA") THEN TableItems(ConsumeToken(s), f)
  ELSE IF PeekIf(s, "CLOSE_SQUARE") THEN Returns(ConsumeToken(s), <<"table", f>>)
  ELSE And(OrReport(ValueFromParser(s)), LAMBDA k :
    And(Expected(k, "ARROW"), LAMBDA a :
      Closing(OrReport(ValueFromParser(a)), LAMBDA r : TableItems(r, TableAdd(f, k.v, r.v)))))

TupleFromParser(s) == And(Expected(s, "OPEN_PAREN"), LAMBDA t : TupleItems(t, <<>>))
SetFromParser(s)   == And(Expected(s, "OPEN_SQUARE"), LAMBDA t : SetItems(t, {}))
TableFromParser(s) == And(Expected(s, "OPEN_SQUARE"), LAMBDA t : TableItems(t, <<>>))

AsOperation(s) == And(s, LAMBDA r : Returns(r, <<"operation", r.v>>))

\* An unknown type fails without an error.
ValueFromParser(s) ==
  And(Expected(s, "IDENTIFIER"), LAMBDA t :
    CASE t.v[2] = "atom"      -> AtomFromParser(t)
      [] t.v[2] = "boolean"   -> BooleanFromParser(t)
      [] t.v[2] = "character" -> CharacterFromParser(t)
      [] t.v[2] = "empty"     -> EmptyFromParser(t)
      [] t.v[2] = "error"     -> ErrorFromParser(t)
      [] t.v[2] = "number"    -> NumberFromParser(t)
      [] t.v[2] = "string"    -> StringFromParser(t)
      [] t.v[2] = "type"      -> TypeFromParser(t)
      [] t.v[2] = "tuple"     -> TupleFromParser(t)
      [] t.v[2] = "set"       -> SetFromParser(t)
      [] t.v[2] = "table"     -> TableFromParser(t)
      [] t.v[2] = "operation" -> AsOperation(OperationFromParser(t))
      [] t.v[2] = "block"     -> AsOperation(BlockFromParser(t))
      [] t.v[2] = "bind"      -> AsOperation(BindFromParser(t))
      [] OTHER                -> Fails(t))

-----------------------------------------------------------------------------
(***************************************************************************)
(* Operations.                                                             *)
(***************************************************************************)
PlainOperations ==
  {"add", "sub", "mul", "div", "mod", "pos", "neg", "zero", "at", "dup", "eq", "exec", "and",
   "or", "xor", "not", "nop", "pop", "resetstack", "size", "swap", "typeof", "break", "loop",
   "pack", "unpack", "find", "parse", "filter", "map", "reduce", "halt", "typecast", "append"}

NamedFromParser(s, code) ==
  And(NextIf(s, "IDENTIFIER"), LAMBDA t : Returns(t, <<code, t.v[2]>>))
LoadFromParser(s)      == NamedFromParser(s, "load")
StoreFromParser(s)     == NamedFromParser(s, "store")
ClearFromParser(s)     == NamedFromParser(s, "clear")
LoadslotFromParser(s)  == NamedFromParser(s, "loadslot")
StoreslotFromParser(s) == NamedFromParser(s, "storeslot")
LoadnativeFromParser(s) ==
  And(NextIf(s, "STRING"), LAMBDA t :
    IF t.v[2] = <<>> THEN Fails(t) ELSE Returns(t, <<"loadnative", t.v[2]>>))
PushFromParser(s)   == And(ValueFromParser(s), LAMBDA r : Returns(r, <<"push", r.v>>))
IfTrueFromParser(s) == And(OperationFromParser(s), LAMBDA r : Returns(r, <<"iftrue", r.v>>))
CallFromParser(s) ==
  And(Expected(s, "IDENTIFIER"), LAMBDA t :
    And(TupleFromParser(t), LAMBDA r : Returns(r, <<"call", t.v[2], r.v[2]>>)))

\* A second value that is no operation fails without an error.
BindFromParser(s) ==
  And(ValueFromParser(s), LAMBDA a : And(ValueFromParser(a), LAMBDA b :
    IF IsA(b.v, "operation") THEN Returns(b, <<"bind", a.v, b.v[2]>>) ELSE Fails(b)))

\* Mutant: the default is read from the word else on.
MutantSelectFromParser(s) ==
  LET cases   == ValueFromParser(s)
      default == ValueFromParser(cases)
  IN  IF cases.v \in NoReturn THEN cases
      ELSE IF cases.v = Null \/ ~IsA(cases.v, "table") THEN Reports(cases)
      ELSE IF NextToken(cases) # <<"IDENTIFIER", "else">>
           THEN Returns(cases, <<"select", cases.v[2], Null>>)
      ELSE IF default.v \in NoReturn THEN default
      ELSE IF default.v = Null \/ ~IsA(default.v, "operation") THEN Reports(default)
      ELSE Returns(default, <<"select", cases.v[2], default.v>>)
SelectFromParser(s) ==
  LET cases == ValueFromParser(s) IN
  IF cases.v \in NoReturn THEN cases
  ELSE IF cases.v = Null \/ ~IsA(cases.v, "table") THEN Reports(cases)
  ELSE IF NextToken(cases) # <<"IDENTIFIER", "else">>
       THEN Returns(cases, <<"select", cases.v[2], Null>>)
  ELSE LET default == ValueFromParser(ConsumeToken(cases)) IN
       IF default.v \in NoReturn THEN default
       ELSE IF default.v = Null \/ ~IsA(default.v, "operation") THEN Reports(default)
       ELSE Returns(default, <<"select", cases.v[2], default.v>>)

\* Mutant: the end of the text is not looked for.
MutantSlotNames(s, names) ==
  LET named == PeekIf(s, "IDENTIFIER")
      t     == IF named THEN ConsumeToken(s) ELSE s
      all   == IF named THEN Append(names, t.v[2]) ELSE names
  IN  IF PeekIf(t, "COMMA") THEN SlotNames(ConsumeToken(t), all)
      ELSE IF PeekIf(t, "OPEN_BLOCK") THEN Returns(t, <<"slots", all>>)
      ELSE IF named THEN SlotNames(t, all)
      ELSE Returns(t, Forever)
\* Names, with or without commas, up to the block.  Nothing moves past any other
\* token: the loop looks at it for ever.
SlotNames(s, names) ==
  LET named == PeekIf(s, "IDENTIFIER")
      t     == IF named THEN ConsumeToken(s) ELSE s
      all   == IF named THEN Append(names, t.v[2]) ELSE names
  IN  IF AtEnd(s) THEN Fails(s)
      ELSE IF PeekIf(t, "COMMA") THEN SlotNames(ConsumeToken(t), all)
      ELSE IF PeekIf(t, "OPEN_BLOCK") THEN Returns(t, <<"slots", all>>)
      ELSE IF named THEN SlotNames(t, all)
      ELSE Returns(t, Forever)

BlockItems(s, block) ==
  IF PeekIf(s, "CLOSE_BLOCK") THEN Returns(ConsumeToken(s), block)
  ELSE IF PeekIf(s, "COMMA") \/ PeekIf(s, "SEMICOLON") THEN BlockItems(ConsumeToken(s), block)
  ELSE Closing(OperationFromParser(s), LAMBDA r :
         BlockItems(r, [block EXCEPT ![4] = Append(@, r.v)]))

BlockFromParser(s) ==
  And(IF PeekIf(s, "KW_SLOTS") THEN SlotNames(ConsumeToken(s), <<>>)
                               ELSE Returns(s, <<"slots", <<>>>>), LAMBDA slots :
    And(Expected(slots, "OPEN_BLOCK"), LAMBDA t :
      BlockItems(t, <<"block", NewBlock, slots.v[2], <<>>>>)))

OperationOfCode(s, code) ==
  CASE code \in PlainOperations -> Returns(s, <<code>>)
    [] code = "load"       -> LoadFromParser(s)
    [] code = "store"      -> StoreFromParser(s)
    [] code = "clear"      -> ClearFromParser(s)
    [] code = "loadslot"   -> LoadslotFromParser(s)
    [] code = "storeslot"  -> StoreslotFromParser(s)
    [] code = "loadnative" -> LoadnativeFromParser(s)
    [] code = "push"       -> PushFromParser(s)
    [] code = "iftrue"     -> IfTrueFromParser(s)
    [] code = "call"       -> CallFromParser(s)
    [] code = "select"     -> SelectFromParser(s)
    [] code = "block"      -> BlockFromParser(s)
    [] OTHER               -> Fails(s)

\* A missing word is one error; a word that makes no operation is one more.
OperationFromParser(s) ==
  And(Expected(s, "IDENTIFIER"), LAMBDA t : OrReport(OperationOfCode(t, t.v[2])))

-----------------------------------------------------------------------------
\* Parser::parseValue: the end of the text is no error.
NamedValueFromParser(s) ==
  IF AtEnd(s) THEN Fails(s)
  ELSE And(Expected(s, "KW_VALUE"), LAMBDA k :
         And(Expected(k, "IDENTIFIER"), LAMBDA name :
           And(ValueFromParser(name), LAMBDA r : Returns(r, <<"named", name.v[2], r.v>>))))

=============================================================================
