-------------------------------- MODULE Image --------------------------------
(***************************************************************************)
(* The serialized form of values and operations: the serialize and         *)
(* fromByteStream functions of src/value and src/operation, which find     *)
(* each other through ValueLoader and OperationLoader.                     *)
(*                                                                         *)
(* Writers return bytes.  Readers take and return the reader of module     *)
(* Encoding; a reader whose v is Null or Nothing has failed, one whose v   *)
(* is Thrown threw and nothing more is read.  Names are                    *)
(* strings, spelled in bytes; a name nobody spells is "?".  A block that   *)
(* is read is a new object, for which NewBlock stands: identities are not  *)
(* part of an image.                                                       *)
(***************************************************************************)
EXTENDS Value, Encoding, Utf8

CONSTANTS
  Spelling,    \* the bytes of every name
  CharBytes,   \* the bytes of a char32_t (4)
  CodeBytes    \* the bytes of an OperationType (4)

RECURSIVE WriteValue(_), WriteOperation(_), ValueFrom(_), OperationFrom(_)

Quote  == 39   \* the default marker of names
Marker == [atom |-> 61, bind |-> 94, block |-> 123, boolean |-> 63, character |-> 39,
           empty |-> 69, error |-> 64, number |-> 35, operation |-> 33, set |-> 85,
           string |-> 36, table |-> 91, tuple |-> 40, type |-> 84]

\* The enumerations, in the order of their numbers.
ErrorCodes == <<"DIV_BY_ZERO", "TYPE_MISMATCH", "NOT_FOUND", "ALREADY_EXISTING",
                "INSUFFICIENT_ARGUMENTS", "OUT_OF_BOUNDS", "SYNTAX_ERROR",
                "UNEXPECTED_RESULT", "NOT_IMPLEMENTED">>
ValueTypes == <<"none", "empty", "number", "boolean", "block", "string", "error", "tuple",
                "type", "operation", "table", "bind", "set", "character", "atom">>
OperationTypes ==
  <<"none", "none", "none", "none", "native", "add", "sub", "mul", "div", "mod", "pos", "neg",
    "zero", "at", "dup", "eq", "exec", "block", "load", "and", "or", "xor", "not", "nop", "pop",
    "push", "resetstack", "size", "store", "swap", "typeof", "iftrue", "break", "loop",
    "clear", "pack", "unpack", "find", "parse", "filter", "map", "reduce", "halt",
    "typecast", "loadslot", "storeslot", "append", "select", "bind", "call", "loadnative">>

\* enumToNumber, and back when enumInRange.
Ordinal(names, x) == (CHOOSE i \in DOMAIN names : names[i] = x) - 1
InRange(names, n) == n + 1 \in DOMAIN names

-----------------------------------------------------------------------------
(***************************************************************************)
(* Value::serialize.                                                       *)
(***************************************************************************)
Concat(parts)    == SE!FlattenSeq(parts)
Each(Write(_), s) == Concat([i \in DOMAIN s |-> Write(s[i])])
WriteByte(n)     == WriteNumber(n, 1)
WriteName(name)  == WriteIdentifier(Spelling[name], Quote)

WriteAtom(v)      == WriteName(v[2])
WriteBooleanV(v)  == WriteBoolean(v[2])
WriteCharacter(v) == WriteNumber(v[2], CharBytes)
WriteError(v)     == WriteByte(Ordinal(ErrorCodes, v[2]))
WriteNumberV(v)   == WriteNumber(v[2], NumberBytes)
WriteType(v)      == WriteByte(Ordinal(ValueTypes, v[2]))
WriteString(v)    == WriteData(ToUtf8(v[2]))
WriteTuple(v)     == WriteNumber(Len(v[2]), NumberBytes) \o Each(WriteValue, v[2])

\* Hash tables are written in the order they have in memory; here, in some order.
WriteSet(v) ==
  WriteNumber(Cardinality(v[2]), NumberBytes) \o Each(WriteValue, SE!SetToSeq(v[2]))
WriteTable(v) ==
  LET f == Shown(v)[2]
      Entry(k) == WriteValue(k) \o WriteValue(f[k])
  IN  WriteNumber(Cardinality(DOMAIN f), NumberBytes) \o Each(Entry, SE!SetToSeq(DOMAIN f))

\* A block and a bind are written as the operations they are.
WriteValue(v) ==
  WriteByte(Marker[v[1]]) \o
  CASE v[1] = "atom"      -> WriteAtom(v)
    [] v[1] = "boolean"   -> WriteBooleanV(v)
    [] v[1] = "character" -> WriteCharacter(v)
    [] v[1] = "empty"     -> <<>>
    [] v[1] = "error"     -> WriteError(v)
    [] v[1] = "number"    -> WriteNumberV(v)
    [] v[1] = "type"      -> WriteType(v)
    [] v[1] = "string"    -> WriteString(v)
    [] v[1] = "tuple"     -> WriteTuple(v)
    [] v[1] = "set"       -> WriteSet(v)
    [] v[1] = "table"     -> WriteTable(v)
    [] v[1] = "operation" -> WriteOperation(v[2])

(***************************************************************************)
(* Operation::serialize.                                                   *)
(***************************************************************************)
WriteLoad(o)       == WriteName(o[2])
WriteStore(o)      == WriteName(o[2])
WriteClear(o)      == WriteName(o[2])
WriteLoadslot(o)   == WriteName(o[2])
WriteStoreslot(o)  == WriteName(o[2])
WriteLoadnative(o) == WriteIdentifier(o[2], Quote)      \* any string
WritePush(o)   == WriteValue(o[2])
WriteIfTrue(o) == WriteOperation(o[2])
WriteCall(o)   == WriteName(o[2]) \o WriteValue(Tuple(o[3]))
WriteBind(o)   == WriteValue(o[2]) \o WriteOperation(o[3])
\* Mutant: the flag says whether there is a default.
MutantWriteSelect(o) ==
  WriteValue(<<"table", o[2]>>) \o WriteBoolean(o[3] # Null) \o
  (IF o[3] = Null THEN <<>> ELSE WriteValue(o[3]))
WriteSelect(o) ==
  WriteValue(<<"table", o[2]>>) \o WriteBoolean(o[3] = Null) \o
  (IF o[3] = Null THEN <<>> ELSE WriteValue(o[3]))
WriteBlock(o)  ==
  WriteNumber(Len(o[3]), NumberBytes) \o Each(WriteName, o[3]) \o
  WriteNumber(Len(o[4]), NumberBytes) \o Each(WriteOperation, o[4])

WriteOperation(o) ==
  WriteNumber(Ordinal(OperationTypes, o[1]), CodeBytes) \o
  CASE o[1] = "load"       -> WriteLoad(o)
    [] o[1] = "store"      -> WriteStore(o)
    [] o[1] = "clear"      -> WriteClear(o)
    [] o[1] = "loadslot"   -> WriteLoadslot(o)
    [] o[1] = "storeslot"  -> WriteStoreslot(o)
    [] o[1] = "loadnative" -> WriteLoadnative(o)
    [] o[1] = "push"       -> WritePush(o)
    [] o[1] = "iftrue"     -> WriteIfTrue(o)
    [] o[1] = "call"       -> WriteCall(o)
    [] o[1] = "bind"       -> WriteBind(o)
    [] o[1] = "select"     -> WriteSelect(o)
    [] o[1] = "block"      -> WriteBlock(o)
    [] OTHER               -> <<>>

-----------------------------------------------------------------------------
(***************************************************************************)
(* fromByteStream.  Then goes on with a reader that has not failed.        *)
(***************************************************************************)
Failed(s)     == s.v \in {Null, Nothing}
Fail(s)       == [s EXCEPT !.v = Null]
Make(s, v)    == [s EXCEPT !.v = v]
Threw(s)      == s.v = Thrown
Then(s, K(_)) == IF Threw(s) THEN s ELSE IF Failed(s) THEN Fail(s) ELSE K(s)

ReadByte(s)   == ReadNumber(s, 1)
ReadCount(s)  == ReadNumber(s, NumberBytes)

NameOf(bytes) == IF \E n \in DOMAIN Spelling : Spelling[n] = bytes
                 THEN CHOOSE n \in DOMAIN Spelling : Spelling[n] = bytes ELSE "?"
ReadName(s)   == Then(ReadIdentifier(s, Quote), LAMBDA r : Make(r, <<"name", NameOf(r.v[2])>>))

\* n readings one after the other, all or nothing.  Each takes a byte at least, so
\* that more of them than there are bytes fail.
Gather(s, n, Read(_)) ==
  LET turns == IF n > Left(s) THEN Left(s) + 1 ELSE n
      g[k \in 0..turns] ==
        IF k = 0 THEN Make(s, <<"items", <<>>>>)
        ELSE Then(g[k - 1], LAMBDA p :
               Then(Read(p), LAMBDA r : Make(r, <<"items", Append(p.v[2], r.v)>>)))
  IN  g[turns]

EmptyFrom(s)     == Make(s, <<"empty">>)
AtomFrom(s)      == Then(ReadName(s), LAMBDA r : Make(r, <<"atom", r.v[2]>>))
\* Every byte but 1 is false.
BooleanFrom(s)   == Then(ReadByte(s), LAMBDA r : Make(r, Boolean(r.v[2] = 1)))
CharacterFrom(s) == Then(ReadNumber(s, CharBytes), LAMBDA r : Make(r, <<"character", r.v[2]>>))
ErrorFrom(s)     == Then(ReadByte(s), LAMBDA r :
                      IF InRange(ErrorCodes, r.v[2]) THEN Make(r, Error(ErrorCodes[r.v[2] + 1]))
                                                     ELSE Fail(r))
NumberFrom(s)    == Then(ReadCount(s), LAMBDA r : Make(r, Number(r.v[2])))
TypeFrom(s)      == Then(ReadByte(s), LAMBDA r :
                      IF InRange(ValueTypes, r.v[2])
                      THEN Make(r, <<"type", ValueTypes[r.v[2] + 1]>>) ELSE Fail(r))
StringFrom(s)    == Then(ReadData(s), LAMBDA r : Make(r, FromString(r.v[2])))

\* Mutant: the last element may be missing.
MutantTupleFrom(s) ==
  Then(ReadCount(s), LAMBDA n :
    LET r == Gather(n, n.v[2], ValueFrom) IN
    Then(IF Failed(r) THEN Gather(n, n.v[2] - 1, ValueFrom) ELSE r, LAMBDA q :
      Make(q, Tuple(q.v[2]))))
TupleFrom(s) ==
  Then(ReadCount(s), LAMBDA n :
    Then(Gather(n, n.v[2], ValueFrom), LAMBDA r : Make(r, Tuple(r.v[2]))))

SetFrom(s) ==
  Then(ReadCount(s), LAMBDA n :
    Then(Gather(n, n.v[2], ValueFrom), LAMBDA r :
      LET grown[i \in 0..Len(r.v[2])] == IF i = 0 THEN {} ELSE SetAdd(grown[i - 1], r.v[2][i])
      IN  Make(r, <<"set", grown[Len(r.v[2])]>>)))

PairFrom(s) ==
  Then(ValueFrom(s), LAMBDA k : Then(ValueFrom(k), LAMBDA v : Make(v, Tuple(<<k.v, v.v>>))))

TableFrom(s) ==
  Then(ReadCount(s), LAMBDA n :
    Then(Gather(n, n.v[2], PairFrom), LAMBDA r : Make(r, <<"table", FoldTable(r.v[2])>>)))

AsValue(s) == Then(s, LAMBDA r : Make(r, <<"operation", r.v>>))

NamedFrom(s, code) == Then(ReadName(s), LAMBDA r : Make(r, <<code, r.v[2]>>))
LoadFrom(s)       == NamedFrom(s, "load")
StoreFrom(s)      == NamedFrom(s, "store")
ClearFrom(s)      == NamedFrom(s, "clear")
LoadslotFrom(s)   == NamedFrom(s, "loadslot")
StoreslotFrom(s)  == NamedFrom(s, "storeslot")
LoadnativeFrom(s) ==
  Then(ReadIdentifier(s, Quote), LAMBDA r : Make(r, <<"loadnative", r.v[2]>>))
PushFrom(s)   == Then(ValueFrom(s), LAMBDA r : Make(r, <<"push", r.v>>))
IfTrueFrom(s) == Then(OperationFrom(s), LAMBDA r : Make(r, <<"iftrue", r.v>>))
CallFrom(s)   == Then(ReadName(s), LAMBDA n : Then(ValueFrom(n), LAMBDA r :
                   IF IsA(r.v, "tuple") THEN Make(r, <<"call", n.v[2], r.v[2]>>) ELSE Fail(r)))

\* A bind goes on when a part of it fails, and is made with what it has.
BindFrom(s) ==
  LET a == ValueFrom(s)
      b == OperationFrom(a)
      PartOf(r) == IF Failed(r) THEN Null ELSE r.v
  IN  IF Threw(a) THEN a
      ELSE IF Threw(b) THEN b
      ELSE Make(b, <<"bind", PartOf(a), PartOf(b)>>)

SelectFrom(s) ==
  Then(ValueFrom(s), LAMBDA cases :
    IF ~IsA(cases.v, "table") THEN Fail(cases)
    ELSE Then(ReadBoolean(cases), LAMBDA none :
      IF none.v[2] THEN Make(none, <<"select", cases.v[2], Null>>)
      ELSE Then(ValueFrom(none), LAMBDA default :
        IF IsA(default.v, "operation")
        THEN Make(default, <<"select", cases.v[2], default.v>>) ELSE Fail(default))))

\* A number of slots that is not there counts as none.
BlockFrom(s) ==
  LET n     == ReadCount(s)
      slots == IF Failed(n) THEN Make(n, <<"items", <<>>>>) ELSE Gather(n, n.v[2], ReadName)
  IN  Then(slots, LAMBDA names :
        Then(ReadCount(names), LAMBDA m :
          Then(Gather(m, m.v[2], OperationFrom), LAMBDA ops :
            Make(ops, <<"block", NewBlock, [i \in DOMAIN names.v[2] |-> names.v[2][i][2]],
                        ops.v[2]>>))))

\* A native operation cannot be read, although it is written.
OperationOf(s, code) ==
  CASE code \in {"none", "native"} -> Fail(s)
    [] code = "load"            -> LoadFrom(s)
    [] code = "store"           -> StoreFrom(s)
    [] code = "clear"           -> ClearFrom(s)
    [] code = "loadslot"        -> LoadslotFrom(s)
    [] code = "storeslot"       -> StoreslotFrom(s)
    [] code = "loadnative"      -> LoadnativeFrom(s)
    [] code = "push"            -> PushFrom(s)
    [] code = "iftrue"          -> IfTrueFrom(s)
    [] code = "call"            -> CallFrom(s)
    [] code = "bind"            -> BindFrom(s)
    [] code = "select"          -> SelectFrom(s)
    [] code = "block"           -> BlockFrom(s)
    [] OTHER                    -> Make(s, <<code>>)

OperationFrom(s) ==
  Then(ReadNumber(s, CodeBytes), LAMBDA r :
    IF InRange(OperationTypes, r.v[2]) THEN OperationOf(r, OperationTypes[r.v[2] + 1])
                                       ELSE Fail(r))

ValueFrom(s) ==
  Then(ReadByte(s), LAMBDA r :
    CASE r.v[2] = Marker.atom      -> AtomFrom(r)
      [] r.v[2] = Marker.bind      -> AsValue(BindFrom(r))
      [] r.v[2] = Marker.block     -> AsValue(BlockFrom(r))
      [] r.v[2] = Marker.boolean   -> BooleanFrom(r)
      [] r.v[2] = Marker.character -> CharacterFrom(r)
      [] r.v[2] = Marker.empty     -> EmptyFrom(r)
      [] r.v[2] = Marker.error     -> ErrorFrom(r)
      [] r.v[2] = Marker.number    -> NumberFrom(r)
      [] r.v[2] = Marker.operation -> AsValue(OperationFrom(r))
      [] r.v[2] = Marker.set       -> SetFrom(r)
      [] r.v[2] = Marker.string    -> StringFrom(r)
      [] r.v[2] = Marker.table     -> TableFrom(r)
      [] r.v[2] = Marker.tuple     -> TupleFrom(r)
      [] r.v[2] = Marker.type      -> TypeFrom(r)
      [] OTHER                     -> Fail(r))

=============================================================================
