---------------------------- MODULE MCOperations ----------------------------
(***************************************************************************)
(* Every stack operation on every stack of at most two sample values (and  *)
(* on some of three), nulls included: map and reduce pop one when their    *)
(* callback leaves the stack empty, and unpack spreads it.                 *)
(***************************************************************************)
EXTENDS Operations, DeepValue, Description, TLC

CONSTANT made   \* the block a typecast makes

Num(n)   == <<"number", n>>
Op(o)    == <<"operation", o>>
Type(t)  == <<"type", t>>
String(s) == <<"string", s>>

\* A word is one character, which stands for its spelling.
Vocabulary ==
  <<"a", "f", "x", "y", "true", "false", "empty", "atom", "NOT_FOUND", "number", "none",
    "string", "tuple", "table", "block", "bind", "slots", "else", "push", "load", "store",
    "clear", "loadslot", "storeslot", "loadnative", "native", "iftrue", "call", "select",
    "nop", "pop">>
MCSpelled(word) == <<1000 + CHOOSE i \in DOMAIN Vocabulary : Vocabulary[i] = word>>

MCParsed(s)   == IF Len(s) = 1 /\ s[1] \in 48..57 THEN Number(s[1] - 48) ELSE Null

Pair1 == Tuple(<<Num(1), Num(2)>>)
Pair2 == Tuple(<<Num(1), Num(3)>>)
Test1 == Op(<<"iftrue", <<"nop">>>>)
Test2 == Op(<<"iftrue", <<"pop">>>>)

\* Blocks in blocks, and every operation that has a text of its own.
Inner  == <<"block", made, <<"x", "y">>, << <<"loadslot", "x">>, <<"storeslot", "y">> >>>>
Middle == <<"block", made, <<>>, << <<"load", "f">>, <<"store", "f">>, Inner, <<"clear", "f">> >>>>
Outer  == Op(<<"block", made, <<"x">>,
               << <<"push", Op(Middle)>>, <<"loadnative", "f">>, <<"iftrue", Inner>>,
                  <<"native", "f">>, <<"bind", Tuple(<<Num(1), Op(Inner)>>), Middle>>,
                  <<"call", "f", <<Num(1), Num(2)>>>>,
                  <<"select", Num(1) :> Op(Inner), Op(Middle)>> >>>>)

\* The first equals the second and not the other way round.
Push1 == Op(<<"push", <<"table", Num(1) :> <<"empty">>>>>>)
Push2 == Op(<<"push", <<"table", Num(2) :> Num(3)>>>>)

Scalars == {Null, Num(0), Num(1), Num(3), Boolean(TRUE), Boolean(FALSE), <<"empty">>,
            <<"character", 49>>, Error("NOT_FOUND"), <<"atom", "a">>} \cup
           {Type(t) : t \in {"number", "none", "string", "tuple", "table", "block", "bind"}}

\* A string that a character past the last of Unicode was appended to.
Beyond == String(<<UnicodeMax + 1>>)

Compounds == {String(<<>>), String(<<49>>), Beyond, Tuple(<<Beyond>>), Tuple(<<>>),
              Pair1, Tuple(<<Pair1, Pair2>>),
              Tuple(<<Null, Test1>>), Tuple(<<Test1, Test2>>), Test1, Test2,
              Op(<<"bind", Null, <<"nop">>>>), Op(<<"bind", Num(1), <<"nop">>>>),
              Op(<<"block", made, <<>>, << <<"nop">>>>>>), Outer, Tuple(<<Outer>>),
              Op(<<"bind", Num(1), <<"push", Tuple(<<Null>>)>>>>), Tuple(<<Tuple(<<Null>>)>>),
              Push1, Push2, <<"set", {Push1, Push2}>>,
              <<"table", Push1 :> Num(1) @@ Push2 :> Num(2)>>,
              <<"set", {}>>, <<"set", {Num(1), Test1}>>,
              <<"table", <<>>>>, <<"table", Num(1) :> Num(2)>>, <<"table", Num(2) :> Null>>,
              <<"table", Num(1) :> <<"empty">>>>, <<"table", Num(2) :> <<"empty">>>>}

Samples == Scalars \cup Compounds

\* What the theorems of modules OperationsProofs and MachineProofs take for granted
\* of the operators this module and module MCMachine put in.
ASSUME SamplesAssumption ==
  /\ \A x \in Samples : DeepIntact(x) => IsSeq(DescribeValue(x))
  /\ \A x \in Samples : DeepWhole(x) => DeepIntact(x) /\ DeepHashed(x)
  /\ \A x, y \in Samples : DeepWhole(x) /\ DeepWhole(y) => DeepCompare(x, y) # "fault"

Stacks == {<<>>} \cup [1..1 -> Samples] \cup [1..2 -> Samples]
          \cup [1..3 -> {Num(0), Num(1), Num(2), Pair1, Null}]

Codes == ArithmeticOps \cup SignOps \cup LogicalOps \cup
         {"nop", "halt", "break", "loop", "dup", "pop", "swap", "resetstack", "not", "eq",
          "typeof", "size", "typecast", "parse", "at", "find", "append", "pack", "unpack"}

Init == /\ stack \in Stacks
        /\ mode = "execute"
        /\ current \in {<<code>> : code \in Codes} \cup {<<"push", Num(1)>>}

Spec == Init /\ [][Leaf]_opVars

\* Two values that eq finds equal have the same hash, as an unordered_set of them
\* takes for granted.
EqualValuesHashAlike ==
  [][current = <<"eq">> /\ mode' = "SUCCESS" /\ stack'[Len(stack')] = Boolean(TRUE) =>
       SameHash(Operand(1), Operand(2))]_opVars

\* The text of a value is laid out by its blocks, however deep they are nested in
\* operations and containers, unless the buffer was too short for a part of it.
TextsAreIndented ==
  [][LET text == stack'[Len(stack')][2] IN
     /\ current = <<"typecast">> /\ mode' = "SUCCESS" /\ Operand(1) = Type("string")
     /\ Depth(text, Len(text)) = 0
     => Indented(text)]_opVars

=============================================================================
