----------------------------- MODULE MCMachine -----------------------------
(***************************************************************************)
(* Small programs for the machine.  The native operations are where the    *)
(* nondeterminism comes from: "any" returns every result there is, "flip"  *)
(* pushes either boolean.                                                  *)
(***************************************************************************)
EXTENDS Machine, DeepValue, TLC

CONSTANTS b1, b2, b3, made

MCDescribe(v) == IF v[1] = "number" THEN <<48 + v[2]>> ELSE <<63>>
MCParsed(s)   == IF Len(s) = 1 /\ s[1] \in 48..57 THEN Number(s[1] - 48) ELSE Null

MCNatives ==
  [any   |-> {[pushed |-> <<>>, result |-> r] : r \in Results \ {"ERROR"}}
             \cup {[pushed |-> <<Error("NOT_FOUND")>>, result |-> "ERROR"]},
   flip  |-> {[pushed |-> <<Boolean(b)>>, result |-> "SUCCESS"] : b \in BOOLEAN},
   stop  |-> {[pushed |-> <<>>, result |-> r] : r \in {"SUCCESS", "HALT", "EXIT_BLOCK"}}]

Num(n) == <<"number", n>>
Op(o)  == <<"operation", o>>
Block(b, names, body) == <<"block", b, names, body>>

\* A block that calls itself: its slots before, during and after the call.
Recursion ==
  "main" :> Op(Block(b1, <<>>,
    << <<"push", Num(1)>>, <<"storeslot", "x">>, <<"native", "flip">>,
       <<"iftrue", <<"call", "main", <<>>>>>>,
       <<"loadslot", "x">>, <<"native", "flip">>, <<"iftrue", <<"storeslot", "y">>>>,
       <<"resetstack">> >>))

\* Every result of an operation, at two depths of blocks.
Results2 ==
  "main" :> Op(Block(b1, <<>>,
    << <<"native", "any">>,
       <<"push", Op(Block(b2, <<"x">>, << <<"native", "any">>, <<"loadslot", "x">> >>))>>,
       <<"exec">>, <<"resetstack">> >>))

\* The value store, called with and without the names it needs; a select that
\* finds nothing on the stack.
StoreProgram ==
  "main" :> Op(Block(b1, <<>>,
    << <<"native", "flip">>, <<"iftrue", <<"clear", "f">>>>,
       <<"native", "flip">>, <<"iftrue", <<"bind", Num(7), <<"store", "f">>>>>>,
       <<"load", "f">>, <<"pop">>, <<"call", "f", <<Num(1), Num(2)>>>> >>)) @@
  "f" :> Op(Block(b2, <<"x", "x", "y">>,
    << <<"loadslot", "x">>, <<"store", "g">>, <<"loadslot", "y">>, <<"native", "flip">>,
       <<"iftrue", <<"storeslot", "y">>>>, <<"load", "g">> >>))

Switch(default) ==
  "main" :> Op(Block(b1, <<>>,
    << <<"native", "flip">>,
       <<"iftrue", <<"bind", Op(<<"native", "flip">>), <<"exec">>>>>>,
       <<"select", Boolean(TRUE) :> Op(<<"native", "stop">>) @@ Boolean(FALSE) :> Num(3)
                   @@ Num(4) :> Op(<<"nop">>), default>>,
       <<"push", Num(4)>>, <<"push", Num(3)>>, <<"native", "flip">>,
       <<"iftrue", <<"pop">>>>,
       <<"select", Num(4) :> Op(<<"nop">>), default>>,
       <<"exec">> >>))

BareOperations ==
  {"main" :> Op(o) : o \in {<<"loadslot", "f">>, <<"storeslot", "f">>, <<"exec">>, <<"load", "f">>,
                            <<"break">>, <<"iftrue", <<"nop">>>>, <<"native", "any">>}}
  \cup {"main" :> Num(0), "f" :> Num(0)}

MCControl == {Recursion, Results2, StoreProgram, Switch(Null), Switch(Op(<<"nop">>))}
             \cup BareOperations

\* map, filter and reduce over every kind of container, with callbacks that stop
\* half way, leave nothing, leave too much, or loop themselves.
Callbacks ==
  {<<"native", "stop">>, <<"native", "flip">>, <<"pop">>, <<"resetstack">>, <<"dup">>,
   <<"swap">>, <<"add">>,
   Block(b2, <<"x">>, << <<"loadslot", "x">>, <<"native", "any">> >>),
   Block(b2, <<>>, << <<"native", "stop">>, <<"push", Num(2)>>, <<"pack">> >>),
   Block(b2, <<>>, << <<"push", Tuple(<<Num(1)>>)>>, <<"push", Op(<<"native", "flip">>)>>,
                      <<"filter">>, <<"pop">> >>)}

MCContainers ==
  {Tuple(<<Num(1), Num(2)>>), <<"string", <<65>>>>, <<"set", {Num(1), Boolean(TRUE)}>>,
   <<"table", Num(1) :> Num(2)>>, Tuple(<<>>), Num(1)}

Loop1(code, c, f) ==
  "main" :> Op(Block(b1, <<>>,
    << <<"push", Num(1)>>, <<"push", c>>, <<"push", Op(f)>> >> \o
    (IF code = "reduce" THEN << <<"push", Num(0)>> >> ELSE <<>>) \o << <<code>> >>))

MCLoops == {Loop1(code, c, f) : code \in {"map", "filter", "reduce"},
                                c \in MCContainers, f \in Callbacks}

\* A program with no main.
MCNoMain == {"f" :> Op(<<"nop">>)}

\* Breaks half way out of two levels.
Breaks ==
  "main" :> Op(Block(b1, <<>>,
    << <<"push", Num(1)>>, <<"push", Num(2)>>,
       <<"push", Op(Block(b2, <<"x">>, << <<"native", "flip">>, <<"iftrue", <<"break">>>>,
                                          <<"loadslot", "x">>, <<"native", "stop">> >>))>>,
       <<"exec">>, <<"native", "flip">>, <<"iftrue", <<"break">>>>,
       <<"native", "flip">>, <<"iftrue", <<"halt">>>>, <<"pop">>, <<"pop">> >>))

\* A null that a callback leaves goes through a table, where hash and clone do not
\* look, and comes out again.
Hidden ==
  "main" :> Op(Block(b1, <<>>,
    << <<"push", Tuple(<<Num(1)>>)>>, <<"push", Op(<<"pop">>)>>, <<"map">>, <<"unpack">>,
       <<"push", Num(1)>>, <<"push", Num(2)>>, <<"pack">>, <<"push", Num(1)>>, <<"pack">>,
       <<"push", <<"type", "table">>>>, <<"typecast">>, <<"push", Num(0)>>, <<"at">> >>))

\* A string is given a character past the last of Unicode, and then made a text of.
Untold ==
  "main" :> Op(Block(b1, <<>>,
    << <<"push", <<"string", <<65>>>>>>, <<"push", <<"character", UnicodeMax + 1>>>>,
       <<"append">>, <<"native", "flip">>, <<"iftrue", <<"parse">>>>, <<"push", Num(1)>>,
       <<"pack">>, <<"push", <<"type", "string">>>>, <<"typecast">> >>))

\* No program among these calls itself.
MCLoopsAndBreaks == MCLoops \cup {Breaks, Switch(Null), Hidden, Untold} \cup BareOperations

=============================================================================
