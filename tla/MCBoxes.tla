------------------------------- MODULE MCBoxes -------------------------------
(***************************************************************************)
(* Programs over a few constants, each with one kind of container to share *)
(* and grow, or one kind of operation that holds a value: all that can be  *)
(* made of them on a small stack.                                          *)
(***************************************************************************)
EXTENDS Boxes, TLC

One       == 1 :> <<"number", 1>>
OneNop    == 1 :> <<"operation", <<"nop">>>>
Pair      == 2 :> <<"tuple", <<1, 1>>>>
Type(t)   == 3 :> <<"type", t>>
Holds(op) == 2 :> <<"tuple", <<4>>>> @@ 4 :> op

Sets    == One @@ Type("tuple") @@ 4 :> <<"set", {}>>
Sharing ==
  {Sets,
   One @@ 2 :> <<"tuple", <<>>>>,
   One @@ Type("tuple") @@ 4 :> <<"table", 1 :> 1>>,
   One @@ Pair @@ Type("table"),
   OneNop @@ 2 :> <<"tuple", <<>>>> @@ Type("bind"),
   OneNop @@ 2 :> <<"tuple", <<1>>>> @@ Type("block")}

\* A tuple with one operation in it, to be copied.
Holding ==
  {One @@ Holds(<<"push", 1>>),
   OneNop @@ Holds(<<"iftrue", 1>>),
   OneNop @@ Holds(<<"block", <<"x">>, <<1>>>>),
   1 :> <<"tuple", <<>>>> @@ Holds(<<"call", "f", 1>>),
   1 :> <<"table", <<>>>> @@ Holds(<<"select", 1, 0>>)}
Large ==
  {OneNop @@ Holds(<<"bind", 1, 1>>),
   OneNop @@ 3 :> <<"table", <<>>>> @@ Holds(<<"select", 3, 1>>)}

MCPrograms == Sharing \cup Holding \cup Large

\* Enough for one copy of a tuple and what is in it; sets of sets are too many with more.
MCMaxBoxes == [p \in MCPrograms |-> IF p = Sets THEN 2 ELSE IF p \in Large THEN 4 ELSE 3]

=============================================================================
