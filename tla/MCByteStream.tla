----------------------------- MODULE MCByteStream -----------------------------
(***************************************************************************)
(* Every file of at most four bytes over three values, and longer ones     *)
(* whose lengths are right, too large, and so large that the sum wraps;    *)
(* scripts of up to two items over the same bytes, with 2 as marker, and   *)
(* every prefix of the files they make.                                    *)
(***************************************************************************)
EXTENDS Wire

Name(s) == [kind |-> "identifier", value |-> s, marker |-> 2]

MCItems ==
  {[kind |-> "number", value |-> n, width |-> w] : n \in {0, 1, 5, 26}, w \in {1, 3}} \cup
  {Name(s) : s \in {<<>>, <<1>>, <<0, 1>>}} \cup
  {[kind |-> "data", value |-> s] : s \in {<<>>, <<2>>, <<0, 2>>, <<1, 0, 2>>}} \cup
  {[kind |-> "boolean", value |-> b] : b \in BOOLEAN}

MCScripts == {<<>>} \cup UNION {[1..n -> MCItems] : n \in 1..2}

MCOpenFiles ==
  UNION {[1..n -> Bytes] : n \in 1..3} \cup [1..4 -> {0, 1}] \cup
  {<<0, 0, 1, 2>>, <<0, 0, 2, 1>>, <<2, 2, 2, 1>>, <<2, 0, 2, 1>>, <<2, 1, 0, 2>>,
   <<0, 0, 2, 1, 0, 2>>, <<2, 2, 2, 1, 0, 2>>, <<1, 0, 0, 2, 1, 2>>,
   <<1, 2, 2, 2, 2, 0>>, <<2, 0, 2, 2, 2, 1, 0>>, <<2, 1, 0, 2, 2, 2, 0>>}

MCFiles == MCOpenFiles \cup UNION {Cuts(File(s)) : s \in Scripts}

=============================================================================
