---------------------------- MODULE OperationsProofs ----------------------------
(***************************************************************************)
(* Proofs about the operations on the stack, for every stack of values,    *)
(* whatever equality, hashing, text and the parser are.                    *)
(***************************************************************************)
EXTENDS Operations, DataLemmas, SequenceTheorems, FiniteSetTheorems

(***************************************************************************)
(* Sequences of anything.                                                  *)
(***************************************************************************)

\* A sequence has a length, which its domain spells out.
LEMMA SeqLength ==
  ASSUME NEW s, IsSeq(s)
  PROVE  Len(s) \in Nat /\ DOMAIN s = 1..Len(s)
BY LenProperties DEF IsSeq

\* What is in a set of sequences is a sequence.
LEMMA SeqIsSeq ==
  ASSUME NEW S, NEW s \in Seq(S)
  PROVE  IsSeq(s)
<1> DEFINE R == {s[i] : i \in DOMAIN s}
<1>1. s \in [1..Len(s) -> R] /\ Len(s) \in Nat
  BY LenProperties
<1> QED BY <1>1 DEF IsSeq

\* A function of the numbers up to n is a sequence.
LEMMA FunctionIsSeq ==
  ASSUME NEW n \in Nat, NEW s, s = [i \in 1..n |-> s[i]]
  PROVE  IsSeq(s) /\ Len(s) = n /\ DOMAIN s = 1..n
<1> DEFINE R == {s[i] : i \in DOMAIN s}
<1>1. DOMAIN s = 1..n
  BY Zenon
<1>2. s \in [1..n -> R]
  BY <1>1
<1>3. s \in Seq(R)
  <2> HIDE DEF R
  <2>1. QED BY <1>2
<1>4. IsSeq(s)
  BY <1>3 DEF IsSeq
<1>5. Len(s) = n
  BY <1>1
<1> QED BY <1>1, <1>4, <1>5

\* The empty sequence.
LEMMA EmptyIsSeq == IsSeq(<<>>) /\ Len(<<>>) = 0 /\ DOMAIN <<>> = {}
<1>1. <<>> \in Seq({})
  BY EmptySeq
<1>2. IsSeq(<<>>)
  BY <1>1, SeqIsSeq
<1>3. Len(<<>>) = 0
  BY EmptySeq
<1>4. QED BY <1>2, <1>3, SeqLength

\* Pushing.
LEMMA AppendIsSeq ==
  ASSUME NEW s, IsSeq(s), NEW e
  PROVE  /\ IsSeq(Append(s, e))
         /\ Len(Append(s, e)) = Len(s) + 1
         /\ Append(s, e) # <<>>
         /\ \A i \in 1..Len(s) : Append(s, e)[i] = s[i]
         /\ Append(s, e)[Len(s) + 1] = e
<1> DEFINE R == {s[i] : i \in DOMAIN s} \cup {e}
<1>1. s \in Seq(R)
  BY SeqMonotonic DEF IsSeq
<1>2. e \in R
  OBVIOUS
<1> HIDE DEF R
<1>3. Append(s, e) \in Seq(R)
  BY <1>1, <1>2, AppendProperties
<1>4. /\ Len(Append(s, e)) = Len(s) + 1
      /\ Append(s, e) # <<>>
      /\ \A i \in 1..Len(s) : Append(s, e)[i] = s[i]
      /\ Append(s, e)[Len(s) + 1] = e
  BY <1>1, <1>2, AppendProperties
<1>5. IsSeq(Append(s, e))
  BY <1>3, SeqIsSeq
<1> QED BY <1>4, <1>5

\* Pushing several values.
LEMMA ConcatIsSeq ==
  ASSUME NEW s, IsSeq(s), NEW t, IsSeq(t)
  PROVE  /\ IsSeq(s \o t)
         /\ Len(s \o t) = Len(s) + Len(t)
         /\ \A i \in 1..Len(s) : (s \o t)[i] = s[i]
         /\ \A i \in 1..Len(t) : (s \o t)[Len(s) + i] = t[i]
<1> DEFINE R == {s[i] : i \in DOMAIN s} \cup {t[i] : i \in DOMAIN t}
<1>1. s \in Seq(R) /\ t \in Seq(R)
  <2>1. s \in Seq({s[i] : i \in DOMAIN s}) /\ t \in Seq({t[i] : i \in DOMAIN t})
    BY DEF IsSeq
  <2>2. {s[i] : i \in DOMAIN s} \subseteq R /\ {t[i] : i \in DOMAIN t} \subseteq R
    OBVIOUS
  <2> HIDE DEF R
  <2>3. QED BY <2>1, <2>2, SeqMonotonic
<1> HIDE DEF R
<1>2. /\ s \o t \in Seq(R)
      /\ Len(s \o t) = Len(s) + Len(t)
      /\ \A i \in 1..(Len(s) + Len(t)) : (s \o t)[i] = IF i <= Len(s) THEN s[i] ELSE t[i - Len(s)]
  BY <1>1, ConcatProperties
<1>3. PICK m \in Nat, n \in Nat : m = Len(s) /\ n = Len(t)
  BY <1>1, LenProperties
<1>4. \A i \in 1..m : (s \o t)[i] = s[i]
  <2>1. \A i \in 1..m : i \in 1..(m + n) /\ i <= m
    BY SMT
  <2>2. QED BY <1>2, <1>3, <2>1
<1>5. \A i \in 1..n : (s \o t)[m + i] = t[i]
  <2>1. \A i \in 1..n : m + i \in 1..(m + n) /\ ~(m + i <= m) /\ (m + i) - m = i
    BY SMT
  <2>2. QED BY <1>2, <1>3, <2>1
<1>6. IsSeq(s \o t)
  BY <1>2, SeqIsSeq
<1> QED BY <1>2, <1>3, <1>4, <1>5, <1>6

\* The bottom of a stack.
LEMMA BottomIsSeq ==
  ASSUME NEW s, IsSeq(s), NEW n \in Int, n <= Len(s)
  PROVE  /\ IsSeq(SubSeq(s, 1, n))
         /\ Len(SubSeq(s, 1, n)) = IF 1 <= n THEN n ELSE 0
         /\ \A i \in 1..n : SubSeq(s, 1, n)[i] = s[i]
<1> DEFINE R == {s[i] : i \in DOMAIN s}
<1>0. PICK m \in Nat : m = Len(s) /\ DOMAIN s = 1..m
  BY SeqLength
<1>1. \A i \in 1..n : s[i] \in R
  <2>1. \A i \in 1..n : i \in 1..m
    BY <1>0, SMT
  <2>2. QED BY <1>0, <2>1
<1> HIDE DEF R
<1>2. /\ SubSeq(s, 1, n) \in Seq(R)
      /\ Len(SubSeq(s, 1, n)) = IF 1 <= n THEN n - 1 + 1 ELSE 0
      /\ \A i \in 1..(n - 1 + 1) : SubSeq(s, 1, n)[i] = s[1 + i - 1]
  BY <1>1, SubSeqProperties
<1>3. n - 1 + 1 = n /\ \A i \in 1..n : 1 + i - 1 = i
  BY SMT
<1>4. QED BY <1>2, <1>3, SeqIsSeq

\* Two sequences with the same items are the same.
LEMMA SeqSame ==
  ASSUME NEW s, IsSeq(s), NEW t, IsSeq(t), Len(s) = Len(t), \A i \in 1..Len(s) : s[i] = t[i]
  PROVE  s = t
<1>1. DOMAIN s = 1..Len(s) /\ DOMAIN t = 1..Len(s)
  BY SeqLength
<1>2. {s[i] : i \in DOMAIN s} = {t[i] : i \in DOMAIN t}
  BY <1>1
<1>3. s \in Seq({s[i] : i \in DOMAIN s}) /\ t \in Seq({s[i] : i \in DOMAIN s})
  BY <1>2 DEF IsSeq
<1> DEFINE R == {s[i] : i \in DOMAIN s}
<1>4. s \in Seq(R) /\ t \in Seq(R)
  BY <1>3
<1> HIDE DEF R
<1>5. QED BY <1>4, SeqEqual

(***************************************************************************)
(* Values.  A value is well formed when it has the shape of its class and  *)
(* its parts are values again.  That is no recursion here: a value is in a *)
(* set of things of which each has its shape, and its parts in the set.    *)
(*                                                                         *)
(* The parameter nulls says which null pointers count as values: {Null},   *)
(* or {} for the values that hold none.  (That a select has no default is  *)
(* no null it holds.)                                                      *)
(***************************************************************************)
Items(f) == {f[x] : x \in DOMAIN f}

\* The values and operations a value or an operation holds.
Parts(v) ==
  CASE v[1] = "tuple" -> Items(v[2])
    [] v[1] = "set"   -> v[2]
    [] v[1] = "table" -> DOMAIN v[2] \cup Items(v[2])
    [] v[1] \in {"operation", "push", "iftrue"} -> {v[2]}
    [] v[1] = "block"  -> Items(v[4])
    [] v[1] = "call"   -> Items(v[3])
    [] v[1] = "select" -> DOMAIN v[2] \cup Items(v[2]) \cup ({v[3]} \ {Null})
    [] v[1] = "bind"   -> {v[2], v[3]}
    [] OTHER -> {}

\* No two members are the same to a lookup, whichever is asked for and whichever is there.
Apart(S) == \A x, y \in S : Match(x, y) /\ Match(y, x) => x = y

Shaped(nulls, v) ==
  /\ v[1] = "null"   => v \in nulls
  /\ v[1] = "number" => v[2] \in Nat
  /\ v[1] \in {"tuple", "string"} => IsSeq(v[2])
  /\ v[1] = "set"    => IsFiniteSet(v[2]) /\ Apart(v[2])
  /\ v[1] = "table"  => IsFiniteSet(DOMAIN v[2]) /\ Apart(DOMAIN v[2])
  /\ v[1] = "block"  => IsSeq(v[3]) /\ IsSeq(v[4])
  /\ v[1] = "call"   => IsSeq(v[3])
  /\ v[1] = "select" => v[3] = Null \/ IsA(v[3], "operation")

Closed(nulls, U) == \A v \in U : Shaped(nulls, v) /\ Parts(v) \subseteq U
IsValue(nulls, v) == \E U : v \in U /\ Closed(nulls, U)

\* A value has its shape, and its parts are values.
LEMMA ValueHas ==
  ASSUME NEW nulls, NEW v, IsValue(nulls, v)
  PROVE  Shaped(nulls, v) /\ \A p \in Parts(v) : IsValue(nulls, p)
BY Zenon DEF IsValue, Closed

\* What has the shape of a value and values for its parts is one.
LEMMA ValueFrom ==
  ASSUME NEW nulls, NEW v, Shaped(nulls, v), \A p \in Parts(v) : IsValue(nulls, p)
  PROVE  IsValue(nulls, v)
<1> DEFINE Home(p) == CHOOSE U : p \in U /\ Closed(nulls, U)
           W == {v} \cup UNION {Home(p) : p \in Parts(v)}
<1>1. \A p \in Parts(v) : p \in Home(p) /\ Closed(nulls, Home(p))
  BY Zenon DEF IsValue
<1> HIDE DEF Home
<1>2. Parts(v) \subseteq W
  BY <1>1, Zenon
<1>3. ASSUME NEW w \in W PROVE Shaped(nulls, w) /\ Parts(w) \subseteq W
  <2>1. CASE w = v
    BY <1>2, <2>1, Zenon
  <2>2. CASE w # v
    <3>1. PICK p \in Parts(v) : w \in Home(p)
      BY <2>2
    <3>2. Shaped(nulls, w) /\ Parts(w) \subseteq Home(p)
      BY <1>1, <3>1, Zenon DEF Closed
    <3>3. QED BY <3>1, <3>2
  <2>3. QED BY <2>1, <2>2
<1>4. v \in W
  OBVIOUS
<1> HIDE DEF W
<1>5. QED BY <1>3, <1>4, Zenon DEF IsValue, Closed

\* A sequence of values.
ValueSeq(nulls, s) == IsSeq(s) /\ \A i \in DOMAIN s : IsValue(nulls, s[i])

\* What holds nothing is a value, whatever else is in it.
Simple == {"empty", "boolean", "error", "type", "character", "atom"}

LEMMA SimpleIsValue ==
  ASSUME NEW nulls, NEW v, v[1] \in Simple
  PROVE  IsValue(nulls, v)
<1>1. Parts(v) = {}
  BY DEF Parts, Simple
<1>2. Shaped(nulls, v)
  BY DEF Shaped, Simple
<1>3. QED BY <1>1, <1>2, ValueFrom

LEMMA NullIsValue == ASSUME NEW nulls, Null \in nulls PROVE IsValue(nulls, Null)
<1> DEFINE v == Null
<1>1. v[1] = "null" /\ v \in nulls
  BY DEF Null
<1> HIDE DEF v
<1>2. Parts(v) = {} /\ Shaped(nulls, v)
  BY <1>1 DEF Parts, Shaped
<1>3. QED BY <1>2, ValueFrom DEF v

\* Values that hold no null are none themselves.
LEMMA NotNull == ASSUME NEW nulls, Null \notin nulls, NEW v, IsValue(nulls, v) PROVE v # Null
<1>1. Null[1] = "null"
  BY DEF Null
<1>2. QED BY <1>1, ValueHas DEF Shaped

LEMMA ErrorIsValue ==
  ASSUME NEW nulls, NEW code
  PROVE  IsValue(nulls, Error(code)) /\ IsA(Error(code), "error")
<1>1. Error(code)[1] = "error"
  BY DEF Error
<1>2. QED BY <1>1, SimpleIsValue DEF Simple, IsA

LEMMA BooleanIsValue == ASSUME NEW nulls, NEW b PROVE IsValue(nulls, Boolean(b))
<1>1. Boolean(b)[1] = "boolean"
  BY DEF Boolean
<1>2. QED BY <1>1, SimpleIsValue DEF Simple

\* A number is cut to its width.
LEMMA NumberIsValue == ASSUME NEW nulls, NEW n \in Int PROVE IsValue(nulls, Number(n))
<1> DEFINE M == 2 ^ Width
           v == Number(n)
<1>1. M \in Nat \ {0}
  BY WidthAssumption
<1>2. v[1] = "number" /\ v[2] = n % M
  BY DEF Number
<1> HIDE DEF M, v
<1>3. v[2] \in Nat
  BY <1>1, <1>2, SMT
<1>4. Shaped(nulls, v) /\ Parts(v) = {}
  BY <1>2, <1>3 DEF Shaped, Parts
<1>5. QED BY <1>4, ValueFrom DEF v

LEMMA TupleIsValue == ASSUME NEW nulls, NEW s, ValueSeq(nulls, s) PROVE IsValue(nulls, Tuple(s))
<1>1. Tuple(s)[1] = "tuple" /\ Tuple(s)[2] = s
  BY DEF Tuple
<1>2. Parts(Tuple(s)) = Items(s)
  BY <1>1 DEF Parts
<1>3. Shaped(nulls, Tuple(s))
  BY <1>1 DEF Shaped, ValueSeq
<1>4. \A p \in Items(s) : IsValue(nulls, p)
  BY DEF Items, ValueSeq
<1>5. QED BY <1>2, <1>3, <1>4, ValueFrom

\* The items of a tuple, and what a set, a table or an operation holds.
LEMMA TupleHas ==
  ASSUME NEW nulls, NEW v, IsValue(nulls, v), v[1] = "tuple"
  PROVE  ValueSeq(nulls, v[2])
<1>1. Parts(v) = Items(v[2])
  BY DEF Parts
<1>2. IsSeq(v[2])
  BY ValueHas DEF Shaped
<1>3. QED BY <1>1, <1>2, ValueHas DEF Items, ValueSeq

LEMMA SetHolds ==
  ASSUME NEW nulls, NEW v, IsValue(nulls, v), v[1] = "set"
  PROVE  IsFiniteSet(v[2]) /\ Apart(v[2]) /\ \A x \in v[2] : IsValue(nulls, x)
<1>1. Parts(v) = v[2]
  BY DEF Parts
<1>2. QED BY <1>1, ValueHas DEF Shaped

LEMMA SetIsValue ==
  ASSUME NEW nulls, NEW S, IsFiniteSet(S), Apart(S), \A x \in S : IsValue(nulls, x)
  PROVE  IsValue(nulls, <<"set", S>>)
<1> DEFINE v == <<"set", S>>
<1>1. v[1] = "set" /\ v[2] = S
  OBVIOUS
<1> HIDE DEF v
<1>2. Parts(v) = S
  BY <1>1 DEF Parts
<1>3. Shaped(nulls, v)
  BY <1>1 DEF Shaped
<1>4. QED BY <1>2, <1>3, ValueFrom DEF v

\* The contents of a table.
IsTable(nulls, f) ==
  /\ IsFiniteSet(DOMAIN f) /\ Apart(DOMAIN f)
  /\ \A k \in DOMAIN f : IsValue(nulls, k) /\ IsValue(nulls, f[k])

LEMMA TableHolds ==
  ASSUME NEW nulls, NEW v, IsValue(nulls, v), v[1] = "table"
  PROVE  IsTable(nulls, v[2])
<1>1. Parts(v) = DOMAIN v[2] \cup Items(v[2])
  BY DEF Parts
<1>2. \A k \in DOMAIN v[2] : k \in Parts(v) /\ v[2][k] \in Parts(v)
  BY <1>1 DEF Items
<1>3. QED BY <1>2, ValueHas DEF Shaped, IsTable

LEMMA TableIsValue ==
  ASSUME NEW nulls, NEW f, IsTable(nulls, f)
  PROVE  IsValue(nulls, <<"table", f>>)
<1> DEFINE v == <<"table", f>>
<1>1. v[1] = "table" /\ v[2] = f
  OBVIOUS
<1> HIDE DEF v
<1>2. Parts(v) = DOMAIN f \cup Items(f)
  BY <1>1 DEF Parts
<1>3. Shaped(nulls, v)
  BY <1>1 DEF Shaped, IsTable
<1>4. \A p \in Parts(v) : IsValue(nulls, p)
  BY <1>2 DEF IsTable, Items
<1>5. QED BY <1>3, <1>4, ValueFrom DEF v

LEMMA StringIsValue == ASSUME NEW nulls, NEW s, IsSeq(s) PROVE IsValue(nulls, <<"string", s>>)
<1> DEFINE v == <<"string", s>>
<1>1. v[1] = "string" /\ v[2] = s
  OBVIOUS
<1> HIDE DEF v
<1>2. Parts(v) = {} /\ Shaped(nulls, v)
  BY <1>1 DEF Parts, Shaped
<1>3. QED BY <1>2, ValueFrom DEF v

LEMMA StringHas == ASSUME NEW nulls, NEW v, IsValue(nulls, v), v[1] = "string" PROVE IsSeq(v[2])
BY ValueHas DEF Shaped

LEMMA OperationHas ==
  ASSUME NEW nulls, NEW v, IsValue(nulls, v), v[1] \in {"operation", "push", "iftrue"}
  PROVE  IsValue(nulls, v[2])
<1>1. Parts(v) = {v[2]}
  BY DEF Parts
<1>2. QED BY <1>1, ValueHas

LEMMA OperationIsValue ==
  ASSUME NEW nulls, NEW o, IsValue(nulls, o)
  PROVE  IsValue(nulls, <<"operation", o>>)
<1> DEFINE v == <<"operation", o>>
<1>1. v[1] = "operation" /\ v[2] = o
  OBVIOUS
<1> HIDE DEF v
<1>2. Parts(v) = {o} /\ Shaped(nulls, v)
  BY <1>1 DEF Parts, Shaped
<1>3. QED BY <1>2, ValueFrom DEF v

LEMMA NumberHas == ASSUME NEW nulls, NEW v, IsValue(nulls, v), v[1] = "number" PROVE v[2] \in Nat
BY ValueHas DEF Shaped

(***************************************************************************)
(* Sequences of values.                                                    *)
(***************************************************************************)
LEMMA NoValues == ASSUME NEW nulls PROVE ValueSeq(nulls, <<>>)
BY EmptyIsSeq DEF ValueSeq

LEMMA OneValue ==
  ASSUME NEW nulls, NEW v, IsValue(nulls, v)
  PROVE  ValueSeq(nulls, <<v>>) /\ Len(<<v>>) = 1 /\ <<v>>[1] = v
<1>1. <<v>> \in Seq({v}) /\ Len(<<v>>) = 1 /\ DOMAIN <<v>> = {1} /\ <<v>>[1] = v
  OBVIOUS
<1>2. QED BY <1>1, SeqIsSeq DEF ValueSeq

LEMMA TwoValues ==
  ASSUME NEW nulls, NEW v, NEW w, IsValue(nulls, v), IsValue(nulls, w)
  PROVE  ValueSeq(nulls, <<v, w>>) /\ Len(<<v, w>>) = 2 /\ <<v, w>>[1] = v /\ <<v, w>>[2] = w
<1>1. /\ <<v, w>> \in Seq({v, w}) /\ Len(<<v, w>>) = 2 /\ DOMAIN <<v, w>> = {1, 2}
      /\ <<v, w>>[1] = v /\ <<v, w>>[2] = w
  OBVIOUS
<1>2. QED BY <1>1, SeqIsSeq DEF ValueSeq

LEMMA ThreeValues ==
  ASSUME NEW nulls, NEW v, NEW w, NEW x, IsValue(nulls, v), IsValue(nulls, w), IsValue(nulls, x)
  PROVE  /\ ValueSeq(nulls, <<v, w, x>>) /\ Len(<<v, w, x>>) = 3
         /\ <<v, w, x>>[1] = v /\ <<v, w, x>>[2] = w /\ <<v, w, x>>[3] = x
<1>1. /\ <<v, w, x>> \in Seq({v, w, x}) /\ Len(<<v, w, x>>) = 3 /\ DOMAIN <<v, w, x>> = {1, 2, 3}
      /\ <<v, w, x>>[1] = v /\ <<v, w, x>>[2] = w /\ <<v, w, x>>[3] = x
  OBVIOUS
<1>2. QED BY <1>1, SeqIsSeq DEF ValueSeq

LEMMA ValueOfSeq ==
  ASSUME NEW nulls, NEW s, ValueSeq(nulls, s), NEW i \in 1..Len(s)
  PROVE  IsValue(nulls, s[i])
BY SeqLength DEF ValueSeq

LEMMA ValuesOfSeq ==
  ASSUME NEW nulls, NEW s, IsSeq(s), \A i \in 1..Len(s) : IsValue(nulls, s[i])
  PROVE  ValueSeq(nulls, s)
BY SeqLength DEF ValueSeq

LEMMA ConcatValues ==
  ASSUME NEW nulls, NEW s, ValueSeq(nulls, s), NEW t, ValueSeq(nulls, t)
  PROVE  ValueSeq(nulls, s \o t) /\ Len(s \o t) = Len(s) + Len(t)
<1>1. PICK m \in Nat, n \in Nat : m = Len(s) /\ n = Len(t)
  BY SeqLength DEF ValueSeq
<1>2. /\ IsSeq(s \o t) /\ Len(s \o t) = m + n
      /\ \A i \in 1..m : (s \o t)[i] = s[i]
      /\ \A i \in 1..n : (s \o t)[m + i] = t[i]
  BY <1>1, ConcatIsSeq DEF ValueSeq
<1>3. ASSUME NEW i \in 1..(m + n) PROVE IsValue(nulls, (s \o t)[i])
  <2>1. CASE i <= m
    <3>1. i \in 1..m
      BY <2>1, SMT
    <3>2. QED BY <1>1, <1>2, <3>1, ValueOfSeq
  <2>2. CASE ~(i <= m)
    <3>1. i - m \in 1..n /\ m + (i - m) = i
      BY <2>2, SMT
    <3>2. (s \o t)[i] = t[i - m]
      BY <1>2, <3>1
    <3>3. QED BY <1>1, <3>1, <3>2, ValueOfSeq
  <2>3. QED BY <2>1, <2>2
<1>4. QED BY <1>1, <1>2, <1>3, ValuesOfSeq

\* Pushing a value is pushing a sequence of one.
LEMMA AppendIsPush ==
  ASSUME NEW s, IsSeq(s), NEW v
  PROVE  Append(s, v) = s \o <<v>>
<1> DEFINE R == {s[i] : i \in DOMAIN s} \cup {v}
<1>1. s \in Seq(R)
  BY SeqMonotonic DEF IsSeq
<1>2. v \in R
  OBVIOUS
<1> HIDE DEF R
<1>3. QED BY <1>1, <1>2, AppendIsConcat

LEMMA AppendValues ==
  ASSUME NEW nulls, NEW s, ValueSeq(nulls, s), NEW v, IsValue(nulls, v)
  PROVE  ValueSeq(nulls, Append(s, v)) /\ Len(Append(s, v)) = Len(s) + 1
<1>1. Append(s, v) = s \o <<v>>
  BY AppendIsPush DEF ValueSeq
<1>2. QED BY <1>1, OneValue, ConcatValues

LEMMA BottomValues ==
  ASSUME NEW nulls, NEW s, ValueSeq(nulls, s), NEW n \in Int, n <= Len(s)
  PROVE  ValueSeq(nulls, SubSeq(s, 1, n))
<1>1. PICK m \in Nat : m = Len(s)
  BY SeqLength DEF ValueSeq
<1>2. /\ IsSeq(SubSeq(s, 1, n)) /\ Len(SubSeq(s, 1, n)) = IF 1 <= n THEN n ELSE 0
      /\ \A i \in 1..n : SubSeq(s, 1, n)[i] = s[i]
  BY BottomIsSeq DEF ValueSeq
<1>3. \A i \in 1..(IF 1 <= n THEN n ELSE 0) : i \in 1..n /\ i \in 1..m
  BY <1>1, SMT
<1>4. \A i \in 1..(IF 1 <= n THEN n ELSE 0) : IsValue(nulls, SubSeq(s, 1, n)[i])
  BY <1>1, <1>2, <1>3, ValueOfSeq
<1>5. QED BY <1>2, <1>4, ValuesOfSeq

(***************************************************************************)
(* Lookup and growth of sets and tables.                                   *)
(***************************************************************************)
LEMMA SetGrows ==
  ASSUME NEW nulls, NEW S, IsFiniteSet(S), Apart(S), \A x \in S : IsValue(nulls, x), NEW v,
         IsValue(nulls, v)
  PROVE  IsValue(nulls, <<"set", SetAdd(S, v)>>)
<1>1. CASE SetHas(S, v)
  BY <1>1, SetIsValue DEF SetAdd
<1>2. CASE ~SetHas(S, v)
  <2>1. SetAdd(S, v) = S \cup {v} /\ IsFiniteSet(S \cup {v})
    BY <1>2, FS_AddElement DEF SetAdd
  <2>2. \A x \in S : ~Match(v, x)
    BY <1>2 DEF SetHas
  <2>3. Apart(S \cup {v})
    BY <2>2 DEF Apart
  <2>4. \A x \in S \cup {v} : IsValue(nulls, x)
    OBVIOUS
  <2>5. QED BY <2>1, <2>3, <2>4, SetIsValue
<1>3. QED BY <1>1, <1>2

LEMMA TableGrows ==
  ASSUME NEW nulls, NEW f, IsTable(nulls, f), NEW k, IsValue(nulls, k), NEW v, IsValue(nulls, v)
  PROVE  IsTable(nulls, TableAdd(f, k, v))
<1>1. CASE TableHas(f, k)
  BY <1>1 DEF TableAdd
<1>2. CASE ~TableHas(f, k)
  <2> DEFINE g == [x \in DOMAIN f \cup {k} |-> IF x = k THEN v ELSE f[x]]
  <2>1. TableAdd(f, k, v) = g
    BY <1>2 DEF TableAdd
  <2>2. DOMAIN g = DOMAIN f \cup {k} /\ IsFiniteSet(DOMAIN f \cup {k})
    BY FS_AddElement DEF IsTable
  <2>3. \A x \in DOMAIN f : ~Match(k, x)
    BY <1>2 DEF TableHas
  <2>4. Apart(DOMAIN f \cup {k})
    BY <2>3 DEF Apart, IsTable
  <2>5. \A x \in DOMAIN f \cup {k} : IsValue(nulls, x) /\ IsValue(nulls, g[x])
    BY DEF IsTable
  <2> HIDE DEF g
  <2>6. QED BY <2>1, <2>2, <2>4, <2>5 DEF IsTable
<1>3. QED BY <1>1, <1>2

LEMMA FoundIsValue ==
  ASSUME NEW nulls, NEW f, \A x \in DOMAIN f : IsValue(nulls, f[x]), NEW k,
         NEW found \in TableFinds(f, k), found # Null
  PROVE  IsValue(nulls, found) /\ \E x \in DOMAIN f : found = f[x]
BY DEF TableFinds

(***************************************************************************)
(* The items of a container, in any order, and the container grown.        *)
(***************************************************************************)
LEMMA CountIsNat ==
  ASSUME NEW nulls, NEW v, IsValue(nulls, v), Iterable(v)
  PROVE  Count(v) \in Nat
<1>1. CASE v[1] \in {"tuple", "string"}
  <2>1. IsSeq(v[2])
    BY <1>1, ValueHas DEF Shaped
  <2>2. Count(v) = Len(v[2])
    BY <1>1 DEF Count
  <2>3. QED BY <2>1, <2>2, SeqLength
<1>2. CASE v[1] = "set"
  <2>1. Count(v) = Cardinality(v[2])
    BY <1>2 DEF Count
  <2>2. QED BY <1>2, <2>1, SetHolds, FS_CardinalityType
<1>3. CASE v[1] = "table"
  <2>1. Count(v) = Cardinality(DOMAIN v[2])
    BY <1>3 DEF Count
  <2>2. QED BY <1>3, <2>1, TableHolds, FS_CardinalityType DEF IsTable
<1>4. QED BY <1>1, <1>2, <1>3 DEF Iterable, Containers

\* The members of a finite set in some order.
LEMMA OrderOfSet ==
  ASSUME NEW S, IsFiniteSet(S), NEW s \in SE!SetToSeqs(S)
  PROVE  /\ Cardinality(S) \in Nat /\ IsSeq(s) /\ Len(s) = Cardinality(S)
         /\ DOMAIN s = 1..Len(s) /\ \A i \in DOMAIN s : s[i] \in S
<1>1. Cardinality(S) \in Nat
  BY FS_CardinalityType
<1>2. s \in [1..Cardinality(S) -> S]
  <2>1. SE!Cardinality(S) = Cardinality(S)
    BY Zenon DEF SE!Cardinality, Cardinality
  <2>2. s \in [1..SE!Cardinality(S) -> S]
    BY DEF SE!SetToSeqs
  <2>3. QED BY <2>1, <2>2
<1>3. PICK n \in Nat : n = Cardinality(S)
  BY <1>1
<1>4. s = [i \in 1..n |-> s[i]] /\ DOMAIN s = 1..n /\ \A i \in 1..n : s[i] \in S
  BY <1>2, <1>3
<1>5. QED BY <1>3, <1>4, FunctionIsSeq

LEMMA OrdersAreValues ==
  ASSUME NEW nulls, NEW v, IsValue(nulls, v), Iterable(v), NEW items \in Orders(v)
  PROVE  ValueSeq(nulls, items) /\ Len(items) = Count(v)
<1>1. CASE v[1] = "tuple"
  <2>1. items = v[2] /\ Count(v) = Len(v[2])
    BY <1>1 DEF Orders, Count
  <2>2. QED BY <1>1, <2>1, TupleHas
<1>2. CASE v[1] = "string"
  <2>1. items = [i \in DOMAIN v[2] |-> <<"character", v[2][i]>>] /\ Count(v) = Len(v[2])
    BY <1>2 DEF Orders, Count
  <2>2. PICK n \in Nat : n = Len(v[2]) /\ DOMAIN v[2] = 1..n
    BY <1>2, StringHas, SeqLength
  <2>3. \A i \in 1..n : items[i][1] = "character"
    BY <2>1, <2>2
  <2>4. \A i \in 1..n : IsValue(nulls, items[i])
    BY <2>3, SimpleIsValue DEF Simple
  <2>5. items = [i \in 1..n |-> items[i]]
    BY <2>1, <2>2
  <2>6. IsSeq(items) /\ Len(items) = n
    BY <2>5, FunctionIsSeq
  <2>7. QED BY <2>1, <2>2, <2>4, <2>6, ValuesOfSeq
<1>3. CASE v[1] = "set"
  <2>1. items \in SE!SetToSeqs(v[2]) /\ Count(v) = Cardinality(v[2])
    BY <1>3 DEF Orders, Count
  <2>2. IsFiniteSet(v[2]) /\ \A x \in v[2] : IsValue(nulls, x)
    BY <1>3, SetHolds
  <2>3. IsSeq(items) /\ Len(items) = Count(v) /\ \A i \in DOMAIN items : IsValue(nulls, items[i])
    BY <2>1, <2>2, OrderOfSet
  <2>4. QED BY <2>3 DEF ValueSeq
<1>4. CASE v[1] = "table"
  <2>1. PICK ks \in SE!SetToSeqs(DOMAIN v[2]) :
          items = [i \in DOMAIN ks |-> Tuple(<<ks[i], v[2][ks[i]]>>)]
    BY <1>4 DEF Orders
  <2>2. Count(v) = Cardinality(DOMAIN v[2])
    BY <1>4 DEF Count
  <2>3. IsTable(nulls, v[2])
    BY <1>4, TableHolds
  <2>4. PICK n \in Nat : /\ Len(ks) = n /\ n = Count(v) /\ DOMAIN ks = 1..n
                         /\ \A i \in 1..n : ks[i] \in DOMAIN v[2]
    BY <2>2, <2>3, OrderOfSet DEF IsTable
  <2>5. items = [i \in 1..n |-> items[i]] /\ \A i \in 1..n : items[i] = Tuple(<<ks[i], v[2][ks[i]]>>)
    BY <2>1, <2>4
  <2>6. ASSUME NEW i \in 1..n PROVE IsValue(nulls, items[i])
    <3>1. ValueSeq(nulls, <<ks[i], v[2][ks[i]]>>)
      BY <2>3, <2>4, TwoValues DEF IsTable
    <3>2. QED BY <2>5, <3>1, TupleIsValue
  <2>7. IsSeq(items) /\ Len(items) = n
    BY <2>5, FunctionIsSeq
  <2>8. QED BY <2>4, <2>6, <2>7, ValuesOfSeq
<1>5. QED BY <1>1, <1>2, <1>3, <1>4 DEF Iterable, Containers

\* A pair of a table's key and value.
LEMMA PairHas ==
  ASSUME NEW nulls, NEW v, IsValue(nulls, v), IsPair(v)
  PROVE  IsValue(nulls, v[2][1]) /\ IsValue(nulls, v[2][2])
<1>1. ValueSeq(nulls, v[2]) /\ Len(v[2]) = 2
  BY TupleHas DEF IsPair, IsA
<1>2. 1 \in 1..Len(v[2]) /\ 2 \in 1..Len(v[2])
  BY <1>1, SMT
<1>3. QED BY <1>1, <1>2, ValueOfSeq

LEMMA AppendValueIsValue ==
  ASSUME NEW nulls, NEW c, IsValue(nulls, c), NEW v, IsValue(nulls, v)
  PROVE  IsValue(nulls, AppendValue(c, v))
<1>1. CASE c[1] = "tuple"
  <2>1. AppendValue(c, v) = Tuple(Append(c[2], v))
    BY <1>1 DEF AppendValue
  <2>2. QED BY <1>1, <2>1, TupleHas, AppendValues, TupleIsValue
<1>2. CASE c[1] = "set"
  <2>1. AppendValue(c, v) = <<"set", SetAdd(c[2], v)>>
    BY <1>2 DEF AppendValue
  <2>2. QED BY <1>2, <2>1, SetHolds, SetGrows
<1>3. CASE c[1] = "string" /\ IsA(v, "character")
  <2>1. AppendValue(c, v) = <<"string", Append(c[2], v[2])>>
    BY <1>3 DEF AppendValue, IsA
  <2>2. IsSeq(c[2])
    BY <1>3, StringHas
  <2>3. QED BY <2>1, <2>2, AppendIsSeq, StringIsValue
<1>4. CASE c[1] = "string" /\ IsA(v, "string")
  <2>1. AppendValue(c, v) = <<"string", c[2] \o v[2]>>
    BY <1>4 DEF AppendValue, IsA
  <2>2. IsSeq(c[2]) /\ IsSeq(v[2])
    BY <1>4, StringHas DEF IsA
  <2>3. QED BY <2>1, <2>2, ConcatIsSeq, StringIsValue
<1>5. CASE c[1] = "table" /\ IsPair(v)
  <2>1. AppendValue(c, v) = <<"table", TableAdd(c[2], v[2][1], v[2][2])>>
    BY <1>5 DEF AppendValue
  <2>2. IsTable(nulls, c[2]) /\ IsValue(nulls, v[2][1]) /\ IsValue(nulls, v[2][2])
    BY <1>5, TableHolds, PairHas
  <2>3. QED BY <2>1, <2>2, TableGrows, TableIsValue
<1>6. CASE ~(\/ c[1] \in {"tuple", "set"}
             \/ c[1] = "string" /\ (IsA(v, "character") \/ IsA(v, "string"))
             \/ c[1] = "table" /\ IsPair(v))
  <2>1. AppendValue(c, v) = Error("TYPE_MISMATCH")
    BY <1>6, Zenon DEF AppendValue
  <2>2. QED BY <2>1, ErrorIsValue
<1>7. QED BY <1>1, <1>2, <1>3, <1>4, <1>5, <1>6

LEMMA ShownIsValue ==
  ASSUME NEW nulls, NEW c, IsValue(nulls, c)
  PROVE  IsValue(nulls, Shown(c)) /\ Shown(c)[1] = c[1]
<1>1. CASE IsA(c, "table")
  <2> DEFINE g == [k \in DOMAIN c[2] |-> IF c[2][k] = Null THEN <<"empty">> ELSE c[2][k]]
  <2>1. Shown(c) = <<"table", g>>
    BY <1>1 DEF Shown
  <2>2. IsTable(nulls, c[2])
    BY <1>1, TableHolds DEF IsA
  <2>3. IsValue(nulls, <<"empty">>)
    <3>1. <<"empty">>[1] \in Simple
      BY DEF Simple
    <3>2. QED BY <3>1, SimpleIsValue
  <2>4. DOMAIN g = DOMAIN c[2] /\ \A k \in DOMAIN c[2] : IsValue(nulls, g[k])
    BY <2>2, <2>3 DEF IsTable
  <2> HIDE DEF g
  <2>5. IsTable(nulls, g)
    BY <2>2, <2>4 DEF IsTable
  <2>6. QED BY <1>1, <2>1, <2>5, TableIsValue DEF IsA
<1>2. CASE ~IsA(c, "table")
  BY <1>2 DEF Shown
<1>3. QED BY <1>1, <1>2

\* A copy of a set or a table has some of its entries.
LEMMA CloneIsValue ==
  ASSUME NEW nulls, NEW c, IsValue(nulls, c), NEW cloned \in Clones(c)
  PROVE  IsValue(nulls, cloned)
<1>1. CASE c[1] = "set"
  <2>1. PICK T \in Survivors(c[2]) : cloned = <<"set", T>>
    BY <1>1 DEF Clones
  <2>2. T \subseteq c[2]
    BY DEF Survivors
  <2>3. IsFiniteSet(c[2]) /\ Apart(c[2]) /\ \A x \in c[2] : IsValue(nulls, x)
    BY <1>1, SetHolds
  <2>4. IsFiniteSet(T)
    BY <2>2, <2>3, FS_Subset
  <2>5. Apart(T) /\ \A x \in T : IsValue(nulls, x)
    BY <2>2, <2>3 DEF Apart
  <2>6. QED BY <2>1, <2>4, <2>5, SetIsValue
<1>2. CASE c[1] = "table"
  <2>1. PICK T \in Survivors(DOMAIN c[2]) : cloned = <<"table", [k \in T |-> Shown(c)[2][k]]>>
    BY <1>2 DEF Clones
  <2>2. T \subseteq DOMAIN c[2]
    BY DEF Survivors
  <2>3. IsTable(nulls, c[2])
    BY <1>2, TableHolds
  <2>4. \A k \in DOMAIN c[2] : IsValue(nulls, Shown(c)[2][k])
    <3>1. IsTable(nulls, Shown(c)[2])
      BY <1>2, ShownIsValue, TableHolds
    <3>2. DOMAIN Shown(c)[2] = DOMAIN c[2]
      BY <1>2 DEF Shown, IsA
    <3>3. QED BY <3>1, <3>2 DEF IsTable
  <2> DEFINE g == [k \in T |-> Shown(c)[2][k]]
  <2>5. DOMAIN g = T /\ IsFiniteSet(T) /\ Apart(T)
    BY <2>2, <2>3, FS_Subset DEF IsTable, Apart
  <2>6. \A k \in T : IsValue(nulls, k) /\ IsValue(nulls, g[k])
    BY <2>2, <2>3, <2>4 DEF IsTable
  <2> HIDE DEF g
  <2>7. IsTable(nulls, g)
    BY <2>5, <2>6 DEF IsTable
  <2>8. cloned = <<"table", g>>
    BY <2>1 DEF g
  <2>9. QED BY <2>7, <2>8, TableIsValue
<1>3. CASE c[1] \notin {"set", "table"}
  BY <1>3, Zenon DEF Clones
<1>4. QED BY <1>1, <1>2, <1>3

(***************************************************************************)
(* Conversions.  A tuple of pairs becomes a table entry by entry.          *)
(***************************************************************************)
\* The tables that come of the first entries, by their number.
IsFold(g, s, n) ==
  g = [i \in 0..n |-> IF i = 0 THEN <<>> ELSE TableAdd(g[i - 1], s[i][2][1], s[i][2][2])]

LEMMA FoldExists == ASSUME NEW s PROVE \A n \in Nat : \E g : IsFold(g, s, n)
<1> DEFINE S == {n \in Nat : \E g : IsFold(g, s, n)}
<1>1. 0 \in S
  <2> DEFINE w == [i \in 0..0 |-> <<>>]
  <2>1. \A i \in 0..0 : w[i] = IF i = 0 THEN <<>> ELSE TableAdd(w[i - 1], s[i][2][1], s[i][2][2])
    <3>1. \A i \in 0..0 : i = 0 /\ w[i] = <<>>
      BY SMT
    <3> HIDE DEF w
    <3>2. QED BY <3>1
  <2>2. w = [i \in 0..0 |-> w[i]]
    OBVIOUS
  <2> HIDE DEF w
  <2>3. IsFold(w, s, 0)
    BY <2>1, <2>2, Zenon DEF IsFold
  <2>4. QED BY <2>3
<1>2. ASSUME NEW n \in Nat, n \in S PROVE n + 1 \in S
  <2>1. PICK g : IsFold(g, s, n)
    BY <1>2
  <2> DEFINE x == TableAdd(g[n], s[n + 1][2][1], s[n + 1][2][2])
             w == [i \in 0..(n + 1) |-> IF i <= n THEN g[i] ELSE x]
  <2>2. IsFold(w, s, n + 1)
    <3>0. \A i \in 0..n : g[i] = IF i = 0 THEN <<>> ELSE TableAdd(g[i - 1], s[i][2][1], s[i][2][2])
      BY <2>1, Zenon DEF IsFold
    <3>1. \A i \in 0..n : i \in 0..(n + 1) /\ i <= n
      BY SMT
    <3>2. \A i \in 0..n : w[i] = g[i]
      <4> HIDE DEF x
      <4>1. QED BY <3>1, Zenon
    <3>3. w[n + 1] = x
      <4> HIDE DEF x
      <4>1. n + 1 \in 0..(n + 1) /\ ~(n + 1 <= n)
        BY SMT
      <4>2. QED BY <4>1, Zenon
    <3>4. \A i \in 0..(n + 1) : \/ i \in 0..n /\ (i = 0 \/ (i # 0 /\ i - 1 \in 0..n))
                                \/ i = n + 1 /\ i # 0 /\ i - 1 = n /\ n \in 0..n
      BY SMT
    <3>5. w = [i \in 0..(n + 1) |-> w[i]]
      OBVIOUS
    <3>6. x = TableAdd(g[n], s[n + 1][2][1], s[n + 1][2][2])
      OBVIOUS
    <3> HIDE DEF w, x
    <3>7. \A i \in 0..(n + 1) : w[i] = IF i = 0 THEN <<>> ELSE TableAdd(w[i - 1], s[i][2][1], s[i][2][2])
      BY <3>0, <3>2, <3>3, <3>4, <3>6, Zenon
    <3>8. QED BY <3>5, <3>7, Zenon DEF IsFold
  <2>3. QED BY <2>2
<1>3. \A n \in Nat : n \in S
  <2> HIDE DEF S
  <2>1. QED BY <1>1, <1>2, Induction, Zenon
<1>4. QED BY <1>3

LEMMA FoldIsTable ==
  ASSUME NEW nulls, NEW s, ValueSeq(nulls, s), \A i \in 1..Len(s) : IsPair(s[i])
  PROVE  IsTable(nulls, FoldTable(s))
<1>1. PICK m \in Nat : m = Len(s)
  BY SeqLength DEF ValueSeq
<1> DEFINE g == CHOOSE h : IsFold(h, s, m)
<1>2. IsFold(g, s, m)
  BY FoldExists, Zenon
<1>3. FoldTable(s) = g[m]
  BY <1>1, Zenon DEF FoldTable, IsFold
<1> HIDE DEF g
<1> DEFINE S == {n \in Nat : n <= m => IsTable(nulls, g[n])}
<1>4. \A i \in 0..m : g[i] = IF i = 0 THEN <<>> ELSE TableAdd(g[i - 1], s[i][2][1], s[i][2][2])
  BY <1>2, Zenon DEF IsFold
<1>5. 0 \in S
  <2>1. 0 \in 0..m
    BY SMT
  <2>2. g[0] = <<>>
    BY <1>4, <2>1
  <2>3. IsTable(nulls, <<>>)
    BY EmptyIsSeq, FS_EmptySet DEF IsTable, Apart
  <2>4. QED BY <2>2, <2>3
<1>6. ASSUME NEW n \in Nat, n \in S PROVE n + 1 \in S
  <2>1. SUFFICES ASSUME n + 1 <= m PROVE IsTable(nulls, g[n + 1])
    BY SMT
  <2>2. n + 1 \in 0..m /\ n + 1 \in 1..m /\ n + 1 # 0 /\ (n + 1) - 1 = n /\ n <= m
    BY <2>1, SMT
  <2>3. g[n + 1] = TableAdd(g[n], s[n + 1][2][1], s[n + 1][2][2])
    BY <1>4, <2>2
  <2>4. IsValue(nulls, s[n + 1]) /\ IsPair(s[n + 1])
    BY <1>1, <2>2, ValueOfSeq
  <2>5. IsTable(nulls, g[n])
    BY <1>6, <2>2
  <2>6. IsValue(nulls, s[n + 1][2][1]) /\ IsValue(nulls, s[n + 1][2][2])
    BY <2>4, PairHas
  <2>7. QED BY <2>3, <2>5, <2>6, TableGrows
<1>7. \A n \in Nat : n \in S
  <2> HIDE DEF S
  <2>1. QED BY <1>5, <1>6, Induction, Zenon
<1>8. m \in S
  BY <1>7
<1>9. QED BY <1>3, <1>8

\* The text of a value that has one is a text, and what the parser makes is a value.
TextsAreText(nulls) == \A v : IsValue(nulls, v) /\ Intact(v) => IsSeq(Describe(v))
ParserMakesValues(nulls) ==
  \A s : IsSeq(s) /\ Parsed(s) # Null => IsValue(nulls, Parsed(s))

LEMMA BlockIsValue ==
  ASSUME NEW nulls, NEW b, NEW names, IsSeq(names), NEW body, ValueSeq(nulls, body)
  PROVE  IsValue(nulls, <<"block", b, names, body>>)
<1> DEFINE v == <<"block", b, names, body>>
<1>1. v[1] = "block" /\ v[3] = names /\ v[4] = body
  OBVIOUS
<1> HIDE DEF v
<1>2. Parts(v) = Items(body)
  BY <1>1 DEF Parts
<1>3. Shaped(nulls, v)
  BY <1>1 DEF Shaped, ValueSeq
<1>4. \A p \in Parts(v) : IsValue(nulls, p)
  BY <1>2 DEF Items, ValueSeq
<1>5. QED BY <1>3, <1>4, ValueFrom DEF v

LEMMA BindIsValue ==
  ASSUME NEW nulls, NEW x, IsValue(nulls, x), NEW o, IsValue(nulls, o)
  PROVE  IsValue(nulls, <<"bind", x, o>>)
<1> DEFINE v == <<"bind", x, o>>
<1>1. v[1] = "bind" /\ v[2] = x /\ v[3] = o
  OBVIOUS
<1> HIDE DEF v
<1>2. Parts(v) = {x, o} /\ Shaped(nulls, v)
  BY <1>1 DEF Parts, Shaped
<1>3. QED BY <1>2, ValueFrom DEF v

LEMMA TupleCastIsValue ==
  ASSUME NEW nulls, NEW s, ValueSeq(nulls, s), NEW type, TupleCast(s, type) # Null
  PROVE  IsValue(nulls, TupleCast(s, type))
<1>1. PICK n \in Nat : n = Len(s) /\ DOMAIN s = 1..n
  BY SeqLength DEF ValueSeq
<1>2. CASE type = "block" /\ \A i \in DOMAIN s : Converts(s[i], type)
  <2> DEFINE body == [i \in DOMAIN s |-> s[i][2]]
             block == <<"block", NewBlock, <<>>, body>>
  <2>1. TupleCast(s, type) = <<"operation", block>>
    BY <1>2, Zenon DEF TupleCast
  <2>2. \A i \in 1..n : s[i][1] = "operation"
    BY <1>1, <1>2 DEF Converts, IsA
  <2>3. \A i \in 1..n : body[i] = s[i][2] /\ IsValue(nulls, s[i])
    BY <1>1, ValueOfSeq
  <2>4. \A i \in 1..n : IsValue(nulls, body[i])
    BY <2>2, <2>3, OperationHas
  <2>5. body = [i \in 1..n |-> body[i]]
    BY <1>1
  <2> HIDE DEF body
  <2>6. IsSeq(body) /\ Len(body) = n
    BY <2>5, FunctionIsSeq
  <2>7. ValueSeq(nulls, body)
    BY <2>4, <2>6, ValuesOfSeq
  <2>8. IsValue(nulls, block)
    BY <2>7, BlockIsValue, EmptyIsSeq
  <2>9. QED BY <2>1, <2>8, OperationIsValue
<1>3. CASE type = "table" /\ \A i \in DOMAIN s : Converts(s[i], type)
  <2>1. TupleCast(s, type) = <<"table", FoldTable(s)>>
    BY <1>3, Zenon DEF TupleCast
  <2>2. \A i \in 1..n : IsPair(s[i])
    BY <1>1, <1>3 DEF Converts
  <2>3. QED BY <1>1, <2>1, <2>2, FoldIsTable, TableIsValue
<1>4. CASE type = "bind" /\ Len(s) = 2 /\ IsA(s[2], "operation")
  <2>1. TupleCast(s, type) = <<"operation", <<"bind", s[1], s[2][2]>>>>
    BY <1>4, Zenon DEF TupleCast
  <2>2. 1 \in 1..Len(s) /\ 2 \in 1..Len(s)
    BY <1>4, SMT
  <2>3. IsValue(nulls, s[1]) /\ IsValue(nulls, s[2])
    BY <2>2, ValueOfSeq
  <2>4. IsValue(nulls, s[2][2])
    BY <1>4, <2>3, OperationHas DEF IsA
  <2>5. QED BY <2>1, <2>3, <2>4, BindIsValue, OperationIsValue
<1>5. CASE ~(\/ type = "block" /\ \A i \in DOMAIN s : Converts(s[i], type)
             \/ type = "table" /\ \A i \in DOMAIN s : Converts(s[i], type)
             \/ type = "bind" /\ Len(s) = 2 /\ IsA(s[2], "operation"))
  BY <1>5, Zenon DEF TupleCast
<1>6. QED BY <1>2, <1>3, <1>4, <1>5

LEMMA CastsAreValues ==
  ASSUME NEW nulls, TextsAreText(nulls), NEW v, IsValue(nulls, v), NEW type, ~CastFaults(v, type),
         NEW cv \in Casts(v, type), cv # Null
  PROVE  IsValue(nulls, cv)
<1>1. CASE type \in {v[1], "none"}
  BY <1>1 DEF Casts
<1>2. CASE type \notin {v[1], "none"} /\ type = "string"
  <2>1. cv = <<"string", Describe(v)>>
    BY <1>2 DEF Casts
  <2>2. Intact(v)
    BY <1>2 DEF CastFaults
  <2>3. QED BY <2>1, <2>2, StringIsValue DEF TextsAreText
<1>3. CASE type \notin {v[1], "none"} /\ type # "string" /\ v[1] = "tuple"
  <2>1. cv = TupleCast(v[2], type)
    BY <1>3 DEF Casts
  <2>2. QED BY <1>3, <2>1, TupleHas, TupleCastIsValue
<1>4. CASE /\ type \notin {v[1], "none"} /\ type # "string"
           /\ v[1] \in {"set", "table"} /\ type = "tuple"
  <2>1. PICK s \in Orders(Shown(v)) : cv = Tuple(s)
    BY <1>4 DEF Casts
  <2>2. IsValue(nulls, Shown(v)) /\ Shown(v)[1] = v[1]
    BY ShownIsValue
  <2>3. Iterable(Shown(v))
    BY <1>4, <2>2 DEF Iterable, Containers
  <2>4. QED BY <2>1, <2>2, <2>3, OrdersAreValues, TupleIsValue
<1>5. CASE /\ type \notin {v[1], "none"} /\ type # "string" /\ v[1] # "tuple"
           /\ ~(v[1] \in {"set", "table"} /\ type = "tuple")
  BY <1>5 DEF Casts
<1>6. QED BY <1>1, <1>2, <1>3, <1>4, <1>5

(***************************************************************************)
(* What the operations do to a stack of values.                            *)
(***************************************************************************)
LEMMA OperandIsValue ==
  ASSUME NEW nulls, ValueSeq(nulls, stack), NEW k \in Nat \ {0},
         k <= Len(stack) \/ Null \in nulls
  PROVE  IsValue(nulls, Operand(k))
<1>1. PICK n \in Nat : n = Len(stack)
  BY SeqLength DEF ValueSeq
<1>2. CASE k <= n
  <2>1. n - k + 1 \in 1..n
    BY <1>2, SMT
  <2>2. Operand(k) = stack[n - k + 1]
    BY <1>1, <1>2 DEF Operand
  <2>3. QED BY <1>1, <2>1, <2>2, ValueOfSeq
<1>3. CASE ~(k <= n)
  BY <1>1, <1>3, NullIsValue DEF Operand
<1>4. QED BY <1>2, <1>3

\* What is popped from a stack that is high enough, or may be a null.
LEMMA Operands ==
  ASSUME NEW nulls, ValueSeq(nulls, stack)
  PROVE  /\ Operand(1) # Null => IsValue(nulls, Operand(1))
         /\ Len(stack) >= 1 \/ Null \in nulls => IsValue(nulls, Operand(1))
         /\ Len(stack) >= 2 \/ Null \in nulls =>
              IsValue(nulls, Operand(1)) /\ IsValue(nulls, Operand(2))
         /\ Len(stack) >= 3 \/ Null \in nulls =>
              IsValue(nulls, Operand(1)) /\ IsValue(nulls, Operand(2)) /\ IsValue(nulls, Operand(3))
<1>1. 1 \in Nat \ {0} /\ 2 \in Nat \ {0} /\ 3 \in Nat \ {0}
  BY SMT
<1>2. PICK n \in Nat : n = Len(stack)
  BY SeqLength DEF ValueSeq
<1>3. /\ n >= 1 => 1 <= n
      /\ n >= 2 => 1 <= n /\ 2 <= n
      /\ n >= 3 => 1 <= n /\ 2 <= n /\ 3 <= n
  BY SMT
<1>4. Operand(1) # Null => 1 <= Len(stack)
  BY DEF Operand
<1>5. QED BY <1>1, <1>2, <1>3, <1>4, OperandIsValue

LEMMA WithoutSome ==
  ASSUME NEW nulls, ValueSeq(nulls, stack), NEW k \in 0..Len(stack)
  PROVE  /\ ValueSeq(nulls, Without(k)) /\ IsSeq(Without(k)) /\ Len(Without(k)) = Len(stack) - k
         /\ \A i \in 1..(Len(stack) - k) : Without(k)[i] = stack[i]
<1>1. PICK n \in Nat : n = Len(stack)
  BY SeqLength DEF ValueSeq
<1>2. n - k \in Int /\ n - k <= n /\ (IF 1 <= n - k THEN n - k ELSE 0) = n - k
  BY <1>1, SMT
<1>3. /\ IsSeq(SubSeq(stack, 1, n - k)) /\ Len(SubSeq(stack, 1, n - k)) = n - k
      /\ \A i \in 1..(n - k) : SubSeq(stack, 1, n - k)[i] = stack[i]
  BY <1>1, <1>2, BottomIsSeq DEF ValueSeq
<1>4. ValueSeq(nulls, SubSeq(stack, 1, n - k))
  BY <1>1, <1>2, BottomValues
<1>5. QED BY <1>1, <1>3, <1>4 DEF Without

\* Pushing back what was popped, in the right order, restores the stack.
LEMMA WithoutNone == ASSUME NEW nulls, ValueSeq(nulls, stack) PROVE Without(0) = stack
<1>1. PICK n \in Nat : n = Len(stack)
  BY SeqLength DEF ValueSeq
<1>2. 0 \in 0..n /\ n - 0 = n
  BY SMT
<1>3. IsSeq(Without(0)) /\ Len(Without(0)) = n /\ \A i \in 1..n : Without(0)[i] = stack[i]
  BY <1>1, <1>2, WithoutSome
<1>4. QED BY <1>1, <1>3, SeqSame DEF ValueSeq

LEMMA RestoreOne ==
  ASSUME NEW nulls, ValueSeq(nulls, stack), NEW k \in 1..Len(stack)
  PROVE  Append(Without(k), Operand(k)) = Without(k - 1)
<1>1. PICK n \in Nat : n = Len(stack)
  BY SeqLength DEF ValueSeq
<1>2. k \in 0..n /\ k - 1 \in 0..n /\ n - (k - 1) = (n - k) + 1 /\ n - k \in Nat /\ k <= n
  BY <1>1, SMT
<1>3. /\ IsSeq(Without(k)) /\ Len(Without(k)) = n - k
      /\ \A i \in 1..(n - k) : Without(k)[i] = stack[i]
  BY <1>1, <1>2, WithoutSome
<1>4. /\ IsSeq(Without(k - 1)) /\ Len(Without(k - 1)) = (n - k) + 1
      /\ \A i \in 1..((n - k) + 1) : Without(k - 1)[i] = stack[i]
  BY <1>1, <1>2, WithoutSome
<1> DEFINE t == Append(Without(k), Operand(k))
<1>5. /\ IsSeq(t) /\ Len(t) = (n - k) + 1 /\ t[(n - k) + 1] = Operand(k)
      /\ \A i \in 1..(n - k) : t[i] = Without(k)[i]
  BY <1>3, AppendIsSeq
<1>6. Operand(k) = stack[(n - k) + 1]
  BY <1>1, <1>2 DEF Operand
<1> HIDE DEF t
<1>7. ASSUME NEW i \in 1..((n - k) + 1) PROVE t[i] = Without(k - 1)[i]
  <2>1. i \in 1..(n - k) \/ i = (n - k) + 1
    BY <1>2, SMT
  <2>2. QED BY <1>3, <1>4, <1>5, <1>6, <2>1
<1>8. t = Without(k - 1)
  BY <1>4, <1>5, <1>7, SeqSame
<1>9. QED BY <1>8 DEF t

LEMMA Restore1 ==
  ASSUME NEW nulls, ValueSeq(nulls, stack), Len(stack) >= 1
  PROVE  Append(Without(1), Operand(1)) = stack
<1>1. 1 \in 1..Len(stack) /\ 1 - 1 = 0
  BY SeqLength, SMT DEF ValueSeq
<1>2. QED BY <1>1, RestoreOne, WithoutNone

\* Pushing two values is pushing the one and then the other.
InTurn(s, v, w) == s \o <<v, w>> = Append(Append(s, v), w)

LEMMA ConcatTwo ==
  ASSUME NEW s, IsSeq(s), NEW v, NEW w
  PROVE  InTurn(s, v, w)
<1> DEFINE t == s \o <<v, w>>
           u == Append(Append(s, v), w)
<1>1. IsSeq(<<v, w>>) /\ Len(<<v, w>>) = 2 /\ <<v, w>>[1] = v /\ <<v, w>>[2] = w
  <2>1. <<v, w>> \in Seq({v, w})
    OBVIOUS
  <2>2. QED BY <2>1, SeqIsSeq
<1>2. PICK n \in Nat : n = Len(s)
  BY SeqLength
<1>3. /\ IsSeq(t) /\ Len(t) = n + 2 /\ \A i \in 1..n : t[i] = s[i]
      /\ t[n + 1] = v /\ t[n + 2] = w
  <2>1. /\ IsSeq(t) /\ Len(t) = n + 2 /\ \A i \in 1..n : t[i] = s[i]
        /\ \A i \in 1..2 : t[n + i] = <<v, w>>[i]
    BY <1>1, <1>2, ConcatIsSeq
  <2>2. 1 \in 1..2 /\ 2 \in 1..2
    BY SMT
  <2> HIDE DEF t
  <2>3. QED BY <1>1, <2>1, <2>2
<1>4. /\ IsSeq(Append(s, v)) /\ Len(Append(s, v)) = n + 1 /\ Append(s, v)[n + 1] = v
      /\ \A i \in 1..n : Append(s, v)[i] = s[i]
  BY <1>2, AppendIsSeq
<1>5. /\ IsSeq(u) /\ Len(u) = (n + 1) + 1 /\ u[(n + 1) + 1] = w
      /\ \A i \in 1..(n + 1) : u[i] = Append(s, v)[i]
  BY <1>4, AppendIsSeq
<1> HIDE DEF t, u
<1>6. /\ (n + 1) + 1 = n + 2 /\ n + 1 \in 1..(n + 1) /\ \A i \in 1..n : i \in 1..(n + 1)
      /\ \A i \in 1..(n + 2) : i \in 1..n \/ i = n + 1 \/ i = n + 2
  BY SMT
<1>7. \A i \in 1..(n + 2) : t[i] = u[i]
  BY <1>3, <1>4, <1>5, <1>6
<1>8. t = u
  BY <1>3, <1>5, <1>6, <1>7, SeqSame
<1>9. QED BY <1>8 DEF t, u, InTurn

LEMMA Restore2 ==
  ASSUME NEW nulls, ValueSeq(nulls, stack), Len(stack) >= 2
  PROVE  Without(2) \o <<Operand(2), Operand(1)>> = stack
<1>1. 2 \in 1..Len(stack) /\ 2 - 1 = 1 /\ 2 \in 0..Len(stack) /\ Len(stack) >= 1
  BY SeqLength, SMT DEF ValueSeq
<1>2. Append(Without(2), Operand(2)) = Without(1)
  BY <1>1, RestoreOne
<1>3. IsSeq(Without(2))
  BY <1>1, WithoutSome
<1>4. Without(2) \o <<Operand(2), Operand(1)>> = Append(Append(Without(2), Operand(2)), Operand(1))
  <2>1. InTurn(Without(2), Operand(2), Operand(1))
    BY <1>3, ConcatTwo
  <2>2. QED BY <2>1 DEF InTurn
<1>5. QED BY <1>1, <1>2, <1>4, Restore1

LEMMA Restore3 ==
  ASSUME NEW nulls, ValueSeq(nulls, stack), Len(stack) >= 3
  PROVE  Without(3) \o <<Operand(3), Operand(2), Operand(1)>> = stack
<1>1. /\ 3 \in 1..Len(stack) /\ 3 - 1 = 2 /\ 2 - 1 = 1 /\ 2 \in 1..Len(stack)
      /\ 3 \in 0..Len(stack) /\ 2 \in 0..Len(stack) /\ Len(stack) >= 2 /\ Len(stack) >= 1
  BY SeqLength, SMT DEF ValueSeq
<1> DEFINE a == Operand(3)
           b == Operand(2)
           c == Operand(1)
           w == Without(3)
<1>2. Append(w, a) = Without(2)
  BY <1>1, RestoreOne
<1>3. Append(Without(2), b) = Without(1) /\ Append(Without(1), c) = stack
  BY <1>1, RestoreOne, Restore1
<1>4. IsSeq(w)
  BY <1>1, WithoutSome
<1> HIDE DEF a, b, c, w
<1>5. <<a, b, c>> = Append(<<a, b>>, c)
  OBVIOUS
<1> DEFINE R == {w[i] : i \in DOMAIN w} \cup {a, b, c}
<1>6. w \in Seq(R)
  BY <1>4, SeqMonotonic DEF IsSeq
<1>7. a \in R /\ b \in R /\ c \in R
  OBVIOUS
<1> HIDE DEF R
<1>8. <<a, b>> \in Seq(R) /\ <<c>> \in Seq(R) /\ <<a, b, c>> = <<a, b>> \o <<c>>
  BY <1>7
<1>9. w \o <<a, b, c>> = (w \o <<a, b>>) \o <<c>>
  <2>1. (w \o <<a, b>>) \o <<c>> = w \o (<<a, b>> \o <<c>>)
    BY <1>6, <1>8, ConcatAssociative
  <2>2. QED BY <1>8, <2>1
<1>10. w \o <<a, b>> = Without(1)
  <2>1. InTurn(w, a, b)
    BY <1>4, ConcatTwo
  <2>2. QED BY <1>2, <1>3, <2>1 DEF InTurn
<1>11. Without(1) \o <<c>> = Append(Without(1), c)
  <2>1. IsSeq(Without(1))
    <3>1. 1 \in 0..Len(stack)
      BY <1>1, SMT
    <3>2. QED BY <3>1, WithoutSome
  <2>2. QED BY <2>1, AppendIsPush
<1>12. QED BY <1>3, <1>9, <1>10, <1>11 DEF a, b, c, w

(***************************************************************************)
(* What can come of an operation: the end of the process; an error, on top *)
(* of the very stack it found; or another result, with values in place of  *)
(* some of those it may take.                                              *)
(***************************************************************************)
\* How many values an operation may take.
Taken == IF current[1] = "pack" /\ IsA(Operand(1), "number") THEN 1 + Operand(1)[2]
                                                           ELSE Argc(current[1])

Replaces(nulls, n, pushed) ==
  /\ n \in 0..Len(stack) /\ (n <= Taken \/ current[1] = "resetstack")
  /\ ValueSeq(nulls, pushed)
  /\ stack' = Without(n) \o pushed
  /\ current' = NoOperation

Crashes  == mode' = "undefined" /\ UNCHANGED <<stack, current>>
Fails    == \E code : Fail(stack, code)
Succeeds(nulls) == mode' \in Results \ {"ERROR"} /\ \E n, pushed : Replaces(nulls, n, pushed)
Outcome(nulls)  == Crashes \/ Fails \/ Succeeds(nulls)

\* The stack holds values, and the operation in hand is one.
StackOfValues(nulls) == ValueSeq(nulls, stack) /\ (mode = "execute" => IsValue(nulls, current))

\* What an operation takes, at least.
LEMMA TakesArgc ==
  ASSUME NEW nulls, StackOfValues(nulls)
  PROVE  /\ Argc(current[1]) <= Taken /\ Argc(current[1]) \in 0..3
         /\ Taken \in Int /\ 0 <= Taken
<1>1. /\ Argc(current[1]) \in {0, 1, 2, 3}
      /\ current[1] = "pack" => Argc(current[1]) = 1
  BY DEF Argc, OneArgument, TwoArguments, SignOps, ArithmeticOps, LogicalOps
<1>2. IsA(Operand(1), "number") => Operand(1)[2] \in Nat
  <2>1. Null[1] = "null"
    BY DEF Null
  <2>2. IsA(Operand(1), "number") => IsValue(nulls, Operand(1))
    BY <2>1, Operands DEF IsA, StackOfValues
  <2>3. QED BY <2>2, NumberHas DEF IsA
<1>3. QED BY <1>1, <1>2, SMT DEF Taken

\* Results that leave the stack alone, push one value, or push several.
LEMMA PushNothing ==
  ASSUME NEW nulls, StackOfValues(nulls), NEW r \in Results \ {"ERROR"}, Return(stack, r)
  PROVE  Outcome(nulls)
<1>1. stack = Without(0) \o <<>>
  <2>1. stack \in Seq({stack[i] : i \in DOMAIN stack})
    BY DEF StackOfValues, ValueSeq, IsSeq
  <2>2. stack \o <<>> = stack
    BY <2>1, ConcatEmptySeq
  <2>3. QED BY <2>2, WithoutNone DEF StackOfValues
<1>2. 0 \in 0..Len(stack) /\ 0 <= Taken
  <2>1. Len(stack) \in Nat
    BY SeqLength DEF StackOfValues, ValueSeq
  <2>2. QED BY <2>1, TakesArgc, SMT
<1>3. Replaces(nulls, 0, <<>>)
  BY <1>1, <1>2, NoValues DEF Replaces, Return
<1>4. QED BY <1>3 DEF Outcome, Succeeds, Return

LEMMA PushMany ==
  ASSUME NEW nulls, StackOfValues(nulls), NEW k \in 0..Len(stack),
         k <= Taken \/ current[1] = "resetstack",
         NEW pushed, ValueSeq(nulls, pushed), Succeed(Without(k) \o pushed)
  PROVE  Outcome(nulls)
<1>1. Replaces(nulls, k, pushed)
  BY DEF Replaces, Succeed, Return
<1>2. mode' = "SUCCESS"
  BY DEF Succeed, Return
<1>3. QED BY <1>1, <1>2 DEF Outcome, Succeeds, Results

LEMMA PushOne ==
  ASSUME NEW nulls, StackOfValues(nulls), NEW k \in 0..Len(stack), k <= Taken,
         NEW v, IsValue(nulls, v), Succeed(Append(Without(k), v))
  PROVE  Outcome(nulls)
<1>1. IsSeq(Without(k))
  BY WithoutSome DEF StackOfValues
<1>2. Append(Without(k), v) = Without(k) \o <<v>>
  BY <1>1, AppendIsPush
<1>3. Succeed(Without(k) \o <<v>>)
  BY <1>2
<1>4. ValueSeq(nulls, <<v>>)
  BY OneValue
<1>5. QED BY <1>3, <1>4, PushMany

\* The stack is as high as a class that has passed the precondition asks.
LEMMA Heights ==
  ASSUME NEW nulls, StackOfValues(nulls), Accepted
  PROVE  /\ 0 \in 0..Len(stack) /\ 0 <= Taken
         /\ current[1] \in OneArgument =>
              /\ Len(stack) >= 1 /\ 1 \in 0..Len(stack) /\ 1 <= Taken
         /\ current[1] \in TwoArguments =>
              /\ Len(stack) >= 2 /\ 2 \in 0..Len(stack) /\ 2 <= Taken
<1>1. PICK n \in Nat : n = Len(stack)
  BY SeqLength DEF StackOfValues, ValueSeq
<1>2. n >= Argc(current[1]) /\ Argc(current[1]) <= Taken /\ Argc(current[1]) \in 0..3
  BY <1>1, TakesArgc DEF Accepted
<1>3. /\ current[1] \in OneArgument => Argc(current[1]) = 1
      /\ current[1] \in TwoArguments => Argc(current[1]) = 2
  BY DEF Argc, OneArgument, TwoArguments, SignOps, ArithmeticOps, LogicalOps
<1>4. Taken \in Int
  BY TakesArgc
<1> DEFINE a == Argc(current[1])
           t == Taken
<1>5. a \in 0..3 /\ n >= a /\ a <= t /\ t \in Int
  BY <1>2, <1>4
<1>6. /\ current[1] \in OneArgument => a = 1
      /\ current[1] \in TwoArguments => a = 2
  BY <1>3
<1> HIDE DEF a, t
<1>7. /\ 0 \in 0..n /\ 0 <= t
      /\ a = 1 => n >= 1 /\ 1 \in 0..n /\ 1 <= t
      /\ a = 2 => n >= 2 /\ 2 \in 0..n /\ 2 <= t
  BY <1>5, SMT
<1>8. QED BY <1>1, <1>6, <1>7 DEF t

\* An operation that fails puts back what it took.
LEMMA FailsAsFound ==
  ASSUME NEW nulls, StackOfValues(nulls), NEW code,
         \/ Fail(stack, code)
         \/ Len(stack) >= 1 /\ Fail(Append(Without(1), Operand(1)), code)
         \/ Len(stack) >= 2 /\ Fail(Without(2) \o <<Operand(2), Operand(1)>>, code)
  PROVE  Outcome(nulls)
<1>1. Len(stack) >= 1 => Append(Without(1), Operand(1)) = stack
  BY Restore1 DEF StackOfValues
<1>2. Len(stack) >= 2 => Without(2) \o <<Operand(2), Operand(1)>> = stack
  BY Restore2 DEF StackOfValues
<1>3. Fail(stack, code)
  BY <1>1, <1>2
<1>4. QED BY <1>3 DEF Outcome, Fails

(***************************************************************************)
(* The operations one by one.                                              *)
(***************************************************************************)
LEMMA JumpOutcome ==
  ASSUME NEW nulls, StackOfValues(nulls), Nop \/ Halt \/ Break \/ Loop \/ ResetStack
  PROVE  Outcome(nulls)
<1>1. CASE Nop \/ Halt \/ Break \/ Loop
  <2>1. \E r \in Results \ {"ERROR"} : Return(stack, r)
    BY <1>1 DEF Nop, Halt, Break, Loop, Succeed, Results
  <2>2. QED BY <2>1, PushNothing
<1>2. CASE ResetStack
  <2>1. PICK n \in Nat : n = Len(stack)
    BY SeqLength DEF StackOfValues, ValueSeq
  <2>2. n \in 0..n /\ n - n = 0 /\ 1..0 = {}
    BY SMT
  <2>3. IsSeq(Without(n)) /\ Len(Without(n)) = 0
    BY <2>1, <2>2, WithoutSome DEF StackOfValues
  <2>4. Without(n) = <<>>
    BY <2>2, <2>3, EmptyIsSeq, SeqSame
  <2>5. Without(n) \o <<>> = <<>>
    BY <2>4
  <2>6. Succeed(Without(n) \o <<>>)
    BY <1>2, <2>5 DEF ResetStack
  <2>7. current[1] = "resetstack"
    BY <1>2 DEF ResetStack, Runs
  <2>8. n \in 0..Len(stack)
    BY <2>1, <2>2
  <2>9. QED BY <2>6, <2>7, <2>8, NoValues, PushMany
<1>3. QED BY <1>1, <1>2

LEMMA MoveOutcome ==
  ASSUME NEW nulls, StackOfValues(nulls), Accepted, Push \/ Dup \/ Pop \/ Swap
  PROVE  Outcome(nulls)
<1>1. CASE Push
  <2>1. current[1] = "push" /\ IsValue(nulls, current) /\ Succeed(Append(stack, current[2]))
    BY <1>1 DEF Push, Runs, StackOfValues
  <2>2. IsValue(nulls, current[2])
    BY <2>1, OperationHas
  <2>3. Succeed(Append(Without(0), current[2]))
    BY <2>1, WithoutNone DEF StackOfValues
  <2>4. QED BY <2>2, <2>3, Heights, PushOne
<1>2. CASE Dup
  <2>1. Succeed(Append(Without(0), Operand(1)))
    BY <1>2, WithoutNone DEF Dup, StackOfValues
  <2>2. current[1] \in OneArgument
    BY <1>2 DEF Dup, Runs, OneArgument
  <2>3. IsValue(nulls, Operand(1))
    BY <2>2, Operands, Heights DEF StackOfValues
  <2>4. QED BY <2>1, <2>3, Heights, PushOne
<1>3. CASE Pop
  <2>1. current[1] \in OneArgument /\ Succeed(Without(1))
    BY <1>3 DEF Pop, Runs, OneArgument
  <2>2. 1 \in 0..Len(stack) /\ 1 <= Taken
    BY <2>1, Heights
  <2>3. IsSeq(Without(1))
    BY <2>2, WithoutSome DEF StackOfValues
  <2>4. Without(1) \o <<>> = Without(1)
    BY <2>3, ConcatEmptySeq DEF IsSeq
  <2>5. QED BY <2>1, <2>2, <2>4, NoValues, PushMany
<1>4. CASE Swap
  <2>1. current[1] \in TwoArguments /\ Succeed(Without(2) \o <<Operand(1), Operand(2)>>)
    BY <1>4 DEF Swap, Runs, TwoArguments
  <2>2. Len(stack) >= 2 /\ 2 \in 0..Len(stack) /\ 2 <= Taken
    BY <2>1, Heights
  <2>3. ValueSeq(nulls, <<Operand(1), Operand(2)>>)
    BY <2>2, Operands, TwoValues DEF StackOfValues
  <2>4. QED BY <2>1, <2>2, <2>3, PushMany
<1>5. QED BY <1>1, <1>2, <1>3, <1>4

\* What an arithmetic operation makes of two numbers.
LEMMA ArithmeticIsValue ==
  ASSUME NEW nulls, NEW code \in ArithmeticOps, NEW m \in Nat, NEW n \in Nat
  PROVE  IsValue(nulls, EvalArithmetic(code, m, n))
<1>1. m + n \in Int /\ m - n \in Int /\ m * n \in Int
  BY SMT
<1>2. n # 0 => m \div n \in Int /\ m % n \in Int
  BY SMT
<1>3. CASE code = "add"
  <2>1. EvalArithmetic(code, m, n) = Number(m + n)
    BY <1>3 DEF EvalArithmetic
  <2>2. QED BY <1>1, <2>1, NumberIsValue
<1>4. CASE code = "sub"
  <2>1. EvalArithmetic(code, m, n) = Number(m - n)
    BY <1>4 DEF EvalArithmetic
  <2>2. QED BY <1>1, <2>1, NumberIsValue
<1>5. CASE code = "mul"
  <2>1. EvalArithmetic(code, m, n) = Number(m * n)
    BY <1>5 DEF EvalArithmetic
  <2>2. QED BY <1>1, <2>1, NumberIsValue
<1>6. CASE code \in {"div", "mod"} /\ n = 0
  <2>1. EvalArithmetic(code, m, n) = Error("DIV_BY_ZERO")
    BY <1>6 DEF EvalArithmetic
  <2>2. QED BY <2>1, ErrorIsValue
<1>7. CASE code = "div" /\ n # 0
  <2>1. EvalArithmetic(code, m, n) = Number(m \div n)
    BY <1>7 DEF EvalArithmetic
  <2>2. QED BY <1>2, <1>7, <2>1, NumberIsValue
<1>8. CASE code = "mod" /\ n # 0
  <2>1. EvalArithmetic(code, m, n) = Number(m % n)
    BY <1>8 DEF EvalArithmetic
  <2>2. QED BY <1>2, <1>8, <2>1, NumberIsValue
<1>9. QED BY <1>3, <1>4, <1>5, <1>6, <1>7, <1>8 DEF ArithmeticOps

LEMMA ArithmeticOutcome ==
  ASSUME NEW nulls, StackOfValues(nulls), Accepted, BinaryArithmetic
  PROVE  Outcome(nulls)
<1> DEFINE p1 == Operand(1)
           p2 == Operand(2)
<1>1. PICK code \in ArithmeticOps :
        /\ Runs(code)
        /\ \/ /\ IsA(p1, "number") /\ IsA(p2, "number")
              /\ \/ Succeed(Append(Without(2), EvalArithmetic(code, p1[2], p2[2])))
                 \/ Succeed(Without(2) \o <<p2, p1, EvalArithmetic(code, p1[2], p2[2])>>)
           \/ Fail(Without(2) \o <<p2, p1>>, "TYPE_MISMATCH")
  BY DEF BinaryArithmetic
<1>2. current[1] \in TwoArguments
  BY <1>1 DEF Runs, TwoArguments
<1>3. Len(stack) >= 2 /\ 2 \in 0..Len(stack) /\ 2 <= Taken
  BY <1>2, Heights
<1>4. IsValue(nulls, p1) /\ IsValue(nulls, p2)
  BY <1>3, Operands DEF StackOfValues
<1>5. CASE IsA(p1, "number") /\ IsA(p2, "number")
  <2> DEFINE v == EvalArithmetic(code, p1[2], p2[2])
  <2>1. p1[2] \in Nat /\ p2[2] \in Nat
    BY <1>4, <1>5, NumberHas DEF IsA
  <2>2. IsValue(nulls, v)
    BY <1>1, <2>1, ArithmeticIsValue
  <2>3. ValueSeq(nulls, <<p2, p1, v>>)
    BY <1>4, <2>2, ThreeValues
  <2>4. CASE Fail(Without(2) \o <<p2, p1>>, "TYPE_MISMATCH")
    BY <1>3, <2>4, FailsAsFound
  <2>5. CASE Succeed(Append(Without(2), v))
    <3> HIDE DEF v
    <3>1. QED BY <1>3, <2>2, <2>5, PushOne
  <2>6. CASE Succeed(Without(2) \o <<p2, p1, v>>)
    <3> HIDE DEF v, p1, p2
    <3>1. QED BY <1>3, <2>3, <2>6, PushMany
  <2>7. QED BY <1>1, <2>4, <2>5, <2>6
<1>6. CASE ~(IsA(p1, "number") /\ IsA(p2, "number"))
  BY <1>1, <1>3, <1>6, FailsAsFound
<1>7. QED BY <1>5, <1>6

LEMMA SignOutcome ==
  ASSUME NEW nulls, StackOfValues(nulls), Accepted, UnaryArithmetic \/ Not
  PROVE  Outcome(nulls)
<1>1. \E b : \/ Succeed(Append(Without(1), Boolean(b)))
             \/ Fail(Append(Without(1), Operand(1)), "TYPE_MISMATCH")
  BY DEF UnaryArithmetic, Not, EvalSign, SignOps
<1>2. current[1] \in OneArgument
  BY DEF UnaryArithmetic, Not, Runs, OneArgument
<1>3. Len(stack) >= 1 /\ 1 \in 0..Len(stack) /\ 1 <= Taken
  BY <1>2, Heights
<1>4. QED BY <1>1, <1>3, BooleanIsValue, PushOne, FailsAsFound

LEMMA LogicalOutcome ==
  ASSUME NEW nulls, StackOfValues(nulls), Accepted, BinaryLogical \/ Equals
  PROVE  Outcome(nulls)
<1>1. \E b : \/ Succeed(Append(Without(2), Boolean(b)))
             \/ Fail(Without(2) \o <<Operand(2), Operand(1)>>, "TYPE_MISMATCH")
  BY DEF BinaryLogical, Equals, EvalLogical, LogicalOps
<1>2. current[1] \in TwoArguments
  BY DEF BinaryLogical, Equals, Runs, TwoArguments
<1>3. Len(stack) >= 2 /\ 2 \in 0..Len(stack) /\ 2 <= Taken
  BY <1>2, Heights
<1>4. QED BY <1>1, <1>3, BooleanIsValue, PushOne, FailsAsFound

LEMMA QuestionOutcome ==
  ASSUME NEW nulls, StackOfValues(nulls), Accepted, ParserMakesValues(nulls),
         Typeof \/ Size \/ Parse
  PROVE  Outcome(nulls)
<1>1. current[1] \in OneArgument
  BY DEF Typeof, Size, Parse, Runs, OneArgument
<1>2. Len(stack) >= 1 /\ 1 \in 0..Len(stack) /\ 1 <= Taken
  BY <1>1, Heights
<1>3. IsValue(nulls, Operand(1))
  BY <1>2, Operands DEF StackOfValues
<1>4. CASE Typeof
  <2> DEFINE v == <<"type", Operand(1)[1]>>
  <2>1. v[1] \in Simple
    BY DEF Simple
  <2>2. Succeed(Append(Without(1), v))
    BY <1>4 DEF Typeof
  <2> HIDE DEF v
  <2>3. QED BY <1>2, <2>1, <2>2, SimpleIsValue, PushOne
<1>5. CASE Size
  <2> DEFINE n == IF Iterable(Operand(1)) THEN Count(Operand(1)) ELSE 1
  <2>1. Succeed(Append(Without(1), Number(n)))
    BY <1>5 DEF Size
  <2>2. n \in Int
    <3>1. Iterable(Operand(1)) => Count(Operand(1)) \in Nat
      BY <1>3, CountIsNat
    <3>2. QED BY <3>1
  <2> HIDE DEF n
  <2>3. IsValue(nulls, Number(n))
    BY <2>2, NumberIsValue
  <2>4. QED BY <1>2, <2>1, <2>3, PushOne
<1>6. CASE Parse
  <2>1. \/ \E code : Fail(Append(Without(1), Operand(1)), code)
        \/ /\ IsA(Operand(1), "string")
           /\ Parsed(Operand(1)[2]) # Null
           /\ Succeed(Append(Without(1), Parsed(Operand(1)[2])))
    BY <1>6 DEF Parse
  <2>2. IsA(Operand(1), "string") => IsSeq(Operand(1)[2])
    BY <1>3, ValueHas DEF Shaped, IsA
  <2>3. IsA(Operand(1), "string") /\ Parsed(Operand(1)[2]) # Null =>
          IsValue(nulls, Parsed(Operand(1)[2]))
    BY <2>2 DEF ParserMakesValues
  <2>4. QED BY <1>2, <2>1, <2>3, PushOne, FailsAsFound
<1>7. QED BY <1>4, <1>5, <1>6

LEMMA TypecastOutcome ==
  ASSUME NEW nulls, StackOfValues(nulls), Accepted, TextsAreText(nulls), Typecast
  PROVE  Outcome(nulls)
<1>1. current[1] \in TwoArguments
  BY DEF Typecast, Runs, TwoArguments
<1>2. Len(stack) >= 2 /\ 2 \in 0..Len(stack) /\ 2 <= Taken
  BY <1>1, Heights
<1>3. \/ Fail(Without(2) \o <<Operand(2), Operand(1)>>, "TYPE_MISMATCH")
      \/ /\ IsA(Operand(1), "type") /\ current[1] = "typecast"
         /\ \E cv \in Casts(Operand(2), Operand(1)[2]) :
              cv # Null /\ Succeed(Append(Without(2), cv))
  BY DEF Typecast, Runs
<1>4. CASE Fail(Without(2) \o <<Operand(2), Operand(1)>>, "TYPE_MISMATCH")
  BY <1>2, <1>4, FailsAsFound
<1>5. ASSUME IsA(Operand(1), "type"), current[1] = "typecast",
             NEW cv \in Casts(Operand(2), Operand(1)[2]), cv # Null,
             Succeed(Append(Without(2), cv))
      PROVE  Outcome(nulls)
  <2>1. IsValue(nulls, Operand(2))
    BY <1>2, Operands DEF StackOfValues
  <2>2. ~CastFaults(Operand(2), Operand(1)[2])
    BY <1>5 DEF Accepted, Faults
  <2>3. IsValue(nulls, cv)
    BY <1>5, <2>1, <2>2, CastsAreValues
  <2>4. QED BY <1>2, <1>5, <2>3, PushOne
<1>6. QED BY <1>3, <1>4, <1>5

LEMMA AtOutcome ==
  ASSUME NEW nulls, StackOfValues(nulls), Accepted, At
  PROVE  Outcome(nulls)
<1>1. current[1] \in TwoArguments
  BY DEF At, Runs, TwoArguments
<1>2. Len(stack) >= 2 /\ 2 \in 0..Len(stack) /\ 2 <= Taken
  BY <1>1, Heights
<1> DEFINE nval == Operand(1)
           obj == Operand(2)
<1>3. IsValue(nulls, nval) /\ IsValue(nulls, obj)
  BY <1>2, Operands DEF StackOfValues
<1>4. \/ \E code : Fail(Without(2) \o <<obj, nval>>, code)
      \/ /\ IsA(nval, "number") /\ Iterable(obj) /\ nval[2] < Count(obj)
         /\ \E items \in Orders(obj) : Succeed(Append(Without(2), items[nval[2] + 1]))
  BY DEF At
<1>5. CASE \E code : Fail(Without(2) \o <<obj, nval>>, code)
  BY <1>2, <1>5, FailsAsFound
<1>6. ASSUME IsA(nval, "number"), Iterable(obj), nval[2] < Count(obj),
             NEW items \in Orders(obj), Succeed(Append(Without(2), items[nval[2] + 1]))
      PROVE  Outcome(nulls)
  <2>1. nval[2] \in Nat /\ Count(obj) \in Nat
    BY <1>3, <1>6, NumberHas, CountIsNat DEF IsA
  <2>2. nval[2] + 1 \in 1..Count(obj)
    BY <1>6, <2>1, SMT
  <2>3. ValueSeq(nulls, items) /\ Len(items) = Count(obj)
    BY <1>3, <1>6, OrdersAreValues
  <2>4. IsValue(nulls, items[nval[2] + 1])
    BY <2>2, <2>3, ValueOfSeq
  <2>5. QED BY <1>2, <1>6, <2>4, PushOne
<1> HIDE DEF nval, obj
<1>7. QED BY <1>4, <1>5, <1>6

LEMMA FindOutcome ==
  ASSUME NEW nulls, StackOfValues(nulls), Accepted, Find
  PROVE  Outcome(nulls)
<1>1. current[1] \in TwoArguments
  BY DEF Find, Runs, TwoArguments
<1>2. Len(stack) >= 2 /\ 2 \in 0..Len(stack) /\ 2 <= Taken
  BY <1>1, Heights
<1>3. \/ \E code : Fail(Without(2) \o <<Operand(2), Operand(1)>>, code)
      \/ Succeed(Append(Without(2), Boolean(TRUE)))
      \/ Succeed(Append(Without(2), Error("NOT_FOUND")))
      \/ \E found \in TableFinds(Operand(2)[2], Operand(1)) :
           IsA(Operand(2), "table") /\ found # Null /\ Succeed(Append(Without(2), found))
  BY DEF Find
<1>4. CASE \E code : Fail(Without(2) \o <<Operand(2), Operand(1)>>, code)
  BY <1>2, <1>4, FailsAsFound
<1>5. CASE \E found \in TableFinds(Operand(2)[2], Operand(1)) :
             IsA(Operand(2), "table") /\ found # Null /\ Succeed(Append(Without(2), found))
  <2>0. PICK found \in TableFinds(Operand(2)[2], Operand(1)) :
          IsA(Operand(2), "table") /\ found # Null /\ Succeed(Append(Without(2), found))
    BY <1>5
  <2>1. IsTable(nulls, Operand(2)[2])
    BY <1>2, <2>0, Operands, TableHolds DEF StackOfValues, IsA
  <2>2. IsValue(nulls, found)
    BY <2>0, <2>1, FoundIsValue DEF IsTable
  <2>3. QED BY <1>2, <2>0, <2>2, PushOne
<1>6. CASE Succeed(Append(Without(2), Boolean(TRUE)))
  BY <1>2, <1>6, BooleanIsValue, PushOne
<1>7. CASE Succeed(Append(Without(2), Error("NOT_FOUND")))
  BY <1>2, <1>7, ErrorIsValue, PushOne
<1>8. QED BY <1>3, <1>4, <1>5, <1>6, <1>7

LEMMA AppendOutcome ==
  ASSUME NEW nulls, StackOfValues(nulls), Accepted, AppendItem
  PROVE  Outcome(nulls)
<1>1. current[1] \in TwoArguments
  BY DEF AppendItem, Runs, TwoArguments
<1>2. Len(stack) >= 2 /\ 2 \in 0..Len(stack) /\ 2 <= Taken
  BY <1>1, Heights
<1>3. PICK cloned \in Clones(Operand(2)) :
        LET grown == AppendValue(cloned, Operand(1)) IN
        \/ IsA(grown, "error") /\ Fail(Without(2) \o <<Operand(2), Operand(1)>>, grown[2])
        \/ ~IsA(grown, "error") /\ Succeed(Append(Without(2), grown))
  BY DEF AppendItem
<1> DEFINE grown == AppendValue(cloned, Operand(1))
<1>4. \/ \E code : Fail(Without(2) \o <<Operand(2), Operand(1)>>, code)
      \/ Succeed(Append(Without(2), grown))
  BY <1>3
<1>5. IsValue(nulls, grown)
  <2>1. IsValue(nulls, Operand(1)) /\ IsValue(nulls, cloned)
    BY <1>2, Operands, CloneIsValue DEF StackOfValues
  <2>2. QED BY <2>1, AppendValueIsValue
<1> HIDE DEF grown
<1>6. QED BY <1>2, <1>4, <1>5, PushOne, FailsAsFound

LEMMA PackOutcome ==
  ASSUME NEW nulls, StackOfValues(nulls), Accepted, Pack
  PROVE  Outcome(nulls)
<1>1. current[1] \in OneArgument /\ current[1] = "pack"
  BY DEF Pack, Runs, OneArgument
<1>2. Len(stack) >= 1 /\ 1 \in 0..Len(stack)
  BY <1>1, Heights
<1> DEFINE cnt == Operand(1)
           t == [i \in 1..cnt[2] |-> Operand(1 + i)]
<1>3. \/ \E code : Fail(Append(Without(1), cnt), code)
      \/ /\ IsA(cnt, "number") /\ cnt[2] <= Len(stack) - 1
         /\ Succeed(Append(Without(1 + cnt[2]), Tuple(t)))
  BY DEF Pack
<1>4. CASE \E code : Fail(Append(Without(1), cnt), code)
  BY <1>2, <1>4, FailsAsFound
<1>5. CASE /\ IsA(cnt, "number") /\ cnt[2] <= Len(stack) - 1
           /\ Succeed(Append(Without(1 + cnt[2]), Tuple(t)))
  <2>1. IsValue(nulls, cnt)
    BY <1>2, Operands DEF StackOfValues
  <2>2. PICK n \in Nat : n = cnt[2]
    BY <1>5, <2>1, NumberHas DEF IsA
  <2>3. Taken = 1 + n
    BY <1>1, <1>5, <2>2 DEF Taken
  <2>4. Len(stack) \in Nat
    BY SeqLength DEF StackOfValues, ValueSeq
  <2>5. 1 + n \in 0..Len(stack) /\ 1 + n <= Taken
    BY <1>5, <2>2, <2>3, <2>4, SMT
  <2>6. \A i \in 1..n : 1 + i \in Nat \ {0} /\ 1 + i <= Len(stack)
    BY <1>5, <2>2, <2>4, SMT
  <2>7. t = [i \in 1..n |-> t[i]] /\ \A i \in 1..n : t[i] = Operand(1 + i)
    BY <2>2
  <2> HIDE DEF cnt, t
  <2>8. \A i \in 1..n : IsValue(nulls, t[i])
    BY <2>6, <2>7, OperandIsValue DEF StackOfValues
  <2>9. IsSeq(t) /\ Len(t) = n
    BY <2>7, FunctionIsSeq
  <2>10. IsValue(nulls, Tuple(t))
    BY <2>8, <2>9, ValuesOfSeq, TupleIsValue
  <2>11. Succeed(Append(Without(1 + n), Tuple(t)))
    BY <1>5, <2>2
  <2>12. QED BY <2>5, <2>10, <2>11, PushOne
<1> HIDE DEF cnt, t
<1>6. QED BY <1>3, <1>4, <1>5

LEMMA UnpackOutcome ==
  ASSUME NEW nulls, StackOfValues(nulls), Accepted, Unpack
  PROVE  Outcome(nulls)
<1>1. current[1] \in OneArgument
  BY DEF Unpack, Runs, OneArgument
<1>2. Len(stack) >= 1 /\ 1 \in 0..Len(stack) /\ 1 <= Taken
  BY <1>1, Heights
<1>3. \/ Fail(Append(Without(1), Operand(1)), "TYPE_MISMATCH")
      \/ IsA(Operand(1), "tuple") /\ Succeed(Without(1) \o Operand(1)[2])
  BY DEF Unpack
<1>4. IsA(Operand(1), "tuple") => ValueSeq(nulls, Operand(1)[2])
  BY <1>2, Operands, TupleHas DEF StackOfValues, IsA
<1>5. QED BY <1>2, <1>3, <1>4, PushMany, FailsAsFound

\* One of these comes of every operation that only sees the stack.
LEMMA LeafOutcome ==
  ASSUME NEW nulls, TextsAreText(nulls), ParserMakesValues(nulls), StackOfValues(nulls), Leaf
  PROVE  Outcome(nulls) /\ mode = "execute"
<1>1. mode = "execute"
  BY DEF Leaf, RejectArguments, EndProcess, DoExecute, Runs, Nop, Halt, Break, Loop,
         Push, Dup, Pop, Swap, ResetStack, BinaryArithmetic, UnaryArithmetic, BinaryLogical,
         Not, Equals, Typeof, Size, Typecast, Parse, At, Find, AppendItem, Pack, Unpack
<1>2. CASE RejectArguments
  BY <1>2, FailsAsFound DEF RejectArguments
<1>3. CASE EndProcess
  BY <1>3 DEF EndProcess, Outcome, Crashes
<1>4. CASE Accepted /\ DoExecute
  <2>1. Nop \/ Halt \/ Break \/ Loop \/ ResetStack => Outcome(nulls)
    BY JumpOutcome
  <2>2. Push \/ Dup \/ Pop \/ Swap => Outcome(nulls)
    BY <1>4, MoveOutcome
  <2>3. BinaryArithmetic \/ UnaryArithmetic \/ Not \/ BinaryLogical \/ Equals => Outcome(nulls)
    BY <1>4, ArithmeticOutcome, SignOutcome, LogicalOutcome
  <2>4. Typeof \/ Size \/ Parse \/ Typecast => Outcome(nulls)
    BY <1>4, QuestionOutcome, TypecastOutcome
  <2>5. At \/ Find \/ AppendItem => Outcome(nulls)
    BY <1>4, AtOutcome, FindOutcome, AppendOutcome
  <2>6. Pack \/ Unpack => Outcome(nulls)
    BY <1>4, PackOutcome, UnpackOutcome
  <2>7. QED BY <1>1, <1>4, <2>1, <2>2, <2>3, <2>4, <2>5, <2>6 DEF DoExecute
<1>5. QED BY <1>1, <1>2, <1>3, <1>4 DEF Leaf

(***************************************************************************)
(* The theorems: for every stack of values, and every value the operation  *)
(* in hand may hold.                                                       *)
(***************************************************************************)
\* Two stacks that are the same up to a height.
LEMMA SameBottom ==
  ASSUME NEW s, IsSeq(s), NEW t, IsSeq(t), NEW n \in Int, n <= Len(s), n <= Len(t),
         \A i \in 1..n : s[i] = t[i]
  PROVE  SubSeq(s, 1, n) = SubSeq(t, 1, n)
<1> DEFINE a == SubSeq(s, 1, n)
           b == SubSeq(t, 1, n)
           m == IF 1 <= n THEN n ELSE 0
<1>1. IsSeq(a) /\ Len(a) = m /\ \A i \in 1..n : a[i] = s[i]
  BY BottomIsSeq
<1>2. IsSeq(b) /\ Len(b) = m /\ \A i \in 1..n : b[i] = t[i]
  BY BottomIsSeq
<1>3. \A i \in 1..m : i \in 1..n
  BY SMT
<1> HIDE DEF a, b, m
<1>4. \A i \in 1..m : a[i] = b[i]
  BY <1>1, <1>2, <1>3
<1>5. a = b
  BY <1>1, <1>2, <1>4, SeqSame
<1>6. QED BY <1>5 DEF a, b

\* An operation leaves values on the stack.
LEMMA OutcomeIsValues ==
  ASSUME NEW nulls, StackOfValues(nulls), Outcome(nulls)
  PROVE  ValueSeq(nulls, stack')
<1>1. CASE Crashes
  BY <1>1 DEF Crashes, StackOfValues
<1>2. CASE Fails
  BY <1>2, ErrorIsValue, AppendValues DEF Fails, Fail, Return, StackOfValues
<1>3. CASE Succeeds(nulls)
  <2>1. PICK n, pushed :
          n \in 0..Len(stack) /\ ValueSeq(nulls, pushed) /\ stack' = Without(n) \o pushed
    BY <1>3 DEF Succeeds, Replaces
  <2>2. ValueSeq(nulls, Without(n))
    BY <2>1, WithoutSome DEF StackOfValues
  <2>3. QED BY <2>1, <2>2, ConcatValues
<1>4. QED BY <1>1, <1>2, <1>3 DEF Outcome

LEMMA StackStaysValues ==
  ASSUME NEW nulls, TextsAreText(nulls), ParserMakesValues(nulls), StackOfValues(nulls),
         [Leaf]_opVars
  PROVE  StackOfValues(nulls)'
<1>1. CASE Leaf
  <2>1. Outcome(nulls)
    BY <1>1, LeafOutcome
  <2>2. mode' # "execute"
    <3>1. CASE Crashes
      BY <3>1 DEF Crashes
    <3>2. CASE Fails
      BY <3>2 DEF Fails, Fail, Return
    <3>3. CASE Succeeds(nulls)
      BY <3>3 DEF Succeeds, Results
    <3>4. QED BY <2>1, <3>1, <3>2, <3>3 DEF Outcome
  <2>3. QED BY <2>1, <2>2, OutcomeIsValues DEF StackOfValues
<1>2. CASE UNCHANGED opVars
  BY <1>2 DEF opVars, StackOfValues, ValueSeq, IsSeq
<1>3. QED BY <1>1, <1>2

\* What an operation finds on the stack and leaves there are values: the shape of each
\* class, all the way down, survives every arithmetic, conversion and growth.
THEOREM ValuesStayValues ==
  ASSUME NEW nulls, TextsAreText(nulls), ParserMakesValues(nulls)
  PROVE  StackOfValues(nulls) /\ [][Leaf]_opVars => []StackOfValues(nulls)
<1>1. StackOfValues(nulls) /\ [Leaf]_opVars => StackOfValues(nulls)'
  BY StackStaysValues
<1>2. QED BY <1>1, PTL

\* Whatever an operation popped before it found out that it has to fail, the stack is the
\* one it was called with when it comes back, and an error on top.
THEOREM OperandsAreRestored ==
  ASSUME NEW nulls, TextsAreText(nulls), ParserMakesValues(nulls)
  PROVE  StackOfValues(nulls) /\ [][Leaf]_opVars => FailureRestoresOperands
<1>1. ASSUME StackOfValues(nulls), [Leaf]_opVars, mode = "execute", mode' = "ERROR"
      PROVE  /\ Len(stack') = Len(stack) + 1
             /\ SubSeq(stack', 1, Len(stack)) = stack
             /\ IsA(stack'[Len(stack')], "error")
  <2>1. Leaf
    BY <1>1 DEF opVars
  <2>2. Outcome(nulls)
    BY <1>1, <2>1, LeafOutcome
  <2>3. Fails
    BY <1>1, <2>2 DEF Outcome, Crashes, Succeeds, Results
  <2>4. PICK code : stack' = Append(stack, Error(code))
    BY <2>3 DEF Fails, Fail, Return
  <2>5. PICK n \in Nat : n = Len(stack)
    BY <1>1, SeqLength DEF StackOfValues, ValueSeq
  <2>6. /\ IsSeq(stack) /\ IsSeq(stack') /\ Len(stack') = n + 1 /\ stack'[n + 1] = Error(code)
        /\ \A i \in 1..n : stack'[i] = stack[i]
    BY <1>1, <2>4, <2>5, AppendIsSeq DEF StackOfValues, ValueSeq
  <2>7. n <= n + 1 /\ (IF 1 <= n THEN n ELSE 0) = n /\ n \in Int
    BY SMT
  <2>8. /\ IsSeq(SubSeq(stack', 1, n)) /\ Len(SubSeq(stack', 1, n)) = n
        /\ \A i \in 1..n : SubSeq(stack', 1, n)[i] = stack'[i]
    BY <2>6, <2>7, BottomIsSeq
  <2>9. SubSeq(stack', 1, n) = stack
    BY <2>5, <2>6, <2>8, SeqSame
  <2>10. QED BY <2>5, <2>6, <2>9, ErrorIsValue
<1>2. StackOfValues(nulls) /\ [Leaf]_opVars =>
        (mode = "execute" /\ mode' = "ERROR" =>
           /\ Len(stack') = Len(stack) + 1
           /\ SubSeq(stack', 1, Len(stack)) = stack
           /\ IsA(stack'[Len(stack')], "error"))
  BY <1>1
<1>3. QED BY <1>2, ValuesStayValues, PTL DEF FailureRestoresOperands

\* No operation reads or writes deeper than the arguments it asked for, and pack no deeper
\* than it was told.
THEOREM RestStaysUntouched ==
  ASSUME NEW nulls, TextsAreText(nulls), ParserMakesValues(nulls)
  PROVE  StackOfValues(nulls) /\ [][Leaf]_opVars => RestIsUntouched
<1> DEFINE rest == Len(stack) - Taken
           Kept == mode = "execute" /\ mode' \in Results /\ current[1] # "resetstack" =>
                     SubSeq(stack', 1, rest) = SubSeq(stack, 1, rest)
<1>1. ASSUME StackOfValues(nulls), [Leaf]_opVars, mode = "execute", mode' \in Results,
             current[1] # "resetstack"
      PROVE  SubSeq(stack', 1, rest) = SubSeq(stack, 1, rest)
  <2>1. CASE Leaf
    <3>1. Outcome(nulls)
      BY <1>1, <2>1, LeafOutcome
    <3>2. PICK m \in Nat : m = Len(stack)
      BY <1>1, SeqLength DEF StackOfValues, ValueSeq
    <3>3. PICK t \in Nat : t = Taken
      BY <1>1, TakesArgc
    <3>4. rest = m - t /\ m - t \in Int /\ m - t <= m
      BY <3>2, <3>3, SMT
    <3> HIDE DEF rest
    <3>5. IsSeq(stack) /\ IsSeq(stack')
      BY <1>1, <3>1, OutcomeIsValues DEF StackOfValues, ValueSeq
    <3>6. CASE Crashes
      BY <1>1, <3>6 DEF Crashes, Results
    <3>7. CASE Fails
      <4>1. PICK code : stack' = Append(stack, Error(code))
        BY <3>7 DEF Fails, Fail, Return
      <4>2. Len(stack') = m + 1 /\ \A i \in 1..m : stack'[i] = stack[i]
        BY <3>2, <3>5, <4>1, AppendIsSeq
      <4>3. m - t <= m + 1 /\ \A i \in 1..(m - t) : i \in 1..m
        BY SMT
      <4>4. QED BY <3>2, <3>4, <3>5, <4>2, <4>3, SameBottom
    <3>8. CASE Succeeds(nulls)
      <4>1. PICK n, pushed :
              n \in 0..m /\ ValueSeq(nulls, pushed) /\ stack' = Without(n) \o pushed /\ n <= t
        BY <1>1, <3>2, <3>3, <3>8 DEF Succeeds, Replaces
      <4>2. /\ IsSeq(Without(n)) /\ Len(Without(n)) = m - n
            /\ \A i \in 1..(m - n) : Without(n)[i] = stack[i]
        BY <1>1, <3>2, <4>1, WithoutSome DEF StackOfValues
      <4>3. PICK k \in Nat : k = Len(pushed)
        BY <4>1, SeqLength DEF ValueSeq
      <4>4. /\ Len(stack') = (m - n) + k
            /\ \A i \in 1..(m - n) : stack'[i] = Without(n)[i]
        <5>1. IsSeq(pushed)
          BY <4>1 DEF ValueSeq
        <5>2. /\ Len(Without(n) \o pushed) = Len(Without(n)) + Len(pushed)
              /\ \A i \in 1..Len(Without(n)) : (Without(n) \o pushed)[i] = Without(n)[i]
          BY <4>2, <5>1, ConcatIsSeq
        <5>3. QED BY <4>1, <4>2, <4>3, <5>2
      <4>5. m - t <= (m - n) + k /\ \A i \in 1..(m - t) : i \in 1..(m - n)
        BY <4>1, SMT
      <4>6. \A i \in 1..(m - t) : stack'[i] = stack[i]
        BY <4>2, <4>4, <4>5
      <4>7. QED BY <3>2, <3>4, <3>5, <4>4, <4>5, <4>6, SameBottom
    <3>9. QED BY <3>1, <3>6, <3>7, <3>8 DEF Outcome
  <2>2. CASE UNCHANGED opVars
    BY <2>2 DEF opVars
  <2>3. QED BY <1>1, <2>1, <2>2
<1>2. StackOfValues(nulls) /\ [Leaf]_opVars => Kept
  BY <1>1
<1>3. Kept => LET code  == current[1]
                  taken == IF code = "pack" /\ IsA(Operand(1), "number") THEN 1 + Operand(1)[2]
                                                                         ELSE Argc(code)
                  left  == Len(stack) - taken
              IN  mode = "execute" /\ mode' \in Results /\ code # "resetstack" =>
                    SubSeq(stack', 1, left) = SubSeq(stack, 1, left)
  BY DEF Taken
<1> HIDE DEF Kept
<1>4. QED BY <1>2, <1>3, ValuesStayValues, PTL DEF RestIsUntouched

\* A set or a table never gets a second entry that is the same as one it has - each of them
\* found by a lookup of the other - whether it is grown by append, copied, converted from a
\* tuple, or taken out of another container; and that needs nothing of equality and hash.
THEOREM EntriesStayDistinct ==
  ASSUME NEW nulls, TextsAreText(nulls), ParserMakesValues(nulls)
  PROVE  StackOfValues(nulls) /\ [][Leaf]_opVars => []EntriesAreDistinct
<1>1. ASSUME StackOfValues(nulls) PROVE EntriesAreDistinct
  <2>1. ASSUME NEW i \in DOMAIN stack, IsA(stack[i], "set") PROVE Apart(stack[i][2])
    BY <1>1, <2>1, SetHolds DEF StackOfValues, ValueSeq, IsA
  <2>2. ASSUME NEW i \in DOMAIN stack, IsA(stack[i], "table") PROVE Apart(DOMAIN stack[i][2])
    BY <1>1, <2>2, TableHolds DEF StackOfValues, ValueSeq, IsA, IsTable
  <2>3. QED BY <2>1, <2>2, Zenon DEF EntriesAreDistinct, Apart
<1>2. StackOfValues(nulls) => EntriesAreDistinct
  BY <1>1
<1>3. QED BY <1>2, ValuesStayValues, PTL
=============================================================================
