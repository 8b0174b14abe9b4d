------------------------------- MODULE Value -------------------------------
(***************************************************************************)
(* The values of the machine (src/value) and the containers' operations.   *)
(*                                                                         *)
(* A value is a tagged tuple: its class, then its contents.  A block is an *)
(* operation with an identity, because Block::mSlots belongs to the        *)
(* object: <<"block", id, slot names, operations>>.  A null                *)
(* shared_ptr<Value> is the value Null; it is what Stack::pop returns from *)
(* an empty stack.                                                         *)
(*                                                                         *)
(* Equality, hashing, cloning and description walk a value to any depth.   *)
(* They are the operator constants below, so that this module and those    *)
(* that extend it stay free of recursion; module DeepValue defines them    *)
(* for the checked instances.                                              *)
(***************************************************************************)
EXTENDS Integers, Sequences, FiniteSets

SE == INSTANCE SequencesExt

CONSTANTS
  Width,          \* bits of a Value_Number (64 in the code)
  NewBlock,       \* the identity of a Block made by a typecast
  Compare(_, _),  \* Value::equals: "equal", "different", or "fault" when it
                  \* dereferences a null inside its operands
  HashAlike(_, _), \* two values have the same Value::hash
  Hashed(_),      \* no null pointer where Value::hash goes
  Intact(_),      \* no null pointer where clone and describe go, which is further
  Encodable(_),   \* no character where describe goes but those UTF-8 has bytes for
  Describe(_),    \* the contents of the string Value::describe returns
  Parsed(_)       \* what Parser::parseValuePayload makes of a string, or Null

\* (That a power of two is a positive number is a fact the provers have no rule for.)
ASSUME WidthAssumption == Width \in Nat \ {0} /\ 2 ^ Width \in Nat \ {0}

Null == <<"null">>

\* A sequence, whatever of.
IsSeq(s) == s \in Seq({s[i] : i \in DOMAIN s})

Error(code)  == <<"error", code>>
Boolean(b)   == <<"boolean", b>>
Number(n)    == <<"number", n % (2 ^ Width)>>
Signed(n)    == IF n < 2 ^ (Width - 1) THEN n ELSE n - 2 ^ Width
Tuple(s)     == <<"tuple", s>>
IsA(v, type) == v[1] = type
IsPair(v)    == IsA(v, "tuple") /\ Len(v[2]) = 2

(***************************************************************************)
(* ValueSet and ValueTable: unordered containers whose insertion keeps the *)
(* entry already there.  A lookup asks its key whether it equals an entry  *)
(* of its hash, never the entry; as equality of tables is not symmetric,   *)
(* several entries may match, and which is found is not specified.         *)
(***************************************************************************)
Match(k, x) == HashAlike(k, x) /\ Compare(k, x) = "equal"
Clash(k, x) == HashAlike(k, x) /\ Compare(k, x) = "fault"
\* What is looked for when something is looked up in a set or a table.
Keys(c) == IF IsA(c, "set") THEN c[2] ELSE DOMAIN c[2]
LookupFaults(keys, k) == k = Null \/ ~Hashed(k) \/ \E x \in keys : Clash(k, x)

SetHas(S, v)    == \E x \in S : Match(v, x)
\* Mutant: only the very same object counts as already there.
MutantSetAdd(S, v) == S \cup {v}
SetAdd(S, v)    == IF SetHas(S, v) THEN S ELSE S \cup {v}
TableHas(f, k)  == \E x \in DOMAIN f : Match(k, x)
TableFinds(f, k) == IF TableHas(f, k) THEN {f[x] : x \in {y \in DOMAIN f : Match(k, y)}}
                                      ELSE {Null}
TableAdd(f, k, v) ==
  IF TableHas(f, k) THEN f
  ELSE [x \in DOMAIN f \cup {k} |-> IF x = k THEN v ELSE f[x]]

Containers  == {"tuple", "string", "set", "table"}
Iterable(v) == v[1] \in Containers

Count(v) == IF v[1] \in {"tuple", "string"} THEN Len(v[2])
            ELSE IF v[1] = "set" THEN Cardinality(v[2]) ELSE Cardinality(DOMAIN v[2])

(***************************************************************************)
(* IterableValue::at for every index: the sequences of items an iteration  *)
(* over v may see.  The order of a hash table is not specified.            *)
(***************************************************************************)
Orders(v) ==
  CASE v[1] = "tuple"  -> {v[2]}
    [] v[1] = "string" -> {[i \in DOMAIN v[2] |-> <<"character", v[2][i]>>]}
    [] v[1] = "set"    -> SE!SetToSeqs(v[2])
    [] v[1] = "table"  -> {[i \in DOMAIN ks |-> Tuple(<<ks[i], v[2][ks[i]]>>)] :
                             ks \in SE!SetToSeqs(DOMAIN v[2])}

NewEmptyOfSameType(v) == IF v[1] = "set" THEN <<"set", {}>> ELSE <<v[1], <<>>>>

(***************************************************************************)
(* Appendable::appendValue: the grown container, or the error that refuses *)
(* the item; and the items it dereferences null for.                       *)
(***************************************************************************)
AppendValue(c, v) ==
  CASE c[1] = "tuple" -> Tuple(Append(c[2], v))
    [] c[1] = "set"   -> <<"set", SetAdd(c[2], v)>>
    [] c[1] = "string" /\ IsA(v, "character") -> <<"string", Append(c[2], v[2])>>
    [] c[1] = "string" /\ IsA(v, "string")    -> <<"string", c[2] \o v[2]>>
    [] c[1] = "table" /\ IsPair(v) -> <<"table", TableAdd(c[2], v[2][1], v[2][2])>>
    [] OTHER -> Error("TYPE_MISMATCH")

AppendFaults(c, v) ==
  \/ c[1] \in {"string", "table"} /\ v = Null
  \/ /\ c[1] = "set" \/ (c[1] = "table" /\ IsPair(v))
     /\ LookupFaults(Keys(c), IF c[1] = "set" THEN v ELSE v[2][1])

\* Value_Table::valueAt shows a null as an empty value.
Shown(c) ==
  IF IsA(c, "table")
  THEN <<"table", [k \in DOMAIN c[2] |-> IF c[2][k] = Null THEN <<"empty">> ELSE c[2][k]]>>
  ELSE c

\* Value::clone, of which append grows the copy.  A set and a table add their entries,
\* in whatever order, to a new one; an entry that matches one added before is lost.
\* (What is inside an entry is taken to be copied as it is.)
Added(s) ==
  LET grow[n \in 0..Len(s)] == IF n = 0 THEN {} ELSE SetAdd(grow[n - 1], s[n])
  IN  grow[Len(s)]
Survivors(S) == {T \in SUBSET S : \E s \in SE!SetToSeqs(S) : T = Added(s)}
Clones(c) ==
  CASE c[1] = "set"   -> {<<"set", T>> : T \in Survivors(c[2])}
    [] c[1] = "table" -> {<<"table", [k \in T |-> Shown(c)[2][k]]>> :
                             T \in Survivors(DOMAIN c[2])}
    [] OTHER -> {c}

(***************************************************************************)
(* Value::typecast: what a conversion may produce, {Null} when there is no *)
(* conversion; and the conversions that dereference a null inside v, or    *)
(* throw because UTF-8 cannot hold the text.                               *)
(***************************************************************************)
FoldTable(s) ==
  LET grow[n \in 0..Len(s)] ==
        IF n = 0 THEN <<>> ELSE TableAdd(grow[n - 1], s[n][2][1], s[n][2][2])
  IN  grow[Len(s)]

Converts(v, type) ==
  IF type = "block" THEN IsA(v, "operation") ELSE IsPair(v)

TupleCast(s, type) ==
  CASE type = "block" /\ (\A i \in DOMAIN s : Converts(s[i], type)) ->
         <<"operation", <<"block", NewBlock, <<>>, [i \in DOMAIN s |-> s[i][2]]>>>>
    [] type = "table" /\ (\A i \in DOMAIN s : Converts(s[i], type)) ->
         <<"table", FoldTable(s)>>
    [] type = "bind" /\ Len(s) = 2 /\ IsA(s[2], "operation") ->
         <<"operation", <<"bind", s[1], s[2][2]>>>>
    [] OTHER -> Null

TupleCastFaults(s, type) ==
  \/ /\ type \in {"block", "table"}
     /\ \E i \in DOMAIN s :
          /\ \A j \in 1..(i - 1) : Converts(s[j], type)
          /\ \/ s[i] = Null
             \/ /\ type = "table" /\ IsPair(s[i])
                /\ LookupFaults(DOMAIN FoldTable(SubSeq(s, 1, i - 1)), s[i][2][1])
  \/ type = "bind" /\ Len(s) = 2 /\ s[2] = Null

Casts(v, type) ==
  IF type \in {v[1], "none"} THEN {v}
  ELSE IF type = "string" THEN {<<"string", Describe(v)>>}
  ELSE IF v[1] = "tuple" THEN {TupleCast(v[2], type)}
  ELSE IF v[1] \in {"set", "table"} /\ type = "tuple" THEN {Tuple(s) : s \in Orders(Shown(v))}
  ELSE {Null}

CastFaults(v, type) ==
  \/ v = Null
  \/ /\ type \notin {v[1], "none"}
     /\ \/ type = "string" /\ ~(Intact(v) /\ Encodable(v))
        \/ IsA(v, "tuple") /\ TupleCastFaults(v[2], type)

=============================================================================
