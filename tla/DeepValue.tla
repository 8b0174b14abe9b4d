----------------------------- MODULE DeepValue -----------------------------
(***************************************************************************)
(* Value::equals and Operation::equals, and what the hash of a value sees. *)
(*                                                                         *)
(* These walk a value to any depth, so they are recursive; the modules     *)
(* that are proved about take them as operator constants (see Value).      *)
(***************************************************************************)
EXTENDS Integers, Sequences, FiniteSets

RECURSIVE DeepCompare(_, _), CompareTuples(_, _), Met(_, _), CompareSets(_, _),
          CompareTables(_, _), CompareOperations(_, _), SameHash(_, _), SameSum(_, _),
          SameEntries(_, _), DeepHashed(_), NoNull(_, _), DeepEncodable(_)

LOCAL Nothing == <<"null">>

(***************************************************************************)
(* A loop that returns false at the first unequal pair: it also stops, for *)
(* good, at the first pair that cannot be compared.                        *)
(***************************************************************************)
AllEqual(verdicts) ==
  LET bad == {i \in DOMAIN verdicts : verdicts[i] # "equal"}
  IN  IF bad = {} THEN "equal"
      ELSE verdicts[CHOOSE i \in bad : \A j \in bad : i <= j]

Verdict(b) == IF b THEN "equal" ELSE "different"

EqualAtoms(a, b)      == Verdict(a[2] = b[2])
EqualBooleans(a, b)   == Verdict(a[2] = b[2])
EqualCharacters(a, b) == Verdict(a[2] = b[2])
EqualErrors(a, b)     == Verdict(a[2] = b[2])
EqualNumbers(a, b)    == Verdict(a[2] = b[2])
EqualStrings(a, b)    == Verdict(a[2] = b[2])
EqualTypes(a, b)      == Verdict(a[2] = b[2])
EqualEmpties          == "equal"

CompareTuples(s, t) ==
  IF Len(s) # Len(t) THEN "different"
  ELSE AllEqual([i \in DOMAIN s |-> DeepCompare(t[i], s[i])])

(***************************************************************************)
(* How an unordered_set or unordered_map finds a key: among the entries of *)
(* the same hash, the one the equater accepts.                             *)
(***************************************************************************)
Met(k, keys) == [x \in keys |-> IF SameHash(k, x) THEN DeepCompare(k, x) ELSE "different"]
Hits(met)    == {x \in DOMAIN met : met[x] = "equal"}
Faulty(met)  == \E x \in DOMAIN met : met[x] = "fault"

CompareSets(S, T) ==
  LET met     == [x \in S |-> Met(x, T)]
      missing == {x \in S : Hits(met[x]) = {}}
  IN  IF Cardinality(S) # Cardinality(T) THEN "different"
      ELSE IF \E x \in missing : Faulty(met[x]) THEN "fault"
      ELSE Verdict(missing = {})

\* Value_Table::valueAt: a null comes out as an empty value.
LOCAL Stored(h, k) == IF h[k] = Nothing THEN <<"empty">> ELSE h[k]

\* A key of f that g lacks is compared as if g mapped it to an empty value.
CompareTables(f, g) ==
  LET Found(met) == IF Hits(met) = {} THEN <<"empty">>
                                      ELSE Stored(g, CHOOSE x \in Hits(met) : TRUE)
      CompareAt(k, met) == IF Hits(met) = {} /\ Faulty(met) THEN "fault"
                           ELSE DeepCompare(Stored(f, k), Found(met))
      verdicts == {CompareAt(k, Met(k, DOMAIN g)) : k \in DOMAIN f}
  IN  IF Cardinality(DOMAIN f) # Cardinality(DOMAIN g) THEN "different"
      ELSE IF "fault" \in verdicts THEN "fault"
      ELSE Verdict(verdicts \subseteq {"equal"})

DeepCompare(a, b) ==
  IF a = Nothing THEN "fault"
  ELSE IF a[1] # b[1] THEN "different"
  ELSE CASE a[1] = "tuple"     -> CompareTuples(a[2], b[2])
         [] a[1] = "set"       -> CompareSets(a[2], b[2])
         [] a[1] = "table"     -> CompareTables(a[2], b[2])
         [] a[1] = "operation" -> CompareOperations(a[2], b[2])
         [] a[1] = "atom"      -> EqualAtoms(a, b)
         [] a[1] = "boolean"   -> EqualBooleans(a, b)
         [] a[1] = "character" -> EqualCharacters(a, b)
         [] a[1] = "error"     -> EqualErrors(a, b)
         [] a[1] = "number"    -> EqualNumbers(a, b)
         [] a[1] = "string"    -> EqualStrings(a, b)
         [] a[1] = "type"      -> EqualTypes(a, b)
         [] a[1] = "empty"     -> EqualEmpties

EqualLoads(a, b)       == Verdict(a[2] = b[2])
EqualStores(a, b)      == Verdict(a[2] = b[2])
EqualClears(a, b)      == Verdict(a[2] = b[2])
EqualLoadslots(a, b)   == Verdict(a[2] = b[2])
EqualStoreslots(a, b)  == Verdict(a[2] = b[2])
EqualLoadnatives(a, b) == Verdict(a[2] = b[2])
EqualNatives(a, b)     == Verdict(a[2] = b[2])
ComparePushes(a, b)    == DeepCompare(a[2], b[2])
CompareCalls(a, b)     == IF a[2] = b[2] THEN CompareTuples(b[3], a[3]) ELSE "different"

CompareBlocks(a, b) ==
  IF Len(a[4]) # Len(b[4]) \/ a[3] # b[3] THEN "different"
  ELSE AllEqual([i \in DOMAIN a[4] |-> CompareOperations(a[4][i], b[4][i])])

CompareSelects(a, b) ==
  LET cases == CompareTables(b[2], a[2]) IN
  IF cases # "equal" THEN cases
  ELSE IF a[3] # Nothing /\ b[3] # Nothing THEN DeepCompare(b[3], a[3])
  ELSE Verdict(a[3] = b[3])

CompareBinds(a, b) ==
  LET v == DeepCompare(a[2], b[2])
      c == CompareOperations(a[3], b[3])
  IN  IF "fault" \in {v, c} THEN "fault" ELSE Verdict(v = "equal" /\ c = "equal")

\* An operation with no equals of its own, IfTrue among them, equals every
\* operation of its class.
CompareOperations(a, b) ==
  IF a[1] # b[1] THEN "different"
  ELSE CASE a[1] = "push"       -> ComparePushes(a, b)
         [] a[1] = "load"       -> EqualLoads(a, b)
         [] a[1] = "store"      -> EqualStores(a, b)
         [] a[1] = "clear"      -> EqualClears(a, b)
         [] a[1] = "loadslot"   -> EqualLoadslots(a, b)
         [] a[1] = "storeslot"  -> EqualStoreslots(a, b)
         [] a[1] = "loadnative" -> EqualLoadnatives(a, b)
         [] a[1] = "native"     -> EqualNatives(a, b)
         [] a[1] = "call"       -> CompareCalls(a, b)
         [] a[1] = "bind"       -> CompareBinds(a, b)
         [] a[1] = "select"     -> CompareSelects(a, b)
         [] a[1] = "block"      -> CompareBlocks(a, b)
         [] OTHER               -> "equal"

(***************************************************************************)
(* Value::hash.  The hash of a container is a sum over its entries, so it  *)
(* forgets their order; that of an operation only knows its class.         *)
(* Accidental collisions are left out: the equater would reject them.      *)
(***************************************************************************)
LOCAL Pairings(S, T) ==
  IF Cardinality(S) # Cardinality(T) THEN {}
  ELSE {p \in [S -> T] : \A x, y \in S : p[x] = p[y] => x = y}

SameSum(f, g) ==
  \E p \in Pairings(DOMAIN f, DOMAIN g) : \A i \in DOMAIN f : SameHash(f[i], g[p[i]])

SameEntries(f, g) ==
  \E p \in Pairings(DOMAIN f, DOMAIN g) :
    \A k \in DOMAIN f : SameHash(k, p[k]) /\ SameHash(Stored(f, k), Stored(g, p[k]))

SameHash(a, b) ==
  /\ a[1] = b[1]
  /\ CASE a[1] = "tuple"     -> SameSum(a[2], b[2])
       [] a[1] = "set"       -> SameSum([x \in a[2] |-> x], [y \in b[2] |-> y])
       [] a[1] = "table"     -> SameEntries(a[2], b[2])
       [] a[1] = "operation" -> a[2][1] = b[2][1]
       [] OTHER              -> a = b

(***************************************************************************)
(* A value with no null pointer where hash goes: not into an operation.    *)
(***************************************************************************)
DeepHashed(v) ==
  CASE v[1] = "null"  -> FALSE
    [] v[1] = "tuple" -> \A i \in DOMAIN v[2] : DeepHashed(v[2][i])
    [] v[1] = "set"   -> \A x \in v[2] : DeepHashed(x)
    [] v[1] = "table" -> \A k \in DOMAIN v[2] : DeepHashed(k) /\ DeepHashed(Stored(v[2], k))
    [] OTHER -> TRUE

(***************************************************************************)
(* What clone and describe find directly inside a value or an operation.   *)
(* They see what a table maps to through valueAt, which hides a null.  (A  *)
(* select with no default has a null one by design, and looks before it    *)
(* uses it.)                                                               *)
(***************************************************************************)
LOCAL Entries(f, hidden) ==
  DOMAIN f \cup {IF hidden THEN f[k] ELSE Stored(f, k) : k \in DOMAIN f}

LOCAL Inside(v, hidden) ==
  CASE v[1] = "tuple" -> {v[2][i] : i \in DOMAIN v[2]}
    [] v[1] = "set"   -> v[2]
    [] v[1] = "table" -> Entries(v[2], hidden)
    [] v[1] \in {"operation", "push", "iftrue"} -> {v[2]}
    [] v[1] = "block"  -> {v[4][i] : i \in DOMAIN v[4]}
    [] v[1] = "call"   -> {v[3][i] : i \in DOMAIN v[3]}
    [] v[1] = "bind"   -> {v[2], v[3]}
    [] v[1] = "select" -> Entries(v[2], hidden) \cup ({v[3]} \ {Nothing})
    [] OTHER -> {}

NoNull(v, hidden) == v # Nothing /\ \A p \in Inside(v, hidden) : NoNull(p, hidden)

DeepIntact(v) == NoNull(v, FALSE)
DeepWhole(v)  == NoNull(v, TRUE)

\* The largest character UTF-8 has bytes for.  (What a library does with the surrogates
\* below it has changed over time: no sample holds one.)
UnicodeMax == 1114111

DeepEncodable(v) ==
  /\ v[1] = "string" => \A i \in DOMAIN v[2] : v[2][i] <= UnicodeMax
  /\ \A p \in Inside(v, FALSE) : DeepEncodable(p)

=============================================================================
