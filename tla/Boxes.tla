-------------------------------- MODULE Boxes --------------------------------
(***************************************************************************)
(* The values as the code keeps them: objects on the heap, shared by the   *)
(* stack, by containers and by the operations that push them.              *)
(*                                                                         *)
(* Module Operations takes a value for what it contains.  Here a value is  *)
(* a reference, and an object is its class and its contents: references,   *)
(* for a container.  Containers are filled in place (appendValue), while   *)
(* the machine's values are promised to be immutable; this module checks   *)
(* that every operation which moves, takes apart or grows a value keeps    *)
(* that promise, and that nothing can tell the two views apart.            *)
(*                                                                         *)
(* An object that nothing reaches is gone: its shared_ptrs are counted.    *)
(***************************************************************************)
EXTENDS DeepValue

SE == INSTANCE SequencesExt

CONSTANTS
  Programs,   \* what the push operations of a program may hold: functions from
              \* references to objects
  MaxBoxes,   \* bound on the other objects alive, for each of them
  MaxStack    \* bound on the height of the stack

\* Strings share nothing with anything, and are left out.
ASSUME ProgramsAssumption ==
  /\ \A program \in Programs :
       /\ DOMAIN program \subseteq Nat \ {0}
       /\ \A r \in DOMAIN program : program[r][1] # "string" /\ program[r] # <<"type", "string">>
  /\ MaxBoxes \in [Programs -> Nat] /\ MaxStack \in Nat

VARIABLES
  program,  \* the objects the push operations hold
  heap,     \* the objects alive: a function from references to objects
  stack,    \* MachineState::mStack: references, top last
  mode,     \* as in Operations; "fetch" between two operations
  current   \* as in Operations; a push holds a reference

boxVars == <<program, heap, stack, mode, current>>

NoOperation == <<"none">>
Containers  == {"tuple", "set", "table"}

(***************************************************************************)
(* The heap: what an object refers to, the value a reference stands for,   *)
(* a new object, the objects that survive.  An operation and the value     *)
(* made of it are one object; its class is its name when it refers to      *)
(* others, as <<"bind", value, operation>> does, and a select without a    *)
(* default refers to Nobody.                                               *)
(***************************************************************************)
Nobody  == 0
Holders == {"push", "iftrue", "bind", "call", "select", "block"}

Held(object) ==
  CASE object[1] = "tuple" -> {object[2][i] : i \in DOMAIN object[2]}
    [] object[1] = "set"   -> object[2]
    [] object[1] = "table" -> DOMAIN object[2] \cup {object[2][k] : k \in DOMAIN object[2]}
    [] object[1] \in {"push", "iftrue"} -> {object[2]}
    [] object[1] \in {"bind", "select"} -> {object[2], object[3]} \ {Nobody}
    [] object[1] = "call"  -> {object[3]}
    [] object[1] = "block" -> {object[3][i] : i \in DOMAIN object[3]}
    [] OTHER -> {}

RECURSIVE Denotes(_, _), Operation(_, _), Reach(_, _), Clone(_, _)

\* The operation that object r is.
Operation(h, r) ==
  LET o == h[r] IN
  CASE o[1] = "push"   -> <<"push", Denotes(h, o[2])>>
    [] o[1] = "iftrue" -> <<"iftrue", Operation(h, o[2])>>
    [] o[1] = "bind"   -> <<"bind", Denotes(h, o[2]), Operation(h, o[3])>>
    [] o[1] = "call"   -> <<"call", o[2], Denotes(h, o[3])[2]>>
    [] o[1] = "select" -> <<"select", Denotes(h, o[2])[2],
                            IF o[3] = Nobody THEN <<"null">> ELSE Denotes(h, o[3])>>
    [] o[1] = "block"  -> <<"block", "made", o[2], [i \in DOMAIN o[3] |-> Operation(h, o[3][i])]>>
    [] OTHER           -> o[2]

\* The value of module Value that reference r stands for in heap h.
Denotes(h, r) ==
  LET o == h[r] IN
  CASE o[1] = "tuple" -> <<"tuple", [i \in DOMAIN o[2] |-> Denotes(h, o[2][i])]>>
    [] o[1] = "set"   -> <<"set", {Denotes(h, x) : x \in o[2]}>>
    [] o[1] = "table" ->
         <<"table", [v \in {Denotes(h, k) : k \in DOMAIN o[2]} |->
                       Denotes(h, o[2][CHOOSE k \in DOMAIN o[2] : Denotes(h, k) = v])]>>
    [] o[1] \in Holders -> <<"operation", Operation(h, r)>>
    [] OTHER -> o

Reach(h, found) ==
  LET more == found \cup UNION {Held(h[r]) : r \in found \cap DOMAIN h}
  IN  IF more = found THEN found ELSE Reach(h, more)

Alive(h, s) ==
  [r \in Reach(h, DOMAIN program \cup {s[i] : i \in DOMAIN s}) \cap DOMAIN h |-> h[r]]

\* std::make_shared: the heap with one more object, and the reference to it.
Made(h, object) ==
  LET r == CHOOSE n \in 1..(Cardinality(DOMAIN h) + 1) : n \notin DOMAIN h
  IN  [heap |-> [x \in DOMAIN h \cup {r} |-> IF x = r THEN object ELSE h[x]], ref |-> r]

MakeAll(h, objects) ==
  LET after[n \in 0..Len(objects)] ==
        IF n = 0 THEN [heap |-> h, refs |-> <<>>]
        ELSE LET made == Made(after[n - 1].heap, objects[n])
             IN  [heap |-> made.heap, refs |-> Append(after[n - 1].refs, made.ref)]
  IN  after[Len(objects)]

(***************************************************************************)
(* Looking up a key in a set or a table, and adding one.                   *)
(***************************************************************************)
SameKey(h, j, k)  == Hits(Met(Denotes(h, j), {Denotes(h, k)})) # {}
SetAdd(h, S, r)   == IF \E x \in S : SameKey(h, r, x) THEN S ELSE S \cup {r}
TableAdd(h, f, k, v) ==
  IF \E x \in DOMAIN f : SameKey(h, k, x) THEN f
  ELSE [x \in DOMAIN f \cup {k} |-> IF x = k THEN v ELSE f[x]]

(***************************************************************************)
(* Value::clone: a new object for every object the value is made of, as    *)
(* often as it occurs in it.  The entries of a set or a table are added    *)
(* one by one to a new one.                                                *)
(***************************************************************************)
CloneAll(h, refs) ==
  LET after[n \in 0..Len(refs)] ==
        IF n = 0 THEN [heap |-> h, refs |-> <<>>]
        ELSE LET c == Clone(after[n - 1].heap, refs[n])
             IN  [heap |-> c.heap, refs |-> Append(after[n - 1].refs, c.ref)]
  IN  after[Len(refs)]

CloneTuple(h, refs) ==
  LET items == CloneAll(h, refs) IN Made(items.heap, <<"tuple", items.refs>>)

CloneSet(h, refs) ==
  LET items == CloneAll(h, SE!SetToSeq(refs))
      added[n \in 0..Len(items.refs)] ==
        IF n = 0 THEN {} ELSE SetAdd(items.heap, added[n - 1], items.refs[n])
  IN  Made(items.heap, <<"set", added[Len(items.refs)]>>)

CloneTable(h, f) ==
  LET ks     == SE!SetToSeq(DOMAIN f)
      keys   == CloneAll(h, ks)
      values == CloneAll(keys.heap, [i \in DOMAIN ks |-> f[ks[i]]])
      added[n \in 0..Len(ks)] ==
        IF n = 0 THEN <<>>
        ELSE TableAdd(values.heap, added[n - 1], keys.refs[n], values.refs[n])
  IN  Made(values.heap, <<"table", added[Len(ks)]>>)

CloneBind(h, v, op) ==
  LET parts == CloneAll(h, <<v, op>>) IN Made(parts.heap, <<"bind">> \o parts.refs)

ClonePush(h, v)      == LET c == Clone(h, v) IN Made(c.heap, <<"push", c.ref>>)
CloneIfTrue(h, op)   == LET c == Clone(h, op) IN Made(c.heap, <<"iftrue", c.ref>>)
CloneCall(h, n, arg) == LET c == Clone(h, arg) IN Made(c.heap, <<"call", n, c.ref>>)

CloneSelect(h, cases, orElse) ==
  IF orElse = Nobody
  THEN LET c == Clone(h, cases) IN Made(c.heap, <<"select", c.ref, Nobody>>)
  ELSE LET parts == CloneAll(h, <<cases, orElse>>) IN Made(parts.heap, <<"select">> \o parts.refs)

CloneBlock(h, slots, ops) ==
  LET items == CloneAll(h, ops) IN Made(items.heap, <<"block", slots, items.refs>>)

Clone(h, r) ==
  LET o == h[r] IN
  CASE o[1] = "tuple"  -> CloneTuple(h, o[2])
    [] o[1] = "set"    -> CloneSet(h, o[2])
    [] o[1] = "table"  -> CloneTable(h, o[2])
    [] o[1] = "push"   -> ClonePush(h, o[2])
    [] o[1] = "iftrue" -> CloneIfTrue(h, o[2])
    [] o[1] = "bind"   -> CloneBind(h, o[2], o[3])
    [] o[1] = "call"   -> CloneCall(h, o[2], o[3])
    [] o[1] = "select" -> CloneSelect(h, o[2], o[3])
    [] o[1] = "block"  -> CloneBlock(h, o[2], o[3])
    [] OTHER           -> Made(h, o)

(***************************************************************************)
(* Appendable::appendValue, in place: the contents object r is left with,  *)
(* or the error that refuses the item.                                     *)
(***************************************************************************)
IsPair(h, r) == h[r][1] = "tuple" /\ Len(h[r][2]) = 2

AppendValue(h, r, item) ==
  LET class == h[r][1]
      old   == h[r][2]
  IN
  CASE class = "tuple" -> <<"tuple", Append(old, item)>>
    [] class = "set"   -> <<"set", SetAdd(h, old, item)>>
    [] class = "table" /\ IsPair(h, item) ->
         <<"table", TableAdd(h, old, h[item][2][1], h[item][2][2])>>
    [] OTHER -> <<"error", "TYPE_MISMATCH">>

(***************************************************************************)
(* The operations.  An operation returns with a stack over the heap it has *)
(* added to; what the stack no longer reaches is freed.                    *)
(***************************************************************************)
Operand(k) == stack[Len(stack) - k + 1]
ClassOf(o) == IF o[1] \in Holders THEN "operation" ELSE o[1]
Class(k)   == ClassOf(heap[Operand(k)])
Without(k) == SubSeq(stack, 1, Len(stack) - k)

Return(h, stk, result) == /\ stack' = stk
                          /\ heap' = Alive(h, stk)
                          /\ mode' = result
                          /\ current' = NoOperation
                          /\ UNCHANGED program
Succeed(h, stk) == Return(h, stk, "SUCCESS")
PushNew(stk, object) == LET made == Made(heap, object)
                        IN  Succeed(made.heap, Append(stk, made.ref))
Fail(stk, code) == LET made == Made(heap, <<"error", code>>)
                   IN  Return(made.heap, Append(stk, made.ref), "ERROR")

Argc == [push |-> 0, dup |-> 1, pop |-> 1, swap |-> 2, resetstack |-> 0, pack |-> 1,
         unpack |-> 1, at |-> 2, find |-> 2, append |-> 2, typecast |-> 2]
Accepted   == Len(stack) >= Argc[current[1]]
Runs(code) == mode = "execute" /\ current[1] = code /\ Accepted

RejectArguments == mode = "execute" /\ ~Accepted /\ Fail(stack, "INSUFFICIENT_ARGUMENTS")

\* The very object the operation holds.
Push       == Runs("push") /\ Succeed(heap, Append(stack, current[2]))
Dup        == Runs("dup") /\ Succeed(heap, Append(stack, Operand(1)))
Pop        == Runs("pop") /\ Succeed(heap, Without(1))
Swap       == Runs("swap") /\ Succeed(heap, Without(2) \o <<Operand(1), Operand(2)>>)
ResetStack == Runs("resetstack") /\ Succeed(heap, <<>>)

Pack ==
  /\ Runs("pack")
  /\ LET cnt == heap[Operand(1)] IN
     \/ cnt[1] # "number" /\ Fail(stack, "TYPE_MISMATCH")
     \/ cnt[1] = "number" /\ cnt[2] >= Len(stack) /\ Fail(stack, "INSUFFICIENT_ARGUMENTS")
     \/ /\ cnt[1] = "number" /\ cnt[2] < Len(stack)
        /\ PushNew(Without(1 + cnt[2]), <<"tuple", [i \in 1..cnt[2] |-> Operand(1 + i)]>>)

Unpack ==
  /\ Runs("unpack")
  /\ \/ Class(1) = "tuple" /\ Succeed(heap, Without(1) \o heap[Operand(1)][2])
     \/ Class(1) # "tuple" /\ Fail(stack, "TYPE_MISMATCH")

\* An item of a tuple or a set is the item itself; that of a table is a new pair.
At ==
  /\ Runs("at")
  /\ LET n     == heap[Operand(1)][2]
         items == heap[Operand(2)][2]
         keys  == IF Class(2) = "table" THEN DOMAIN items ELSE items
         valid == Class(1) = "number" /\ Class(2) \in Containers
         size  == IF Class(2) = "tuple" THEN Len(items) ELSE Cardinality(keys)
     IN
     \/ ~valid /\ Fail(stack, "TYPE_MISMATCH")
     \/ valid /\ n >= size /\ Fail(stack, "OUT_OF_BOUNDS")
     \/ valid /\ n < size /\ Class(2) = "tuple" /\ Succeed(heap, Append(Without(2), items[n + 1]))
     \/ /\ valid /\ n < size /\ Class(2) = "set"
        /\ \E x \in keys : Succeed(heap, Append(Without(2), x))
     \/ /\ valid /\ n < size /\ Class(2) = "table"
        /\ \E k \in keys : PushNew(Without(2), <<"tuple", <<k, items[k]>>>>)

Find ==
  /\ Runs("find")
  /\ LET items == heap[Operand(2)][2]
         keys  == IF Class(2) = "table" THEN DOMAIN items ELSE items
         there == {k \in keys : SameKey(heap, Operand(1), k)}
         valid == Class(2) \in {"set", "table"}
     IN
     \/ ~valid /\ Fail(stack, "TYPE_MISMATCH")
     \/ valid /\ there = {} /\ PushNew(Without(2), <<"error", "NOT_FOUND">>)
     \/ /\ valid /\ there # {} /\ Class(2) = "set"
        /\ PushNew(Without(2), <<"boolean", TRUE>>)
     \/ /\ valid /\ there # {} /\ Class(2) = "table"
        /\ \E k \in there : Succeed(heap, Append(Without(2), items[k]))

\* Mutant: the container itself is grown.
MutantAppendItem ==
  /\ Runs("append")
  /\ LET copy  == [heap |-> heap, ref |-> Operand(2)]
         grown == AppendValue(copy.heap, copy.ref, Operand(1))
     IN
     \/ grown[1] = "error" /\ Fail(stack, grown[2])
     \/ /\ grown[1] # "error"
        /\ Succeed([copy.heap EXCEPT ![copy.ref] = grown], Append(Without(2), copy.ref))

\* Mutant: the value that was popped is pushed back, not the copy that was grown.
MutantAppendBack ==
  /\ Runs("append")
  /\ LET copy  == Clone(heap, Operand(2))
         grown == AppendValue(copy.heap, copy.ref, Operand(1))
     IN
     \/ grown[1] = "error" /\ Fail(stack, grown[2])
     \/ /\ grown[1] # "error"
        /\ Succeed([copy.heap EXCEPT ![copy.ref] = grown], Append(Without(2), Operand(2)))

\* The copy is grown; when it refuses the item it is dropped.
AppendItem ==
  /\ Runs("append")
  /\ LET copy  == Clone(heap, Operand(2))
         grown == AppendValue(copy.heap, copy.ref, Operand(1))
     IN
     \/ grown[1] = "error" /\ Fail(stack, grown[2])
     \/ /\ grown[1] # "error"
        /\ Succeed([copy.heap EXCEPT ![copy.ref] = grown], Append(Without(2), copy.ref))

(***************************************************************************)
(* Value::typecast between containers: a new container of the same items.  *)
(***************************************************************************)
TableOf(refs) ==
  LET grown[n \in 0..Len(refs)] ==
        IF n = 0 THEN <<>>
        ELSE LET pair == heap[refs[n]][2] IN TableAdd(heap, grown[n - 1], pair[1], pair[2])
  IN  grown[Len(refs)]

CastTuple(type) ==
  LET items == heap[Operand(2)][2]
      pairs == type = "table" /\ \A i \in DOMAIN items : IsPair(heap, items[i])
      block == type = "block" /\ \A i \in DOMAIN items : ClassOf(heap[items[i]]) = "operation"
      binds == type = "bind" /\ Len(items) = 2 /\ ClassOf(heap[items[2]]) = "operation"
  IN
  \/ block /\ PushNew(Without(2), <<"block", <<>>, items>>)
  \/ pairs /\ PushNew(Without(2), <<"table", TableOf(items)>>)
  \/ binds /\ PushNew(Without(2), <<"bind", items[1], items[2]>>)
  \/ ~block /\ ~pairs /\ ~binds /\ Fail(stack, "TYPE_MISMATCH")

CastToTuple ==
  LET items == heap[Operand(2)][2] IN
  \/ /\ Class(2) = "set"
     /\ \E s \in SE!SetToSeqs(items) : PushNew(Without(2), <<"tuple", s>>)
  \/ /\ Class(2) = "table"
     /\ \E ks \in SE!SetToSeqs(DOMAIN items) :
          LET pairs == MakeAll(heap, [i \in DOMAIN ks |-> <<"tuple", <<ks[i], items[ks[i]]>>>>])
              tuple == Made(pairs.heap, <<"tuple", pairs.refs>>)
          IN  Succeed(tuple.heap, Append(Without(2), tuple.ref))

Typecast ==
  /\ Runs("typecast")
  /\ LET type == heap[Operand(1)][2]
         same == type \in {Class(2), "none"}
     IN
     \/ Class(1) # "type" /\ Fail(stack, "TYPE_MISMATCH")
     \/ Class(1) = "type" /\ same /\ Succeed(heap, Without(1))
     \/ Class(1) = "type" /\ ~same /\ Class(2) = "tuple" /\ CastTuple(type)
     \/ Class(1) = "type" /\ type = "tuple" /\ Class(2) \in {"set", "table"} /\ CastToTuple
     \/ /\ Class(1) = "type" /\ ~same /\ Class(2) # "tuple"
        /\ ~(type = "tuple" /\ Class(2) \in {"set", "table"})
        /\ Fail(stack, "TYPE_MISMATCH")

(***************************************************************************)
(* The specification: any program over its constants.                      *)
(***************************************************************************)
DoExecute == \/ Push \/ Dup \/ Pop \/ Swap \/ ResetStack \/ Pack \/ Unpack
             \/ At \/ Find \/ AppendItem \/ Typecast

Fetch ==
  /\ mode # "execute"
  /\ mode' = "execute"
  /\ current' \in {<<"push", r>> : r \in DOMAIN program}
                  \cup {<<code>> : code \in DOMAIN Argc \ {"push"}}
  /\ UNCHANGED <<program, heap, stack>>

Init ==
  /\ program \in Programs
  /\ heap = program
  /\ stack = <<>>
  /\ mode = "fetch"
  /\ current = NoOperation

Next == /\ Fetch \/ RejectArguments \/ DoExecute
        /\ Cardinality(DOMAIN heap' \ DOMAIN program) <= MaxBoxes[program]
        /\ Len(stack') <= MaxStack

Spec == Init /\ [][Next]_boxVars

-----------------------------------------------------------------------------
(***************************************************************************)
(* Properties.                                                             *)
(***************************************************************************)

\* Values are immutable: an object keeps its contents for as long as it lives, the
\* objects that push operations, other stack entries or other containers share
\* included.
BoxesAreImmutable == [][\A r \in DOMAIN heap \cap DOMAIN heap' : heap'[r] = heap[r]]_boxVars

\* The machine seen by its values.
Values == INSTANCE Operations WITH
  Width    <- 8,
  NewBlock <- "made",
  Compare  <- DeepCompare,
  HashAlike <- SameHash,
  Hashed   <- DeepHashed,
  Intact   <- DeepIntact,
  Describe <- LAMBDA v : <<>>,
  Encodable <- LAMBDA v : TRUE,
  Parsed   <- LAMBDA s : <<"null">>,
  stack    <- [i \in DOMAIN stack |-> Denotes(heap, stack[i])],
  current  <- IF current[1] = "push" THEN <<"push", Denotes(heap, current[2])>> ELSE current

\* Sharing cannot be observed: every step is a step of module Operations on the
\* values the references stand for.
ImplementsValues == [][mode = "execute" => Values!Leaf]_boxVars

=============================================================================
