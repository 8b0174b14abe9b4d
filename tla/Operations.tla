----------------------------- MODULE Operations -----------------------------
(***************************************************************************)
(* The operations that touch nothing but the stack (src/operation), one    *)
(* action per doExecute.                                                   *)
(*                                                                         *)
(* The machine is in mode "execute" when Operation::execute has just been  *)
(* called on the operation current; when such a call has just come back,   *)
(* its result is the mode.  Mode "undefined" is the end of a process that  *)
(* dereferenced a null pointer, or threw what nobody catches: whatever it  *)
(* does next, it is not the machine's doing.                               *)
(*                                                                         *)
(* The stack is a sequence with its top at the end.                        *)
(***************************************************************************)
EXTENDS Value

VARIABLES
  stack,   \* MachineState::mStack
  mode,    \* what the machine is about to do, or the result that came back
  current  \* the operation in hand in mode "execute", otherwise NoOperation

opVars == <<stack, mode, current>>

NoOperation == <<"none">>

Results == {"SUCCESS", "ERROR", "HALT", "EXIT_BLOCK", "RESTART_BLOCK", "AGAIN"}

ArithmeticOps == {"add", "sub", "mul", "div", "mod"}
SignOps       == {"pos", "neg", "zero"}
LogicalOps    == {"and", "or", "xor"}

(***************************************************************************)
(* The preconditions of BaseOperation: how many values the stack must hold *)
(* before doExecute is entered.                                            *)
(***************************************************************************)
\* Mutant: exec has no precondition.
MutantOneArgument ==
  SignOps \cup {"not", "dup", "iftrue", "pack", "parse", "pop",
                "size", "store", "storeslot", "typeof", "unpack"}
OneArgument   == SignOps \cup {"not", "dup", "exec", "iftrue", "pack", "parse", "pop",
                               "size", "store", "storeslot", "typeof", "unpack"}
TwoArguments  == ArithmeticOps \cup LogicalOps \cup
                 {"append", "at", "eq", "filter", "find", "map", "swap", "typecast"}
Argc(code) == IF code \in OneArgument THEN 1
              ELSE IF code \in TwoArguments THEN 2
              ELSE IF code = "reduce" THEN 3 ELSE 0

(***************************************************************************)
(* The stack as the operations see it: the value the k-th pop returns,     *)
(* null past the bottom, and what the stack is after k pops.               *)
(***************************************************************************)
Operand(k) == IF k <= Len(stack) THEN stack[Len(stack) - k + 1] ELSE Null
Without(k) == SubSeq(stack, 1, Len(stack) - k)

Return(stk, result) == /\ stack' = stk
                       /\ mode' = result
                       /\ current' = NoOperation
Succeed(stk)    == Return(stk, "SUCCESS")
Fail(stk, code) == Return(Append(stk, Error(code)), "ERROR")

\* An operation that runs another one: the call in tail position.
Invoke(op, stk) == /\ stack' = stk
                   /\ mode' = "execute"
                   /\ current' = op

(***************************************************************************)
(* The operands an operation dereferences without looking: a null among    *)
(* them ends the process, and so does a string that cannot be converted to *)
(* UTF-8.  Every other use of a null is a failed cast.                     *)
(***************************************************************************)
Faults(code) ==
  LET p1 == Operand(1)
      p2 == Operand(2)
      p3 == Operand(3)
  IN
  \/ code \in SignOps \cup {"not", "typeof", "map", "filter"} /\ p1 = Null
  \/ code = "reduce" /\ p2 = Null
  \/ code \in ArithmeticOps /\ (p1 = Null \/ (IsA(p1, "number") /\ p2 = Null))
  \/ code \in LogicalOps /\ (p1 = Null \/ (IsA(p1, "boolean") /\ p2 = Null))
  \/ code = "eq" /\ (p1 = Null \/ Compare(p1, p2) = "fault")
  \/ code = "select" /\ LookupFaults(DOMAIN current[2], p1)
  \/ code = "find" /\ p2[1] \in {"set", "table"} /\ p1 # Null /\ LookupFaults(Keys(p2), p1)
  \/ code = "typecast" /\ IsA(p1, "type") /\ CastFaults(p2, p1[2])
  \/ code = "parse" /\ IsA(p1, "string") /\ ~Encodable(p1)
  \/ code = "append" /\ (~Intact(p2) \/ AppendFaults(p2, p1))

\* The class whose doExecute runs.
Runs(code) == mode = "execute" /\ current[1] = code

(***************************************************************************)
(* BaseOperation::execute, in front of every doExecute: Accepted when the  *)
(* precondition is satisfied (and doExecute does not end the process);     *)
(* RejectArguments when the stack is too short for the operation.          *)
(***************************************************************************)
Accepted == Len(stack) >= Argc(current[1]) /\ ~Faults(current[1])

RejectArguments ==
  /\ mode = "execute"
  /\ Len(stack) < Argc(current[1])
  /\ Fail(stack, "INSUFFICIENT_ARGUMENTS")

EndProcess ==
  /\ mode = "execute"
  /\ Len(stack) >= Argc(current[1])
  /\ Faults(current[1])
  /\ mode' = "undefined"
  /\ UNCHANGED <<stack, current>>

(***************************************************************************)
(* Operations that only return a result to the block they are in.          *)
(***************************************************************************)
Nop   == Runs("nop")   /\ Succeed(stack)
Halt  == Runs("halt")  /\ Return(stack, "HALT")
Break == Runs("break") /\ Return(stack, "EXIT_BLOCK")
Loop  == Runs("loop")  /\ Return(stack, "RESTART_BLOCK")

(***************************************************************************)
(* Operations on the stack itself.                                         *)
(***************************************************************************)
Push       == Runs("push") /\ Succeed(Append(stack, current[2]))
Dup        == Runs("dup") /\ Succeed(Append(stack, Operand(1)))
Pop        == Runs("pop") /\ Succeed(Without(1))
Swap       == Runs("swap") /\ Succeed(Without(2) \o <<Operand(1), Operand(2)>>)
ResetStack == Runs("resetstack") /\ Succeed(<<>>)

(***************************************************************************)
(* Arithmetic and logic.  p1 is the top of the stack: a - b subtracts the  *)
(* value below the top from the top.  A division by zero leaves both       *)
(* operands under the error and yet succeeds.                              *)
(***************************************************************************)
EvalArithmetic(code, n1, n2) ==
  CASE code = "add" -> Number(n1 + n2)
    [] code = "sub" -> Number(n1 - n2)
    [] code = "mul" -> Number(n1 * n2)
    [] code \in {"div", "mod"} /\ n2 = 0 -> Error("DIV_BY_ZERO")
    [] code = "div" /\ n2 # 0 -> Number(n1 \div n2)
    [] code = "mod" /\ n2 # 0 -> Number(n1 % n2)

BinaryArithmetic ==
  \E code \in ArithmeticOps :
    /\ Runs(code)
    /\ LET p1 == Operand(1)
           p2 == Operand(2)
           numbers == IsA(p1, "number") /\ IsA(p2, "number")
           value == EvalArithmetic(code, p1[2], p2[2])
       IN
       \/ /\ numbers /\ ~IsA(value, "error")
          /\ Succeed(Append(Without(2), value))
       \/ /\ numbers /\ IsA(value, "error")
          /\ Succeed(Without(2) \o <<p2, p1, value>>)
       \/ /\ ~numbers
          /\ Fail(Without(2) \o <<p2, p1>>, "TYPE_MISMATCH")

EvalSign(code, n) == CASE code = "pos"  -> Boolean(Signed(n) > 0)
                       [] code = "neg"  -> Boolean(Signed(n) < 0)
                       [] code = "zero" -> Boolean(n = 0)

UnaryArithmetic ==
  \E code \in SignOps :
    /\ Runs(code)
    /\ LET p == Operand(1) IN
       \/ IsA(p, "number") /\ Succeed(Append(Without(1), EvalSign(code, p[2])))
       \/ ~IsA(p, "number") /\ Fail(Append(Without(1), p), "TYPE_MISMATCH")

EvalLogical(code, b1, b2) == CASE code = "and" -> Boolean(b1 /\ b2)
                               [] code = "or"  -> Boolean(b1 \/ b2)
                               [] code = "xor" -> Boolean((b1 \/ b2) /\ ~(b1 /\ b2))

BinaryLogical ==
  \E code \in LogicalOps :
    /\ Runs(code)
    /\ LET p1 == Operand(1)
           p2 == Operand(2)
           booleans == IsA(p1, "boolean") /\ IsA(p2, "boolean")
       IN
       \/ booleans /\ Succeed(Append(Without(2), EvalLogical(code, p1[2], p2[2])))
       \/ ~booleans /\ Fail(Without(2) \o <<p2, p1>>, "TYPE_MISMATCH")

Not ==
  /\ Runs("not")
  /\ LET p == Operand(1) IN
     \/ IsA(p, "boolean") /\ Succeed(Append(Without(1), Boolean(~p[2])))
     \/ ~IsA(p, "boolean") /\ Fail(Append(Without(1), p), "TYPE_MISMATCH")

(***************************************************************************)
(* Questions about a value, and conversions of it.                         *)
(***************************************************************************)
Equals ==
  /\ Runs("eq")
  /\ Succeed(Append(Without(2), Boolean(Compare(Operand(1), Operand(2)) = "equal")))

Typeof == Runs("typeof") /\ Succeed(Append(Without(1), <<"type", Operand(1)[1]>>))

Size ==
  /\ Runs("size")
  /\ LET v == Operand(1) IN
     Succeed(Append(Without(1), Number(IF Iterable(v) THEN Count(v) ELSE 1)))

Typecast ==
  /\ Runs("typecast")
  /\ LET tyval == Operand(1)
         obj == Operand(2)
     IN
     \/ /\ IsA(tyval, "type")
        /\ \E cv \in Casts(obj, tyval[2]) :
             \/ cv # Null /\ Succeed(Append(Without(2), cv))
             \/ cv = Null /\ Fail(Without(2) \o <<obj, tyval>>, "TYPE_MISMATCH")
     \/ /\ ~IsA(tyval, "type")
        /\ Fail(Without(2) \o <<obj, tyval>>, "TYPE_MISMATCH")

Parse ==
  /\ Runs("parse")
  /\ LET val == Operand(1)
         res == Parsed(val[2])
     IN
     \/ ~IsA(val, "string") /\ Fail(Append(Without(1), val), "TYPE_MISMATCH")
     \/ IsA(val, "string") /\ res = Null /\ Fail(Append(Without(1), val), "SYNTAX_ERROR")
     \/ IsA(val, "string") /\ res # Null /\ Succeed(Append(Without(1), res))

(***************************************************************************)
(* Containers.  Size and unpack see a container's items, at and find one   *)
(* of them; append grows a copy; pack takes its items off the stack, top   *)
(* first.                                                                  *)
(***************************************************************************)
\* Mutant: the index and the container are pushed back in the order they were popped.
MutantAt ==
  /\ Runs("at")
  /\ LET nval == Operand(1)
         obj == Operand(2)
         valid == IsA(nval, "number") /\ Iterable(obj)
     IN
     \/ /\ valid /\ nval[2] >= Count(obj)
        /\ Fail(Without(2) \o <<nval, obj>>, "OUT_OF_BOUNDS")
     \/ /\ valid /\ nval[2] < Count(obj)
        /\ \E items \in Orders(obj) : Succeed(Append(Without(2), items[nval[2] + 1]))
     \/ /\ ~valid
        /\ Fail(Without(2) \o <<obj, nval>>, "TYPE_MISMATCH")

At ==
  /\ Runs("at")
  /\ LET nval == Operand(1)
         obj == Operand(2)
         valid == IsA(nval, "number") /\ Iterable(obj)
     IN
     \/ /\ valid /\ nval[2] >= Count(obj)
        /\ Fail(Without(2) \o <<obj, nval>>, "OUT_OF_BOUNDS")
     \/ /\ valid /\ nval[2] < Count(obj)
        /\ \E items \in Orders(obj) : Succeed(Append(Without(2), items[nval[2] + 1]))
     \/ /\ ~valid
        /\ Fail(Without(2) \o <<obj, nval>>, "TYPE_MISMATCH")

\* A key that is not there is no failure: the operation succeeds with an error value.
Find ==
  /\ Runs("find")
  /\ LET key == Operand(1)
         obj == Operand(2)
         valid == obj[1] \in {"set", "table"} /\ key # Null
     IN
     \/ /\ valid /\ IsA(obj, "set")
        /\ Succeed(Append(Without(2), IF SetHas(obj[2], key) THEN Boolean(TRUE)
                                                             ELSE Error("NOT_FOUND")))
     \/ /\ valid /\ IsA(obj, "table")
        /\ \E found \in TableFinds(obj[2], key) :
             Succeed(Append(Without(2), IF found = Null THEN Error("NOT_FOUND") ELSE found))
     \/ /\ ~valid
        /\ Fail(Without(2) \o <<obj, key>>, "TYPE_MISMATCH")

AppendItem ==
  /\ Runs("append")
  /\ LET item == Operand(1)
         container == Operand(2)
     IN
     \E cloned \in Clones(container) :
       LET grown == AppendValue(cloned, item) IN
       \/ IsA(grown, "error") /\ Fail(Without(2) \o <<container, item>>, grown[2])
       \/ ~IsA(grown, "error") /\ Succeed(Append(Without(2), grown))

\* Mutant: the count is popped once more after the items.
MutantPack ==
  /\ Runs("pack")
  /\ LET cnt == Operand(1)
         valid == IsA(cnt, "number")
         under == Len(stack) - 1
     IN
     \/ ~valid /\ Fail(Append(Without(1), cnt), "TYPE_MISMATCH")
     \/ /\ valid /\ cnt[2] > under
        /\ Fail(Append(Without(1), cnt), "INSUFFICIENT_ARGUMENTS")
     \/ /\ valid /\ cnt[2] <= under
        /\ Succeed(Append(Without(2 + cnt[2]),
                          Tuple([i \in 1..cnt[2] |-> Operand(1 + i)])))

Pack ==
  /\ Runs("pack")
  /\ LET cnt == Operand(1)
         valid == IsA(cnt, "number")
         under == Len(stack) - 1
     IN
     \/ ~valid /\ Fail(Append(Without(1), cnt), "TYPE_MISMATCH")
     \/ /\ valid /\ cnt[2] > under
        /\ Fail(Append(Without(1), cnt), "INSUFFICIENT_ARGUMENTS")
     \/ /\ valid /\ cnt[2] <= under
        /\ Succeed(Append(Without(1 + cnt[2]),
                          Tuple([i \in 1..cnt[2] |-> Operand(1 + i)])))

Unpack ==
  /\ Runs("unpack")
  /\ LET v == Operand(1) IN
     \/ IsA(v, "tuple") /\ Succeed(Without(1) \o v[2])
     \/ ~IsA(v, "tuple") /\ Fail(Append(Without(1), v), "TYPE_MISMATCH")

(***************************************************************************)
(* The operations that never run another one.                              *)
(***************************************************************************)
DoExecute == \/ Nop \/ Halt \/ Break \/ Loop
             \/ Push \/ Dup \/ Pop \/ Swap \/ ResetStack
             \/ BinaryArithmetic \/ UnaryArithmetic \/ BinaryLogical \/ Not
             \/ Equals \/ Typeof \/ Size \/ Typecast \/ Parse
             \/ At \/ Find \/ AppendItem \/ Pack \/ Unpack

Leaf == RejectArguments \/ EndProcess \/ (Accepted /\ DoExecute)

-----------------------------------------------------------------------------
(***************************************************************************)
(* Properties.                                                             *)
(***************************************************************************)

\* An operation that fails leaves its operands where it found them, whatever it
\* had already popped, and one error on top that says why.
FailureRestoresOperands ==
  [][mode = "execute" /\ mode' = "ERROR" =>
       /\ Len(stack') = Len(stack) + 1
       /\ SubSeq(stack', 1, Len(stack)) = stack
       /\ IsA(stack'[Len(stack')], "error")]_opVars

\* No set and no table an operation leaves on the stack holds two entries each of which
\* a lookup takes for the other, wherever the set or table came from.  (A lookup may take
\* one entry for another, but not back: equality of tables is not symmetric, and the hash
\* of an operation does not see the table it pushes.)
EntriesAreDistinct ==
  \A i \in DOMAIN stack :
    LET v       == stack[i]
        entries == IF IsA(v, "set") THEN v[2] ELSE IF IsA(v, "table") THEN DOMAIN v[2] ELSE {}
    IN  \A x, y \in entries : Match(x, y) /\ Match(y, x) => x = y

\* Below the arguments it asked for (pack: and those it was told to take) an
\* operation changes nothing; only resetstack empties the stack.
RestIsUntouched ==
  [][LET code  == current[1]
         taken == IF code = "pack" /\ IsA(Operand(1), "number") THEN 1 + Operand(1)[2]
                                                              ELSE Argc(code)
         rest  == Len(stack) - taken
     IN  mode = "execute" /\ mode' \in Results /\ code # "resetstack" =>
           SubSeq(stack', 1, rest) = SubSeq(stack, 1, rest)]_opVars

=============================================================================
