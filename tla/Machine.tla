------------------------------ MODULE Machine ------------------------------
(***************************************************************************)
(* The machine (src/machine/state.cpp) running the operations that need    *)
(* more than the stack: blocks, operations that run other operations, the  *)
(* value store and the slots.                                              *)
(*                                                                         *)
(* The code is recursive: Operation::execute calls itself through blocks   *)
(* and through map, filter and reduce.  Here the C++ call stack is data.   *)
(* acts holds one activation per Block::doExecute in progress, with the    *)
(* index i of its loop and the map, filter and reduce loops that are       *)
(* running inside it, innermost last.  acts[1] is not a block: it stands   *)
(* for MachineState::execute, whose operation may be a loop itself.        *)
(* Operations that end in a call (exec, iftrue, call, select, bind) need   *)
(* no frame.                                                               *)
(*                                                                         *)
(* Modes, besides those of Operations: "idle" between two calls of         *)
(* MachineState::execute, "fetch" at the head of a block's loop, "iterate" *)
(* at the head of a map, filter or reduce loop.                            *)
(***************************************************************************)
EXTENDS Operations

CONSTANTS
  Names,        \* keys of the value store and of slot tables
  Blocks,       \* the identities of Block objects
  Programs,     \* initial value stores
  Natives,      \* native operations, by name: sets of [pushed, result]
  Whole(_),     \* no null pointer in a value or an operation, nor in anything it
                \* holds, reached by the code so far or not (Intact: where it goes)
  MaxStack,     \* bound on the height of the stack
  MaxDepth,     \* bound on the activations in progress
  MaxTables,    \* bound on the slot tables created
  MaxRuns       \* bound on the calls of MachineState::execute

NoBlock == "MachineState::execute"

ASSUME BoundsAssumption ==
  /\ MaxStack \in Nat /\ MaxDepth \in Nat /\ MaxTables \in Nat /\ MaxRuns \in Nat
ASSUME NativesAssumption ==
  \A name \in DOMAIN Natives : \A effect \in Natives[name] : effect.result \in Results
ASSUME BlocksAssumption == NewBlock \in Blocks /\ NoBlock \notin Blocks

VARIABLES
  store,    \* MachineState::mValueStore: a function from names to values
  acts,     \* the C++ call stack, as described above
  tables,   \* every slot table ever made: functions from names to values
  slots,    \* MachineState::mSlots: indices into tables, current last
  owned,    \* Block::mSlots of every block: indices into tables
  records,  \* MachineTracer::mRecords
  runs      \* how many times MachineState::execute was called

callVars == <<acts, tables, slots, owned, records>>
vars     == <<stack, mode, current, store, acts, tables, slots, owned, records, runs>>

Last(s)  == s[Len(s)]
Front(s) == SubSeq(s, 1, Len(s) - 1)

Here     == Last(acts)            \* the innermost activation
InBlock  == Len(acts) > 1
Looping  == Here.loops # <<>>     \* it waits inside a map, filter or reduce

Activation(b, body) == [block |-> b, body |-> body, pc |-> 0, loops |-> <<>>]

Retrieve(name) == IF name \in DOMAIN store THEN store[name] ELSE Null
Bind(f, k, v)  == [x \in DOMAIN f \cup {k} |-> IF x = k THEN v ELSE f[x]]
Crash == /\ mode' = "undefined"
         /\ UNCHANGED <<stack, current>>

Init ==
  /\ stack = <<>>
  /\ mode = "idle"
  /\ current = NoOperation
  /\ store \in Programs
  /\ acts = <<Activation(NoBlock, <<>>)>>
  /\ tables = <<>>
  /\ slots = <<>>
  /\ owned = [b \in Blocks |-> <<>>]
  /\ records = <<>>
  /\ runs = 0

(***************************************************************************)
(* The embedding program calls MachineState::execute.  The code asks the   *)
(* value it retrieves for its class without asking whether there is one.   *)
(***************************************************************************)
Execute(name) ==
  /\ mode = "idle"
  /\ runs < MaxRuns
  /\ runs' = runs + 1
  /\ \/ Retrieve(name) = Null /\ Crash
     \/ IsA(Retrieve(name), "operation") /\ Invoke(Retrieve(name)[2], stack)
     \/ /\ Retrieve(name) # Null /\ ~IsA(Retrieve(name), "operation")
        /\ UNCHANGED opVars
  /\ UNCHANGED <<store, callVars>>

Finish ==
  /\ mode \in Results /\ ~InBlock /\ ~Looping
  /\ mode' = "idle"
  /\ UNCHANGED <<stack, current, store, callVars, runs>>

ExecuteLeaf == Leaf /\ UNCHANGED <<store, callVars, runs>>

(***************************************************************************)
(* Block::doExecute.  Entering tells the listeners: SlotsHandler makes a   *)
(* slot table, pushes the block's current one and fills it from the stack; *)
(* MachineTracer opens a record.  A stack too short for the slots gets an  *)
(* error value and the body runs all the same.                             *)
(***************************************************************************)
SlotTable(names) ==
  [x \in {names[i] : i \in DOMAIN names} |->
     Operand(CHOOSE i \in DOMAIN names : names[i] = x /\ \A j \in 1..(i - 1) : names[j] # x)]

\* Block::newSlot: the tables of block b once it has made another one.
MutantNewSlot(b) == IF owned[b] = <<>> THEN <<Len(tables) + 1>> ELSE owned[b]
NewSlot(b) == Append(owned[b], Len(tables) + 1)

EnterBlock ==
  /\ Runs("block")
  /\ Len(records) < MaxDepth
  /\ Len(tables) < MaxTables
  /\ \E b \in Blocks :
       LET names  == current[3]
           enough == Len(stack) >= Len(names)
           mine   == NewSlot(b)
       IN
       /\ current[2] = b
       /\ tables' = Append(tables, IF enough THEN SlotTable(names) ELSE <<>>)
       /\ owned' = [owned EXCEPT ![b] = mine]
       /\ slots' = Append(slots, Last(mine))
       /\ stack' = IF enough THEN Without(Len(names))
                             ELSE Append(stack, Error("INSUFFICIENT_ARGUMENTS"))
       /\ records' = Append(records, [block |-> b, index |-> 0])
       /\ acts' = Append(acts, Activation(b, current[4]))
       /\ mode' = "fetch"
       /\ current' = NoOperation
  /\ UNCHANGED <<store, runs>>

\* Mutant: a failing block forgets its slots.
MutantLeaveBlock(result) ==
  /\ acts' = Front(acts)
  /\ slots' = IF result = "ERROR" THEN slots ELSE Front(slots)
  /\ records' = Front(records)
  /\ mode' = result
  /\ current' = NoOperation
  /\ UNCHANGED <<stack, store, tables, owned, runs>>

\* Leaving tells the listeners too.  Block::dropSlot is not called.
LeaveBlock(result) ==
  /\ acts' = Front(acts)
  /\ slots' = IF slots = <<>> THEN slots ELSE Front(slots)
  /\ records' = IF records = <<>> THEN records ELSE Front(records)
  /\ mode' = result
  /\ current' = NoOperation
  /\ UNCHANGED <<stack, store, tables, owned, runs>>

ContinueAt(i) ==
  /\ acts' = [acts EXCEPT ![Len(acts)].pc = i]
  /\ mode' = "fetch"
  /\ current' = NoOperation
  /\ UNCHANGED <<stack, store, tables, slots, owned, records, runs>>

FetchOperation ==
  /\ mode = "fetch" /\ Here.pc < Len(Here.body)
  /\ mode' = "execute"
  /\ current' = Here.body[Here.pc + 1]
  /\ records' = IF records = <<>> THEN records
                ELSE [records EXCEPT ![Len(records)].index = Here.pc]
  /\ UNCHANGED <<stack, store, acts, tables, slots, owned, runs>>

EndOfBlock == mode = "fetch" /\ Here.pc >= Len(Here.body) /\ LeaveBlock("SUCCESS")

\* Mutant: a block that is broken out of reports the break.
MutantBlockResult ==
  /\ mode \in Results /\ InBlock /\ ~Looping
  /\ \/ mode \in {"HALT", "ERROR", "EXIT_BLOCK"} /\ LeaveBlock(mode)
     \/ mode = "AGAIN"           /\ ContinueAt(Here.pc)
     \/ mode = "RESTART_BLOCK"   /\ ContinueAt(0)
     \/ mode = "SUCCESS"         /\ ContinueAt(Here.pc + 1)

\* Mutant: AGAIN steps back before it continues.
MutantAgain ==
  /\ mode \in Results /\ InBlock /\ ~Looping
  /\ \/ mode \in {"HALT", "ERROR"} /\ LeaveBlock(mode)
     \/ mode = "EXIT_BLOCK"        /\ LeaveBlock("SUCCESS")
     \/ mode = "AGAIN"             /\ ContinueAt(Here.pc - 1)
     \/ mode = "RESTART_BLOCK"     /\ ContinueAt(0)
     \/ mode = "SUCCESS"           /\ ContinueAt(Here.pc + 1)

\* Mutant: a break restarts the block instead of leaving it.
MutantBreak ==
  /\ mode \in Results /\ InBlock /\ ~Looping
  /\ \/ mode \in {"HALT", "ERROR"} /\ LeaveBlock(mode)
     \/ mode = "AGAIN"             /\ ContinueAt(Here.pc)
     \/ mode \in {"EXIT_BLOCK", "RESTART_BLOCK"} /\ ContinueAt(0)
     \/ mode = "SUCCESS"           /\ ContinueAt(Here.pc + 1)

BlockResult ==
  /\ mode \in Results /\ InBlock /\ ~Looping
  /\ \/ mode \in {"HALT", "ERROR"} /\ LeaveBlock(mode)
     \/ mode = "EXIT_BLOCK"        /\ LeaveBlock("SUCCESS")
     \/ mode = "AGAIN"             /\ ContinueAt(Here.pc)
     \/ mode = "RESTART_BLOCK"     /\ ContinueAt(0)
     \/ mode = "SUCCESS"           /\ ContinueAt(Here.pc + 1)

(***************************************************************************)
(* Operations that end in running another operation.                       *)
(***************************************************************************)
Exec ==
  /\ Runs("exec")
  /\ LET val == Operand(1) IN
     \/ IsA(val, "operation") /\ Invoke(val[2], Without(1))
     \/ ~IsA(val, "operation") /\ Fail(Append(Without(1), val), "TYPE_MISMATCH")

IfTrue ==
  /\ Runs("iftrue")
  /\ LET cnd == Operand(1) IN
     \/ cnd = Boolean(TRUE) /\ Invoke(current[2], Without(1))
     \/ cnd = Boolean(FALSE) /\ Succeed(Without(1))
     \/ ~IsA(cnd, "boolean") /\ Fail(Append(Without(1), cnd), "TYPE_MISMATCH")

\* The arguments are pushed last first, so that the first one is on top.
Call ==
  /\ Runs("call")
  /\ LET op   == Retrieve(current[2])
         args == current[3]
     IN
     \/ op = Null /\ Fail(stack, "NOT_FOUND")
     \/ op # Null /\ ~IsA(op, "operation") /\ Fail(stack, "TYPE_MISMATCH")
     \/ /\ IsA(op, "operation")
        /\ Invoke(op[2], stack \o [i \in DOMAIN args |-> args[Len(args) - i + 1]])

\* No precondition: the key popped from an empty stack is null.
Select ==
  /\ Runs("select")
  /\ LET val    == Operand(1)
         orElse == current[3]
     IN
     \E op \in TableFinds(current[2], val) :
     \/ op = Null /\ orElse # Null /\ Invoke(orElse[2], Without(1))
     \/ op = Null /\ orElse = Null /\ Fail(Append(Without(1), val), "NOT_FOUND")
     \/ IsA(op, "operation") /\ Invoke(op[2], Without(1))
     \/ op # Null /\ ~IsA(op, "operation") /\ Fail(Append(Without(1), val), "TYPE_MISMATCH")

PartialBind == Runs("bind") /\ Invoke(current[3], Append(stack, current[2]))

\* What a native function leaves on the stack and returns is its own business.
Native ==
  /\ Runs("native")
  /\ current[2] \in DOMAIN Natives
  /\ \E effect \in Natives[current[2]] : Return(stack \o effect.pushed, effect.result)

Transfer == /\ Exec \/ IfTrue \/ Call \/ Select \/ PartialBind \/ Native
            /\ UNCHANGED <<store, callVars, runs>>

(***************************************************************************)
(* The value store.  A name that is taken keeps its value.                 *)
(***************************************************************************)
Load ==
  /\ Runs("load")
  /\ LET value == Retrieve(current[2]) IN
     \/ value = Null /\ Fail(stack, "NOT_FOUND")
     \/ value # Null /\ Succeed(Append(stack, value))
  /\ UNCHANGED <<store, callVars, runs>>

\* Mutant: a name that is taken is given the new value.
MutantStore ==
  /\ Runs("store")
  /\ store' = Bind(store, current[2], Operand(1))
  /\ Succeed(Without(1))
  /\ UNCHANGED <<callVars, runs>>

Store ==
  /\ Runs("store")
  /\ \/ /\ current[2] \notin DOMAIN store
        /\ store' = Bind(store, current[2], Operand(1))
        /\ Succeed(Without(1))
     \/ /\ current[2] \in DOMAIN store
        /\ Fail(stack, "ALREADY_EXISTING")
        /\ UNCHANGED store
  /\ UNCHANGED <<callVars, runs>>

Clear ==
  /\ Runs("clear")
  /\ \/ /\ current[2] \in DOMAIN store
        /\ store' = [x \in DOMAIN store \ {current[2]} |-> store[x]]
        /\ Succeed(stack)
     \/ /\ current[2] \notin DOMAIN store
        /\ Fail(stack, "NOT_FOUND")
        /\ UNCHANGED store
  /\ UNCHANGED <<callVars, runs>>

(***************************************************************************)
(* Slots.  Outside every block there is no current table, and the code     *)
(* asks it all the same.  storeslot leaves its value on the stack.         *)
(***************************************************************************)

\* Mutant: the block's own current slot, which is stale after a recursive call.
MutantCurrentSlot ==
  IF slots = <<>> \/ owned[Here.block] = <<>> THEN 0 ELSE Last(owned[Here.block])
CurrentSlot == IF slots = <<>> THEN 0 ELSE Last(slots)

LoadSlot ==
  /\ Runs("loadslot")
  /\ LET slot  == tables[CurrentSlot]
         bound == current[2] \in DOMAIN slot /\ slot[current[2]] # Null
     IN
     \/ CurrentSlot = 0 /\ Crash
     \/ CurrentSlot # 0 /\ ~bound /\ Fail(stack, "NOT_FOUND")
     \/ CurrentSlot # 0 /\ bound /\ Succeed(Append(stack, slot[current[2]]))
  /\ UNCHANGED <<store, callVars, runs>>

StoreSlot ==
  /\ Runs("storeslot")
  /\ LET slot == tables[CurrentSlot] IN
     \/ /\ CurrentSlot = 0
        /\ Crash
        /\ UNCHANGED tables
     \/ /\ CurrentSlot # 0 /\ current[2] \notin DOMAIN slot
        /\ tables' = [tables EXCEPT ![CurrentSlot] = Bind(slot, current[2], Operand(1))]
        /\ Succeed(stack)
     \/ /\ CurrentSlot # 0 /\ current[2] \in DOMAIN slot
        /\ Fail(stack, "ALREADY_EXISTING")
        /\ UNCHANGED tables
  /\ UNCHANGED <<store, acts, slots, owned, records, runs>>

(***************************************************************************)
(* map, filter and reduce.  Each holds its container and its callback      *)
(* outside the stack while the callback runs, and puts them back only when *)
(* it fails.  acc is the container being built, or reduce's v0.            *)
(***************************************************************************)
StartLoop(loop, stk) ==
  /\ acts' = [acts EXCEPT ![Len(acts)].loops = Append(@, loop)]
  /\ stack' = stk
  /\ mode' = "iterate"
  /\ current' = NoOperation

StartTransform(kind) ==
  /\ Runs(kind)
  /\ LET vpred == Operand(1)
         vcnt  == Operand(2)
         valid == IsA(vpred, "operation") /\ Iterable(vcnt)
     IN
     \/ /\ valid
        /\ \E items \in Orders(vcnt) :
             StartLoop([kind |-> kind, items |-> items, next |-> 1,
                        acc |-> NewEmptyOfSameType(vcnt), callback |-> vpred[2],
                        operands |-> <<vcnt, vpred>>], Without(2))
     \/ /\ ~valid
        /\ Fail(Without(2) \o <<vcnt, vpred>>, "TYPE_MISMATCH")
        /\ UNCHANGED acts
  /\ UNCHANGED <<store, tables, slots, owned, records, runs>>

Map    == StartTransform("map")
Filter == StartTransform("filter")

Reduce ==
  /\ Runs("reduce")
  /\ LET v0    == Operand(1)
         vpred == Operand(2)
         vcnt  == Operand(3)
         valid == IsA(vpred, "operation") /\ Iterable(vcnt)
     IN
     \/ /\ valid
        /\ \E items \in Orders(vcnt) :
             StartLoop([kind |-> "reduce", items |-> items, next |-> 1,
                        acc |-> v0, callback |-> vpred[2],
                        operands |-> <<vcnt, vpred, v0>>], Without(3))
     \/ /\ ~valid
        /\ Fail(Without(3) \o <<vcnt, vpred, v0>>, "TYPE_MISMATCH")
        /\ UNCHANGED acts
  /\ UNCHANGED <<store, tables, slots, owned, records, runs>>

TheLoop       == Last(Here.loops)
LoopBecomes(l) == acts' = [acts EXCEPT ![Len(acts)].loops = Append(Front(@), l)]
LoopEnds      == acts' = [acts EXCEPT ![Len(acts)].loops = Front(@)]

NextItem ==
  /\ mode = "iterate" /\ TheLoop.next <= Len(TheLoop.items)
  /\ LET item == TheLoop.items[TheLoop.next] IN
     Invoke(TheLoop.callback,
            stack \o (IF TheLoop.kind = "reduce" THEN <<item, TheLoop.acc>> ELSE <<item>>))
  /\ LoopBecomes([TheLoop EXCEPT !.next = @ + 1])
  /\ UNCHANGED <<store, tables, slots, owned, records, runs>>

EndLoop ==
  /\ mode = "iterate" /\ TheLoop.next > Len(TheLoop.items)
  /\ Succeed(Append(stack, TheLoop.acc))
  /\ LoopEnds
  /\ UNCHANGED <<store, tables, slots, owned, records, runs>>

Accumulate(acc) ==
  /\ LoopBecomes([TheLoop EXCEPT !.acc = acc])
  /\ stack' = Without(1)
  /\ mode' = "iterate"
  /\ current' = NoOperation

\* Mutant: the error goes under the operands.
MutantFailLoop(stk, code) ==
  LoopEnds /\ Return(Append(stk, Error(code)) \o TheLoop.operands, "ERROR")
FailLoop(stk, code) == LoopEnds /\ Fail(stk \o TheLoop.operands, code)

\* The container being built takes the item, refuses it, or the process ends of it.
Grow(item) ==
  LET grown == AppendValue(TheLoop.acc, item) IN
  \/ AppendFaults(TheLoop.acc, item) /\ Crash /\ UNCHANGED acts
  \/ /\ ~AppendFaults(TheLoop.acc, item)
     /\ \/ IsA(grown, "error") /\ FailLoop(Without(1), grown[2])
        \/ ~IsA(grown, "error") /\ Accumulate(grown)

MapResult == TheLoop.kind = "map" /\ Grow(Operand(1))

\* (The code does not look whether the item was taken: no container refuses an item of
\* one of its class.)
FilterResult ==
  /\ TheLoop.kind = "filter"
  /\ LET item == TheLoop.items[TheLoop.next - 1] IN
     \/ Operand(1) = Boolean(TRUE) /\ Grow(item)
     \/ Operand(1) = Boolean(FALSE) /\ Accumulate(TheLoop.acc)
     \/ ~IsA(Operand(1), "boolean") /\ FailLoop(Without(1), "TYPE_MISMATCH")

ReduceResult == TheLoop.kind = "reduce" /\ Accumulate(Operand(1))

\* Mutant: a callback that breaks skips its item.
MutantSkip ==
  /\ mode \in Results /\ Looping
  /\ \/ /\ mode = "EXIT_BLOCK"
        /\ mode' = "iterate" /\ current' = NoOperation
        /\ UNCHANGED <<stack, acts>>
     \/ mode \notin {"SUCCESS", "EXIT_BLOCK"} /\ FailLoop(stack, "UNEXPECTED_RESULT")
     \/ mode = "SUCCESS" /\ (MapResult \/ FilterResult \/ ReduceResult)
  /\ UNCHANGED <<store, tables, slots, owned, records, runs>>

\* Mutant: only an error fails the loop.
MutantCallbackResult ==
  /\ mode \in Results /\ Looping
  /\ \/ mode = "ERROR" /\ FailLoop(stack, "UNEXPECTED_RESULT")
     \/ mode # "ERROR" /\ (MapResult \/ FilterResult \/ ReduceResult)
  /\ UNCHANGED <<store, tables, slots, owned, records, runs>>

\* Anything but success, a halt included, fails the loop.
CallbackResult ==
  /\ mode \in Results /\ Looping
  /\ \/ mode # "SUCCESS" /\ FailLoop(stack, "UNEXPECTED_RESULT")
     \/ mode = "SUCCESS" /\ (MapResult \/ FilterResult \/ ReduceResult)
  /\ UNCHANGED <<store, tables, slots, owned, records, runs>>

(***************************************************************************)
(* The machine's own steps, and the specification.                         *)
(***************************************************************************)
\* The operations above: doExecute of the classes that are no Leaf.
Execution == \/ Transfer \/ EnterBlock
             \/ Load \/ Store \/ Clear \/ LoadSlot \/ StoreSlot
             \/ Map \/ Filter \/ Reduce

Step ==
  /\ \/ Finish \/ ExecuteLeaf \/ (Accepted /\ Execution)
     \/ FetchOperation \/ EndOfBlock \/ BlockResult
     \/ NextItem \/ EndLoop \/ CallbackResult
  /\ Len(stack') <= MaxStack

Next == Step \/ \E name \in Names : Execute(name)

Spec == Init /\ [][Next]_vars

\* Between two calls of MachineState::execute nothing forces the program to make
\* another one; within a call, the one thread there is keeps running.
FairSpec == Spec /\ WF_vars(Step)

-----------------------------------------------------------------------------
(***************************************************************************)
(* Properties.                                                             *)
(***************************************************************************)
IsActivation(a) == /\ a = [block |-> a.block, body |-> a.body, pc |-> a.pc, loops |-> a.loops]
                   /\ a.block \in Blocks \cup {NoBlock}
                   /\ a.pc \in Nat
                   /\ IsSeq(a.loops)
Ended    == mode \in {"idle", "undefined"}

\* Every variable of the machine has its shape: block identities are known ones,
\* the slots of the machine and of every block are tables that exist, a loop waits
\* wherever one is iterated.  (Values are typed by the operations, as they pop them.)
TypeOK ==
  /\ mode \in {"idle", "execute", "fetch", "iterate", "undefined"} \cup Results
  /\ IsSeq(acts) /\ acts # <<>>
  /\ \A i \in DOMAIN acts : IsActivation(acts[i])
  /\ IsSeq(tables)
  /\ slots \in Seq(DOMAIN tables)
  /\ owned \in [Blocks -> Seq(DOMAIN tables)]
  /\ records \in Seq([block : Blocks, index : Nat])
  /\ runs \in Nat

\* On every way out of a block (its end, break, halt, an error, through any
\* number of pending loops) the slots and the tracer's records are unwound with
\* the activation, and none is left when a run is over: one table and one record
\* per block in progress, the table one of that block's own, the record telling
\* the block and the operation it is executing.
SlotsFollowActivations ==
  /\ Len(slots) = Len(acts) - 1
  /\ Len(records) = Len(acts) - 1
  /\ mode = "idle" => slots = <<>>
  /\ mode = "fetch" => slots # <<>>
  /\ \A i \in DOMAIN slots :
       /\ records[i].block = acts[i + 1].block
       /\ \E j \in DOMAIN owned[acts[i + 1].block] : owned[acts[i + 1].block][j] = slots[i]
       /\ i < Len(slots) \/ mode # "fetch" => records[i].index = acts[i + 1].pc

\* Slots are reentrant: no two activations in progress, of the same block or of
\* different ones, share a slot table.
SlotTablesDistinct == \A i, j \in DOMAIN slots : slots[i] = slots[j] => i = j

\* A step changes no slot table but the current one, even right after a
\* recursive activation of the same block has been left.
OnlyCurrentSlotChanges ==
  [][\A t \in DOMAIN tables :
       tables'[t] # tables[t] => slots # <<>> /\ t = Last(slots)]_vars

\* What a name is bound to, in the value store or in a slot table, stays what it
\* is for as long as the name is bound.
BindingsAreImmutable ==
  [][/\ \A k \in DOMAIN store \cap DOMAIN store' : store'[k] = store[k]
     /\ \A t \in DOMAIN tables : \A k \in DOMAIN tables[t] :
          k \in DOMAIN tables'[t] /\ tables'[t][k] = tables[t][k]]_vars

\* Whenever an operation, a block or a whole run comes back with ERROR, the value
\* on top of the stack is an error that says why.
ErrorsAreExplained ==
  mode = "ERROR" =>
    stack # <<>> /\ IsA(Last(stack), "error")

\* break and loop are a matter between a block and its operations: no block ever
\* returns EXIT_BLOCK, RESTART_BLOCK or AGAIN.
BlocksContainJumps ==
  [][Len(acts') < Len(acts) => mode' \in {"SUCCESS", "HALT", "ERROR"}]_vars

\* What the tracer sees is a CallStack.
Observed == INSTANCE CallStack WITH
  calls   <- [i \in DOMAIN records |-> records[i].block],
  running <- ~Ended,
  doomed  <- mode \in {"HALT", "ERROR"},
  crashed <- mode = "undefined"

\* The machine implements the call stack it promises its listeners: blocks are entered
\* and left in stack order, and once a halt or an error has come back, the run enters no
\* block again, becomes no success, and is over only when every block is left.
ImplementsCallStack == Observed!Spec

\* While map runs over a tuple it has one result for every item whose callback
\* has come back, wherever the callback has gone meanwhile; filter never has more.
LoopsKeepCount ==
  \A i \in DOMAIN acts : \A n \in DOMAIN acts[i].loops :
    LET l       == acts[i].loops[n]
        waiting == ~(mode = "iterate" /\ i = Len(acts) /\ n = Len(acts[i].loops))
        done    == l.next - 1 - (IF waiting THEN 1 ELSE 0)
    IN
    /\ l.next \in 1..(Len(l.items) + 1)
    /\ IsA(l.operands[1], "tuple") /\ l.kind = "map" => Len(l.acc[2]) = done
    /\ IsA(l.operands[1], "tuple") /\ l.kind = "filter" => Len(l.acc[2]) <= done

\* Asking for a name the store does not hold is reported, not run into.
MissingNameIsReported == [][mode = "idle" => mode' # "undefined"]_vars

\* No null pointer anywhere a program can reach, now or later: on the stack, in the
\* value store and the slots, in the operation in hand, in the blocks in progress
\* and in what their loops hold, and in nothing any of these holds.
NoNulls ==
  /\ \A i \in DOMAIN stack : Whole(stack[i])
  /\ mode = "execute" => Whole(current)
  /\ \A k \in DOMAIN store : Whole(store[k])
  /\ \A t \in DOMAIN tables : \A k \in DOMAIN tables[t] : Whole(tables[t][k])
  /\ \A i \in DOMAIN acts :
       /\ \A j \in DOMAIN acts[i].body : Whole(acts[i].body[j])
       /\ \A n \in DOMAIN acts[i].loops :
            LET l == acts[i].loops[n] IN
            /\ Whole(l.acc) /\ Whole(l.callback)
            /\ \A j \in DOMAIN l.items : Whole(l.items[j])
            /\ \A j \in DOMAIN l.operands : Whole(l.operands[j])

\* The callback of a loop has come back, and left nothing.
Emptied == mode = "SUCCESS" /\ Looping /\ stack = <<>>

\* A typecast or a parse of a text that UTF-8 cannot hold.
Unencodable ==
  current[1] \in {"typecast", "parse"} /\ ~Encodable(Operand(Argc(current[1])))

\* The preconditions keep null pointers out of the machine but for four holes: a
\* callback of map or reduce that succeeds and leaves an empty stack puts a null in
\* hand, and only it (or a missing name, a select on an empty stack, a slot asked
\* for outside every block) can end a process that had none before, unless it is a
\* character without UTF-8 that does.
NullsHaveACause ==
  [][NoNulls =>
       /\ ~NoNulls' => Emptied
       /\ mode' = "undefined" =>
            \/ Emptied \/ mode = "idle" \/ Unencodable
            \/ current[1] = "select" /\ stack = <<>>
            \/ current[1] \in {"loadslot", "storeslot"} /\ slots = <<>>]_vars

\* A program that does not call itself comes back from every call of
\* MachineState::execute, unless it asks to be run again or restarts a block for
\* ever (or so often that it comes near the model's bounds).
Returns ==
  /\ [](Len(stack) + 4 <= MaxStack /\ Len(tables) < MaxTables)
  /\ <>[](mode \notin {"AGAIN", "RESTART_BLOCK"})
  => (~Ended ~> Ended)

=============================================================================
