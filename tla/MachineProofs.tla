---------------------------- MODULE MachineProofs ----------------------------
(***************************************************************************)
(* Proofs about the machine, for every program, every set of native        *)
(* operations and every bound: the invariant, what a step may never do,    *)
(* the refinement of CallStack, and the values the machine holds.          *)
(***************************************************************************)
EXTENDS Machine, OperationsProofs, SequenceTheorems, TLAPS

(***************************************************************************)
(* Sequences of anything: what Append, Front and EXCEPT make of them.      *)
(***************************************************************************)

\* Popping.
LEMMA FrontIsSeq ==
  ASSUME NEW s, IsSeq(s)
  PROVE  /\ IsSeq(Front(s))
         /\ s # <<>> => Len(Front(s)) = Len(s) - 1 /\ Len(s) > 0
         /\ \A i \in 1..(Len(s) - 1) : Front(s)[i] = s[i]
<1> DEFINE R == {s[i] : i \in DOMAIN s}
<1>1. s \in Seq(R) /\ Len(s) \in Nat /\ DOMAIN s = 1..Len(s)
  BY SeqLength DEF IsSeq
<1>2. \A i \in 1..(Len(s) - 1) : s[i] \in R
  BY <1>1
<1>3. /\ Front(s) \in Seq(R)
      /\ Len(Front(s)) = IF 1 <= Len(s) - 1 THEN Len(s) - 1 ELSE 0
      /\ \A i \in 1..(Len(s) - 1) : Front(s)[i] = s[i]
  BY <1>1, <1>2, SubSeqProperties DEF Front
<1>4. s # <<>> => Len(s) > 0
  BY <1>1, EmptySeq
<1> HIDE DEF R
<1>5. IsSeq(Front(s))
  BY <1>3, SeqIsSeq
<1>6. ASSUME s # <<>>
      PROVE  Len(Front(s)) = Len(s) - 1 /\ Len(s) > 0
  <2>1. PICK n \in Nat : n = Len(s)
    BY <1>1
  <2> QED BY <2>1, <1>3, <1>4, <1>6
<1> QED BY <1>3, <1>5, <1>6

\* Popping keeps the type of the items.
LEMMA FrontInSeq ==
  ASSUME NEW S, NEW s \in Seq(S)
  PROVE  Front(s) \in Seq(S)
<1>1. PICK n \in Nat : n = Len(s) /\ DOMAIN s = 1..n
  BY LenProperties
<1>2. \A i \in 1..(n - 1) : s[i] \in S
  BY <1>1, ElementOfSeq
<1> QED BY <1>1, <1>2, SubSeqProperties DEF Front

\* Replacing one item.
LEMMA ExceptIsSeq ==
  ASSUME NEW s, IsSeq(s), NEW i \in DOMAIN s, NEW e
  PROVE  /\ IsSeq([s EXCEPT ![i] = e])
         /\ Len([s EXCEPT ![i] = e]) = Len(s)
         /\ DOMAIN [s EXCEPT ![i] = e] = DOMAIN s
         /\ \A j \in DOMAIN s : [s EXCEPT ![i] = e][j] = IF j = i THEN e ELSE s[j]
<1> DEFINE R == {s[j] : j \in DOMAIN s} \cup {e}
<1>1. s \in Seq(R) /\ DOMAIN s = 1..Len(s) /\ e \in R
  BY SeqMonotonic, SeqLength DEF IsSeq
<1> HIDE DEF R
<1>2. /\ [s EXCEPT ![i] = e] \in Seq(R)
      /\ Len([s EXCEPT ![i] = e]) = Len(s)
      /\ \A j \in 1..Len(s) : [s EXCEPT ![i] = e][j] = IF j = i THEN e ELSE s[j]
  BY <1>1, ExceptSeq
<1>3. IsSeq([s EXCEPT ![i] = e])
  BY <1>2, SeqIsSeq
<1> QED BY <1>1, <1>2, <1>3

\* The end of a sequence that has one.
LEMMA LastOfSeq ==
  ASSUME NEW s, IsSeq(s), s # <<>>
  PROVE  Len(s) \in DOMAIN s /\ Len(s) > 0
<1>1. PICK n \in Nat : n = Len(s) /\ DOMAIN s = 1..n
  BY SeqLength
<1>2. n > 0
  BY <1>1, FrontIsSeq
<1> QED BY <1>1, <1>2

(***************************************************************************)
(* Steps that enter and leave no block.  Most actions do not touch the     *)
(* activations at all; a map, filter or reduce touches the loops of the    *)
(* innermost one.  Either way the observers of the machine see nothing.    *)
(***************************************************************************)
Busy == {"execute", "iterate", "undefined"} \cup Results

SameCalls ==
  /\ IsSeq(acts') /\ Len(acts') = Len(acts) /\ DOMAIN acts' = DOMAIN acts
  /\ \A i \in DOMAIN acts : /\ IsActivation(acts'[i])
                            /\ acts'[i].block = acts[i].block
                            /\ acts'[i].pc = acts[i].pc

QuietStep ==
  /\ SameCalls
  /\ IsSeq(tables') /\ DOMAIN tables' = DOMAIN tables
  /\ UNCHANGED <<slots, owned, records, runs>>
  /\ mode \in Busy \ {"undefined"} /\ mode' \in Busy
  /\ mode \in {"HALT", "ERROR"} => mode' = "ERROR"

\* An operation that only sees the stack returns a result, or crashes.
LEMMA LeafReturns ==
  ASSUME Leaf
  PROVE  mode = "execute" /\ mode' \in Results \cup {"undefined"}
<1>1. CASE RejectArguments
  BY <1>1 DEF RejectArguments, Fail, Return, Results
<1>2. CASE EndProcess
  BY <1>2 DEF EndProcess
<1>3. CASE Nop \/ Halt \/ Break \/ Loop
  BY <1>3 DEF Nop, Halt, Break, Loop, Runs, Succeed, Return, Results
<1>4. CASE Push \/ Dup \/ Pop \/ Swap \/ ResetStack
  BY <1>4 DEF Push, Dup, Pop, Swap, ResetStack, Runs, Succeed, Return, Results
<1>5. CASE BinaryArithmetic \/ UnaryArithmetic \/ BinaryLogical \/ Not
  BY <1>5 DEF BinaryArithmetic, UnaryArithmetic, BinaryLogical, Not,
              Runs, Succeed, Fail, Return, Results
<1>6. CASE Equals \/ Typeof \/ Size \/ Typecast \/ Parse
  BY <1>6 DEF Equals, Typeof, Size, Typecast, Parse, Runs, Succeed, Fail, Return, Results
<1>7. CASE At \/ Find \/ AppendItem \/ Pack \/ Unpack
  BY <1>7 DEF At, Find, AppendItem, Pack, Unpack, Runs, Succeed, Fail, Return, Results
<1> QED BY <1>1, <1>2, <1>3, <1>4, <1>5, <1>6, <1>7 DEF Leaf, DoExecute

\* An operation that hands over to another one executes it, returns, or crashes.
LEMMA TransferReturns ==
  ASSUME Exec \/ IfTrue \/ Call \/ Select \/ PartialBind \/ Native
  PROVE  mode = "execute" /\ mode' \in Results \cup {"execute"}
<1>1. CASE Exec \/ IfTrue
  BY <1>1 DEF Exec, IfTrue, Runs, Invoke, Succeed, Fail, Return, Results
<1>2. CASE Call \/ Select \/ PartialBind
  BY <1>2 DEF Call, Select, PartialBind, Runs, Invoke, Fail, Return, Results
<1>3. CASE Native
  BY <1>3, NativesAssumption DEF Native, Runs, Return
<1> QED BY <1>1, <1>2, <1>3

\* The value store and the slots.
LEMMA NamesReturn ==
  ASSUME Load \/ Store \/ Clear \/ LoadSlot \/ StoreSlot
  PROVE  mode = "execute" /\ mode' \in Results \cup {"undefined"}
<1>1. CASE Load \/ Store \/ Clear
  BY <1>1 DEF Load, Store, Clear, Runs, Succeed, Fail, Return, Results
<1>2. CASE LoadSlot \/ StoreSlot
  BY <1>2 DEF LoadSlot, StoreSlot, Runs, Crash, Succeed, Fail, Return, Results
<1> QED BY <1>1, <1>2

\* Changing the pending loops of the innermost activation.
LEMMA LoopsChange ==
  ASSUME TypeOK, NEW ls, IsSeq(ls), acts' = [acts EXCEPT ![Len(acts)].loops = ls]
  PROVE  SameCalls
<1> DEFINE n == Len(acts)
           a == [acts[n] EXCEPT !.loops = ls]
<1>1. IsSeq(acts) /\ n \in DOMAIN acts /\ \A i \in DOMAIN acts : IsActivation(acts[i])
  BY LastOfSeq DEF TypeOK
<1>2. acts' = [acts EXCEPT ![n] = a]
  OBVIOUS
<1>3. IsActivation(a) /\ a.block = acts[n].block /\ a.pc = acts[n].pc
  BY <1>1 DEF IsActivation
<1> HIDE DEF a, n
<1>4. IsSeq(acts')
  <2>1. IsSeq([acts EXCEPT ![n] = a])
    BY ONLY <1>1, ExceptIsSeq, Zenon
  <2> QED BY <1>2, <2>1
<1>5. Len(acts') = Len(acts)
  BY <1>1, <1>2, ExceptIsSeq
<1>6. DOMAIN acts' = DOMAIN acts
  BY <1>2
<1>7. \A j \in DOMAIN acts : acts'[j] = IF j = n THEN a ELSE acts[j]
  BY <1>2
<1> QED BY <1>1, <1>3, <1>4, <1>5, <1>6, <1>7 DEF SameCalls

\* The steps of map, filter and reduce.
LEMMA LoopReturns ==
  ASSUME TypeOK, Map \/ Filter \/ Reduce \/ NextItem \/ EndLoop \/ CallbackResult
  PROVE  /\ SameCalls
         /\ UNCHANGED <<tables, slots, owned, records, runs>>
         /\ mode \in {"execute", "iterate"} \cup Results
         /\ mode' \in Busy
         /\ mode \in {"HALT", "ERROR"} => mode' = "ERROR"
<1> DEFINE here == acts[Len(acts)]
<1>1. IsSeq(acts) /\ Len(acts) \in DOMAIN acts /\ IsSeq(here.loops)
      /\ \A i \in DOMAIN acts : IsActivation(acts[i])
  BY LastOfSeq DEF TypeOK, IsActivation
<1>2. \A loop : IsSeq(Append(here.loops, loop))
  BY <1>1, AppendIsSeq
<1>3. IsSeq(Front(here.loops))
  BY <1>1, FrontIsSeq
<1>4. \A loop : IsSeq(Append(Front(here.loops), loop))
  BY <1>3, AppendIsSeq
<1>5. SameCalls
  <2>1. ASSUME UNCHANGED acts PROVE SameCalls
    BY <2>1, <1>1 DEF SameCalls
  <2>2. ASSUME NEW loop, acts' = [acts EXCEPT ![Len(acts)].loops = Append(@, loop)]
        PROVE  SameCalls
    <3>1. acts' = [acts EXCEPT ![Len(acts)].loops = Append(here.loops, loop)]
      BY <2>2, <1>1 DEF IsActivation
    <3> QED BY <3>1, <1>2, LoopsChange
  <2>3. ASSUME NEW l, LoopBecomes(l) PROVE SameCalls
    <3>1. acts' = [acts EXCEPT ![Len(acts)].loops = Append(Front(here.loops), l)]
      BY <2>3, <1>1 DEF LoopBecomes, IsActivation
    <3> QED BY <3>1, <1>4, LoopsChange
  <2>4. ASSUME LoopEnds PROVE SameCalls
    <3>1. acts' = [acts EXCEPT ![Len(acts)].loops = Front(here.loops)]
      BY <2>4, <1>1 DEF LoopEnds, IsActivation
    <3> QED BY <3>1, <1>3, LoopsChange
  <2>5. CASE Map \/ Filter \/ Reduce
    BY <2>5, <2>1, <2>2 DEF Map, Filter, StartTransform, Reduce, StartLoop
  <2>6. CASE NextItem \/ EndLoop
    BY <2>6, <2>3, <2>4 DEF NextItem, EndLoop
  <2>7. CASE CallbackResult
    BY <2>7, <2>1, <2>3, <2>4
       DEF CallbackResult, MapResult, FilterResult, ReduceResult, Grow, Accumulate, FailLoop
  <2> QED BY <2>5, <2>6, <2>7
<1>6. CASE Map \/ Filter \/ Reduce
  BY <1>5, <1>6 DEF Map, Filter, StartTransform, Reduce, StartLoop, Runs, Fail, Return,
                    Busy, Results
<1>7. CASE NextItem \/ EndLoop
  BY <1>5, <1>7 DEF NextItem, EndLoop, Invoke, Succeed, Return, Busy, Results
<1>8. CASE CallbackResult
  BY <1>5, <1>8 DEF CallbackResult, MapResult, FilterResult, ReduceResult, Grow, Accumulate,
                    FailLoop, Crash, Fail, Return, Busy, Results
<1> QED BY <1>6, <1>7, <1>8, <1>5

\* All the steps that no observer notices.
Quiet == \/ ExecuteLeaf \/ Transfer
         \/ Load \/ Store \/ Clear \/ LoadSlot \/ StoreSlot
         \/ Map \/ Filter \/ Reduce \/ NextItem \/ EndLoop \/ CallbackResult

LEMMA QuietSteps ==
  ASSUME TypeOK, Quiet
  PROVE  QuietStep
<1>1. IsSeq(acts) /\ IsSeq(tables) /\ \A i \in DOMAIN acts : IsActivation(acts[i])
  BY DEF TypeOK
<1>2. ASSUME UNCHANGED <<acts, tables, slots, owned, records, runs>>,
             mode = "execute", mode' \in Busy
      PROVE  QuietStep
  BY <1>1, <1>2 DEF QuietStep, SameCalls, Busy
<1>3. CASE ExecuteLeaf
  BY <1>2, <1>3, LeafReturns DEF ExecuteLeaf, callVars, Busy
<1>4. CASE Transfer
  BY <1>2, <1>4, TransferReturns DEF Transfer, callVars, Busy
<1>5. CASE Load \/ Store \/ Clear \/ LoadSlot
  <2>1. UNCHANGED <<acts, tables, slots, owned, records, runs>>
    BY <1>5 DEF Load, Store, Clear, LoadSlot, callVars
  <2>2. mode = "execute" /\ mode' \in Busy
    BY <1>5, NamesReturn DEF Busy
  <2> QED BY <2>1, <2>2, <1>2
<1>6. CASE StoreSlot
  <2>1. IsSeq(tables') /\ DOMAIN tables' = DOMAIN tables
    <3>1. CASE UNCHANGED tables
      BY <3>1, <1>1
    <3>2. CASE ~UNCHANGED tables
      <4>1. PICK e : CurrentSlot # 0 /\ tables' = [tables EXCEPT ![CurrentSlot] = e]
        BY <3>2, <1>6 DEF StoreSlot
      <4>2. CurrentSlot \in DOMAIN tables
        BY <4>1, LastOfSeq, SeqIsSeq, ElementOfSeq DEF TypeOK, CurrentSlot, Last
      <4>3. IsSeq([tables EXCEPT ![CurrentSlot] = e])
        BY <1>1, <4>2, ExceptIsSeq, Zenon
      <4> QED BY <4>1, <4>3
    <3> QED BY <3>1, <3>2
  <2>2. mode = "execute" /\ mode' \in Busy
    BY <1>6, NamesReturn DEF Busy
  <2>3. UNCHANGED <<acts, slots, owned, records, runs>>
    BY <1>6 DEF StoreSlot
  <2> QED BY <1>1, <2>1, <2>2, <2>3 DEF QuietStep, SameCalls, Busy
<1>7. CASE Map \/ Filter \/ Reduce \/ NextItem \/ EndLoop \/ CallbackResult
  <2>1. SameCalls
    BY <1>7, LoopReturns
  <2>2. UNCHANGED <<tables, slots, owned, records, runs>>
    BY <1>7, LoopReturns
  <2>3. /\ mode \in {"execute", "iterate"} \cup Results /\ mode' \in Busy
        /\ mode \in {"HALT", "ERROR"} => mode' = "ERROR"
    BY <1>7, LoopReturns
  <2>4. mode \in Busy \ {"undefined"}
    BY <2>3 DEF Busy, Results
  <2> QED BY <1>1, <2>1, <2>2, <2>3, <2>4 DEF QuietStep
<1> QED BY <1>3, <1>4, <1>5, <1>6, <1>7 DEF Quiet

(***************************************************************************)
(* The inductive invariant: the types, and that slots, records and         *)
(* activations go together.  Neither half is inductive alone: a step       *)
(* leaves a block only if there is one, and it is the correspondence that  *)
(* says that there is.                                                     *)
(***************************************************************************)
Inv == TypeOK /\ SlotsFollowActivations

\* How long everything is.
LEMMA Lengths ==
  ASSUME Inv
  PROVE  \E n \in Nat : /\ Len(slots) = n /\ DOMAIN slots = 1..n
                       /\ Len(records) = n /\ DOMAIN records = 1..n
                       /\ Len(acts) = n + 1 /\ DOMAIN acts = 1..(n + 1)
                       /\ (slots # <<>> <=> n > 0) /\ (records # <<>> <=> n > 0)
                       /\ (InBlock <=> n > 0)
                       /\ IsSeq(slots) /\ IsSeq(records) /\ IsSeq(acts) /\ IsSeq(tables)
<1>1. IsSeq(slots) /\ IsSeq(records) /\ IsSeq(acts) /\ IsSeq(tables) /\ acts # <<>>
  BY SeqIsSeq DEF Inv, TypeOK
<1>2. PICK n \in Nat : n = Len(slots) /\ DOMAIN slots = 1..n
  BY <1>1, SeqLength
<1>3. PICK m \in Nat : m = Len(acts) /\ DOMAIN acts = 1..m
  BY <1>1, SeqLength
<1>4. PICK k \in Nat : k = Len(records) /\ DOMAIN records = 1..k
  BY <1>1, SeqLength
<1>5. m = n + 1 /\ k = n
  BY <1>2, <1>3, <1>4 DEF Inv, SlotsFollowActivations
<1>6. slots # <<>> <=> n > 0
  BY <1>1, <1>2, LastOfSeq, EmptySeq
<1>7. records # <<>> <=> n > 0
  BY <1>1, <1>4, <1>5, LastOfSeq, EmptySeq
<1>8. InBlock <=> n > 0
  BY <1>3, <1>5 DEF InBlock
<1> QED BY <1>1, <1>2, <1>3, <1>4, <1>5, <1>6, <1>7, <1>8

LEMMA InitInv == Init => Inv
<1> SUFFICES ASSUME Init PROVE Inv
  OBVIOUS
<1>1. IsSeq(<<>>)
  <2>1. <<>> \in Seq({})
    BY EmptySeq
  <2> QED BY <2>1, SeqIsSeq, Zenon
<1>2. IsActivation(Activation(NoBlock, <<>>))
  BY <1>1 DEF Activation, IsActivation
<1>3. IsSeq(acts) /\ acts # <<>> /\ Len(acts) = 1 /\ \A i \in DOMAIN acts : IsActivation(acts[i])
  <2> DEFINE a == Activation(NoBlock, <<>>)
  <2>1. acts = <<a>>
    BY DEF Init
  <2> HIDE DEF a
  <2>2. acts \in Seq({a}) /\ acts # <<>> /\ Len(acts) = 1 /\ \A i \in DOMAIN acts : acts[i] = a
    BY <2>1
  <2>3. IsSeq(acts)
    BY <2>2, SeqIsSeq, Zenon
  <2> QED BY <2>2, <2>3, <1>2 DEF a
<1>4. TypeOK
  BY <1>1, <1>3 DEF Init, TypeOK
<1>5. SlotsFollowActivations
  BY <1>3 DEF Init, SlotsFollowActivations
<1> QED BY <1>4, <1>5 DEF Inv

\* A step that no observer notices keeps the invariant.
LEMMA QuietInv ==
  ASSUME Inv, QuietStep
  PROVE  Inv'
<1>1. PICK n \in Nat : /\ Len(slots) = n /\ DOMAIN slots = 1..n
                      /\ Len(acts) = n + 1 /\ DOMAIN acts = 1..(n + 1)
  BY Lengths
<1>2. TypeOK'
  <2>1. acts' # <<>>
    BY <1>1, EmptySeq DEF QuietStep, SameCalls
  <2>2. slots' \in Seq(DOMAIN tables') /\ owned' \in [Blocks -> Seq(DOMAIN tables')]
    BY DEF QuietStep, Inv, TypeOK
  <2> QED BY <2>1, <2>2 DEF QuietStep, SameCalls, Inv, TypeOK, Busy, Results
<1>3. SlotsFollowActivations'
  <2>1. /\ Len(slots') = Len(acts') - 1
        /\ Len(records') = Len(acts') - 1
    BY DEF QuietStep, SameCalls, Inv, SlotsFollowActivations
  <2>2. mode \notin {"idle", "fetch"} /\ mode' \notin {"idle", "fetch"}
    BY DEF QuietStep, Busy, Results
  <2>3. ASSUME NEW i \in DOMAIN slots
        PROVE  /\ i + 1 \in DOMAIN acts
               /\ acts'[i + 1].block = acts[i + 1].block
               /\ acts'[i + 1].pc = acts[i + 1].pc
    BY <1>1 DEF QuietStep, SameCalls
  <2> QED BY <2>1, <2>2, <2>3 DEF QuietStep, Inv, SlotsFollowActivations
<1> QED BY <1>2, <1>3 DEF Inv

\* Leaving a block takes one activation, one slot table and one record away.
LEMMA LeaveInv ==
  ASSUME Inv, InBlock, NEW result \in Results, LeaveBlock(result)
  PROVE  Inv' /\ Len(acts') = Len(acts) - 1
<1>1. PICK n \in Nat : /\ Len(slots) = n /\ DOMAIN slots = 1..n
                      /\ Len(records) = n /\ DOMAIN records = 1..n
                      /\ Len(acts) = n + 1 /\ DOMAIN acts = 1..(n + 1)
                      /\ (slots # <<>> <=> n > 0) /\ (records # <<>> <=> n > 0)
                      /\ (InBlock <=> n > 0)
                      /\ IsSeq(slots) /\ IsSeq(records) /\ IsSeq(acts) /\ IsSeq(tables)
  BY Lengths
<1>2. n > 0 /\ slots # <<>> /\ records # <<>> /\ acts # <<>>
  BY <1>1 DEF Inv, TypeOK
<1>3. slots' = Front(slots) /\ records' = Front(records) /\ acts' = Front(acts)
  BY <1>2 DEF LeaveBlock
<1>4. /\ Len(slots') = n - 1 /\ \A i \in 1..(n - 1) : slots'[i] = slots[i]
      /\ Len(records') = n - 1 /\ \A i \in 1..(n - 1) : records'[i] = records[i]
      /\ Len(acts') = n /\ \A i \in 1..n : acts'[i] = acts[i]
  <2>1. Len(slots') = n - 1 /\ \A i \in 1..(n - 1) : slots'[i] = slots[i]
    BY <1>1, <1>2, <1>3, FrontIsSeq
  <2>2. Len(records') = n - 1 /\ \A i \in 1..(n - 1) : records'[i] = records[i]
    BY <1>1, <1>2, <1>3, FrontIsSeq
  <2>3. Len(acts') = n /\ \A i \in 1..n : acts'[i] = acts[i]
    <3>1. /\ Len(Front(acts)) = Len(acts) - 1
          /\ \A i \in 1..(Len(acts) - 1) : Front(acts)[i] = acts[i]
      BY <1>1, <1>2, FrontIsSeq
    <3>2. Len(acts) - 1 = n
      BY <1>1
    <3> QED BY <1>3, <3>1, <3>2
  <2> QED BY <2>1, <2>2, <2>3
<1>5. IsSeq(slots') /\ IsSeq(records') /\ IsSeq(acts')
  <2>1. IsSeq(Front(slots)) /\ IsSeq(Front(records)) /\ IsSeq(Front(acts))
    BY <1>1, FrontIsSeq
  <2> QED BY <2>1, <1>3
<1>6. DOMAIN slots' = 1..(n - 1) /\ DOMAIN acts' = 1..n
  BY <1>4, <1>5, SeqLength
<1>7. TypeOK'
  <2>1. acts' # <<>>
    BY <1>2, <1>4, EmptySeq
  <2>2. \A i \in DOMAIN acts' : IsActivation(acts'[i])
    BY <1>1, <1>4, <1>6 DEF Inv, TypeOK
  <2>3. slots' \in Seq(DOMAIN tables) /\ records' \in Seq([block : Blocks, index : Nat])
    BY <1>3, FrontInSeq DEF Inv, TypeOK
  <2> QED BY <1>5, <2>1, <2>2, <2>3 DEF LeaveBlock, Inv, TypeOK
<1>8. SlotsFollowActivations'
  <2>1. mode' \notin {"idle", "fetch"}
    BY DEF LeaveBlock, Results
  <2>2. ASSUME NEW i \in 1..(n - 1)
        PROVE  /\ slots'[i] = slots[i] /\ records'[i] = records[i]
               /\ acts'[i + 1] = acts[i + 1]
               /\ i \in DOMAIN slots /\ i < Len(slots)
    BY <1>1, <1>4
  <2>3. owned' = owned
    BY DEF LeaveBlock
  <2>4. Len(slots') = Len(acts') - 1 /\ Len(records') = Len(acts') - 1
    BY <1>4
  <2>5. ASSUME NEW i \in DOMAIN slots'
        PROVE  /\ records'[i].block = acts'[i + 1].block
               /\ \E j \in DOMAIN owned'[acts'[i + 1].block] :
                    owned'[acts'[i + 1].block][j] = slots'[i]
               /\ records'[i].index = acts'[i + 1].pc
    <3>1. i \in 1..(n - 1)
      BY <1>6, <2>5
    <3>2. /\ records[i].block = acts[i + 1].block
          /\ \E j \in DOMAIN owned[acts[i + 1].block] : owned[acts[i + 1].block][j] = slots[i]
          /\ records[i].index = acts[i + 1].pc
      BY <2>2, <3>1 DEF Inv, SlotsFollowActivations
    <3> QED BY <2>2, <2>3, <3>1, <3>2
  <2> QED BY <2>1, <2>4, <2>5 DEF SlotsFollowActivations
<1> QED BY <1>1, <1>4, <1>7, <1>8 DEF Inv

\* Going on in the innermost block moves its program counter.
LEMMA ContinueInv ==
  ASSUME Inv, InBlock, NEW i \in Nat, ContinueAt(i)
  PROVE  Inv' /\ Len(acts') = Len(acts)
<1>1. PICK n \in Nat : /\ Len(slots) = n /\ DOMAIN slots = 1..n
                      /\ Len(acts) = n + 1 /\ DOMAIN acts = 1..(n + 1)
                      /\ (slots # <<>> <=> n > 0)
                      /\ (InBlock <=> n > 0) /\ IsSeq(acts)
  BY Lengths
<1> DEFINE a == [acts[n + 1] EXCEPT !.pc = i]
<1>2. acts' = [acts EXCEPT ![n + 1] = a] /\ n + 1 \in DOMAIN acts
  BY <1>1 DEF ContinueAt
<1>3. IsActivation(acts[n + 1]) /\ \A j \in DOMAIN acts : IsActivation(acts[j])
  BY <1>2 DEF Inv, TypeOK
<1>4. IsActivation(a) /\ a.block = acts[n + 1].block
  BY <1>3 DEF IsActivation
<1> HIDE DEF a
<1>5. IsSeq(acts')
  <2>1. IsSeq([acts EXCEPT ![n + 1] = a])
    BY <1>1, <1>2, ExceptIsSeq, Zenon
  <2> QED BY <1>2, <2>1
<1>6. DOMAIN acts' = DOMAIN acts /\ Len(acts') = Len(acts)
  BY <1>1, <1>2, ExceptIsSeq
<1>7. \A j \in DOMAIN acts : acts'[j] = IF j = n + 1 THEN a ELSE acts[j]
  BY <1>2
<1>8. TypeOK'
  <2>1. acts' # <<>>
    BY <1>1, <1>6, EmptySeq
  <2>2. \A j \in DOMAIN acts' : IsActivation(acts'[j])
    BY <1>3, <1>4, <1>6, <1>7
  <2> QED BY <1>5, <2>1, <2>2 DEF ContinueAt, Inv, TypeOK
<1>9. SlotsFollowActivations'
  <2>1. ASSUME NEW j \in DOMAIN slots
        PROVE  /\ acts'[j + 1].block = acts[j + 1].block
               /\ j < Len(slots) => acts'[j + 1] = acts[j + 1]
    BY <1>1, <1>4, <1>7
  <2>2. mode' = "fetch" /\ slots # <<>> /\ UNCHANGED <<slots, records, owned>>
    BY <1>1 DEF ContinueAt
  <2> QED BY <1>6, <2>1, <2>2 DEF Inv, SlotsFollowActivations
<1> QED BY <1>6, <1>8, <1>9 DEF Inv

\* Entering a block adds one activation, one record, and a slot table no one has.
LEMMA EnterInv ==
  ASSUME Inv, EnterBlock
  PROVE  /\ Inv'
         /\ Len(acts') = Len(acts) + 1
         /\ \E b \in Blocks : records' = Append(records, [block |-> b, index |-> 0])
         /\ \E t : tables' = Append(tables, t)
         /\ slots' = Append(slots, Len(tables) + 1)
<1>1. PICK n \in Nat : /\ Len(slots) = n /\ DOMAIN slots = 1..n
                      /\ Len(records) = n /\ DOMAIN records = 1..n
                      /\ Len(acts) = n + 1 /\ DOMAIN acts = 1..(n + 1)
                      /\ IsSeq(slots) /\ IsSeq(records) /\ IsSeq(acts) /\ IsSeq(tables)
  BY Lengths
<1>2. PICK m \in Nat : m = Len(tables) /\ DOMAIN tables = 1..m
  BY <1>1, SeqLength
<1>b. PICK b \in Blocks : \E t :
        /\ tables' = Append(tables, t)
        /\ owned' = [owned EXCEPT ![b] = NewSlot(b)]
        /\ slots' = Append(slots, Last(NewSlot(b)))
        /\ records' = Append(records, [block |-> b, index |-> 0])
        /\ acts' = Append(acts, Activation(b, current[4]))
        /\ mode = "execute" /\ mode' = "fetch" /\ runs' = runs
  BY DEF EnterBlock, Runs
<1>3. PICK t :
        /\ tables' = Append(tables, t)
        /\ owned' = [owned EXCEPT ![b] = NewSlot(b)]
        /\ slots' = Append(slots, Last(NewSlot(b)))
        /\ records' = Append(records, [block |-> b, index |-> 0])
        /\ acts' = Append(acts, Activation(b, current[4]))
        /\ mode = "execute" /\ mode' = "fetch" /\ runs' = runs
  BY <1>b
<1> DEFINE a == Activation(b, current[4])
           r == [block |-> b, index |-> 0]
<1>4. IsActivation(a) /\ a.block = b /\ a.pc = 0
  <2>1. <<>> \in Seq({})
    BY EmptySeq
  <2>2. IsSeq(<<>>)
    BY <2>1, SeqIsSeq, Zenon
  <2> QED BY <2>2 DEF Activation, IsActivation
<1>5. r \in [block : Blocks, index : Nat] /\ r.block = b /\ r.index = 0
  OBVIOUS
<1> HIDE DEF a, r
<1>6. owned[b] \in Seq(DOMAIN tables) /\ IsSeq(owned[b])
  <2>1. owned[b] \in Seq(DOMAIN tables)
    BY DEF Inv, TypeOK
  <2> QED BY <2>1, SeqIsSeq, Zenon
<1>7. /\ Last(NewSlot(b)) = m + 1
      /\ \E j \in DOMAIN NewSlot(b) : NewSlot(b)[j] = m + 1
      /\ \A j \in DOMAIN owned[b] : j \in DOMAIN NewSlot(b) /\ NewSlot(b)[j] = owned[b][j]
  <2>1. PICK k \in Nat : k = Len(owned[b]) /\ DOMAIN owned[b] = 1..k
    BY <1>6, SeqLength
  <2>2. /\ IsSeq(NewSlot(b))
        /\ Len(NewSlot(b)) = k + 1
        /\ \A j \in 1..k : NewSlot(b)[j] = owned[b][j]
        /\ NewSlot(b)[k + 1] = m + 1
    BY <1>2, <1>6, <2>1, AppendIsSeq DEF NewSlot
  <2>3. DOMAIN NewSlot(b) = 1..(k + 1)
    BY <2>2, SeqLength
  <2> QED BY <2>1, <2>2, <2>3 DEF Last
<1>8. IsSeq(tables') /\ DOMAIN tables' = 1..(m + 1)
  <2>1. IsSeq(Append(tables, t)) /\ Len(Append(tables, t)) = m + 1
    BY <1>1, <1>2, AppendIsSeq
  <2> QED BY <1>3, <2>1, SeqLength
<1>9. NewSlot(b) \in Seq(DOMAIN tables')
  <2>1. owned[b] \in Seq(DOMAIN tables') /\ m + 1 \in DOMAIN tables'
    BY <1>2, <1>6, <1>8, SeqMonotonic
  <2>2. Append(owned[b], m + 1) \in Seq(DOMAIN tables')
    BY <2>1, AppendProperties
  <2> QED BY <1>2, <2>2 DEF NewSlot
<1>10. /\ IsSeq(slots') /\ Len(slots') = n + 1 /\ DOMAIN slots' = 1..(n + 1)
       /\ \A i \in 1..n : slots'[i] = slots[i]
       /\ slots'[n + 1] = m + 1
  <2>1. slots' = Append(slots, m + 1)
    BY <1>3, <1>7
  <2>2. /\ IsSeq(Append(slots, m + 1)) /\ Len(Append(slots, m + 1)) = n + 1
        /\ \A i \in 1..n : Append(slots, m + 1)[i] = slots[i]
        /\ Append(slots, m + 1)[n + 1] = m + 1
    BY <1>1, AppendIsSeq
  <2>3. DOMAIN Append(slots, m + 1) = 1..(n + 1)
    BY <2>2, SeqLength
  <2> QED BY <2>1, <2>2, <2>3
<1>11. /\ IsSeq(records') /\ Len(records') = n + 1
       /\ \A i \in 1..n : records'[i] = records[i]
       /\ records'[n + 1] = r
  <2>1. records' = Append(records, r)
    BY <1>3 DEF r
  <2>2. /\ IsSeq(Append(records, r)) /\ Len(Append(records, r)) = n + 1
        /\ \A i \in 1..n : Append(records, r)[i] = records[i]
        /\ Append(records, r)[n + 1] = r
    BY <1>1, AppendIsSeq
  <2> QED BY <2>1, <2>2
<1>12. /\ IsSeq(acts') /\ Len(acts') = n + 2 /\ DOMAIN acts' = 1..(n + 2) /\ acts' # <<>>
       /\ \A i \in 1..(n + 1) : acts'[i] = acts[i]
       /\ acts'[n + 2] = a
  <2>1. acts' = Append(acts, a)
    BY <1>3 DEF a
  <2>2. /\ IsSeq(Append(acts, a)) /\ Len(Append(acts, a)) = n + 2 /\ Append(acts, a) # <<>>
        /\ \A i \in 1..(n + 1) : Append(acts, a)[i] = acts[i]
        /\ Append(acts, a)[n + 2] = a
    <3>1. /\ IsSeq(Append(acts, a)) /\ Len(Append(acts, a)) = Len(acts) + 1
          /\ Append(acts, a) # <<>>
          /\ \A i \in 1..Len(acts) : Append(acts, a)[i] = acts[i]
          /\ Append(acts, a)[Len(acts) + 1] = a
      BY <1>1, AppendIsSeq
    <3>2. Len(acts) = n + 1 /\ Len(acts) + 1 = n + 2
      BY <1>1
    <3> QED BY <3>1, <3>2
  <2>3. DOMAIN Append(acts, a) = 1..(n + 2)
    BY <2>2, SeqLength
  <2> QED BY <2>1, <2>2, <2>3
<1>13. TypeOK'
  <2>1. \A i \in DOMAIN acts' : IsActivation(acts'[i])
    <3> SUFFICES ASSUME NEW i \in 1..(n + 2) PROVE IsActivation(acts'[i])
      BY <1>12
    <3>1. CASE i = n + 2
      BY <3>1, <1>4, <1>12
    <3>2. CASE i \in 1..(n + 1)
      BY <3>2, <1>1, <1>12 DEF Inv, TypeOK
    <3> QED BY <3>1, <3>2
  <2>2. slots' \in Seq(DOMAIN tables')
    <3>1. slots \in Seq(DOMAIN tables') /\ m + 1 \in DOMAIN tables'
      BY <1>2, <1>8, SeqMonotonic DEF Inv, TypeOK
    <3> QED BY <3>1, <1>3, <1>7, AppendProperties
  <2>3. owned' \in [Blocks -> Seq(DOMAIN tables')]
    <3>1. ASSUME NEW c \in Blocks PROVE owned[c] \in Seq(DOMAIN tables')
      <4>1. owned[c] \in Seq(DOMAIN tables) /\ DOMAIN tables \subseteq DOMAIN tables'
        BY <1>2, <1>8 DEF Inv, TypeOK
      <4> QED BY <4>1, SeqMonotonic
    <3> QED BY <1>3, <1>9, <3>1 DEF Inv, TypeOK
  <2>4. records' \in Seq([block : Blocks, index : Nat])
    BY <1>3, <1>5, AppendProperties DEF r, Inv, TypeOK
  <2> QED BY <1>3, <1>8, <1>12, <2>1, <2>2, <2>3, <2>4 DEF Inv, TypeOK
<1>14. SlotsFollowActivations'
  <2>1. Len(slots') = Len(acts') - 1 /\ Len(records') = Len(acts') - 1
    BY <1>10, <1>11, <1>12
  <2>2. mode' = "fetch" /\ slots' # <<>>
    BY <1>3, <1>10, EmptySeq
  <2>3. ASSUME NEW i \in DOMAIN slots'
        PROVE  /\ records'[i].block = acts'[i + 1].block
               /\ \E j \in DOMAIN owned'[acts'[i + 1].block] :
                    owned'[acts'[i + 1].block][j] = slots'[i]
               /\ i < Len(slots') => records'[i].index = acts'[i + 1].pc
    <3>1. CASE i = n + 1
      <4>1. records'[i] = r /\ acts'[i + 1] = a /\ slots'[i] = m + 1 /\ ~(i < Len(slots'))
        BY <3>1, <1>10, <1>11, <1>12
      <4>2. owned'[b] = NewSlot(b)
        BY <1>3 DEF Inv, TypeOK
      <4> QED BY <4>1, <4>2, <1>4, <1>5, <1>7
    <3>2. CASE i \in 1..n
      <4>1. /\ records'[i] = records[i] /\ slots'[i] = slots[i]
            /\ i + 1 \in DOMAIN acts /\ acts'[i + 1] = acts[i + 1]
        BY <3>2, <1>1, <1>10, <1>11, <1>12
      <4>2. /\ records[i].block = acts[i + 1].block
            /\ \E j \in DOMAIN owned[acts[i + 1].block] :
                 owned[acts[i + 1].block][j] = slots[i]
            /\ records[i].index = acts[i + 1].pc
        BY <3>2, <1>1, <1>3 DEF Inv, SlotsFollowActivations
      <4>3. records[i].block \in Blocks
        <5>1. records[i] \in [block : Blocks, index : Nat]
          BY <3>2, <1>1, ElementOfSeq DEF Inv, TypeOK
        <5> QED BY <5>1
      <4>4. \E j \in DOMAIN owned'[acts[i + 1].block] :
               owned'[acts[i + 1].block][j] = slots[i]
        <5>1. CASE acts[i + 1].block = b
          <6>1. owned'[b] = NewSlot(b)
            BY <1>3 DEF Inv, TypeOK
          <6> QED BY <5>1, <6>1, <4>2, <1>7
        <5>2. CASE acts[i + 1].block # b
          <6>1. owned'[acts[i + 1].block] = owned[acts[i + 1].block]
            BY <5>2, <4>2, <4>3, <1>3 DEF Inv, TypeOK
          <6> QED BY <6>1, <4>2
        <5> QED BY <5>1, <5>2
      <4> QED BY <4>1, <4>2, <4>4
    <3> QED BY <1>10, <3>1, <3>2
  <2> QED BY <2>1, <2>2, <2>3 DEF SlotsFollowActivations
<1>15. slots' = Append(slots, Len(tables) + 1)
  BY <1>2, <1>3, <1>7
<1>16. Len(acts') = Len(acts) + 1
  BY <1>1, <1>12
<1>17. Inv'
  BY <1>13, <1>14 DEF Inv
<1> QED BY <1>3, <1>15, <1>16, <1>17

\* Fetching an operation tells the tracer which.
LEMMA FetchInv ==
  ASSUME Inv, FetchOperation
  PROVE  Inv' /\ UNCHANGED <<acts, tables, slots, owned>> /\
         [i \in DOMAIN records' |-> records'[i].block] = [i \in DOMAIN records |-> records[i].block]
<1>1. PICK n \in Nat : /\ Len(slots) = n /\ DOMAIN slots = 1..n
                      /\ Len(records) = n /\ DOMAIN records = 1..n
                      /\ Len(acts) = n + 1 /\ DOMAIN acts = 1..(n + 1)
                      /\ (slots # <<>> <=> n > 0) /\ (records # <<>> <=> n > 0)
                      /\ IsSeq(records)
  BY Lengths
<1>2. n > 0
  BY <1>1 DEF FetchOperation, Inv, SlotsFollowActivations
<1>3. /\ records' = [records EXCEPT ![n].index = acts[n + 1].pc]
      /\ mode' = "execute"
      /\ UNCHANGED <<acts, tables, slots, owned, runs>>
  BY <1>1, <1>2 DEF FetchOperation, Here, Last
<1> DEFINE r == [records[n] EXCEPT !.index = acts[n + 1].pc]
<1>4. acts[n + 1].pc \in Nat /\ records[n] \in [block : Blocks, index : Nat]
  <2>1. n + 1 \in DOMAIN acts /\ n \in 1..Len(records)
    BY <1>1, <1>2
  <2> QED BY <2>1, ElementOfSeq DEF Inv, TypeOK, IsActivation
<1>5. /\ r \in [block : Blocks, index : Nat]
      /\ r.block = records[n].block /\ r.index = acts[n + 1].pc
  BY <1>4
<1>6. records' = [records EXCEPT ![n] = r]
  BY <1>3
<1> HIDE DEF r
<1>7. /\ records' \in Seq([block : Blocks, index : Nat])
      /\ Len(records') = n /\ DOMAIN records' = 1..n
      /\ \A i \in 1..n : records'[i] = IF i = n THEN r ELSE records[i]
  <2>1. records \in Seq([block : Blocks, index : Nat]) /\ n \in 1..Len(records)
    BY <1>1, <1>2 DEF Inv, TypeOK
  <2> QED BY <1>1, <1>5, <1>6, <2>1, ExceptSeq
<1>8. TypeOK'
  BY <1>3, <1>7 DEF Inv, TypeOK
<1>9. ASSUME NEW i \in 1..n PROVE records'[i].block = records[i].block
  BY <1>5, <1>7
<1>10. SlotsFollowActivations'
  <2>1. ASSUME NEW i \in 1..n
        PROVE  records'[i].block = acts[i + 1].block /\ records'[i].index = acts[i + 1].pc
    <3>1. CASE i = n
      BY <3>1, <1>1, <1>5, <1>7 DEF Inv, SlotsFollowActivations
    <3>2. CASE i # n
      <4>1. i < Len(slots) /\ i \in DOMAIN slots
        BY <3>2, <1>1
      <4> QED BY <3>2, <4>1, <1>7 DEF Inv, SlotsFollowActivations
    <3> QED BY <3>1, <3>2
  <2>2. Len(slots') = Len(acts') - 1 /\ Len(records') = Len(acts') - 1
    BY <1>1, <1>3, <1>7
  <2> QED BY <1>1, <1>3, <2>1, <2>2 DEF Inv, SlotsFollowActivations
<1>11. [i \in DOMAIN records' |-> records'[i].block] = [i \in DOMAIN records |-> records[i].block]
  BY <1>1, <1>7, <1>9
<1> QED BY <1>3, <1>8, <1>10, <1>11 DEF Inv

\* Outside every block, a run begins and ends.
LEMMA OutsideInv ==
  ASSUME Inv, (\E name \in Names : Execute(name)) \/ Finish
  PROVE  Inv' /\ UNCHANGED callVars
<1>1. PICK n \in Nat : /\ Len(slots) = n /\ (slots # <<>> <=> n > 0) /\ (InBlock <=> n > 0)
  BY Lengths
<1>2. slots = <<>> /\ UNCHANGED callVars /\ mode' \in {"idle", "execute", "undefined"}
  BY <1>1 DEF Execute, Crash, Invoke, opVars, Finish, Inv, SlotsFollowActivations
<1>3. runs' \in Nat
  BY DEF Execute, Finish, Inv, TypeOK
<1>4. TypeOK'
  BY <1>2, <1>3 DEF callVars, Inv, TypeOK
<1>5. SlotsFollowActivations'
  BY <1>2 DEF callVars, Inv, SlotsFollowActivations
<1> QED BY <1>2, <1>4, <1>5 DEF Inv

\* What an operation returns to its block either leaves the block or goes on in it.
LEMMA BlockResultCases ==
  ASSUME Inv, BlockResult
  PROVE  /\ InBlock
         /\ \/ \E result \in {"SUCCESS", "HALT", "ERROR"} :
                 LeaveBlock(result) /\ (mode \in {"HALT", "ERROR"} => result = mode)
            \/ mode \notin {"HALT", "ERROR"} /\ \E i \in Nat : ContinueAt(i)
<1>1. Here.pc \in Nat
  <2>1. Len(acts) \in DOMAIN acts
    BY LastOfSeq DEF Inv, TypeOK
  <2> QED BY <2>1 DEF Here, Last, Inv, TypeOK, IsActivation
<1>2. Here.pc + 1 \in Nat
  BY <1>1
<1> QED BY <1>1, <1>2 DEF BlockResult

\* A block that has run to its end is one of the blocks in progress.
LEMMA EndOfBlockCases ==
  ASSUME Inv, EndOfBlock
  PROVE  InBlock /\ LeaveBlock("SUCCESS")
BY Lengths DEF EndOfBlock, Inv, SlotsFollowActivations

\* The kinds of steps.
LEMMA Steps ==
  ASSUME Next
  PROVE  \/ Quiet \/ EnterBlock \/ FetchOperation \/ EndOfBlock \/ BlockResult
         \/ (\E name \in Names : Execute(name)) \/ Finish
BY DEF Next, Step, Execution, Quiet

LEMMA NextInv ==
  ASSUME Inv, [Next]_vars
  PROVE  Inv'
<1>1. CASE Quiet
  BY <1>1, QuietSteps, QuietInv DEF Inv
<1>2. CASE EnterBlock
  BY <1>2, EnterInv
<1>3. CASE FetchOperation
  BY <1>3, FetchInv
<1>4. CASE EndOfBlock
  BY <1>4, EndOfBlockCases, LeaveInv DEF Results
<1>5. CASE BlockResult
  BY <1>5, BlockResultCases, LeaveInv, ContinueInv DEF Results
<1>6. CASE (\E name \in Names : Execute(name)) \/ Finish
  BY <1>6, OutsideInv
<1>7. CASE UNCHANGED vars
  BY <1>7 DEF vars, Inv, TypeOK, SlotsFollowActivations
<1> QED BY <1>1, <1>2, <1>3, <1>4, <1>5, <1>6, <1>7, Steps

\* The machine keeps the inductive invariant.
THEOREM InvariantHolds == Spec => []Inv
BY InitInv, NextInv, PTL DEF Spec

\* Every variable has its shape, whatever program is run.
THEOREM TypeCorrect == Spec => []TypeOK
<1>1. Inv => TypeOK
  BY DEF Inv
<1> QED BY <1>1, InvariantHolds, PTL

\* Block::doExecute unwinds what it set up on every path out of a block: slot
\* tables and tracer records always match the blocks in progress, one for one.
THEOREM SlotsUnwound == Spec => []SlotsFollowActivations
<1>1. Inv => SlotsFollowActivations
  BY DEF Inv
<1> QED BY <1>1, InvariantHolds, PTL

(***************************************************************************)
(* What the invariant is good for.                                         *)
(***************************************************************************)

\* Slots are reentrant: activations never share a slot table, because each pushes
\* the table its block has just made.
THEOREM SlotsReentrant == Spec => []SlotTablesDistinct
<1>1. Init => SlotTablesDistinct
  BY DEF Init, SlotTablesDistinct
<1>2. ASSUME Inv, SlotTablesDistinct, [Next]_vars
      PROVE  SlotTablesDistinct'
  <2>1. PICK n \in Nat : /\ Len(slots) = n /\ DOMAIN slots = 1..n
                        /\ (InBlock <=> n > 0)
                        /\ IsSeq(slots) /\ IsSeq(tables)
    BY <1>2, Lengths
  <2>2. CASE UNCHANGED slots
    BY <2>2, <1>2 DEF SlotTablesDistinct
  <2>3. ASSUME InBlock, NEW result, LeaveBlock(result) PROVE SlotTablesDistinct'
    <3>1. slots' = Front(slots)
      BY <2>1, <2>3, EmptySeq DEF LeaveBlock
    <3>2. /\ IsSeq(Front(slots)) /\ Len(Front(slots)) = n - 1
          /\ \A i \in 1..(n - 1) : Front(slots)[i] = slots[i]
      BY <2>1, <2>3, FrontIsSeq, EmptySeq
    <3>3. DOMAIN Front(slots) = 1..(n - 1)
      BY <3>2, SeqLength
    <3> QED BY <1>2, <2>1, <3>1, <3>2, <3>3 DEF SlotTablesDistinct
  <2>4. CASE EnterBlock
    <3>1. PICK m \in Nat : m = Len(tables) /\ DOMAIN tables = 1..m
      BY <2>1, SeqLength
    <3>2. slots' = Append(slots, m + 1)
      BY <1>2, <2>4, <3>1, EnterInv
    <3>3. /\ IsSeq(Append(slots, m + 1)) /\ Len(Append(slots, m + 1)) = n + 1
          /\ \A i \in 1..n : Append(slots, m + 1)[i] = slots[i]
          /\ Append(slots, m + 1)[n + 1] = m + 1
      BY <2>1, AppendIsSeq
    <3>4. DOMAIN Append(slots, m + 1) = 1..(n + 1)
      BY <3>3, SeqLength
    <3>5. \A i \in 1..n : slots[i] \in 1..m
      BY <1>2, <2>1, <3>1, ElementOfSeq DEF Inv, TypeOK
    <3> QED BY <1>2, <2>1, <3>2, <3>3, <3>4, <3>5 DEF SlotTablesDistinct
  <2>5. CASE Quiet
    BY <1>2, <2>2, <2>5, QuietSteps DEF QuietStep, Inv
  <2>6. CASE FetchOperation
    BY <2>2, <2>6 DEF FetchOperation
  <2>7. CASE EndOfBlock
    BY <1>2, <2>3, <2>7, EndOfBlockCases
  <2>8. CASE BlockResult
    <3>1. ASSUME NEW i, ContinueAt(i) PROVE UNCHANGED slots
      BY <3>1 DEF ContinueAt
    <3> QED BY <1>2, <2>2, <2>3, <2>8, <3>1, BlockResultCases
  <2>9. CASE (\E name \in Names : Execute(name)) \/ Finish
    BY <1>2, <2>2, <2>9, OutsideInv DEF callVars
  <2>10. CASE UNCHANGED vars
    BY <2>2, <2>10 DEF vars
  <2> QED BY <1>2, <2>4, <2>5, <2>6, <2>7, <2>8, <2>9, <2>10, Steps
<1> QED BY <1>1, <1>2, InvariantHolds, PTL DEF Spec


(***************************************************************************)
(* break and loop stay in their block.                                     *)
(***************************************************************************)

\* Only LeaveBlock makes the C++ stack lower, and never with a jump as its result.
LEMMA LeavingResults ==
  ASSUME Inv, [Next]_vars, Len(acts') < Len(acts)
  PROVE  mode' \in {"SUCCESS", "HALT", "ERROR"}
<1>1. PICK n \in Nat : Len(acts) = n + 1
  BY Lengths
<1>2. CASE Quiet
  BY <1>1, <1>2, QuietSteps DEF Inv, QuietStep, SameCalls
<1>3. CASE EnterBlock
  BY <1>1, <1>3, EnterInv
<1>4. CASE FetchOperation
  BY <1>1, <1>4 DEF FetchOperation
<1>5. CASE EndOfBlock
  BY <1>5 DEF EndOfBlock, LeaveBlock
<1>6. CASE BlockResult
  <2>1. ASSUME NEW result \in {"SUCCESS", "HALT", "ERROR"}, LeaveBlock(result)
        PROVE  mode' \in {"SUCCESS", "HALT", "ERROR"}
    BY <2>1 DEF LeaveBlock
  <2>2. ASSUME InBlock, NEW i \in Nat, ContinueAt(i)
        PROVE  FALSE
    BY <1>1, <2>2, ContinueInv
  <2> QED BY <1>6, <2>1, <2>2, BlockResultCases
<1>7. CASE (\E name \in Names : Execute(name)) \/ Finish
  BY <1>1, <1>7, OutsideInv DEF callVars
<1>8. CASE UNCHANGED vars
  BY <1>1, <1>8 DEF vars
<1> QED BY <1>2, <1>3, <1>4, <1>5, <1>6, <1>7, <1>8, Steps

\* No block ever returns EXIT_BLOCK, RESTART_BLOCK or AGAIN to its caller, whatever
\* the operations in it return.
THEOREM JumpsAreContained == Spec => BlocksContainJumps
<1>1. Inv /\ [Next]_vars => (Len(acts') < Len(acts) => mode' \in {"SUCCESS", "HALT", "ERROR"})
  BY LeavingResults
<1> QED BY <1>1, InvariantHolds, PTL DEF Spec, BlocksContainJumps

(***************************************************************************)
(* Slot tables and names.                                                  *)
(***************************************************************************)

\* The steps that leave every slot table alone.
LEMMA TablesUnchanged ==
  ASSUME Inv, [Next]_vars, ~EnterBlock, ~StoreSlot
  PROVE  UNCHANGED tables
<1>1. CASE ExecuteLeaf \/ Transfer \/ Load \/ Store \/ Clear \/ LoadSlot
  BY <1>1 DEF ExecuteLeaf, Transfer, Load, Store, Clear, LoadSlot, callVars
<1>2. CASE Map \/ Filter \/ Reduce \/ NextItem \/ EndLoop \/ CallbackResult
  BY <1>2, LoopReturns DEF Inv
<1>3. CASE FetchOperation \/ EndOfBlock \/ BlockResult
  BY <1>3 DEF FetchOperation, EndOfBlock, BlockResult, LeaveBlock, ContinueAt
<1>4. CASE (\E name \in Names : Execute(name)) \/ Finish
  BY <1>4, OutsideInv DEF callVars
<1>5. CASE UNCHANGED vars
  BY <1>5 DEF vars
<1> QED BY <1>1, <1>2, <1>3, <1>4, <1>5, Steps DEF Quiet

\* A new table leaves the others where they are.
LEMMA EnteringKeepsTables ==
  ASSUME Inv, EnterBlock
  PROVE  \A t \in DOMAIN tables : t \in DOMAIN tables' /\ tables'[t] = tables[t]
<1>1. IsSeq(tables) /\ DOMAIN tables = 1..Len(tables) /\ Len(tables) \in Nat
  BY SeqLength DEF Inv, TypeOK
<1>2. PICK new : tables' = Append(tables, new)
  BY EnterInv
<1>3. /\ IsSeq(Append(tables, new)) /\ Len(Append(tables, new)) = Len(tables) + 1
      /\ \A t \in 1..Len(tables) : Append(tables, new)[t] = tables[t]
  BY <1>1, AppendIsSeq
<1>4. DOMAIN Append(tables, new) = 1..(Len(tables) + 1)
  BY <1>3, SeqLength
<1> QED BY <1>1, <1>2, <1>3, <1>4

\* storeslot changes the innermost table, and binds a name it did not have.
LEMMA StoreSlotBinds ==
  ASSUME StoreSlot
  PROVE  \/ UNCHANGED tables
         \/ \E v : /\ slots # <<>>
                   /\ current[2] \notin DOMAIN tables[Last(slots)]
                   /\ tables' = [tables EXCEPT ![Last(slots)] = Bind(@, current[2], v)]
<1>1. CASE UNCHANGED tables
  BY <1>1
<1>2. CASE ~UNCHANGED tables
  <2>1. /\ CurrentSlot # 0 /\ current[2] \notin DOMAIN tables[CurrentSlot]
        /\ tables' = [tables EXCEPT ![CurrentSlot] = Bind(tables[CurrentSlot], current[2], Operand(1))]
    BY <1>2 DEF StoreSlot
  <2>2. slots # <<>> /\ CurrentSlot = Last(slots)
    BY <2>1 DEF CurrentSlot
  <2>3. [tables EXCEPT ![Last(slots)] = Bind(@, current[2], Operand(1))]
        = [tables EXCEPT ![Last(slots)] = Bind(tables[Last(slots)], current[2], Operand(1))]
    OBVIOUS
  <2> QED BY <2>1, <2>2, <2>3
<1> QED BY <1>1, <1>2

\* However often a block has been entered again and left, its operations change no
\* table but that of the activation they run in.
THEOREM OtherSlotsAreSafe == Spec => OnlyCurrentSlotChanges
<1>1. ASSUME Inv, [Next]_vars, NEW t \in DOMAIN tables, tables'[t] # tables[t]
      PROVE  slots # <<>> /\ t = Last(slots)
  <2>1. CASE EnterBlock
    BY <1>1, <2>1, EnteringKeepsTables
  <2>2. CASE StoreSlot
    BY <1>1, <2>2, StoreSlotBinds
  <2> QED BY <1>1, <2>1, <2>2, TablesUnchanged
<1>2. Inv /\ [Next]_vars => \A t \in DOMAIN tables :
        tables'[t] # tables[t] => slots # <<>> /\ t = Last(slots)
  BY <1>1
<1> QED BY <1>2, InvariantHolds, PTL DEF Spec, OnlyCurrentSlotChanges

\* Only store and clear change the value store: the one adds a name, the other takes
\* one away.
LEMMA StoreSteps ==
  ASSUME Inv, [Next]_vars, NEW k \in DOMAIN store, k \in DOMAIN store'
  PROVE  store'[k] = store[k]
<1>1. CASE Store
  <2>1. CASE UNCHANGED store
    BY <2>1
  <2>2. CASE ~UNCHANGED store
    <3>1. /\ current[2] \notin DOMAIN store
          /\ store' = Bind(store, current[2], Operand(1))
      BY <1>1, <2>2 DEF Store
    <3> QED BY <3>1 DEF Bind
  <2> QED BY <2>1, <2>2
<1>2. CASE Clear
  BY <1>2 DEF Clear
<1>3. CASE ExecuteLeaf \/ Transfer \/ Load \/ LoadSlot \/ StoreSlot
  BY <1>3 DEF ExecuteLeaf, Transfer, Load, LoadSlot, StoreSlot
<1>4. CASE Map \/ Filter \/ Reduce \/ NextItem \/ EndLoop \/ CallbackResult
  BY <1>4 DEF Map, Filter, StartTransform, Reduce, NextItem, EndLoop, CallbackResult
<1>5. CASE EnterBlock \/ FetchOperation \/ EndOfBlock \/ BlockResult
  BY <1>5 DEF EnterBlock, FetchOperation, EndOfBlock, BlockResult, LeaveBlock, ContinueAt
<1>6. CASE (\E name \in Names : Execute(name)) \/ Finish
  BY <1>6 DEF Execute, Finish
<1>7. CASE UNCHANGED vars
  BY <1>7 DEF vars
<1> QED BY <1>1, <1>2, <1>3, <1>4, <1>5, <1>6, <1>7, Steps DEF Quiet

\* A binding in a slot table stays as it is for as long as there are slots.
LEMMA SlotSteps ==
  ASSUME Inv, [Next]_vars, NEW t \in DOMAIN tables, NEW k \in DOMAIN tables[t]
  PROVE  k \in DOMAIN tables'[t] /\ tables'[t][k] = tables[t][k]
<1>1. CASE EnterBlock
  BY <1>1, EnteringKeepsTables
<1>2. CASE StoreSlot
  <2>1. CASE tables'[t] = tables[t]
    BY <2>1
  <2>2. CASE tables'[t] # tables[t]
    <3>1. PICK v : /\ current[2] \notin DOMAIN tables[t]
                   /\ tables'[t] = Bind(tables[t], current[2], v)
      BY <1>2, <2>2, StoreSlotBinds
    <3> QED BY <3>1 DEF Bind
  <2> QED BY <2>1, <2>2
<1> QED BY <1>1, <1>2, TablesUnchanged

\* store and storeslot never overwrite: what is loaded under a name, from the value
\* store or from a slot, is the same value for as long as the name is bound.
THEOREM BindingsStay == Spec => BindingsAreImmutable
<1>1. Inv /\ [Next]_vars =>
        /\ \A k \in DOMAIN store \cap DOMAIN store' : store'[k] = store[k]
        /\ \A t \in DOMAIN tables : \A k \in DOMAIN tables[t] :
             k \in DOMAIN tables'[t] /\ tables'[t][k] = tables[t][k]
  BY StoreSteps, SlotSteps
<1> QED BY <1>1, InvariantHolds, PTL DEF Spec, BindingsAreImmutable

(***************************************************************************)
(* What a listener sees.                                                   *)
(***************************************************************************)

\* The blocks of the records, as CallStack has them.
Calls == [i \in DOMAIN records |-> records[i].block]

\* A function over an initial interval is a sequence.
LEMMA TableIsSeq ==
  ASSUME NEW n \in Nat, NEW s, s = [i \in 1..n |-> s[i]]
  PROVE  IsSeq(s) /\ Len(s) = n /\ DOMAIN s = 1..n
<1> DEFINE T == {s[i] : i \in 1..n}
<1>1. s \in [1..n -> T] /\ DOMAIN s = 1..n
  OBVIOUS
<1> HIDE DEF T
<1>2. s \in Seq(T)
  BY <1>1, IsASeq
<1>3. Len(s) = n
  BY <1>1, <1>2, LenProperties
<1> QED BY <1>1, <1>2, <1>3, SeqIsSeq

\* One record more, one call more.
LEMMA EnteringCalls ==
  ASSUME Inv, NEW b, records' = Append(records, [block |-> b, index |-> 0])
  PROVE  Calls' = Append(Calls, b)
<1> DEFINE r == [block |-> b, index |-> 0]
<1>1. r.block = b /\ records' = Append(records, r)
  OBVIOUS
<1> HIDE DEF r
<1>2. PICK n \in Nat : Len(records) = n /\ DOMAIN records = 1..n /\ IsSeq(records)
  BY Lengths
<1>3. /\ IsSeq(Append(records, r)) /\ Len(Append(records, r)) = n + 1
      /\ \A i \in 1..n : Append(records, r)[i] = records[i]
      /\ Append(records, r)[n + 1] = r
  BY <1>2, AppendIsSeq
<1>4. DOMAIN records' = 1..(n + 1)
  BY <1>1, <1>3, SeqLength
<1>5. Calls' = [i \in 1..(n + 1) |-> IF i = n + 1 THEN b ELSE records[i].block]
  BY <1>1, <1>2, <1>3, <1>4 DEF Calls
<1>6. Calls = [i \in 1..n |-> records[i].block]
  BY <1>2 DEF Calls
<1>7. IsSeq(Calls) /\ Len(Calls) = n
  BY <1>6, TableIsSeq
<1> QED BY <1>5, <1>6, <1>7

\* One record less, one call less.
LEMMA LeavingCalls ==
  ASSUME Inv, InBlock, NEW result, LeaveBlock(result)
  PROVE  Calls # <<>> /\ Calls' = SubSeq(Calls, 1, Len(Calls) - 1)
<1>1. PICK n \in Nat : /\ Len(records) = n /\ DOMAIN records = 1..n /\ IsSeq(records)
                      /\ n > 0 /\ records # <<>>
  BY Lengths
<1>2. records' = Front(records)
  BY <1>1 DEF LeaveBlock
<1>3. /\ IsSeq(Front(records)) /\ Len(Front(records)) = n - 1
      /\ \A i \in 1..(n - 1) : Front(records)[i] = records[i]
  BY <1>1, FrontIsSeq
<1>4. DOMAIN records' = 1..(n - 1)
  BY <1>2, <1>3, SeqLength
<1>5. Calls' = [i \in 1..(n - 1) |-> records[i].block]
  BY <1>2, <1>3, <1>4 DEF Calls
<1>6. Calls = [i \in 1..n |-> records[i].block]
  BY <1>1 DEF Calls
<1>7. IsSeq(Calls) /\ Len(Calls) = n
  BY <1>6, TableIsSeq
<1>8. SubSeq(Calls, 1, n - 1) = [i \in 1..(n - 1) |-> records[i].block]
  BY <1>1, <1>6, <1>7
<1>9. Calls # <<>>
  BY <1>1, <1>7, EmptySeq
<1> QED BY <1>5, <1>7, <1>8, <1>9

\* A step that neither enters nor leaves a block leaves the calls alone; what it makes
\* of the mode is one of these.
LEMMA SameCallsStep ==
  ASSUME Calls' = Calls,
         \/ /\ mode \in Busy \ {"undefined"} /\ mode' \in Busy
            /\ mode \in {"HALT", "ERROR"} => mode' = "ERROR"
         \/ mode \in {"fetch", "SUCCESS", "AGAIN", "RESTART_BLOCK"} /\ mode' \in {"execute", "fetch"}
         \/ mode = "idle" /\ mode' \in {"idle", "execute", "undefined"}
         \/ mode' = mode
  PROVE  [Observed!Next]_Observed!callStackVars
<1>1. [i \in DOMAIN records' |-> records'[i].block] = [i \in DOMAIN records |-> records[i].block]
  BY DEF Calls
<1>2. CASE mode = "idle" /\ mode' = "execute"
  BY <1>1, <1>2 DEF Observed!Next, Observed!Begin, Ended
<1>3. CASE mode \notin {"HALT", "ERROR", "undefined"} /\ mode' = "undefined"
  BY <1>1, <1>3 DEF Observed!Next, Observed!Crash, Ended
<1>4. CASE mode \notin {"HALT", "ERROR", "idle", "undefined"} /\ mode' \in {"HALT", "ERROR"}
  BY <1>1, <1>4 DEF Observed!Next, Observed!Doom, Ended
<1>5. ASSUME Ended' = Ended, (mode \in {"HALT", "ERROR"})' = (mode \in {"HALT", "ERROR"}),
             (mode = "undefined")' = (mode = "undefined")
      PROVE  UNCHANGED Observed!callStackVars
  BY <1>1, <1>5, Zenon DEF Observed!callStackVars
<1>6. \/ mode = "idle" /\ mode' = "execute"
      \/ mode \notin {"HALT", "ERROR", "undefined"} /\ mode' = "undefined"
      \/ mode \notin {"HALT", "ERROR", "idle", "undefined"} /\ mode' \in {"HALT", "ERROR"}
      \/ /\ Ended' = Ended
         /\ (mode \in {"HALT", "ERROR"})' = (mode \in {"HALT", "ERROR"})
         /\ (mode = "undefined")' = (mode = "undefined")
  BY DEF Busy, Results, Ended
<1> QED BY <1>2, <1>3, <1>4, <1>5, <1>6

\* Every step of the machine is a step of the call stack, or none.
LEMMA ObservedStep ==
  ASSUME Inv, [Next]_vars
  PROVE  [Observed!Next]_Observed!callStackVars
<1>1. ASSUME UNCHANGED records PROVE Calls' = Calls
  BY <1>1 DEF Calls
<1>2. ASSUME InBlock, NEW result \in {"SUCCESS", "HALT", "ERROR"}, LeaveBlock(result),
             mode \notin {"idle", "undefined"},
             mode \in {"HALT", "ERROR"} <=> result \in {"HALT", "ERROR"}
      PROVE  [Observed!Next]_Observed!callStackVars
  <2>1. Calls # <<>> /\ Calls' = SubSeq(Calls, 1, Len(Calls) - 1)
    BY <1>2, LeavingCalls
  <2>2. mode' = result
    BY <1>2 DEF LeaveBlock
  <2>3. Observed!Leave
    BY <1>2, <2>1, <2>2 DEF Observed!Leave, Ended, Calls
  <2> QED BY <2>3 DEF Observed!Next
<1>3. CASE Quiet
  <2>1. QuietStep
    BY <1>3, QuietSteps DEF Inv
  <2> QED BY <2>1, <1>1, SameCallsStep DEF QuietStep
<1>4. CASE EnterBlock
  <2>1. PICK b \in Blocks : Calls' = Append(Calls, b)
    BY <1>4, EnterInv, EnteringCalls
  <2>2. mode = "execute" /\ mode' = "fetch"
    BY <1>4 DEF EnterBlock, Runs
  <2>3. [i \in DOMAIN records' |-> records'[i].block]
        = Append([i \in DOMAIN records |-> records[i].block], b)
    BY <2>1 DEF Calls
  <2>4. ~Ended /\ ~Ended' /\ mode \notin {"HALT", "ERROR"} /\ mode' \notin {"HALT", "ERROR"}
        /\ mode # "undefined" /\ mode' # "undefined"
    BY <2>2 DEF Ended
  <2>5. UNCHANGED <<~Ended, mode \in {"HALT", "ERROR"}, mode = "undefined">>
    BY <2>4
  <2>6. Observed!Enter
    BY <2>3, <2>4, <2>5, Zenon DEF Observed!Enter
  <2> QED BY <2>6 DEF Observed!Next
<1>5. CASE FetchOperation
  <2>1. Calls' = Calls
    BY <1>5, FetchInv DEF Calls
  <2>2. mode = "fetch" /\ mode' = "execute"
    BY <1>5 DEF FetchOperation
  <2> QED BY <2>1, <2>2, SameCallsStep
<1>6. CASE EndOfBlock
  BY <1>2, <1>6, EndOfBlockCases DEF EndOfBlock
<1>7. CASE BlockResult
  <2>1. InBlock /\ mode \in Results
    BY <1>7 DEF BlockResult
  <2>2. CASE mode \in {"HALT", "ERROR"}
    BY <1>2, <1>7, <2>1, <2>2 DEF BlockResult
  <2>3. CASE mode = "EXIT_BLOCK"
    BY <1>2, <1>7, <2>1, <2>3 DEF BlockResult
  <2>4. CASE mode \in {"AGAIN", "RESTART_BLOCK", "SUCCESS"}
    <3>1. UNCHANGED records /\ mode' = "fetch"
      BY <1>7, <2>4 DEF BlockResult, ContinueAt
    <3> QED BY <1>1, <2>4, <3>1, SameCallsStep
  <2> QED BY <2>1, <2>2, <2>3, <2>4 DEF Results
<1>8. CASE \E name \in Names : Execute(name)
  <2>1. UNCHANGED records
    BY <1>8, OutsideInv DEF callVars
  <2>2. mode = "idle" /\ mode' \in {"idle", "execute", "undefined"}
    BY <1>8 DEF Execute, Crash, Invoke, opVars
  <2> QED BY <1>1, <2>1, <2>2, SameCallsStep
<1>9. CASE Finish
  <2>1. PICK n \in Nat : DOMAIN records = 1..n /\ (InBlock <=> n > 0)
    BY Lengths
  <2>2. n = 0 /\ mode \in Results /\ mode' = "idle" /\ UNCHANGED records
    BY <1>9, <2>1 DEF Finish, callVars
  <2>3. Calls = <<>> /\ Calls' = Calls
    BY <2>1, <2>2 DEF Calls
  <2>4. Observed!End
    BY <2>2, <2>3 DEF Observed!End, Ended, Calls, Results
  <2> QED BY <2>4 DEF Observed!Next
<1>10. CASE UNCHANGED vars
  BY <1>1, <1>10, SameCallsStep DEF vars
<1> QED BY <1>3, <1>4, <1>5, <1>6, <1>7, <1>8, <1>9, <1>10, Steps

\* The machine implements the call stack it promises its listeners, whatever the program:
\* blocks are entered and left in stack order, a run begins and is over with none in
\* progress, and one that has failed or halted enters no block and becomes no success.
THEOREM CallStackIsImplemented == Spec => ImplementsCallStack
<1>1. Init => Observed!Init
  BY DEF Init, Observed!Init, Ended
<1>2. Inv /\ [Next]_vars => [Observed!Next]_Observed!callStackVars
  BY ObservedStep
<1> QED BY <1>1, <1>2, InvariantHolds, PTL DEF Spec, ImplementsCallStack, Observed!Spec

-----------------------------------------------------------------------------
(***************************************************************************)
(* What the machine holds, for every program of values, every set of       *)
(* native operations that keep to values, and every bound: values,         *)
(* wherever it puts them; loops that keep count; an explanation for every  *)
(* error, and for every null pointer.                                      *)
(*                                                                         *)
(* What a machine holds is proved twice, with one proof: ValueInv({Null})  *)
(* says it holds values, null pointers among them, and is an invariant;    *)
(* ValueInv({}), that it holds values with no null anywhere, and is        *)
(* preserved by every step but one.                                        *)
(***************************************************************************)

(***************************************************************************)
(* The values of a machine, and its loops.                                 *)
(*                                                                         *)
(* A loop that waits for its callback has taken one item more than it has  *)
(* dealt with; the innermost one does not wait while it is iterated.       *)
(***************************************************************************)
Dealt(l, waiting) == l.next - 1 - (IF waiting THEN 1 ELSE 0)

\* How many results there are for the items of a tuple that are dealt with.
Counted(l, waiting) ==
  /\ IsA(l.operands[1], "tuple") /\ l.kind = "map" => Len(l.acc[2]) = Dealt(l, waiting)
  /\ IsA(l.operands[1], "tuple") /\ l.kind = "filter" => Len(l.acc[2]) <= Dealt(l, waiting)

IsLoop(nulls, l, waiting) ==
  /\ l = [kind |-> l.kind, items |-> l.items, next |-> l.next, acc |-> l.acc,
          callback |-> l.callback, operands |-> l.operands]
  /\ l.kind \in {"map", "filter", "reduce"}
  /\ ValueSeq(nulls, l.items) /\ ValueSeq(nulls, l.operands)
  /\ IsValue(nulls, l.acc) /\ IsValue(nulls, l.callback)
  /\ l.next \in 1..(Len(l.items) + 1) /\ (waiting => l.next > 1)
  /\ IsA(l.operands[1], "tuple") /\ l.kind # "reduce" => IsA(l.acc, "tuple")
  /\ Counted(l, waiting)

\* The loops of an activation, and whether the last of them waits.
AreLoops(nulls, ls, waiting) ==
  IsSeq(ls) /\ \A n \in DOMAIN ls : IsLoop(nulls, ls[n], n # Len(ls) \/ waiting)

Iterated(i) == mode = "iterate" /\ i = Len(acts)

ActsInv(nulls) ==
  \A i \in DOMAIN acts :
    ValueSeq(nulls, acts[i].body) /\ AreLoops(nulls, acts[i].loops, ~Iterated(i))

NamesAreValues(nulls) == \A k \in DOMAIN store : IsValue(nulls, store[k])
TableOfValues(nulls, f) == \A k \in DOMAIN f : IsValue(nulls, f[k])
SlotsAreValues(nulls) == \A t \in DOMAIN tables : TableOfValues(nulls, tables[t])

ValueInv(nulls) ==
  /\ StackOfValues(nulls) /\ NamesAreValues(nulls) /\ SlotsAreValues(nulls) /\ ActsInv(nulls)
  /\ mode = "iterate" => Looping

(***************************************************************************)
(* Loops that begin, go on and end.                                        *)
(***************************************************************************)
LEMMA LoopAdded ==
  ASSUME NEW nulls, NEW ls, AreLoops(nulls, ls, TRUE), NEW l, NEW w \in BOOLEAN,
         IsLoop(nulls, l, w)
  PROVE  AreLoops(nulls, Append(ls, l), w) /\ Append(ls, l) # <<>>
<1>1. PICK n \in Nat : n = Len(ls) /\ DOMAIN ls = 1..n /\ IsSeq(ls)
  BY SeqLength DEF AreLoops
<1> DEFINE t == Append(ls, l)
<1>2. IsSeq(t) /\ Len(t) = n + 1 /\ t # <<>> /\ (\A i \in 1..n : t[i] = ls[i]) /\ t[n + 1] = l
  BY <1>1, AppendIsSeq
<1> HIDE DEF t
<1>3. DOMAIN t = 1..(n + 1)
  BY <1>2, SeqLength
<1>4. ASSUME NEW i \in 1..n PROVE IsLoop(nulls, t[i], i # Len(t) \/ w)
  <2>1. i # n + 1 /\ IsLoop(nulls, ls[i], i # Len(ls) \/ TRUE)
    BY <1>1 DEF AreLoops
  <2>2. (i # Len(ls) \/ TRUE) = (i # Len(t) \/ w)
    BY <1>2, <2>1
  <2>3. QED BY <1>2, <2>1, <2>2
<1>5. IsLoop(nulls, t[n + 1], n + 1 # Len(t) \/ w)
  <2>1. (n + 1 # Len(t) \/ w) = w
    BY <1>2
  <2>2. QED BY <1>2, <2>1
<1>6. \A i \in 1..(n + 1) : i \in 1..n \/ i = n + 1
  BY SMT
<1>7. AreLoops(nulls, t, w)
  BY <1>2, <1>3, <1>4, <1>5, <1>6 DEF AreLoops
<1>8. QED BY <1>2, <1>7 DEF t

LEMMA LoopRemoved ==
  ASSUME NEW nulls, NEW ls, NEW w \in BOOLEAN, AreLoops(nulls, ls, w), ls # <<>>
  PROVE  AreLoops(nulls, Front(ls), TRUE) /\ IsLoop(nulls, Last(ls), w)
<1>1. PICK n \in Nat : n = Len(ls) /\ DOMAIN ls = 1..n /\ IsSeq(ls)
  BY SeqLength DEF AreLoops
<1>2. /\ IsSeq(Front(ls)) /\ Len(Front(ls)) = n - 1 /\ n > 0
      /\ \A i \in 1..(n - 1) : Front(ls)[i] = ls[i]
  BY <1>1, FrontIsSeq
<1>3. DOMAIN Front(ls) = 1..(n - 1)
  BY <1>2, SeqLength
<1>4. ASSUME NEW i \in 1..(n - 1) PROVE IsLoop(nulls, Front(ls)[i], TRUE)
  <2>1. i # n /\ i \in 1..n
    BY SMT
  <2>2. IsLoop(nulls, ls[i], i # Len(ls) \/ w) /\ (i # Len(ls) \/ w) = TRUE
    BY <1>1, <2>1 DEF AreLoops
  <2>3. QED BY <1>2, <2>2
<1>5. \A i \in 1..(n - 1) : (i # Len(Front(ls)) \/ TRUE) = TRUE
  OBVIOUS
<1>6. AreLoops(nulls, Front(ls), TRUE)
  BY <1>2, <1>3, <1>4, <1>5 DEF AreLoops
<1>7. IsLoop(nulls, Last(ls), w)
  <2>1. n \in 1..n
    BY <1>2, SMT
  <2>2. IsLoop(nulls, ls[n], n # Len(ls) \/ w) /\ (n # Len(ls) \/ w) = w
    BY <1>1, <2>1 DEF AreLoops
  <2>3. QED BY <1>1, <2>2 DEF Last
<1>8. QED BY <1>6, <1>7

LEMMA LoopReplaced ==
  ASSUME NEW nulls, NEW ls, NEW w \in BOOLEAN, AreLoops(nulls, ls, w), ls # <<>>, NEW l,
         NEW v \in BOOLEAN, IsLoop(nulls, l, v)
  PROVE  AreLoops(nulls, Append(Front(ls), l), v) /\ Append(Front(ls), l) # <<>>
BY LoopRemoved, LoopAdded

LEMMA NoLoops == ASSUME NEW nulls, NEW w \in BOOLEAN PROVE AreLoops(nulls, <<>>, w)
BY EmptyIsSeq DEF AreLoops

(***************************************************************************)
(* Activations.                                                            *)
(***************************************************************************)
\* Steps that no loop is iterated before or after and that leave the activations alone.
LEMMA ActsStay ==
  ASSUME NEW nulls, ActsInv(nulls), UNCHANGED acts, mode # "iterate", mode' # "iterate"
  PROVE  ActsInv(nulls)'
<1>1. ASSUME NEW i \in DOMAIN acts
      PROVE  ValueSeq(nulls, acts[i].body) /\ AreLoops(nulls, acts[i].loops, TRUE)
  <2>1. (~Iterated(i)) = TRUE
    BY DEF Iterated
  <2>2. QED BY <2>1 DEF ActsInv
<1>2. ASSUME NEW i \in DOMAIN acts' PROVE (~Iterated(i)') = TRUE
  BY DEF Iterated
<1>3. QED BY <1>1, <1>2 DEF ActsInv

\* The activations around the innermost one wait.
LEMMA OthersWait ==
  ASSUME NEW nulls, ActsInv(nulls), NEW i \in DOMAIN acts, i # Len(acts)
  PROVE  ValueSeq(nulls, acts[i].body) /\ AreLoops(nulls, acts[i].loops, TRUE)
<1>1. (~Iterated(i)) = TRUE
  BY DEF Iterated
<1>2. QED BY <1>1 DEF ActsInv

LEMMA InnermostLoops ==
  ASSUME NEW nulls, Inv, ActsInv(nulls)
  PROVE  /\ Len(acts) \in DOMAIN acts /\ ValueSeq(nulls, Here.body) /\ IsActivation(Here)
         /\ mode # "iterate" => AreLoops(nulls, Here.loops, TRUE)
         /\ mode = "iterate" => AreLoops(nulls, Here.loops, FALSE)
<1>1. Len(acts) \in DOMAIN acts
  BY LastOfSeq DEF Inv, TypeOK
<1>2. mode # "iterate" => (~Iterated(Len(acts))) = TRUE
  BY DEF Iterated
<1>3. mode = "iterate" => (~Iterated(Len(acts))) = FALSE
  BY DEF Iterated
<1>4. QED BY <1>1, <1>2, <1>3 DEF ActsInv, Here, Last, Inv, TypeOK

\* Only the innermost loops change.
LEMMA LoopsBecome ==
  ASSUME NEW nulls, Inv, ActsInv(nulls), NEW ls, NEW w \in BOOLEAN, AreLoops(nulls, ls, w),
         acts' = [acts EXCEPT ![Len(acts)].loops = ls], (mode' = "iterate") = ~w
  PROVE  ActsInv(nulls)' /\ Here'.loops = ls
<1> DEFINE n == Len(acts)
           a == [acts[n] EXCEPT !.loops = ls]
<1>1. n \in DOMAIN acts /\ ValueSeq(nulls, acts[n].body) /\ IsActivation(acts[n])
  BY InnermostLoops DEF Here, Last
<1>2. acts' = [acts EXCEPT ![n] = a] /\ a.body = acts[n].body /\ a.loops = ls
  BY <1>1 DEF IsActivation
<1>3. Len([acts EXCEPT ![n] = a]) = n /\ DOMAIN [acts EXCEPT ![n] = a] = DOMAIN acts
      /\ \A j \in DOMAIN acts : [acts EXCEPT ![n] = a][j] = IF j = n THEN a ELSE acts[j]
  <2> HIDE DEF a
  <2>1. IsSeq(acts)
    BY DEF Inv, TypeOK
  <2>2. QED BY <1>1, <2>1, ExceptIsSeq
<1> HIDE DEF a
<1>4. /\ Len(acts') = n /\ DOMAIN acts' = DOMAIN acts
      /\ \A j \in DOMAIN acts : acts'[j] = IF j = n THEN a ELSE acts[j]
  BY <1>2, <1>3
<1>5. ASSUME NEW i \in DOMAIN acts, i # n
      PROVE  ValueSeq(nulls, acts'[i].body) /\ AreLoops(nulls, acts'[i].loops, ~Iterated(i)')
  <2>1. (~Iterated(i)') = TRUE
    BY <1>4, <1>5 DEF Iterated
  <2>2. QED BY <1>4, <1>5, <2>1, OthersWait
<1>6. ValueSeq(nulls, acts'[n].body) /\ AreLoops(nulls, acts'[n].loops, ~Iterated(n)')
  <2>1. (~Iterated(n)') = w
    BY <1>4 DEF Iterated
  <2>2. acts'[n] = a
    BY <1>1, <1>4
  <2>3. QED BY <1>1, <1>2, <2>1, <2>2
<1>7. ActsInv(nulls)'
  BY <1>4, <1>5, <1>6 DEF ActsInv
<1>8. Here'.loops = ls
  BY <1>1, <1>2, <1>4 DEF Here, Last
<1>9. QED BY <1>7, <1>8

LEMMA ActsEntered ==
  ASSUME NEW nulls, Inv, ActsInv(nulls), mode # "iterate", mode' # "iterate", NEW b, NEW body,
         ValueSeq(nulls, body),
         acts' = Append(acts, Activation(b, body))
  PROVE  ActsInv(nulls)'
<1> DEFINE a == Activation(b, body)
<1>1. a.body = body /\ a.loops = <<>> /\ acts' = Append(acts, a)
  BY DEF Activation
<1> HIDE DEF a
<1>2. PICK n \in Nat : n = Len(acts) /\ DOMAIN acts = 1..n /\ IsSeq(acts)
  BY SeqLength DEF Inv, TypeOK
<1>3. /\ IsSeq(Append(acts, a)) /\ Len(Append(acts, a)) = n + 1
      /\ (\A i \in 1..n : Append(acts, a)[i] = acts[i]) /\ Append(acts, a)[n + 1] = a
  BY <1>2, AppendIsSeq
<1>4. DOMAIN acts' = 1..(n + 1)
  BY <1>1, <1>3, SeqLength
<1>5. \A i : (~Iterated(i)') = TRUE /\ (~Iterated(i)) = TRUE
  BY DEF Iterated
<1>6. ASSUME NEW i \in 1..n
      PROVE  ValueSeq(nulls, acts'[i].body) /\ AreLoops(nulls, acts'[i].loops, TRUE)
  BY <1>1, <1>2, <1>3, <1>5 DEF ActsInv
<1>7. ValueSeq(nulls, acts'[n + 1].body) /\ AreLoops(nulls, acts'[n + 1].loops, TRUE)
  BY <1>1, <1>3, NoLoops
<1>8. \A i \in 1..(n + 1) : i \in 1..n \/ i = n + 1
  BY SMT
<1>9. QED BY <1>4, <1>5, <1>6, <1>7, <1>8 DEF ActsInv

LEMMA ActsLeft ==
  ASSUME NEW nulls, Inv, ActsInv(nulls), mode # "iterate", mode' # "iterate", acts' = Front(acts)
  PROVE  ActsInv(nulls)'
<1>1. PICK n \in Nat : n = Len(acts) /\ DOMAIN acts = 1..n /\ IsSeq(acts) /\ acts # <<>>
  BY SeqLength DEF Inv, TypeOK
<1>2. /\ IsSeq(Front(acts)) /\ Len(Front(acts)) = n - 1
      /\ \A i \in 1..(n - 1) : Front(acts)[i] = acts[i]
  BY <1>1, FrontIsSeq
<1>3. DOMAIN acts' = 1..(n - 1) /\ \A i \in 1..(n - 1) : i \in 1..n
  BY <1>2, SeqLength
<1>4. \A i : (~Iterated(i)') = TRUE /\ (~Iterated(i)) = TRUE
  BY DEF Iterated
<1>5. QED BY <1>1, <1>2, <1>3, <1>4 DEF ActsInv

LEMMA ActsContinue ==
  ASSUME NEW nulls, Inv, ActsInv(nulls), mode # "iterate", mode' # "iterate", NEW i,
         acts' = [acts EXCEPT ![Len(acts)].pc = i]
  PROVE  ActsInv(nulls)'
<1> DEFINE n == Len(acts)
           a == [acts[n] EXCEPT !.pc = i]
<1>1. n \in DOMAIN acts /\ IsActivation(acts[n])
  BY InnermostLoops DEF Here, Last
<1>2. acts' = [acts EXCEPT ![n] = a] /\ a.body = acts[n].body /\ a.loops = acts[n].loops
  BY <1>1 DEF IsActivation
<1> HIDE DEF a, n
<1>3. DOMAIN acts' = DOMAIN acts /\ \A j \in DOMAIN acts : acts'[j] = IF j = n THEN a ELSE acts[j]
  BY <1>1, <1>2
<1>4. \A j : (~Iterated(j)') = TRUE /\ (~Iterated(j)) = TRUE
  BY DEF Iterated
<1>5. QED BY <1>2, <1>3, <1>4 DEF ActsInv

(***************************************************************************)
(* What a step does to the values.                                         *)
(***************************************************************************)
LEMMA WithoutValues ==
  ASSUME NEW nulls, ValueSeq(nulls, stack), NEW k \in Nat
  PROVE  ValueSeq(nulls, Without(k))
<1>1. PICK n \in Nat : n = Len(stack)
  BY SeqLength DEF ValueSeq
<1>2. n - k \in Int /\ n - k <= n
  BY SMT
<1>3. QED BY <1>1, <1>2, BottomValues DEF Without

LEMMA InvokeValues ==
  ASSUME NEW nulls, NEW stk, ValueSeq(nulls, stk), NEW op, IsValue(nulls, op), Invoke(op, stk)
  PROVE  StackOfValues(nulls)' /\ mode' = "execute"
BY DEF Invoke, StackOfValues

LEMMA ReturnValues ==
  ASSUME NEW nulls, NEW stk, ValueSeq(nulls, stk), NEW r \in Results, Return(stk, r)
  PROVE  StackOfValues(nulls)' /\ mode' \notin {"iterate", "execute"}
BY DEF Return, StackOfValues, Results

LEMMA SucceedValues ==
  ASSUME NEW nulls, NEW stk, ValueSeq(nulls, stk), Succeed(stk)
  PROVE  StackOfValues(nulls)' /\ mode' \notin {"iterate", "execute"}
BY ReturnValues DEF Succeed, Results

LEMMA FailValues ==
  ASSUME NEW nulls, NEW stk, ValueSeq(nulls, stk), NEW code, Fail(stk, code)
  PROVE  StackOfValues(nulls)' /\ mode' \notin {"iterate", "execute"}
<1>1. ValueSeq(nulls, Append(stk, Error(code)))
  BY ErrorIsValue, AppendValues
<1>2. "ERROR" \in Results
  BY DEF Results
<1>3. QED BY <1>1, <1>2, ReturnValues DEF Fail

\* Restoring one operand.
LEMMA OperandBack ==
  ASSUME NEW nulls, ValueSeq(nulls, stack), Len(stack) >= 1 \/ Null \in nulls
  PROVE  ValueSeq(nulls, Append(Without(1), Operand(1)))
BY WithoutValues, Operands, AppendValues

\* Most operations change nothing but the stack.
LEMMA OnlyTheStack ==
  ASSUME NEW nulls, ValueInv(nulls), UNCHANGED <<store, acts, tables>>, mode # "iterate",
         mode' # "iterate",
         StackOfValues(nulls)'
  PROVE  ValueInv(nulls)'
BY ActsStay DEF ValueInv, NamesAreValues, SlotsAreValues

(***************************************************************************)
(* Operations that run other operations.                                   *)
(***************************************************************************)
ProgramsAreValues(nulls) == \A p \in Programs : \A k \in DOMAIN p : IsValue(nulls, p[k])
NativesPushValues(nulls) ==
  \A name \in DOMAIN Natives : \A effect \in Natives[name] : ValueSeq(nulls, effect.pushed)

LEMMA StoredIsValue ==
  ASSUME NEW nulls, NamesAreValues(nulls), NEW name, Retrieve(name) # Null
  PROVE  IsValue(nulls, Retrieve(name))
BY DEF NamesAreValues, Retrieve

LEMMA RunIsValue ==
  ASSUME NEW nulls, NEW v, IsValue(nulls, v), IsA(v, "operation")
  PROVE  IsValue(nulls, v[2])
BY OperationHas DEF IsA

\* The arguments of a call, last first, are values.
LEMMA ArgumentsAreValues ==
  ASSUME NEW nulls, NEW op, IsValue(nulls, op), op[1] = "call"
  PROVE  ValueSeq(nulls, [i \in DOMAIN op[3] |-> op[3][Len(op[3]) - i + 1]])
<1>1. IsSeq(op[3]) /\ Parts(op) = Items(op[3])
  BY ValueHas DEF Shaped, Parts
<1>2. PICK n \in Nat : n = Len(op[3]) /\ DOMAIN op[3] = 1..n
  BY <1>1, SeqLength
<1>3. \A i \in 1..n : n - i + 1 \in 1..n
  BY SMT
<1> DEFINE t == [i \in 1..n |-> op[3][n - i + 1]]
<1>4. \A i \in 1..n : IsValue(nulls, t[i])
  <2>1. \A j \in 1..n : op[3][j] \in Parts(op)
    BY <1>1, <1>2 DEF Items
  <2>2. QED BY <1>3, <2>1, ValueHas
<1>5. t = [i \in 1..n |-> t[i]]
  OBVIOUS
<1> HIDE DEF t
<1>6. IsSeq(t) /\ Len(t) = n
  BY <1>5, FunctionIsSeq
<1>7. ValueSeq(nulls, t)
  BY <1>4, <1>6, ValuesOfSeq
<1>8. QED BY <1>2, <1>7 DEF t

\* The operations a select chooses from.
LEMMA SelectHas ==
  ASSUME NEW nulls, NEW op, IsValue(nulls, op), op[1] = "select"
  PROVE  /\ \A x \in DOMAIN op[2] : IsValue(nulls, x) /\ IsValue(nulls, op[2][x])
         /\ op[3] # Null => IsValue(nulls, op[3]) /\ IsA(op[3], "operation")
<1>1. Parts(op) = DOMAIN op[2] \cup Items(op[2]) \cup ({op[3]} \ {Null})
  BY DEF Parts
<1>2. \A x \in DOMAIN op[2] : x \in Parts(op) /\ op[2][x] \in Parts(op)
  BY <1>1 DEF Items
<1>3. op[3] # Null => op[3] \in Parts(op)
  BY <1>1
<1>4. QED BY <1>2, <1>3, ValueHas DEF Shaped

LEMMA BindHas ==
  ASSUME NEW nulls, NEW op, IsValue(nulls, op), op[1] = "bind"
  PROVE  IsValue(nulls, op[2]) /\ IsValue(nulls, op[3])
<1>1. Parts(op) = {op[2], op[3]}
  BY DEF Parts
<1>2. QED BY <1>1, ValueHas

LEMMA TransferValues ==
  ASSUME NEW nulls, ValueInv(nulls), NativesPushValues(nulls), Accepted, Transfer
  PROVE  ValueInv(nulls)'
<1>1. ValueSeq(nulls, stack) /\ NamesAreValues(nulls)
  BY DEF ValueInv, StackOfValues
<1>2. /\ ValueSeq(nulls, Without(1))
      /\ Operand(1) # Null =>
           IsValue(nulls, Operand(1)) /\ ValueSeq(nulls, Append(Without(1), Operand(1)))
  <2>1. 1 \in Nat
    BY SMT
  <2>2. ValueSeq(nulls, Without(1))
    BY <1>1, <2>1, WithoutValues
  <2>3. QED BY <1>1, <2>2, Operands, AppendValues
<1>2a. current[1] \in OneArgument =>
         IsValue(nulls, Operand(1)) /\ ValueSeq(nulls, Append(Without(1), Operand(1)))
  BY <1>1, Heights, Operands, OperandBack DEF ValueInv
<1>3. mode = "execute" => IsValue(nulls, current)
  BY DEF ValueInv, StackOfValues
<1>4. CASE Exec
  <2>1. \/ IsA(Operand(1), "operation") /\ Invoke(Operand(1)[2], Without(1))
        \/ Fail(Append(Without(1), Operand(1)), "TYPE_MISMATCH")
    BY <1>4 DEF Exec
  <2>2. mode = "execute" /\ current[1] \in OneArgument
    BY <1>4 DEF Exec, Runs, OneArgument
  <2>3. StackOfValues(nulls)' /\ mode' # "iterate"
    BY <1>2, <1>2a, <2>1, <2>2, RunIsValue, InvokeValues, FailValues
  <2>4. QED BY <2>2, <2>3, OnlyTheStack DEF Transfer, callVars
<1>5. CASE IfTrue
  <2>1. \/ Invoke(current[2], Without(1))
        \/ Succeed(Without(1))
        \/ Fail(Append(Without(1), Operand(1)), "TYPE_MISMATCH")
    BY <1>5 DEF IfTrue
  <2>2. mode = "execute" /\ current[1] = "iftrue" /\ current[1] \in OneArgument
    BY <1>5 DEF IfTrue, Runs, OneArgument
  <2>3. IsValue(nulls, current[2])
    BY <1>3, <2>2, OperationHas
  <2>4. StackOfValues(nulls)' /\ mode' # "iterate"
    BY <1>2, <1>2a, <2>1, <2>2, <2>3, InvokeValues, SucceedValues, FailValues
  <2>5. QED BY <2>2, <2>4, OnlyTheStack DEF Transfer, callVars
<1>6. CASE Call
  <2> DEFINE op   == Retrieve(current[2])
             args == [i \in DOMAIN current[3] |-> current[3][Len(current[3]) - i + 1]]
  <2>1. \/ \E code : Fail(stack, code)
        \/ op # Null /\ IsA(op, "operation") /\ Invoke(op[2], stack \o args)
    <3>1. ~IsA(Null, "operation")
      BY DEF IsA, Null
    <3>2. QED BY <1>6, <3>1 DEF Call
  <2>2. mode = "execute" /\ current[1] = "call"
    BY <1>6 DEF Call, Runs
  <2>3. (op # Null => IsValue(nulls, op)) /\ ValueSeq(nulls, args)
    BY <1>1, <1>3, <2>2, StoredIsValue, ArgumentsAreValues
  <2> HIDE DEF op, args
  <2>4. ValueSeq(nulls, stack \o args)
    BY <1>1, <2>3, ConcatValues
  <2>5. StackOfValues(nulls)' /\ mode' # "iterate"
    BY <1>1, <2>1, <2>3, <2>4, RunIsValue, InvokeValues, FailValues
  <2>6. QED BY <2>2, <2>5, OnlyTheStack DEF Transfer, callVars
<1>7. CASE Select
  <2>0. PICK op \in TableFinds(current[2], Operand(1)) :
          \/ op = Null /\ current[3] # Null /\ Invoke(current[3][2], Without(1))
          \/ op = Null /\ current[3] = Null
             /\ Fail(Append(Without(1), Operand(1)), "NOT_FOUND")
          \/ IsA(op, "operation") /\ Invoke(op[2], Without(1))
          \/ op # Null /\ ~IsA(op, "operation")
             /\ Fail(Append(Without(1), Operand(1)), "TYPE_MISMATCH")
    BY <1>7 DEF Select
  <2>1. \/ current[3] # Null /\ Invoke(current[3][2], Without(1))
        \/ \E code : Fail(Append(Without(1), Operand(1)), code)
        \/ op # Null /\ IsA(op, "operation") /\ Invoke(op[2], Without(1))
    <3>1. ~IsA(Null, "operation")
      BY DEF IsA, Null
    <3>2. QED BY <2>0, <3>1
  <2>2. mode = "execute" /\ current[1] = "select" /\ Operand(1) # Null
    BY <1>7 DEF Select, Runs, Accepted, Faults, LookupFaults
  <2>3. /\ op # Null => IsValue(nulls, op)
        /\ current[3] # Null => IsValue(nulls, current[3]) /\ IsA(current[3], "operation")
    BY <1>3, <2>2, SelectHas, FoundIsValue
  <2>4. StackOfValues(nulls)' /\ mode' # "iterate"
    BY <1>2, <2>1, <2>2, <2>3, RunIsValue, InvokeValues, FailValues
  <2>5. QED BY <2>2, <2>4, OnlyTheStack DEF Transfer, callVars
<1>8. CASE PartialBind
  <2>1. mode = "execute" /\ current[1] = "bind" /\ Invoke(current[3], Append(stack, current[2]))
    BY <1>8 DEF PartialBind, Runs
  <2>2. IsValue(nulls, current[2]) /\ IsValue(nulls, current[3])
    BY <1>3, <2>1, BindHas
  <2>3. ValueSeq(nulls, Append(stack, current[2]))
    BY <1>1, <2>2, AppendValues
  <2>4. StackOfValues(nulls)' /\ mode' # "iterate"
    BY <2>1, <2>2, <2>3, InvokeValues
  <2>5. QED BY <2>1, <2>4, OnlyTheStack DEF Transfer, callVars
<1>9. CASE Native
  <2>1. PICK effect \in Natives[current[2]] : Return(stack \o effect.pushed, effect.result)
    BY <1>9 DEF Native
  <2>2. mode = "execute" /\ current[2] \in DOMAIN Natives
    BY <1>9 DEF Native, Runs
  <2>3. ValueSeq(nulls, effect.pushed) /\ effect.result \in Results
    BY <2>1, <2>2, NativesAssumption DEF NativesPushValues
  <2>4. ValueSeq(nulls, stack \o effect.pushed)
    BY <1>1, <2>3, ConcatValues
  <2>5. StackOfValues(nulls)' /\ mode' # "iterate"
    BY <2>1, <2>3, <2>4, ReturnValues
  <2>6. QED BY <2>2, <2>5, OnlyTheStack DEF Transfer, callVars
<1>10. QED BY <1>4, <1>5, <1>6, <1>7, <1>8, <1>9 DEF Transfer

(***************************************************************************)
(* The value store and the slots.                                          *)
(***************************************************************************)
LEMMA BoundIsValue ==
  ASSUME NEW nulls, NEW f, TableOfValues(nulls, f), NEW k, NEW v, IsValue(nulls, v)
  PROVE  TableOfValues(nulls, Bind(f, k, v))
BY DEF TableOfValues, Bind

LEMMA StoreValues ==
  ASSUME NEW nulls, ValueInv(nulls), Accepted, Load \/ Store \/ Clear
  PROVE  ValueInv(nulls)'
<1>1. ValueSeq(nulls, stack) /\ NamesAreValues(nulls) /\ SlotsAreValues(nulls) /\ ActsInv(nulls)
  BY DEF ValueInv, StackOfValues
<1>2. ValueSeq(nulls, Without(1)) /\ (Store => IsValue(nulls, Operand(1)))
  <2>1. 1 \in Nat
    BY SMT
  <2>2. Store => current[1] \in OneArgument
    BY DEF Store, Runs, OneArgument
  <2>3. QED BY <1>1, <2>1, <2>2, Heights, Operands, WithoutValues DEF ValueInv
<1>3. mode = "execute" /\ UNCHANGED <<acts, tables>>
  BY DEF Load, Store, Clear, Runs, callVars
<1>4. CASE Load
  <2>1. \/ \E code : Fail(stack, code)
        \/ Retrieve(current[2]) # Null /\ Succeed(Append(stack, Retrieve(current[2])))
    BY <1>4 DEF Load
  <2>2. Retrieve(current[2]) # Null => ValueSeq(nulls, Append(stack, Retrieve(current[2])))
    BY <1>1, StoredIsValue, AppendValues
  <2>3. StackOfValues(nulls)' /\ mode' # "iterate"
    BY <1>1, <2>1, <2>2, FailValues, SucceedValues
  <2>4. QED BY <1>3, <1>4, <2>3, OnlyTheStack DEF Load
<1>5. CASE Store \/ Clear
  <2>1. \/ \E code : Fail(stack, code)
        \/ Succeed(Without(1)) \/ Succeed(stack)
    BY <1>5 DEF Store, Clear
  <2>2. StackOfValues(nulls)' /\ mode' # "iterate"
    BY <1>1, <1>2, <2>1, FailValues, SucceedValues
  <2>3. NamesAreValues(nulls)'
    <3>1. CASE Store
      BY <1>1, <1>2, <3>1 DEF Store, Bind, NamesAreValues
    <3>2. CASE Clear
      BY <1>1, <3>2 DEF Clear, NamesAreValues
    <3>3. QED BY <1>5, <3>1, <3>2
  <2>4. ActsInv(nulls)'
    BY <1>1, <1>3, <2>2, ActsStay
  <2>5. QED BY <1>1, <1>3, <2>2, <2>3, <2>4 DEF ValueInv, SlotsAreValues
<1>6. QED BY <1>4, <1>5

\* The current slot, when there is one, is a table.
LEMMA CurrentSlotIsOne ==
  ASSUME Inv, CurrentSlot # 0
  PROVE  CurrentSlot \in DOMAIN tables
BY LastOfSeq, SeqIsSeq, ElementOfSeq DEF Inv, TypeOK, CurrentSlot, Last

LEMMA SlotValues ==
  ASSUME NEW nulls, Inv, ValueInv(nulls), Accepted, LoadSlot \/ StoreSlot
  PROVE  ValueInv(nulls)'
<1>1. ValueSeq(nulls, stack) /\ NamesAreValues(nulls) /\ SlotsAreValues(nulls) /\ ActsInv(nulls)
  BY DEF ValueInv, StackOfValues
<1>2. StoreSlot => IsValue(nulls, Operand(1))
  <2>1. StoreSlot => current[1] \in OneArgument
    BY DEF StoreSlot, Runs, OneArgument
  <2>2. QED BY <1>1, <2>1, Heights, Operands DEF ValueInv
<1>3. mode = "execute" /\ UNCHANGED <<acts, store>>
  BY DEF LoadSlot, StoreSlot, Runs, callVars
<1>4. Crash => StackOfValues(nulls)' /\ mode' # "iterate"
  BY <1>1 DEF Crash, StackOfValues
<1>5. CASE LoadSlot
  <2> DEFINE slot == tables[CurrentSlot]
  <2>1. \/ Crash
        \/ \E code : Fail(stack, code)
        \/ CurrentSlot # 0 /\ current[2] \in DOMAIN slot /\ Succeed(Append(stack, slot[current[2]]))
    BY <1>5 DEF LoadSlot
  <2>2. CurrentSlot # 0 /\ current[2] \in DOMAIN slot => IsValue(nulls, slot[current[2]])
    BY <1>1, CurrentSlotIsOne DEF SlotsAreValues, TableOfValues
  <2> HIDE DEF slot
  <2>3. StackOfValues(nulls)' /\ mode' # "iterate"
    BY <1>1, <1>4, <2>1, <2>2, AppendValues, FailValues, SucceedValues
  <2>4. QED BY <1>3, <1>5, <2>3, OnlyTheStack DEF LoadSlot, callVars
<1>6. CASE StoreSlot
  <2>1. \/ Crash \/ \E code : Fail(stack, code)
        \/ Succeed(stack)
    BY <1>6 DEF StoreSlot
  <2>2. StackOfValues(nulls)' /\ mode' # "iterate"
    BY <1>1, <1>4, <2>1, FailValues, SucceedValues
  <2>3. SlotsAreValues(nulls)'
    <3>1. CASE UNCHANGED tables
      BY <1>1, <3>1 DEF SlotsAreValues
    <3>2. CASE ~UNCHANGED tables
      <4> DEFINE f == Bind(tables[CurrentSlot], current[2], Operand(1))
      <4>1. CurrentSlot # 0 /\ tables' = [tables EXCEPT ![CurrentSlot] = f]
        BY <1>6, <3>2 DEF StoreSlot
      <4>2. TableOfValues(nulls, f)
        BY <1>1, <1>2, <1>6, <4>1, CurrentSlotIsOne, BoundIsValue DEF SlotsAreValues
      <4> HIDE DEF f
      <4>3. QED BY <1>1, <4>1, <4>2 DEF SlotsAreValues
    <3>3. QED BY <3>1, <3>2
  <2>4. ActsInv(nulls)'
    BY <1>1, <1>3, <2>2, ActsStay
  <2>5. QED BY <1>1, <1>3, <2>2, <2>3, <2>4 DEF ValueInv, NamesAreValues
<1>7. QED BY <1>5, <1>6

(***************************************************************************)
(* Blocks.                                                                 *)
(***************************************************************************)
\* A name that is in a sequence is in it a first time.
LEMMA FirstPlace ==
  ASSUME NEW s, IsSeq(s), NEW i \in DOMAIN s
  PROVE  \E k \in DOMAIN s : s[k] = s[i] /\ \A j \in 1..(k - 1) : s[j] # s[i]
<1> DEFINE Found(n) == \E j \in 1..n : j \in DOMAIN s /\ s[j] = s[i]
           First(k) == s[k] = s[i] /\ \A j \in 1..(k - 1) : s[j] # s[i]
           S == {n \in Nat : Found(n) => \E k \in DOMAIN s : First(k)}
<1>1. PICK m \in Nat : DOMAIN s = 1..m
  BY SeqLength
<1>2. 0 \in S
  BY SMT
<1>3. ASSUME NEW n \in Nat, n \in S PROVE n + 1 \in S
  <2>1. CASE Found(n)
    BY <1>3, <2>1
  <2>2. CASE ~Found(n) /\ Found(n + 1)
    <3>1. n + 1 \in DOMAIN s /\ s[n + 1] = s[i]
      <4>1. \A j \in 1..(n + 1) : j \in 1..n \/ j = n + 1
        BY SMT
      <4>2. QED BY <2>2, <4>1
    <3>2. \A j \in 1..n : j \in DOMAIN s
      BY <1>1, <3>1, SMT
    <3>3. \A j \in 1..((n + 1) - 1) : s[j] # s[i]
      BY <2>2, <3>2
    <3>4. QED BY <3>1, <3>3
  <2>3. CASE ~Found(n + 1)
    BY <2>3
  <2>4. QED BY <2>1, <2>2, <2>3
<1>4. \A n \in Nat : n \in S
  <2> HIDE DEF S
  <2>1. QED BY <1>2, <1>3, Induction, Zenon
<1>5. m \in S
  BY <1>4
<1>6. Found(m)
  BY <1>1
<1>7. QED BY <1>5, <1>6

LEMMA SlotTableOfValues ==
  ASSUME NEW nulls, ValueSeq(nulls, stack), NEW names, IsSeq(names), Len(stack) >= Len(names)
  PROVE  TableOfValues(nulls, SlotTable(names))
<1> DEFINE Place(x) == CHOOSE i \in DOMAIN names :
                         names[i] = x /\ \A j \in 1..(i - 1) : names[j] # x
           X == {names[i] : i \in DOMAIN names}
<1>1. ASSUME NEW x \in X PROVE IsValue(nulls, Operand(Place(x)))
  <2>1. PICK i \in DOMAIN names : names[i] = x
    OBVIOUS
  <2>2. \E k \in DOMAIN names : names[k] = x /\ \A j \in 1..(k - 1) : names[j] # x
    <3> HIDE DEF X, Place
    <3>1. \E k \in DOMAIN names :
            names[k] = names[i] /\ \A j \in 1..(k - 1) : names[j] # names[i]
      BY FirstPlace
    <3>2. QED BY <2>1, <3>1
  <2>3. Place(x) \in DOMAIN names
    BY <2>2
  <2>4. PICK n \in Nat, m \in Nat : n = Len(stack) /\ m = Len(names) /\ DOMAIN names = 1..m
    BY SeqLength DEF ValueSeq
  <2> HIDE DEF Place
  <2>5. Place(x) \in Nat \ {0} /\ Place(x) <= Len(stack)
    BY <2>3, <2>4, SMT
  <2>6. QED BY <2>5, OperandIsValue
<1>2. SlotTable(names) = [x \in X |-> Operand(Place(x))]
  BY Zenon DEF SlotTable
<1> HIDE DEF Place, X
<1>3. QED BY <1>1, <1>2 DEF TableOfValues

LEMMA EnterValues ==
  ASSUME NEW nulls, Inv, ValueInv(nulls), EnterBlock
  PROVE  ValueInv(nulls)'
<1>1. ValueSeq(nulls, stack) /\ NamesAreValues(nulls) /\ SlotsAreValues(nulls) /\ ActsInv(nulls)
  BY DEF ValueInv, StackOfValues
<1> DEFINE names == current[3]
           enough == Len(stack) >= Len(names)
           table == IF enough THEN SlotTable(names) ELSE <<>>
<1>2. PICK b : /\ mode = "execute" /\ current[1] = "block"
               /\ tables' = Append(tables, table)
               /\ stack' = IF enough THEN Without(Len(names))
                                     ELSE Append(stack, Error("INSUFFICIENT_ARGUMENTS"))
               /\ acts' = Append(acts, Activation(b, current[4]))
               /\ mode' = "fetch" /\ UNCHANGED store
  BY DEF EnterBlock, Runs
<1>3. IsSeq(names) /\ ValueSeq(nulls, current[4])
  <2>1. IsValue(nulls, current)
    BY <1>2 DEF ValueInv, StackOfValues
  <2>2. IsSeq(names) /\ IsSeq(current[4]) /\ \A p \in Parts(current) : IsValue(nulls, p)
    BY <1>2, <2>1, ValueHas DEF Shaped
  <2>3. Parts(current) = Items(current[4])
    BY <1>2 DEF Parts
  <2>4. \A i \in 1..Len(current[4]) : current[4][i] \in Parts(current)
    BY <2>2, <2>3, SeqLength DEF Items
  <2>5. QED BY <2>2, <2>4, ValuesOfSeq
<1>4. TableOfValues(nulls, table)
  <2>1. TableOfValues(nulls, <<>>)
    BY EmptyIsSeq DEF TableOfValues
  <2>2. QED BY <1>1, <1>3, <2>1, SlotTableOfValues
<1>5. StackOfValues(nulls)' /\ mode' # "iterate"
  <2>1. Len(names) \in Nat
    BY <1>3, SeqLength
  <2>2. ValueSeq(nulls, Without(Len(names)))
    BY <1>1, <2>1, WithoutValues
  <2>3. ValueSeq(nulls, Append(stack, Error("INSUFFICIENT_ARGUMENTS")))
    BY <1>1, ErrorIsValue, AppendValues
  <2>4. QED BY <1>2, <2>2, <2>3 DEF StackOfValues
<1> HIDE DEF table, names, enough
<1>6. SlotsAreValues(nulls)'
  <2>1. PICK n \in Nat : n = Len(tables) /\ DOMAIN tables = 1..n /\ IsSeq(tables)
    BY SeqLength DEF Inv, TypeOK
  <2>2. /\ IsSeq(Append(tables, table)) /\ Len(Append(tables, table)) = n + 1
        /\ (\A i \in 1..n : Append(tables, table)[i] = tables[i])
        /\ Append(tables, table)[n + 1] = table
    BY <2>1, AppendIsSeq
  <2>3. DOMAIN tables' = 1..(n + 1) /\ \A i \in 1..(n + 1) : i \in 1..n \/ i = n + 1
    BY <1>2, <2>2, SeqLength
  <2>4. QED BY <1>1, <1>2, <1>4, <2>1, <2>2, <2>3 DEF SlotsAreValues
<1>7. ActsInv(nulls)'
  BY <1>1, <1>2, <1>3, <1>5, ActsEntered
<1>8. QED BY <1>1, <1>2, <1>5, <1>6, <1>7 DEF ValueInv, NamesAreValues

\* Leaving a block, or going on in it.
LEMMA BlockValues ==
  ASSUME NEW nulls, Inv, ValueInv(nulls), mode # "iterate",
         (\E result \in Results : LeaveBlock(result)) \/ (\E i : ContinueAt(i))
  PROVE  ValueInv(nulls)'
<1>1. ActsInv(nulls)
  BY DEF ValueInv
<1>2. UNCHANGED <<stack, store, tables>> /\ mode' \notin {"iterate", "execute"}
  BY DEF LeaveBlock, ContinueAt, Results
<1>3. StackOfValues(nulls)'
  BY <1>2 DEF ValueInv, StackOfValues
<1>4. ActsInv(nulls)'
  <2>1. ASSUME NEW result, LeaveBlock(result) PROVE ActsInv(nulls)'
    BY <1>1, <1>2, <2>1, ActsLeft DEF LeaveBlock
  <2>2. ASSUME NEW i, ContinueAt(i) PROVE ActsInv(nulls)'
    BY <1>1, <1>2, <2>2, ActsContinue DEF ContinueAt
  <2>3. QED BY <2>1, <2>2
<1>5. QED BY <1>2, <1>3, <1>4 DEF ValueInv, NamesAreValues, SlotsAreValues

LEMMA FetchValues ==
  ASSUME NEW nulls, Inv, ValueInv(nulls), FetchOperation
  PROVE  ValueInv(nulls)'
<1>1. /\ mode = "fetch" /\ mode' = "execute" /\ Here.pc < Len(Here.body)
      /\ current' = Here.body[Here.pc + 1] /\ UNCHANGED <<stack, store, acts, tables>>
  BY DEF FetchOperation
<1>2. ActsInv(nulls)
  BY DEF ValueInv
<1>3. ValueSeq(nulls, Here.body) /\ Here.pc \in Nat
  BY <1>2, InnermostLoops DEF IsActivation
<1>4. PICK n \in Nat : n = Len(Here.body)
  BY <1>3, SeqLength DEF ValueSeq
<1>5. Here.pc + 1 \in 1..n
  BY <1>1, <1>3, <1>4, SMT
<1>6. IsValue(nulls, current')
  BY <1>1, <1>3, <1>4, <1>5, ValueOfSeq
<1>7. StackOfValues(nulls)'
  BY <1>1, <1>6 DEF ValueInv, StackOfValues
<1>8. QED BY <1>1, <1>7, OnlyTheStack

\* Runs that begin and end.
LEMMA RunValues ==
  ASSUME NEW nulls, ValueInv(nulls), (\E name \in Names : Execute(name)) \/ Finish
  PROVE  ValueInv(nulls)'
<1>1. ValueSeq(nulls, stack) /\ NamesAreValues(nulls)
  BY DEF ValueInv, StackOfValues
<1>2. UNCHANGED <<store, acts, tables>>
  BY DEF Execute, Finish, callVars
<1>3. CASE Finish
  <2>1. mode # "iterate" /\ mode' \notin {"iterate", "execute"} /\ UNCHANGED stack
    BY <1>3 DEF Finish, Results
  <2>2. StackOfValues(nulls)'
    BY <1>1, <2>1 DEF StackOfValues
  <2>3. QED BY <1>2, <2>1, <2>2, OnlyTheStack
<1>4. ASSUME NEW name \in Names, Execute(name) PROVE ValueInv(nulls)'
  <2>1. \/ Crash
        \/ IsA(Retrieve(name), "operation") /\ Invoke(Retrieve(name)[2], stack)
        \/ UNCHANGED opVars
    BY <1>4 DEF Execute
  <2>2. mode = "idle"
    BY <1>4 DEF Execute
  <2>3. IsA(Retrieve(name), "operation") => IsValue(nulls, Retrieve(name))
    <3>1. ~IsA(Null, "operation")
      BY DEF IsA, Null
    <3>2. QED BY <1>1, <3>1, StoredIsValue
  <2>4. Crash => StackOfValues(nulls)' /\ mode' # "iterate"
    BY <1>1 DEF Crash, StackOfValues
  <2>5. UNCHANGED opVars => StackOfValues(nulls)' /\ mode' # "iterate"
    BY <1>1, <2>2 DEF opVars, StackOfValues
  <2>6. StackOfValues(nulls)' /\ mode' # "iterate"
    BY <1>1, <2>1, <2>3, <2>4, <2>5, RunIsValue, InvokeValues
  <2>7. QED BY <1>2, <2>2, <2>6, OnlyTheStack
<1>5. QED BY <1>3, <1>4

(***************************************************************************)
(* map, filter and reduce.                                                 *)
(***************************************************************************)
LEMMA NewEmptyIsValue ==
  ASSUME NEW nulls, NEW v, Iterable(v)
  PROVE  /\ IsValue(nulls, NewEmptyOfSameType(v))
         /\ IsA(v, "tuple") => /\ IsA(NewEmptyOfSameType(v), "tuple")
                               /\ Len(NewEmptyOfSameType(v)[2]) = 0
<1>1. CASE v[1] = "tuple"
  BY <1>1, NoValues, TupleIsValue, EmptyIsSeq DEF NewEmptyOfSameType, Tuple, IsA
<1>2. CASE v[1] = "string"
  BY <1>2, EmptyIsSeq, StringIsValue DEF NewEmptyOfSameType, IsA
<1>3. CASE v[1] = "set"
  <2>1. IsFiniteSet({}) /\ Apart({})
    BY FS_EmptySet DEF Apart
  <2>2. IsValue(nulls, <<"set", {}>>)
    BY <2>1, SetIsValue
  <2>3. QED BY <1>3, <2>2 DEF NewEmptyOfSameType, IsA
<1>4. CASE v[1] = "table"
  <2>1. IsTable(nulls, <<>>)
    BY EmptyIsSeq, FS_EmptySet DEF IsTable, Apart
  <2>2. IsValue(nulls, <<"table", <<>>>>)
    BY <2>1, TableIsValue
  <2>3. QED BY <1>4, <2>2 DEF NewEmptyOfSameType, IsA
<1>5. QED BY <1>1, <1>2, <1>3, <1>4 DEF Iterable, Containers

\* A loop that has just begun.
LEMMA FreshLoop ==
  ASSUME NEW nulls, NEW kind \in {"map", "filter", "reduce"}, NEW items, ValueSeq(nulls, items),
         NEW operands, ValueSeq(nulls, operands), NEW acc, IsValue(nulls, acc), NEW callback,
         IsValue(nulls, callback),
         IsA(operands[1], "tuple") /\ kind # "reduce" => IsA(acc, "tuple") /\ Len(acc[2]) = 0
  PROVE  IsLoop(nulls, [kind |-> kind, items |-> items, next |-> 1, acc |-> acc,
                 callback |-> callback, operands |-> operands], FALSE)
<1> DEFINE l == [kind |-> kind, items |-> items, next |-> 1, acc |-> acc,
                 callback |-> callback, operands |-> operands]
<1>1. /\ l.kind = kind /\ l.items = items /\ l.next = 1 /\ l.acc = acc
      /\ l.callback = callback /\ l.operands = operands
      /\ l = [kind |-> l.kind, items |-> l.items, next |-> l.next, acc |-> l.acc,
              callback |-> l.callback, operands |-> l.operands]
  OBVIOUS
<1> HIDE DEF l
<1>2. PICK n \in Nat : n = Len(items)
  BY SeqLength DEF ValueSeq
<1>3. l.next \in 1..(Len(l.items) + 1)
  BY <1>1, <1>2
<1>4. Dealt(l, FALSE) = 0
  BY <1>1 DEF Dealt
<1>5. Counted(l, FALSE)
  <2>1. IsA(l.operands[1], "tuple") /\ l.kind # "reduce" => Len(l.acc[2]) = 0
    BY <1>1
  <2>2. ASSUME IsA(l.operands[1], "tuple") /\ l.kind # "reduce"
        PROVE  Len(l.acc[2]) = Dealt(l, FALSE) /\ Len(l.acc[2]) <= Dealt(l, FALSE)
    <3>1. Len(l.acc[2]) = 0
      BY <2>1, <2>2
    <3>2. 0 <= 0
      OBVIOUS
    <3>3. QED BY <1>4, <3>1, <3>2, Zenon
  <2>3. QED BY <2>2 DEF Counted
<1>6. IsLoop(nulls, l, FALSE)
  BY <1>1, <1>3, <1>5 DEF IsLoop
<1>7. QED BY <1>6 DEF l

LEMMA StartValues ==
  ASSUME NEW nulls, Inv, ValueInv(nulls), mode = "execute", NEW l, IsLoop(nulls, l, FALSE),
         NEW stk, ValueSeq(nulls, stk),
         StartLoop(l, stk), UNCHANGED <<store, tables>>
  PROVE  ValueInv(nulls)'
<1> DEFINE ls == Append(Here.loops, l)
<1>1. ActsInv(nulls) /\ mode' = "iterate"
  BY DEF ValueInv, StartLoop
<1>2. AreLoops(nulls, Here.loops, TRUE) /\ IsActivation(Here) /\ Len(acts) \in DOMAIN acts
  BY <1>1, InnermostLoops
<1>3. AreLoops(nulls, ls, FALSE) /\ ls # <<>>
  BY <1>2, LoopAdded
<1>4. acts' = [acts EXCEPT ![Len(acts)].loops = ls]
  BY <1>2 DEF StartLoop, Here, Last, IsActivation
<1> HIDE DEF ls
<1>5. (mode' = "iterate") = ~FALSE
  BY <1>1
<1>6. ActsInv(nulls)' /\ Here'.loops = ls
  BY <1>1, <1>3, <1>4, <1>5, LoopsBecome
<1>7. StackOfValues(nulls)'
  BY DEF StartLoop, StackOfValues
<1>8. QED BY <1>3, <1>6, <1>7 DEF ValueInv, NamesAreValues, SlotsAreValues, Looping

LEMMA BeginValues ==
  ASSUME NEW nulls, Inv, ValueInv(nulls), Accepted, Map \/ Filter \/ Reduce
  PROVE  ValueInv(nulls)'
<1>1. ValueSeq(nulls, stack) /\ mode = "execute" /\ UNCHANGED <<store, tables>>
  BY DEF Map, Filter, StartTransform, Reduce, Runs, ValueInv, StackOfValues
<1>2. /\ IsValue(nulls, Operand(1)) /\ IsValue(nulls, Operand(2))
      /\ Reduce => IsValue(nulls, Operand(3))
      /\ ValueSeq(nulls, Without(2)) /\ ValueSeq(nulls, Without(3))
  <2>1. /\ Map \/ Filter => Argc(current[1]) = 2
        /\ Reduce => Argc(current[1]) = 3
    BY DEF Map, Filter, StartTransform, Reduce, Runs, Argc, OneArgument, TwoArguments,
           SignOps, ArithmeticOps, LogicalOps
  <2>2. PICK n \in Nat : n = Len(stack)
    BY <1>1, SeqLength DEF ValueSeq
  <2>3. (Reduce => Len(stack) >= 3) /\ Len(stack) >= 2
    BY <2>1, <2>2 DEF Accepted
  <2>4. 2 \in Nat /\ 3 \in Nat
    BY SMT
  <2>5. QED BY <1>1, <2>3, <2>4, Operands, WithoutValues
<1>3. ASSUME NEW kind \in {"map", "filter"}, StartTransform(kind) PROVE ValueInv(nulls)'
  <2> DEFINE vpred == Operand(1)
             vcnt  == Operand(2)
             acc   == NewEmptyOfSameType(vcnt)
             ops   == <<vcnt, vpred>>
  <2>1. ValueSeq(nulls, ops) /\ ops[1] = vcnt
    BY <1>2, TwoValues
  <2>2. ASSUME IsA(vpred, "operation"), Iterable(vcnt), NEW items \in Orders(vcnt),
               StartLoop([kind |-> kind, items |-> items, next |-> 1, acc |-> acc,
                          callback |-> vpred[2], operands |-> ops], Without(2))
        PROVE  ValueInv(nulls)'
    <3>1. ValueSeq(nulls, items) /\ IsValue(nulls, vpred[2])
      BY <1>2, <2>2, OrdersAreValues, RunIsValue
    <3>2. IsValue(nulls, acc) /\ (IsA(vcnt, "tuple") => IsA(acc, "tuple") /\ Len(acc[2]) = 0)
      BY <2>2, NewEmptyIsValue
    <3> HIDE DEF vpred, vcnt, acc, ops
    <3>3. IsLoop(nulls, [kind |-> kind, items |-> items, next |-> 1, acc |-> acc,
                  callback |-> vpred[2], operands |-> ops], FALSE)
      BY <2>1, <3>1, <3>2, FreshLoop
    <3>4. QED BY <1>1, <1>2, <2>2, <3>3, StartValues
  <2>3. ASSUME Fail(Without(2) \o ops, "TYPE_MISMATCH"), UNCHANGED acts PROVE ValueInv(nulls)'
    <3> HIDE DEF ops
    <3>1. ValueSeq(nulls, Without(2) \o ops)
      BY <1>2, <2>1, ConcatValues
    <3>2. StackOfValues(nulls)' /\ mode' # "iterate"
      BY <2>3, <3>1, FailValues
    <3>3. QED BY <1>1, <2>3, <3>2, OnlyTheStack
  <2>4. QED BY <1>3, <2>2, <2>3 DEF StartTransform
<1>4. CASE Reduce
  <2> DEFINE v0    == Operand(1)
             vpred == Operand(2)
             vcnt  == Operand(3)
             ops   == <<vcnt, vpred, v0>>
  <2>1. ValueSeq(nulls, ops)
    BY <1>2, <1>4, ThreeValues
  <2>2. ASSUME IsA(vpred, "operation"), Iterable(vcnt), NEW items \in Orders(vcnt),
               StartLoop([kind |-> "reduce", items |-> items, next |-> 1, acc |-> v0,
                          callback |-> vpred[2], operands |-> ops], Without(3))
        PROVE  ValueInv(nulls)'
    <3>1. ValueSeq(nulls, items) /\ IsValue(nulls, vpred[2])
      <4>1. IsValue(nulls, vpred) /\ IsValue(nulls, vcnt)
        BY <1>2, <1>4
      <4> HIDE DEF vpred, vcnt
      <4>2. IsValue(nulls, vpred[2])
        BY <2>2, <4>1, RunIsValue
      <4>3. ValueSeq(nulls, items)
        BY <2>2, <4>1, OrdersAreValues
      <4>4. QED BY <4>2, <4>3
    <3>2. IsValue(nulls, v0) /\ IsValue(nulls, vcnt)
      BY <1>2, <1>4
    <3> HIDE DEF vpred, vcnt, v0, ops
    <3>3. IsLoop(nulls, [kind |-> "reduce", items |-> items, next |-> 1, acc |-> v0,
                  callback |-> vpred[2], operands |-> ops], FALSE)
      BY <2>1, <3>1, <3>2, FreshLoop
    <3>4. QED BY <1>1, <1>2, <2>2, <3>3, StartValues
  <2>3. ASSUME Fail(Without(3) \o ops, "TYPE_MISMATCH"), UNCHANGED acts PROVE ValueInv(nulls)'
    <3> HIDE DEF ops
    <3>1. ValueSeq(nulls, Without(3) \o ops)
      BY <1>2, <2>1, ConcatValues
    <3>2. StackOfValues(nulls)' /\ mode' # "iterate"
      BY <2>3, <3>1, FailValues
    <3>3. QED BY <1>1, <2>3, <3>2, OnlyTheStack
  <2>4. QED BY <1>4, <2>2, <2>3 DEF Reduce
<1>5. QED BY <1>3, <1>4 DEF Map, Filter

\* The loop in hand.
LEMMA LoopInHand ==
  ASSUME NEW nulls, Inv, ValueInv(nulls), Looping
  PROVE  /\ AreLoops(nulls, Front(Here.loops), TRUE)
         /\ mode # "iterate" => IsLoop(nulls, TheLoop, TRUE)
         /\ mode = "iterate" => IsLoop(nulls, TheLoop, FALSE)
<1>1. ActsInv(nulls)
  BY DEF ValueInv
<1>2. CASE mode = "iterate"
  <2>1. AreLoops(nulls, Here.loops, FALSE) /\ Here.loops # <<>>
    BY <1>1, <1>2, InnermostLoops DEF Looping
  <2>2. QED BY <1>2, <2>1, LoopRemoved DEF TheLoop
<1>3. CASE mode # "iterate"
  <2>1. AreLoops(nulls, Here.loops, TRUE) /\ Here.loops # <<>>
    BY <1>1, <1>3, InnermostLoops DEF Looping
  <2>2. QED BY <1>3, <2>1, LoopRemoved DEF TheLoop
<1>4. QED BY <1>2, <1>3

\* The loop in hand is replaced, and the new one is iterated or waits.
LEMMA BecomesValues ==
  ASSUME NEW nulls, Inv, ValueInv(nulls), Looping, NEW l, LoopBecomes(l), StackOfValues(nulls)',
         \/ IsLoop(nulls, l, TRUE) /\ mode' # "iterate"
         \/ IsLoop(nulls, l, FALSE) /\ mode' = "iterate",
         UNCHANGED <<store, tables>>
  PROVE  ValueInv(nulls)'
<1> DEFINE ls == Append(Front(Here.loops), l)
<1>1. ActsInv(nulls) /\ AreLoops(nulls, Front(Here.loops), TRUE)
  BY LoopInHand DEF ValueInv
<1>2. acts' = [acts EXCEPT ![Len(acts)].loops = ls]
  BY <1>1, InnermostLoops DEF LoopBecomes, Here, Last, IsActivation
<1>3. CASE IsLoop(nulls, l, TRUE) /\ mode' # "iterate"
  <2>1. AreLoops(nulls, ls, TRUE) /\ ls # <<>>
    BY <1>1, <1>3, LoopAdded
  <2> HIDE DEF ls
  <2>2. (mode' = "iterate") = ~TRUE
    BY <1>3
  <2>3. ActsInv(nulls)' /\ Here'.loops = ls
    BY <1>1, <1>2, <2>1, <2>2, LoopsBecome
  <2>4. QED BY <1>3, <2>1, <2>3 DEF ValueInv, NamesAreValues, SlotsAreValues, Looping
<1>4. CASE IsLoop(nulls, l, FALSE) /\ mode' = "iterate"
  <2>1. AreLoops(nulls, ls, FALSE) /\ ls # <<>>
    BY <1>1, <1>4, LoopAdded
  <2> HIDE DEF ls
  <2>2. (mode' = "iterate") = ~FALSE
    BY <1>4
  <2>3. ActsInv(nulls)' /\ Here'.loops = ls
    BY <1>1, <1>2, <2>1, <2>2, LoopsBecome
  <2>4. QED BY <1>4, <2>1, <2>3 DEF ValueInv, NamesAreValues, SlotsAreValues, Looping
<1>5. QED BY <1>3, <1>4

LEMMA EndsValues ==
  ASSUME NEW nulls, Inv, ValueInv(nulls), Looping, LoopEnds, mode' # "iterate",
         StackOfValues(nulls)',
         UNCHANGED <<store, tables>>
  PROVE  ValueInv(nulls)'
<1> DEFINE ls == Front(Here.loops)
<1>1. ActsInv(nulls)
  BY DEF ValueInv
<1>2. AreLoops(nulls, ls, TRUE)
  BY LoopInHand
<1>3. acts' = [acts EXCEPT ![Len(acts)].loops = ls]
  BY <1>1, InnermostLoops DEF LoopEnds, Here, Last, IsActivation
<1> HIDE DEF ls
<1>4. (mode' = "iterate") = ~TRUE
  OBVIOUS
<1>5. ActsInv(nulls)'
  BY <1>1, <1>2, <1>3, <1>4, LoopsBecome
<1>6. QED BY <1>5 DEF ValueInv, NamesAreValues, SlotsAreValues

\* The callback is called: one item more is taken than is dealt with.
LEMMA LoopGoesOn ==
  ASSUME NEW nulls, NEW l, IsLoop(nulls, l, FALSE), l.next <= Len(l.items)
  PROVE  IsLoop(nulls, [l EXCEPT !.next = @ + 1], TRUE) /\ IsValue(nulls, l.items[l.next])
<1> DEFINE k == [l EXCEPT !.next = @ + 1]
<1>1. PICK n \in Nat, m \in Nat : n = Len(l.items) /\ m = l.next /\ m \in 1..n
  <2>1. Len(l.items) \in Nat
    BY SeqLength DEF IsLoop, ValueSeq
  <2>2. QED BY <2>1 DEF IsLoop
<1>2. /\ k.kind = l.kind /\ k.items = l.items /\ k.next = m + 1 /\ k.acc = l.acc
      /\ k.callback = l.callback /\ k.operands = l.operands
      /\ k = [kind |-> k.kind, items |-> k.items, next |-> k.next, acc |-> k.acc,
              callback |-> k.callback, operands |-> k.operands]
  BY <1>1 DEF IsLoop
<1> HIDE DEF k
<1>3. k.next \in 1..(Len(k.items) + 1) /\ k.next > 1
  BY <1>1, <1>2
<1>4. Dealt(k, TRUE) = Dealt(l, FALSE)
  BY <1>1, <1>2 DEF Dealt
<1>5. Counted(k, TRUE)
  BY <1>2, <1>4 DEF IsLoop, Counted
<1>6. IsLoop(nulls, k, TRUE)
  BY <1>2, <1>3, <1>5 DEF IsLoop
<1>7. IsValue(nulls, l.items[l.next])
  BY <1>1, ValueOfSeq DEF IsLoop
<1>8. QED BY <1>6, <1>7 DEF k

\* The callback is back: the item it was called for is dealt with.
LEMMA LoopTakes ==
  ASSUME NEW nulls, NEW l, IsLoop(nulls, l, TRUE), NEW acc, IsValue(nulls, acc),
         IsA(l.operands[1], "tuple") /\ l.kind # "reduce" => IsA(acc, "tuple"),
         IsA(l.operands[1], "tuple") /\ l.kind = "map" => Len(acc[2]) = Len(l.acc[2]) + 1,
         IsA(l.operands[1], "tuple") /\ l.kind = "filter" =>
           Len(acc[2]) = Len(l.acc[2]) + 1 \/ Len(acc[2]) = Len(l.acc[2])
  PROVE  IsLoop(nulls, [l EXCEPT !.acc = acc], FALSE)
<1> DEFINE k == [l EXCEPT !.acc = acc]
<1>1. PICK m \in Nat : m = l.next
  <2>1. Len(l.items) \in Nat
    BY SeqLength DEF IsLoop, ValueSeq
  <2>2. QED BY <2>1 DEF IsLoop
<1>2. /\ k.kind = l.kind /\ k.items = l.items /\ k.next = m /\ k.acc = acc
      /\ k.callback = l.callback /\ k.operands = l.operands
      /\ k = [kind |-> k.kind, items |-> k.items, next |-> k.next, acc |-> k.acc,
              callback |-> k.callback, operands |-> k.operands]
  BY <1>1 DEF IsLoop
<1> HIDE DEF k
<1>3. Dealt(k, FALSE) = m - 1 /\ Dealt(l, TRUE) = m - 2
  BY <1>1, <1>2 DEF Dealt
<1>4. ASSUME IsA(l.operands[1], "tuple"), l.kind = "filter" PROVE Len(acc[2]) <= m - 1
  <2>1. IsValue(nulls, l.acc) /\ l.acc[1] = "tuple"
    BY <1>4 DEF IsLoop, IsA
  <2>2. PICK n \in Nat : n = Len(l.acc[2])
    BY <2>1, TupleHas, SeqLength DEF ValueSeq
  <2>3. n <= m - 2
    BY <1>3, <1>4, <2>2 DEF IsLoop, Counted
  <2>4. Len(acc[2]) = n + 1 \/ Len(acc[2]) = n
    BY <1>4, <2>2
  <2>5. QED BY <2>3, <2>4, SMT
<1>5. ASSUME IsA(l.operands[1], "tuple"), l.kind = "map" PROVE Len(acc[2]) = m - 1
  <2>1. Len(l.acc[2]) = m - 2
    BY <1>3, <1>5 DEF IsLoop, Counted
  <2>2. QED BY <1>5, <2>1, SMT
<1>6. Counted(k, FALSE)
  BY <1>2, <1>3, <1>4, <1>5 DEF Counted
<1>7. IsLoop(nulls, k, FALSE)
  BY <1>1, <1>2, <1>6 DEF IsLoop
<1>8. QED BY <1>7 DEF k

\* A container that is a tuple has one item more.
LEMMA TupleGrows ==
  ASSUME NEW nulls, NEW c, IsValue(nulls, c), IsA(c, "tuple"), NEW v
  PROVE  IsA(AppendValue(c, v), "tuple") /\ Len(AppendValue(c, v)[2]) = Len(c[2]) + 1
<1>1. c[1] = "tuple" /\ IsSeq(c[2])
  BY TupleHas DEF IsA, ValueSeq
<1>2. AppendValue(c, v) = Tuple(Append(c[2], v))
  BY <1>1 DEF AppendValue
<1>3. Len(Append(c[2], v)) = Len(c[2]) + 1
  BY <1>1, AppendIsSeq
<1>4. QED BY <1>2, <1>3 DEF Tuple, IsA

LEMMA IterateValues ==
  ASSUME NEW nulls, Inv, ValueInv(nulls), NextItem \/ EndLoop
  PROVE  ValueInv(nulls)'
<1>1. mode = "iterate" /\ Looping /\ ValueSeq(nulls, stack) /\ UNCHANGED <<store, tables>>
  BY DEF NextItem, EndLoop, ValueInv, StackOfValues
<1>2. IsLoop(nulls, TheLoop, FALSE)
  BY <1>1, LoopInHand
<1>3. CASE NextItem
  <2> DEFINE l == TheLoop
             item == l.items[l.next]
             args == IF l.kind = "reduce" THEN <<item, l.acc>> ELSE <<item>>
  <2>1. /\ l.next <= Len(l.items) /\ Invoke(l.callback, stack \o args)
        /\ LoopBecomes([l EXCEPT !.next = @ + 1])
    BY <1>3 DEF NextItem
  <2>2. IsLoop(nulls, [l EXCEPT !.next = @ + 1], TRUE) /\ IsValue(nulls, item)
    BY <1>2, <2>1, LoopGoesOn
  <2>3. IsValue(nulls, l.acc) /\ IsValue(nulls, l.callback)
    BY <1>2 DEF IsLoop
  <2> HIDE DEF l, item
  <2>4. ValueSeq(nulls, args)
    BY <2>2, <2>3, OneValue, TwoValues
  <2> HIDE DEF args
  <2>5. ValueSeq(nulls, stack \o args)
    BY <1>1, <2>4, ConcatValues
  <2>6. StackOfValues(nulls)' /\ mode' # "iterate"
    BY <2>1, <2>3, <2>5, InvokeValues
  <2>7. QED BY <1>1, <2>1, <2>2, <2>6, BecomesValues
<1>4. CASE EndLoop
  <2>1. Succeed(Append(stack, TheLoop.acc)) /\ LoopEnds
    BY <1>4 DEF EndLoop
  <2>2. ValueSeq(nulls, Append(stack, TheLoop.acc))
    BY <1>1, <1>2, AppendValues DEF IsLoop
  <2>3. StackOfValues(nulls)' /\ mode' # "iterate"
    BY <2>1, <2>2, SucceedValues
  <2>4. QED BY <1>1, <2>1, <2>3, EndsValues
<1>5. QED BY <1>3, <1>4

LEMMA CallbackValues ==
  ASSUME NEW nulls, Inv, ValueInv(nulls), ~Emptied \/ Null \in nulls, CallbackResult
  PROVE  ValueInv(nulls)'
<1>1. /\ mode # "iterate" /\ Looping /\ ValueSeq(nulls, stack) /\ UNCHANGED <<store, tables>>
      /\ ValueSeq(nulls, Without(1)) /\ (mode = "SUCCESS" => IsValue(nulls, Operand(1)))
  <2>1. mode \in Results /\ Looping /\ ValueSeq(nulls, stack) /\ UNCHANGED <<store, tables>>
    BY DEF CallbackResult, ValueInv, StackOfValues
  <2>2. PICK n \in Nat : n = Len(stack)
    BY <2>1, SeqLength DEF ValueSeq
  <2>3. stack # <<>> => Len(stack) >= 1
    <3>1. n = 0 => stack = <<>>
      BY <2>1, <2>2, EmptySeq DEF ValueSeq, IsSeq
    <3>2. n # 0 => n >= 1
      BY SMT
    <3>3. QED BY <2>2, <3>1, <3>2
  <2>4. mode = "SUCCESS" => IsValue(nulls, Operand(1))
    BY <2>1, <2>3, Operands DEF Emptied
  <2>5. ValueSeq(nulls, Without(1))
    <3>1. 1 \in Nat
      BY SMT
    <3>2. QED BY <2>1, <3>1, WithoutValues
  <2>6. QED BY <2>1, <2>4, <2>5 DEF Results
<1>2. IsLoop(nulls, TheLoop, TRUE)
  BY <1>1, LoopInHand
<1>3. /\ IsValue(nulls, TheLoop.acc) /\ ValueSeq(nulls, TheLoop.operands)
      /\ IsA(TheLoop.operands[1], "tuple") /\ TheLoop.kind # "reduce" => IsA(TheLoop.acc, "tuple")
  BY <1>2 DEF IsLoop
<1>4. ASSUME NEW stk, ValueSeq(nulls, stk), NEW code, FailLoop(stk, code) PROVE ValueInv(nulls)'
  <2>1. ValueSeq(nulls, stk \o TheLoop.operands)
    BY <1>3, <1>4, ConcatValues
  <2>2. StackOfValues(nulls)' /\ mode' # "iterate"
    BY <1>4, <2>1, FailValues DEF FailLoop
  <2>3. QED BY <1>1, <1>4, <2>2, EndsValues DEF FailLoop
<1>5. ASSUME NEW acc, Accumulate(acc), IsLoop(nulls, [TheLoop EXCEPT !.acc = acc], FALSE)
      PROVE  ValueInv(nulls)'
  <2>1. StackOfValues(nulls)' /\ mode' = "iterate"
    BY <1>1, <1>5 DEF Accumulate, StackOfValues
  <2>2. QED BY <1>1, <1>5, <2>1, BecomesValues DEF Accumulate
<1>6. CASE mode # "SUCCESS"
  BY <1>1, <1>4, <1>6 DEF CallbackResult
<1>6a. ASSUME NEW item, IsValue(nulls, item), TheLoop.kind # "reduce", Grow(item)
       PROVE  ValueInv(nulls)'
  <2> DEFINE grown == AppendValue(TheLoop.acc, item)
  <2>1. IsValue(nulls, grown)
    BY <1>3, <1>6a, AppendValueIsValue
  <2>2. \/ Crash /\ UNCHANGED acts
        \/ FailLoop(Without(1), grown[2])
        \/ Accumulate(grown)
    BY <1>6a DEF Grow
  <2>3. IsA(TheLoop.operands[1], "tuple") =>
          IsA(grown, "tuple") /\ Len(grown[2]) = Len(TheLoop.acc[2]) + 1
    BY <1>3, <1>6a, TupleGrows
  <2> HIDE DEF grown
  <2>4. IsLoop(nulls, [TheLoop EXCEPT !.acc = grown], FALSE)
    BY <1>2, <1>6a, <2>1, <2>3, LoopTakes
  <2>5. CASE Crash /\ UNCHANGED acts
    <3>1. StackOfValues(nulls)' /\ mode' # "iterate"
      BY <1>1, <2>5 DEF Crash, StackOfValues
    <3>2. QED BY <1>1, <2>5, <3>1, OnlyTheStack
  <2>6. QED BY <1>1, <1>4, <1>5, <2>2, <2>4, <2>5
<1>7. CASE mode = "SUCCESS" /\ MapResult
  BY <1>1, <1>6a, <1>7 DEF MapResult
<1>8. CASE mode = "SUCCESS" /\ FilterResult
  <2> DEFINE item == TheLoop.items[TheLoop.next - 1]
  <2>1. TheLoop.kind = "filter"
    BY <1>8 DEF FilterResult
  <2>2. IsValue(nulls, item)
    <3>1. PICK n \in Nat : n = Len(TheLoop.items)
      BY <1>2, SeqLength DEF IsLoop, ValueSeq
    <3>2. TheLoop.next - 1 \in 1..n
      BY <1>2, <3>1 DEF IsLoop
    <3>3. QED BY <1>2, <3>1, <3>2, ValueOfSeq DEF IsLoop
  <2>3. \/ Grow(item) \/ Accumulate(TheLoop.acc)
        \/ FailLoop(Without(1), "TYPE_MISMATCH")
    BY <1>8 DEF FilterResult
  <2> HIDE DEF item
  <2>4. IsLoop(nulls, [TheLoop EXCEPT !.acc = TheLoop.acc], FALSE)
    BY <1>2, <1>3, <2>1, LoopTakes
  <2>5. QED BY <1>1, <1>4, <1>5, <1>6a, <2>1, <2>2, <2>3, <2>4
<1>9. CASE mode = "SUCCESS" /\ ReduceResult
  <2>1. TheLoop.kind = "reduce" /\ Accumulate(Operand(1))
    BY <1>9 DEF ReduceResult
  <2>2. IsLoop(nulls, [TheLoop EXCEPT !.acc = Operand(1)], FALSE)
    BY <1>1, <1>2, <1>9, <2>1, LoopTakes
  <2>3. QED BY <1>5, <2>1, <2>2
<1>10. QED BY <1>6, <1>7, <1>8, <1>9 DEF CallbackResult

(***************************************************************************)
(* Every step.                                                             *)
(***************************************************************************)
LEMMA LeafValues ==
  ASSUME NEW nulls, TextsAreText(nulls), ParserMakesValues(nulls), ValueInv(nulls), ExecuteLeaf
  PROVE  ValueInv(nulls)'
<1>1. Leaf /\ UNCHANGED <<store, acts, tables>> /\ StackOfValues(nulls)
  BY DEF ExecuteLeaf, callVars, ValueInv
<1>2. StackOfValues(nulls)'
  BY <1>1, StackStaysValues
<1>3. mode # "iterate" /\ mode' # "iterate"
  BY <1>1, LeafReturns DEF Results
<1>4. QED BY <1>1, <1>2, <1>3, OnlyTheStack

LEMMA NextValues ==
  ASSUME NEW nulls, TextsAreText(nulls), ParserMakesValues(nulls), NativesPushValues(nulls), Inv,
         ValueInv(nulls),
         ~Emptied \/ Null \in nulls, [Next]_vars
  PROVE  ValueInv(nulls)'
<1>1. CASE ExecuteLeaf
  BY <1>1, LeafValues
<1>2. CASE Accepted /\ Execution
  <2>1. CASE Transfer \/ EnterBlock
    BY <1>2, <2>1, TransferValues, EnterValues
  <2>2. CASE Load \/ Store \/ Clear \/ LoadSlot \/ StoreSlot
    BY <1>2, <2>2, StoreValues, SlotValues
  <2>3. CASE Map \/ Filter \/ Reduce
    BY <1>2, <2>3, BeginValues
  <2>4. QED BY <1>2, <2>1, <2>2, <2>3 DEF Execution
<1>3. CASE NextItem \/ EndLoop \/ CallbackResult
  BY <1>3, IterateValues, CallbackValues
<1>4. CASE FetchOperation
  BY <1>4, FetchValues
<1>5. CASE EndOfBlock
  <2>1. mode # "iterate" /\ LeaveBlock("SUCCESS") /\ "SUCCESS" \in Results
    BY <1>5 DEF EndOfBlock, Results
  <2>2. QED BY <2>1, BlockValues
<1>6. CASE BlockResult
  <2>1. mode # "iterate"
    BY <1>6 DEF BlockResult, Results
  <2>2. (\E result \in Results : LeaveBlock(result)) \/ (\E i : ContinueAt(i))
    BY <1>6, BlockResultCases DEF Results
  <2>3. QED BY <2>1, <2>2, BlockValues
<1>7. CASE (\E name \in Names : Execute(name)) \/ Finish
  BY <1>7, RunValues
<1>8. CASE UNCHANGED vars
  <2>1. UNCHANGED <<stack, mode, current, store, acts, tables>>
    BY <1>8 DEF vars
  <2>2. /\ StackOfValues(nulls)' /\ NamesAreValues(nulls)' /\ SlotsAreValues(nulls)'
        /\ mode' = "iterate" => Looping'
    BY <2>1 DEF ValueInv, StackOfValues, NamesAreValues, SlotsAreValues, Looping, Here
  <2>3. \A i : Iterated(i)' = Iterated(i)
    BY <2>1 DEF Iterated
  <2>4. ActsInv(nulls)'
    BY <2>1, <2>3 DEF ValueInv, ActsInv
  <2>5. QED BY <2>2, <2>4 DEF ValueInv
<1>9. QED BY <1>1, <1>2, <1>3, <1>4, <1>5, <1>6, <1>7, <1>8 DEF Next, Step

LEMMA InitValues ==
  ASSUME NEW nulls, ProgramsAreValues(nulls), Init
  PROVE  ValueInv(nulls)
<1> DEFINE a == Activation(NoBlock, <<>>)
<1>1. a.body = <<>> /\ a.loops = <<>> /\ acts = <<a>>
  BY DEF Init, Activation
<1> HIDE DEF a
<1>2. \A i \in DOMAIN acts : acts[i] = a
  BY <1>1
<1>3. \A i : (~Iterated(i)) = TRUE
  BY DEF Init, Iterated
<1>4. ActsInv(nulls)
  BY <1>1, <1>2, <1>3, NoValues, NoLoops DEF ActsInv
<1>5. StackOfValues(nulls)
  BY NoValues DEF Init, StackOfValues
<1>6. SlotsAreValues(nulls)
  BY EmptyIsSeq DEF Init, SlotsAreValues
<1>7. NamesAreValues(nulls)
  BY DEF Init, ProgramsAreValues, NamesAreValues
<1>8. QED BY <1>4, <1>5, <1>6, <1>7 DEF Init, ValueInv

(***************************************************************************)
(* The theorems.                                                           *)
(***************************************************************************)
\* Whatever a program of values does, everything the machine keeps - the stack, the value
\* store, the slots, what its loops hold off the stack - are values, and every loop has taken
\* as many items as it has dealt with, and one more while its callback runs.
THEOREM MachineHoldsValues ==
  ASSUME TextsAreText({Null}), ParserMakesValues({Null}), ProgramsAreValues({Null}),
         NativesPushValues({Null})
  PROVE  Spec => []ValueInv({Null})
<1>1. Init => ValueInv({Null})
  BY InitValues
<1>2. Inv /\ ValueInv({Null}) /\ [Next]_vars => ValueInv({Null})'
  BY NextValues
<1>3. QED BY <1>1, <1>2, InvariantHolds, PTL DEF Spec

\* map over a tuple has one result per item whose callback has come back, and filter never
\* more, however the callback uses the stack, calls map itself, or leaves its blocks.
THEOREM LoopsCount ==
  ASSUME TextsAreText({Null}), ParserMakesValues({Null}), ProgramsAreValues({Null}),
         NativesPushValues({Null})
  PROVE  Spec => []LoopsKeepCount
<1>1. ASSUME ValueInv({Null}) PROVE LoopsKeepCount
  <2>1. ASSUME NEW i \in DOMAIN acts, NEW n \in DOMAIN acts[i].loops
        PROVE  LET l       == acts[i].loops[n]
                   waiting == ~(mode = "iterate" /\ i = Len(acts) /\ n = Len(acts[i].loops))
                   done    == l.next - 1 - (IF waiting THEN 1 ELSE 0)
               IN
               /\ l.next \in 1..(Len(l.items) + 1)
               /\ IsA(l.operands[1], "tuple") /\ l.kind = "map" => Len(l.acc[2]) = done
               /\ IsA(l.operands[1], "tuple") /\ l.kind = "filter" => Len(l.acc[2]) <= done
    <3> DEFINE waiting == ~(mode = "iterate" /\ i = Len(acts) /\ n = Len(acts[i].loops))
               l == acts[i].loops[n]
    <3>1. IsLoop({Null}, l, n # Len(acts[i].loops) \/ ~Iterated(i))
      BY <1>1, <2>1 DEF ValueInv, ActsInv, AreLoops
    <3>2. (n # Len(acts[i].loops) \/ ~Iterated(i)) = waiting
      BY DEF Iterated
    <3> HIDE DEF waiting
    <3>3. IsLoop({Null}, l, waiting)
      BY <3>1, <3>2
    <3> HIDE DEF l
    <3>4. /\ l.next \in 1..(Len(l.items) + 1)
          /\ IsA(l.operands[1], "tuple") /\ l.kind = "map" => Len(l.acc[2]) = Dealt(l, waiting)
          /\ IsA(l.operands[1], "tuple") /\ l.kind = "filter" => Len(l.acc[2]) <= Dealt(l, waiting)
      BY <3>3 DEF IsLoop, Counted
    <3>5. QED BY <3>4 DEF Dealt, l, waiting
  <2>2. QED BY <2>1 DEF LoopsKeepCount
<1>2. ValueInv({Null}) => LoopsKeepCount
  BY <1>1
<1>3. QED BY <1>2, MachineHoldsValues, PTL

\* A native operation that fails says why, as those of the machine do.
NativesExplain ==
  \A name \in DOMAIN Natives : \A effect \in Natives[name] :
    effect.result = "ERROR" => Len(effect.pushed) > 0 /\ IsA(Last(effect.pushed), "error")

LEMMA FailExplains ==
  ASSUME NEW stk, ValueSeq({Null}, stk), NEW code, Fail(stk, code)
  PROVE  ErrorsAreExplained'
<1>1. IsSeq(stk) /\ stack' = Append(stk, Error(code))
  BY DEF ValueSeq, Fail, Return
<1>2. /\ stack' # <<>> /\ Len(stack') = Len(stk) + 1
      /\ stack'[Len(stk) + 1] = Error(code)
  BY <1>1, AppendIsSeq
<1>3. IsA(stack'[Len(stack')], "error")
  BY <1>2, ErrorIsValue
<1>4. QED BY <1>2, <1>3 DEF ErrorsAreExplained, Last

LEMMA OperationExplains ==
  ASSUME TextsAreText({Null}), ParserMakesValues({Null}), NativesPushValues({Null}),
         NativesExplain, Inv, ValueInv({Null}),
         ExecuteLeaf \/ Transfer \/ Load \/ Store \/ Clear \/ LoadSlot \/ StoreSlot,
         mode' = "ERROR"
  PROVE  ErrorsAreExplained'
<1>1. /\ ValueSeq({Null}, stack) /\ StackOfValues({Null})
      /\ ValueSeq({Null}, Append(Without(1), Operand(1)))
  BY OperandBack DEF ValueInv, StackOfValues
<1>2. ASSUME (\E code : Fail(stack, code)) \/ (\E code : Fail(Append(Without(1), Operand(1)), code))
      PROVE  ErrorsAreExplained'
  BY <1>1, <1>2, FailExplains
<1>3. CASE ExecuteLeaf
  <2>1. Outcome({Null})
    BY <1>1, <1>3, LeafOutcome DEF ExecuteLeaf
  <2>2. \E code : Fail(stack, code)
    BY <2>1 DEF Outcome, Crashes, Fails, Succeeds
  <2>3. QED BY <1>2, <2>2
<1>4. CASE Exec \/ IfTrue \/ Call \/ Select \/ PartialBind
  BY <1>2, <1>4 DEF Exec, IfTrue, Call, Select, PartialBind, Invoke, Succeed, Return
<1>5. CASE Native
  <2>1. PICK effect \in Natives[current[2]] : Return(stack \o effect.pushed, effect.result)
    BY <1>5 DEF Native
  <2>2. current[2] \in DOMAIN Natives /\ effect.result = "ERROR" /\ stack' = stack \o effect.pushed
    BY <1>5, <2>1 DEF Native, Return
  <2>3. /\ IsSeq(effect.pushed) /\ IsSeq(stack)
        /\ Len(effect.pushed) > 0 /\ IsA(Last(effect.pushed), "error")
    BY <1>1, <2>2 DEF NativesPushValues, NativesExplain, ValueSeq
  <2> DEFINE p == effect.pushed
  <2> HIDE DEF p
  <2>4. IsSeq(p) /\ Len(p) > 0 /\ IsA(p[Len(p)], "error") /\ stack' = stack \o p
    BY <2>2, <2>3 DEF p, Last
  <2>5. PICK n \in Nat, k \in Nat : n = Len(stack) /\ k = Len(p) /\ k > 0
    BY <2>3, <2>4, SeqLength
  <2>6. k \in 1..k
    BY <2>5, SMT
  <2>7. /\ IsSeq(stack') /\ Len(stack') = n + k
        /\ stack'[n + k] = p[k]
    BY <2>3, <2>4, <2>5, <2>6, ConcatIsSeq
  <2>8. stack' # <<>>
    <3>1. Len(stack') # 0
      BY <2>5, <2>7
    <3>2. QED BY <3>1, EmptyIsSeq
  <2>9. QED BY <2>4, <2>5, <2>7, <2>8 DEF ErrorsAreExplained, Last
<1>6. CASE Load \/ Store \/ Clear
  BY <1>2, <1>6 DEF Load, Store, Clear, Succeed, Return
<1>7. CASE LoadSlot \/ StoreSlot
  BY <1>2, <1>7 DEF LoadSlot, StoreSlot, Crash, Succeed, Return
<1>8. QED BY <1>3, <1>4, <1>5, <1>6, <1>7 DEF Transfer

LEMMA LoopExplains ==
  ASSUME Inv, ValueInv({Null}), Map \/ Filter \/ Reduce \/ NextItem \/ EndLoop \/ CallbackResult,
         mode' = "ERROR"
  PROVE  ErrorsAreExplained'
<1>1. /\ ValueSeq({Null}, stack)
      /\ IsValue({Null}, Operand(1)) /\ IsValue({Null}, Operand(2)) /\ IsValue({Null}, Operand(3))
      /\ ValueSeq({Null}, Without(1)) /\ ValueSeq({Null}, Without(2))
      /\ ValueSeq({Null}, Without(3))
  <2>1. ValueSeq({Null}, stack)
    BY DEF ValueInv, StackOfValues
  <2>2. QED BY <2>1, Operands, WithoutValues
<1>2. CASE Map \/ Filter
  <2>1. Fail(Without(2) \o <<Operand(2), Operand(1)>>, "TYPE_MISMATCH")
    BY <1>2 DEF Map, Filter, StartTransform, StartLoop
  <2>2. ValueSeq({Null}, Without(2) \o <<Operand(2), Operand(1)>>)
    BY <1>1, TwoValues, ConcatValues
  <2>3. QED BY <2>1, <2>2, FailExplains
<1>3. CASE Reduce
  <2>1. Fail(Without(3) \o <<Operand(3), Operand(2), Operand(1)>>, "TYPE_MISMATCH")
    BY <1>3 DEF Reduce, StartLoop
  <2>2. ValueSeq({Null}, Without(3) \o <<Operand(3), Operand(2), Operand(1)>>)
    BY <1>1, ThreeValues, ConcatValues
  <2>3. QED BY <2>1, <2>2, FailExplains
<1>4. CASE NextItem \/ EndLoop
  BY <1>4 DEF NextItem, EndLoop, Invoke, Succeed, Return
<1>5. CASE CallbackResult
  <2>1. Looping /\ mode # "iterate"
    BY <1>5 DEF CallbackResult, Results
  <2>2. ValueSeq({Null}, TheLoop.operands)
    BY <2>1, LoopInHand DEF IsLoop
  <2>3. (\E code : FailLoop(stack, code)) \/ (\E code : FailLoop(Without(1), code))
    BY <1>5 DEF CallbackResult, MapResult, FilterResult, ReduceResult, Grow, Accumulate, Crash
  <2>4. /\ ValueSeq({Null}, stack \o TheLoop.operands)
        /\ ValueSeq({Null}, Without(1) \o TheLoop.operands)
    BY <1>1, <2>2, ConcatValues
  <2>5. QED BY <2>3, <2>4, FailExplains DEF FailLoop
<1>6. QED BY <1>2, <1>3, <1>4, <1>5

\* However an error travels - out of an operation, through blocks, out of the callback of a
\* loop that puts its operands back - it arrives with the value that explains it on top.
THEOREM ErrorsExplained ==
  ASSUME TextsAreText({Null}), ParserMakesValues({Null}), ProgramsAreValues({Null}),
         NativesPushValues({Null}), NativesExplain
  PROVE  Spec => []ErrorsAreExplained
<1>1. Init => ErrorsAreExplained
  BY DEF Init, ErrorsAreExplained
<1>2. ASSUME Inv, ValueInv({Null}), ErrorsAreExplained, [Next]_vars
      PROVE  ErrorsAreExplained'
  <2>1. CASE mode' # "ERROR"
    BY <2>1 DEF ErrorsAreExplained
  <2>2. CASE mode' = "ERROR"
    <3>1. CASE ExecuteLeaf \/ Transfer \/ Load \/ Store \/ Clear \/ LoadSlot \/ StoreSlot
      BY <1>2, <2>2, <3>1, OperationExplains
    <3>2. CASE Map \/ Filter \/ Reduce \/ NextItem \/ EndLoop \/ CallbackResult
      BY <1>2, <2>2, <3>2, LoopExplains
    <3>3. CASE EnterBlock \/ FetchOperation \/ EndOfBlock
      BY <2>2, <3>3 DEF EnterBlock, FetchOperation, EndOfBlock, LeaveBlock
    <3>4. CASE BlockResult
      <4>1. mode = "ERROR" /\ UNCHANGED stack
        BY <2>2, <3>4 DEF BlockResult, LeaveBlock, ContinueAt
      <4>2. QED BY <1>2, <2>2, <4>1 DEF ErrorsAreExplained
    <3>5. CASE (\E name \in Names : Execute(name)) \/ Finish
      BY <2>2, <3>5 DEF Execute, Finish, Crash, Invoke, opVars
    <3>6. CASE UNCHANGED vars
      BY <1>2, <3>6 DEF vars, ErrorsAreExplained
    <3>7. QED BY <1>2, <3>1, <3>2, <3>3, <3>4, <3>5, <3>6, Steps DEF Quiet
  <2>3. QED BY <2>1, <2>2
<1>3. Inv /\ ValueInv({Null}) /\ ErrorsAreExplained /\ [Next]_vars => ErrorsAreExplained'
  BY <1>2
<1>4. QED BY <1>1, <1>3, InvariantHolds, MachineHoldsValues, PTL DEF Spec

(***************************************************************************)
(* Null pointers.  What Whole, Intact and Compare do with values: Whole is *)
(* there being no null in any part, and where there is none the code that  *)
(* walks a value, or two of them, meets none.                              *)
(***************************************************************************)
WholeMeans == \A v : IsValue({Null}, v) => (Whole(v) <=> IsValue({}, v))
WholeIsIntact == \A v : IsValue({}, v) => Intact(v) /\ Hashed(v)
WholeValuesCompare == \A a, b : IsValue({}, a) /\ IsValue({}, b) => Compare(a, b) # "fault"

\* What holds no null is a value where nulls are.
LEMMA WholeIsValue == ASSUME NEW v, IsValue({}, v) PROVE IsValue({Null}, v)
<1>1. PICK U : v \in U /\ Closed({}, U)
  BY DEF IsValue
<1>2. ASSUME NEW w \in U PROVE Shaped({Null}, w) /\ Parts(w) \subseteq U
  <2>1. Shaped({}, w) /\ Parts(w) \subseteq U
    BY <1>1 DEF Closed
  <2>2. QED BY <2>1 DEF Shaped
<1>3. Closed({Null}, U)
  BY <1>2 DEF Closed
<1>4. QED BY <1>1, <1>3 DEF IsValue

LEMMA WholeSeq == ASSUME NEW s, ValueSeq({}, s) PROVE ValueSeq({Null}, s)
BY WholeIsValue DEF ValueSeq

LEMMA NullsAllowed ==
  /\ ParserMakesValues({}) => ParserMakesValues({Null})
  /\ NativesPushValues({}) => NativesPushValues({Null})
  /\ TextsAreText({Null}) => TextsAreText({})
<1>1. ParserMakesValues({}) => ParserMakesValues({Null})
  BY WholeIsValue DEF ParserMakesValues
<1>2. NativesPushValues({}) => NativesPushValues({Null})
  BY WholeSeq DEF NativesPushValues
<1>3. TextsAreText({Null}) => TextsAreText({})
  BY WholeIsValue DEF TextsAreText
<1>4. QED BY <1>1, <1>2, <1>3

LEMMA SeqIsWhole ==
  ASSUME WholeMeans, NEW s, ValueSeq({Null}, s)
  PROVE  ValueSeq({}, s) <=> \A i \in DOMAIN s : Whole(s[i])
BY DEF WholeMeans, ValueSeq

\* The machine that holds no null is one that holds values of which none has a null.
LEMMA LoopIsWhole ==
  ASSUME WholeMeans, NEW l, NEW waiting, IsLoop({Null}, l, waiting)
  PROVE  IsLoop({}, l, waiting) <=>
           /\ Whole(l.acc) /\ Whole(l.callback)
           /\ \A j \in DOMAIN l.items : Whole(l.items[j])
           /\ \A j \in DOMAIN l.operands : Whole(l.operands[j])
<1>1. /\ ValueSeq({Null}, l.items) /\ ValueSeq({Null}, l.operands)
      /\ IsValue({Null}, l.acc) /\ IsValue({Null}, l.callback)
  BY DEF IsLoop
<1>2. /\ ValueSeq({}, l.items) <=> \A j \in DOMAIN l.items : Whole(l.items[j])
      /\ ValueSeq({}, l.operands) <=> \A j \in DOMAIN l.operands : Whole(l.operands[j])
      /\ IsValue({}, l.acc) <=> Whole(l.acc)
      /\ IsValue({}, l.callback) <=> Whole(l.callback)
  <2>1. PICK items, operands : items = l.items /\ operands = l.operands
    OBVIOUS
  <2>2. /\ ValueSeq({}, items) <=> \A j \in DOMAIN items : Whole(items[j])
        /\ ValueSeq({}, operands) <=> \A j \in DOMAIN operands : Whole(operands[j])
    BY <1>1, <2>1, SeqIsWhole
  <2>3. QED BY <1>1, <2>1, <2>2 DEF WholeMeans
<1>3. IsLoop({}, l, waiting) <=>
        /\ ValueSeq({}, l.items) /\ ValueSeq({}, l.operands)
        /\ IsValue({}, l.acc) /\ IsValue({}, l.callback)
  BY DEF IsLoop
<1>4. QED BY <1>2, <1>3

LEMMA NoNullsMeans ==
  ASSUME WholeMeans, ValueInv({Null})
  PROVE  NoNulls <=> ValueInv({})
<1>1. /\ ValueSeq({Null}, stack) /\ (mode = "execute" => IsValue({Null}, current))
      /\ NamesAreValues({Null}) /\ SlotsAreValues({Null}) /\ ActsInv({Null})
      /\ mode = "iterate" => Looping
  BY DEF ValueInv, StackOfValues
<1>2. StackOfValues({}) <=> /\ \A i \in DOMAIN stack : Whole(stack[i])
                            /\ mode = "execute" => Whole(current)
  BY <1>1, SeqIsWhole DEF StackOfValues, WholeMeans
<1>3. NamesAreValues({}) <=> \A k \in DOMAIN store : Whole(store[k])
  BY <1>1 DEF NamesAreValues, WholeMeans
<1>4. SlotsAreValues({}) <=>
        \A t \in DOMAIN tables : \A k \in DOMAIN tables[t] : Whole(tables[t][k])
  BY <1>1 DEF SlotsAreValues, TableOfValues, WholeMeans
<1> DEFINE BodyIsWhole(i) == \A j \in DOMAIN acts[i].body : Whole(acts[i].body[j])
           LoopWhole(l) == /\ Whole(l.acc) /\ Whole(l.callback)
                           /\ \A j \in DOMAIN l.items : Whole(l.items[j])
                           /\ \A j \in DOMAIN l.operands : Whole(l.operands[j])
           LoopsAreWhole(i) == \A n \in DOMAIN acts[i].loops : LoopWhole(acts[i].loops[n])
<1>5. ASSUME NEW i \in DOMAIN acts
      PROVE  /\ ValueSeq({}, acts[i].body) <=> BodyIsWhole(i)
             /\ AreLoops({}, acts[i].loops, ~Iterated(i)) <=> LoopsAreWhole(i)
  <2>1. ValueSeq({Null}, acts[i].body) /\ AreLoops({Null}, acts[i].loops, ~Iterated(i))
    BY <1>1 DEF ActsInv
  <2>2. ValueSeq({}, acts[i].body) <=> BodyIsWhole(i)
    <3>1. PICK body : body = acts[i].body
      OBVIOUS
    <3>2. ValueSeq({}, body) <=> \A j \in DOMAIN body : Whole(body[j])
      BY <2>1, <3>1, SeqIsWhole
    <3>3. QED BY <3>1, <3>2
  <2>3. PICK ls : ls = acts[i].loops
    OBVIOUS
  <2>4. ASSUME NEW n \in DOMAIN ls
        PROVE  IsLoop({}, ls[n], n # Len(ls) \/ ~Iterated(i)) <=> LoopWhole(ls[n])
    <3>1. PICK l, w : l = ls[n] /\ w = (n # Len(ls) \/ ~Iterated(i))
      OBVIOUS
    <3>2. IsLoop({Null}, l, w)
      BY <2>1, <2>3, <2>4, <3>1 DEF AreLoops
    <3>3. IsLoop({}, l, w) <=> LoopWhole(l)
      BY <3>2, LoopIsWhole
    <3> HIDE DEF LoopWhole
    <3>4. QED BY <3>1, <3>3
  <2>5. IsSeq(ls)
    BY <2>1, <2>3 DEF AreLoops
  <2>6. AreLoops({}, ls, ~Iterated(i)) <=> \A n \in DOMAIN ls : LoopWhole(ls[n])
    <3> HIDE DEF LoopWhole
    <3>1. QED BY <2>4, <2>5 DEF AreLoops
  <2>7. QED BY <2>2, <2>3, <2>6
<1>6. ActsInv({}) <=> \A i \in DOMAIN acts : BodyIsWhole(i) /\ LoopsAreWhole(i)
  <2> HIDE DEF BodyIsWhole, LoopsAreWhole
  <2>1. QED BY <1>5 DEF ActsInv
<1>7. NoNulls <=> /\ \A i \in DOMAIN stack : Whole(stack[i])
                  /\ mode = "execute" => Whole(current)
                  /\ \A k \in DOMAIN store : Whole(store[k])
                  /\ \A t \in DOMAIN tables : \A k \in DOMAIN tables[t] : Whole(tables[t][k])
                  /\ \A i \in DOMAIN acts : BodyIsWhole(i) /\ LoopsAreWhole(i)
  BY Zenon DEF NoNulls
<1> HIDE DEF BodyIsWhole, LoopsAreWhole
<1>8. QED BY <1>1, <1>2, <1>3, <1>4, <1>6, <1>7 DEF ValueInv

\* A value can be looked for among values.
LEMMA LookupIsSafe ==
  ASSUME WholeIsIntact, WholeValuesCompare, NEW keys, \A x \in keys : IsValue({}, x),
         NEW k, IsValue({}, k)
  PROVE  ~LookupFaults(keys, k)
<1>1. k # Null /\ Hashed(k)
  BY NotNull DEF WholeIsIntact
<1>2. \A x \in keys : ~Clash(k, x)
  BY DEF WholeValuesCompare, Clash
<1>3. QED BY <1>1, <1>2 DEF LookupFaults

\* Only the text of a value without a null in it can keep it from being converted.
LEMMA CastIsSafe ==
  ASSUME WholeIsIntact, WholeValuesCompare, NEW v, IsValue({}, v), NEW type,
         CastFaults(v, type)
  PROVE  ~Encodable(v)
<1>1. v # Null /\ Intact(v)
  BY NotNull DEF WholeIsIntact
<1>2. ASSUME IsA(v, "tuple") PROVE ~TupleCastFaults(v[2], type)
  <2>1. ValueSeq({}, v[2])
    BY <1>2, TupleHas DEF IsA
  <2>2. PICK s : s = v[2]
    OBVIOUS
  <2>3. PICK n \in Nat : n = Len(s) /\ DOMAIN s = 1..n
    BY <2>1, <2>2, SeqLength DEF ValueSeq
  <2>4. \A i \in DOMAIN s : IsValue({}, s[i]) /\ s[i] # Null
    BY <2>1, <2>2, NotNull DEF ValueSeq
  <2>5. ASSUME NEW i \in DOMAIN s, \A j \in 1..(i - 1) : Converts(s[j], "table"), IsPair(s[i])
        PROVE  ~LookupFaults(DOMAIN FoldTable(SubSeq(s, 1, i - 1)), s[i][2][1])
    <3> DEFINE t == SubSeq(s, 1, i - 1)
    <3>1. i \in 1..n /\ i - 1 \in Int /\ i - 1 <= n
      BY <2>3, <2>5, SMT
    <3>2. /\ Len(t) = IF 1 <= i - 1 THEN i - 1 ELSE 0
          /\ \A j \in 1..(i - 1) : t[j] = s[j]
      BY <2>1, <2>2, <2>3, <3>1, BottomIsSeq DEF ValueSeq
    <3>3. ValueSeq({}, t)
      BY <2>1, <2>2, <2>3, <3>1, BottomValues
    <3>4. \A j \in 1..(IF 1 <= i - 1 THEN i - 1 ELSE 0) : j \in 1..(i - 1)
      BY <3>1, SMT
    <3> HIDE DEF t
    <3>5. \A j \in 1..Len(t) : IsPair(t[j])
      BY <2>5, <3>2, <3>4 DEF Converts
    <3>6. \A x \in DOMAIN FoldTable(t) : IsValue({}, x)
      BY <3>3, <3>5, FoldIsTable DEF IsTable
    <3>7. IsValue({}, s[i][2][1])
      BY <2>4, <2>5, PairHas
    <3>8. QED BY <3>6, <3>7, LookupIsSafe DEF t
  <2>6. n = 2 => 2 \in 1..n
    BY SMT
  <2>7. ~TupleCastFaults(s, type)
    BY <2>3, <2>4, <2>5, <2>6 DEF TupleCastFaults
  <2>8. QED BY <2>2, <2>7
<1>3. QED BY <1>1, <1>2 DEF CastFaults

LEMMA AppendIsSafe ==
  ASSUME WholeIsIntact, WholeValuesCompare, NEW c, IsValue({}, c), NEW v, IsValue({}, v)
  PROVE  ~AppendFaults(c, v)
<1>1. v # Null
  BY NotNull
<1>2. c[1] = "set" => ~LookupFaults(c[2], v)
  BY SetHolds, LookupIsSafe
<1>3. c[1] = "table" /\ IsPair(v) => ~LookupFaults(DOMAIN c[2], v[2][1])
  BY TableHolds, PairHas, LookupIsSafe DEF IsTable
<1>4. c[1] = "table" => c[1] # "set"
  OBVIOUS
<1>5. QED BY <1>1, <1>2, <1>3, <1>4 DEF AppendFaults, Keys, IsA

\* An operation that finds the operands it asks for, without a null in them, meets
\* none; but select asks for none.
LEMMA OnlySelectFaults ==
  ASSUME WholeIsIntact, WholeValuesCompare, ValueSeq({}, stack), IsValue({}, current),
         Len(stack) >= Argc(current[1]), Faults(current[1])
  PROVE  Unencodable \/ (current[1] = "select" /\ stack = <<>>)
<1> DEFINE code == current[1]
           p1 == Operand(1)
           p2 == Operand(2)
           p3 == Operand(3)
<1>1. PICK n \in Nat : n = Len(stack)
  BY SeqLength DEF ValueSeq
<1>2. /\ n >= 1 => IsValue({}, p1) /\ p1 # Null
      /\ n >= 2 => IsValue({}, p1) /\ p1 # Null /\ IsValue({}, p2) /\ p2 # Null
  BY <1>1, Operands, NotNull
<1>3. /\ code \in OneArgument => n >= 1
      /\ code \in TwoArguments => n >= 2
      /\ code = "reduce" => n >= 2
  <2>1. /\ code \in OneArgument => Argc(code) = 1
        /\ code \in TwoArguments => Argc(code) = 2
        /\ code = "reduce" => Argc(code) = 3
    BY DEF Argc, OneArgument, TwoArguments, SignOps, ArithmeticOps, LogicalOps
  <2>2. n >= Argc(code)
    BY <1>1
  <2> HIDE DEF code
  <2>3. QED BY <2>1, <2>2, SMT
<1>4. n = 0 => stack = <<>>
  BY <1>1, EmptySeq DEF ValueSeq, IsSeq
<1> HIDE DEF p1, p2, p3
<1>5. n >= 2 => /\ Intact(p2) /\ Compare(p1, p2) # "fault"
                /\ ~AppendFaults(p2, p1)
                /\ CastFaults(p2, p1[2]) => ~Encodable(p2)
                /\ p2[1] \in {"set", "table"} => ~LookupFaults(Keys(p2), p1)
  <2>1. SUFFICES ASSUME n >= 2 PROVE
          /\ Intact(p2) /\ Compare(p1, p2) # "fault"
          /\ ~AppendFaults(p2, p1)
          /\ CastFaults(p2, p1[2]) => ~Encodable(p2)
          /\ p2[1] \in {"set", "table"} => ~LookupFaults(Keys(p2), p1)
    OBVIOUS
  <2>2. IsValue({}, p1) /\ IsValue({}, p2)
    BY <1>2, <2>1
  <2>3. Intact(p2) /\ Compare(p1, p2) # "fault"
    BY <2>2 DEF WholeIsIntact, WholeValuesCompare
  <2>4. ~AppendFaults(p2, p1) /\ (CastFaults(p2, p1[2]) => ~Encodable(p2))
    BY <2>2, AppendIsSafe, CastIsSafe
  <2>5. p2[1] = "set" => ~LookupFaults(p2[2], p1)
    BY <2>2, SetHolds, LookupIsSafe
  <2>6. p2[1] = "table" => ~LookupFaults(DOMAIN p2[2], p1)
    BY <2>2, TableHolds, LookupIsSafe DEF IsTable
  <2>7. p2[1] \in {"set", "table"} => ~LookupFaults(Keys(p2), p1)
    BY <2>5, <2>6 DEF Keys, IsA
  <2>8. QED BY <2>3, <2>4, <2>7
<1>5a. code = "select" /\ n >= 1 => ~LookupFaults(DOMAIN current[2], p1)
  BY <1>2, SelectHas, LookupIsSafe DEF code
<1>6. \/ code \in SignOps \cup {"not", "typeof", "map", "filter"} /\ p1 = Null
      \/ code = "select" /\ LookupFaults(DOMAIN current[2], p1)
      \/ code = "reduce" /\ p2 = Null
      \/ code \in ArithmeticOps /\ (p1 = Null \/ (IsA(p1, "number") /\ p2 = Null))
      \/ code \in LogicalOps /\ (p1 = Null \/ (IsA(p1, "boolean") /\ p2 = Null))
      \/ code = "eq" /\ (p1 = Null \/ Compare(p1, p2) = "fault")
      \/ code = "find" /\ p2[1] \in {"set", "table"} /\ LookupFaults(Keys(p2), p1)
      \/ code = "typecast" /\ IsA(p1, "type") /\ CastFaults(p2, p1[2])
      \/ code = "parse" /\ ~Encodable(p1)
      \/ code = "append" /\ (~Intact(p2) \/ AppendFaults(p2, p1))
  BY DEF Faults, p1, p2, IsA
<1> HIDE DEF code
<1>7. /\ code \in SignOps \cup {"not", "typeof"} => code \in OneArgument
      /\ code \in ArithmeticOps \cup LogicalOps \cup
           {"map", "filter", "eq", "find", "typecast", "append"} => code \in TwoArguments
  BY DEF OneArgument, TwoArguments
<1>8. n >= 2 => n >= 1
  BY SMT
<1>9. \/ code = "select" /\ ~(n >= 1)
      \/ code = "typecast" /\ ~Encodable(p2)
      \/ code = "parse" /\ ~Encodable(p1)
  BY <1>2, <1>3, <1>5, <1>5a, <1>6, <1>7, <1>8
<1>10. ~(n >= 1) => n = 0
  BY SMT
<1>11. Argc("typecast") = 2 /\ Argc("parse") = 1
  BY DEF Argc, OneArgument, TwoArguments, SignOps, ArithmeticOps, LogicalOps
<1>12. CASE code = "typecast" /\ ~Encodable(p2)
  <2>1. current[1] = "typecast" /\ Argc(current[1]) = 2
    BY <1>11, <1>12 DEF code
  <2>2. Operand(Argc(current[1])) = p2
    BY <2>1 DEF p2
  <2>3. ~Encodable(Operand(Argc(current[1])))
    BY <1>12, <2>2
  <2>4. QED BY <2>1, <2>3 DEF Unencodable
<1>13. CASE code = "parse" /\ ~Encodable(p1)
  <2>1. current[1] = "parse" /\ Argc(current[1]) = 1
    BY <1>11, <1>13 DEF code
  <2>2. Operand(Argc(current[1])) = p1
    BY <2>1 DEF p1
  <2>3. ~Encodable(Operand(Argc(current[1])))
    BY <1>13, <2>2
  <2>4. QED BY <2>1, <2>3 DEF Unencodable
<1>14. QED BY <1>4, <1>9, <1>10, <1>12, <1>13 DEF code

\* The steps that end the process, from a state without a null.
LEMMA LeafCrashes ==
  ASSUME WholeIsIntact, WholeValuesCompare, ValueInv({}), Leaf, mode' = "undefined"
  PROVE  Unencodable \/ (current[1] = "select" /\ stack = <<>>)
<1>1. CASE RejectArguments
  BY <1>1 DEF RejectArguments, Fail, Return
<1>2. CASE EndProcess
  <2>1. ValueSeq({}, stack) /\ IsValue({}, current)
    BY <1>2 DEF ValueInv, StackOfValues, EndProcess
  <2>2. QED BY <1>2, <2>1, OnlySelectFaults DEF EndProcess
<1>3. CASE Accepted /\ DoExecute
  <2>1. \/ \E stk : Succeed(stk)
        \/ \E stk, code : Fail(stk, code)
        \/ \E stk : \E result \in {"HALT", "EXIT_BLOCK", "RESTART_BLOCK"} : Return(stk, result)
    BY <1>3 DEF DoExecute, Nop, Halt, Break, Loop, Push, Dup, Pop, Swap, ResetStack,
                BinaryArithmetic, UnaryArithmetic, BinaryLogical, Not, Equals, Typeof, Size,
                Typecast, Parse, At, Find, AppendItem, Pack, Unpack
  <2>2. QED BY <2>1 DEF Succeed, Fail, Return
<1>4. QED BY <1>1, <1>2, <1>3 DEF Leaf

LEMMA NoSlot == ASSUME Inv, CurrentSlot = 0 PROVE slots = <<>>
<1>1. CASE slots # <<>>
  <2>1. CurrentSlot = Last(slots) /\ Last(slots) \in DOMAIN tables
    BY <1>1, LastOfSeq, SeqIsSeq, ElementOfSeq DEF Inv, TypeOK, CurrentSlot, Last
  <2>2. PICK m \in Nat : DOMAIN tables = 1..m
    BY SeqLength DEF Inv, TypeOK
  <2>3. 0 \notin 1..m
    BY SMT
  <2>4. QED BY <2>1, <2>2, <2>3
<1>2. QED BY <1>1

LEMMA CallbackCrashes ==
  ASSUME WholeIsIntact, WholeValuesCompare, Inv, ValueInv({}), CallbackResult,
         mode' = "undefined"
  PROVE  Emptied
<1>1. /\ mode = "SUCCESS" /\ Looping
      /\ \/ AppendFaults(TheLoop.acc, Operand(1))
         \/ AppendFaults(TheLoop.acc, TheLoop.items[TheLoop.next - 1])
  BY DEF CallbackResult, MapResult, FilterResult, ReduceResult, Grow, FailLoop, Fail, Return,
         Accumulate
<1>2. IsLoop({}, TheLoop, TRUE)
  BY <1>1, LoopInHand
<1>2a. IsValue({}, TheLoop.items[TheLoop.next - 1])
  <2>1. PICK n \in Nat : n = Len(TheLoop.items)
    BY <1>2, SeqLength DEF IsLoop, ValueSeq
  <2>2. TheLoop.next - 1 \in 1..n
    BY <1>2, <2>1 DEF IsLoop
  <2>3. QED BY <1>2, <2>1, <2>2, ValueOfSeq DEF IsLoop
<1>3. ~IsValue({}, Operand(1))
  BY <1>1, <1>2, <1>2a, AppendIsSafe DEF IsLoop
<1>4. ValueSeq({}, stack)
  BY DEF ValueInv, StackOfValues
<1>5. PICK n \in Nat : n = Len(stack)
  BY <1>4, SeqLength DEF ValueSeq
<1>6. ~(n >= 1)
  BY <1>3, <1>4, <1>5, Operands
<1>7. n = 0
  BY <1>6, SMT
<1>8. stack = <<>>
  BY <1>4, <1>5, <1>7, EmptySeq DEF ValueSeq, IsSeq
<1>9. QED BY <1>1, <1>8 DEF Emptied

LEMMA CrashCauses ==
  ASSUME WholeIsIntact, WholeValuesCompare, Inv, ValueInv({}), Next, mode' = "undefined"
  PROVE  \/ Emptied \/ mode = "idle" \/ Unencodable
         \/ current[1] = "select" /\ stack = <<>>
         \/ current[1] \in {"loadslot", "storeslot"} /\ slots = <<>>
<1>1. CASE ExecuteLeaf
  BY <1>1, LeafCrashes DEF ExecuteLeaf
<1>2. CASE Transfer
  <2>1. "undefined" \notin Results
    BY DEF Results
  <2>2. ~Native
    BY <2>1, NativesAssumption DEF Native, Return
  <2>3. QED BY <1>2, <2>2, Zenon DEF Transfer, Exec, IfTrue, Call, Select, PartialBind,
                                     Invoke, Succeed, Fail, Return
<1>3. CASE Load \/ Store \/ Clear
  BY <1>3 DEF Load, Store, Clear, Succeed, Fail, Return
<1>4. CASE LoadSlot \/ StoreSlot
  <2>1. current[1] \in {"loadslot", "storeslot"}
    BY <1>4 DEF LoadSlot, StoreSlot, Runs
  <2>2. CurrentSlot = 0
    BY <1>4 DEF LoadSlot, StoreSlot, Succeed, Fail, Return
  <2>3. QED BY <2>1, <2>2, NoSlot
<1>5. CASE Map \/ Filter \/ Reduce
  BY <1>5 DEF Map, Filter, StartTransform, Reduce, StartLoop, Fail, Return
<1>6. CASE NextItem \/ EndLoop
  BY <1>6 DEF NextItem, EndLoop, Invoke, Succeed, Return
<1>7. CASE CallbackResult
  BY <1>7, CallbackCrashes
<1>8. CASE EnterBlock \/ FetchOperation \/ EndOfBlock \/ BlockResult
  BY <1>8 DEF EnterBlock, FetchOperation, EndOfBlock, BlockResult, LeaveBlock, ContinueAt
<1>9. CASE (\E name \in Names : Execute(name)) \/ Finish
  BY <1>9 DEF Execute, Finish
<1>10. QED BY <1>1, <1>2, <1>3, <1>4, <1>5, <1>6, <1>7, <1>8, <1>9, Steps DEF Quiet

\* From a state without a null - anywhere, in any value, however deep, that a program can get
\* at - only a callback that comes back with an empty stack makes one; and only it, a name the
\* store lacks, a select with nothing to select by, a slot outside every block, or a text that
\* has no UTF-8 ends the process.
THEOREM NullsAreExplained ==
  ASSUME TextsAreText({Null}), ParserMakesValues({}), ProgramsAreValues({Null}),
         NativesPushValues({}),
         WholeMeans, WholeIsIntact, WholeValuesCompare
  PROVE  Spec => NullsHaveACause
<1>1. ParserMakesValues({Null}) /\ NativesPushValues({Null}) /\ TextsAreText({})
  BY NullsAllowed
<1>2. Spec => []Inv /\ []ValueInv({Null})
  BY <1>1, InvariantHolds, MachineHoldsValues, PTL
<1>3. ValueInv({Null}) => (NoNulls <=> ValueInv({}))
  BY NoNullsMeans
<1>4. Inv /\ ValueInv({}) /\ [Next]_vars => ValueInv({})' \/ Emptied
  BY <1>1, NextValues
<1>5. Inv /\ ValueInv({}) /\ Next /\ mode' = "undefined" =>
        \/ Emptied \/ mode = "idle" \/ Unencodable
        \/ current[1] = "select" /\ stack = <<>>
        \/ current[1] \in {"loadslot", "storeslot"} /\ slots = <<>>
  BY CrashCauses
<1>6. QED BY <1>2, <1>3, <1>4, <1>5, PTL DEF Spec, NullsHaveACause

=============================================================================
