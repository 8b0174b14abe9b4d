------------------------------- MODULE Listeners -------------------------------
(***************************************************************************)
(* The listeners of a MachineState (src/machine/state.cpp) and what they   *)
(* keep: the SlotsHandler the machine begins with a stack of slots, every  *)
(* MachineTracer its records.  An event goes to the listeners one after    *)
(* the other; the host adds and removes listeners between two events, and  *)
(* a listener may do so while it is called.                                *)
(*                                                                         *)
(* The list is a vector: its elements are moved by std::remove, which      *)
(* leaves the vector as long as it was, and by a push_back beyond its      *)
(* capacity, which takes the array away from a loop that walks it.         *)
(***************************************************************************)
EXTENDS Integers, Sequences

CONSTANTS
  Tracers,     \* the tracers the host has
  Blocks,      \* the blocks the machine may enter
  MaxIndex,    \* bound: the number of operations of a block, less one
  MaxDepth,    \* bound: the number of blocks entered and not left
  MaxListed    \* bound: the length of the list

\* The listeners are objects of their own, and no listener is null.
ASSUME ListenersAssumption ==
  /\ "SlotsHandler" \notin Tracers /\ "null" \notin Tracers
  /\ MaxIndex \in Nat

VARIABLES
  listeners,    \* mListeners
  capacity,     \* of its array
  activations,  \* the blocks the machine is in, outermost first, and the operation of each
  event,        \* what is being told, and the places it goes to: from "next" to "last"
  slots,        \* the slots the SlotsHandler pushed: their blocks
  records,      \* the records of each tracer
  removed,      \* the listeners someone tried to remove, or listed twice
  undefined     \* a null listener was called, or the loop lost its array

vars == <<listeners, capacity, activations, event, slots, records, removed, undefined>>

SlotsHandler == "SlotsHandler"
Null         == "null"
Quiet        == [tells |-> <<"nothing">>, next |-> 1, last |-> 0]
Telling      == event.next <= event.last

Record(b, i) == [block |-> b, index |-> i]
Back(s)      == s[Len(s)]
Front(s)     == SubSeq(s, 1, Len(s) - 1)

Init ==
  /\ listeners = <<SlotsHandler>> /\ capacity = 1
  /\ activations = <<>> /\ event = Quiet
  /\ slots = <<>> /\ records = [t \in Tracers |-> <<>>]
  /\ removed = {} /\ undefined = FALSE

-----------------------------------------------------------------------------
(***************************************************************************)
(* The list.                                                               *)
(***************************************************************************)
Listed(l) == \E i \in DOMAIN listeners : listeners[i] = l

\* The host calls, or a listener that is being called.
SomeoneCalls == ~undefined /\ (Telling => event.next > 1)

\* appendListener.  A push_back into a full array moves it away from the loop.
AppendListener(l) ==
  /\ SomeoneCalls /\ Len(listeners) < MaxListed
  /\ listeners' = Append(listeners, l)
  /\ capacity' = IF Len(listeners) = capacity THEN 2 * capacity ELSE capacity
  /\ undefined' = (Telling /\ capacity' # capacity)
  /\ removed' = IF Listed(l) THEN removed \cup {l} ELSE removed
  /\ UNCHANGED <<activations, event, slots, records>>

\* One turn of the loop of std::remove: what stays is moved behind the "kept" before it,
\* and the place it is moved from is null.
Passed(r, i, l) ==
  IF r.list[i] = l THEN r
  ELSE [list |-> IF r.kept + 1 = i THEN r.list
                 ELSE [r.list EXCEPT ![r.kept + 1] = r.list[i], ![i] = Null],
        kept |-> r.kept + 1]

Removed(s, l) ==
  LET sweep[i \in 0..Len(s)] ==
        IF i = 0 THEN [list |-> s, kept |-> 0]
        ELSE Passed(sweep[i - 1], i, l)
  IN  sweep[Len(s)].list

RemoveListener(l) ==
  /\ SomeoneCalls
  /\ listeners' = Removed(listeners, l)
  /\ removed' = removed \cup {l}
  /\ UNCHANGED <<capacity, activations, event, slots, records, undefined>>

-----------------------------------------------------------------------------
(***************************************************************************)
(* Events.                                                                 *)
(***************************************************************************)
Tell(what) ==
  /\ ~Telling /\ ~undefined
  /\ event' = [tells |-> what, next |-> 1, last |-> Len(listeners)]
  /\ UNCHANGED <<listeners, capacity, slots, records, removed, undefined>>

EnterBlock(b) ==
  /\ Len(activations) < MaxDepth
  /\ Tell(<<"entering", b>>)
  /\ activations' = Append(activations, Record(b, 0))

ExecuteOperation(i) ==
  /\ activations # <<>>
  /\ Tell(<<"executing", i>>)
  /\ activations' = [activations EXCEPT ![Len(activations)].index = i]

LeaveBlock ==
  /\ activations # <<>>
  /\ Tell(<<"leaving">>)
  /\ activations' = Front(activations)

\* Mutant: the last slot is never popped.
MutantHandleSlots ==
  /\ slots' = CASE event.tells[1] = "entering" -> Append(slots, event.tells[2])
                [] event.tells[1] = "leaving" /\ Len(slots) > 1 -> Front(slots)
                [] OTHER -> slots
  /\ UNCHANGED records
\* SlotsHandler; popSlot leaves an empty stack alone.
HandleSlots ==
  /\ slots' = CASE event.tells[1] = "entering" -> Append(slots, event.tells[2])
                [] event.tells[1] = "leaving" /\ slots # <<>> -> Front(slots)
                [] OTHER -> slots
  /\ UNCHANGED records

\* Mutant: the first record is the one that counts.
MutantTracerRecords(r) ==
  CASE event.tells[1] = "entering" -> Append(r, Record(event.tells[2], 0))
    [] event.tells[1] = "executing" /\ r # <<>> -> [r EXCEPT ![1].index = event.tells[2]]
    [] event.tells[1] = "leaving" /\ r # <<>> -> Front(r)
    [] OTHER -> r
\* MachineTracer; events about blocks it did not see entered find no record.
TracerRecords(r) ==
  CASE event.tells[1] = "entering" -> Append(r, Record(event.tells[2], 0))
    [] event.tells[1] = "executing" /\ r # <<>> -> [r EXCEPT ![Len(r)].index = event.tells[2]]
    [] event.tells[1] = "leaving" /\ r # <<>> -> Front(r)
    [] OTHER -> r

Trace(t) ==
  /\ records' = [records EXCEPT ![t] = TracerRecords(@)]
  /\ UNCHANGED slots

\* Mutant: the loop passes over a null and goes on.
MutantDeliver ==
  /\ Telling /\ ~undefined
  /\ event' = [event EXCEPT !.next = @ + 1]
  /\ \E l \in {listeners[event.next]} :
       \/ l = SlotsHandler /\ HandleSlots
       \/ l \in Tracers /\ Trace(l)
       \/ l = Null /\ UNCHANGED <<slots, records>>
  /\ UNCHANGED <<listeners, capacity, activations, removed, undefined>>
Deliver ==
  /\ Telling /\ ~undefined
  /\ event' = [event EXCEPT !.next = @ + 1]
  /\ \E l \in {listeners[event.next]} :
       \/ l = SlotsHandler /\ HandleSlots /\ UNCHANGED undefined
       \/ l \in Tracers /\ Trace(l) /\ UNCHANGED undefined
       \/ l = Null /\ undefined' = TRUE /\ UNCHANGED <<slots, records>>
  /\ UNCHANGED <<listeners, capacity, activations, removed>>

Next ==
  \/ \E t \in Tracers : AppendListener(t)
  \/ \E l \in Tracers \cup {SlotsHandler} : RemoveListener(l)
  \/ \E b \in Blocks : EnterBlock(b)
  \/ \E i \in 0..MaxIndex : ExecuteOperation(i)
  \/ LeaveBlock
  \/ Deliver

Spec == Init /\ [][Next]_vars

\* The machine goes on with the loop that tells an event.
FairSpec == Spec /\ WF_vars(Deliver)

-----------------------------------------------------------------------------
(***************************************************************************)
(* Properties.                                                             *)
(***************************************************************************)
Listener    == Tracers \cup {SlotsHandler}
Activations == Seq([block : Blocks, index : 0..MaxIndex])
Events      == {<<"nothing">>, <<"leaving">>} \cup ({"entering"} \X Blocks)
               \cup ({"executing"} \X (0..MaxIndex))

\* The loop stays inside the list, and the list inside its array.
TypeOK ==
  /\ listeners \in Seq(Listener \cup {Null})
  /\ Len(listeners) <= capacity
  /\ activations \in Activations
  /\ event.tells \in Events /\ event.next \in 1..(event.last + 1) /\ event.last <= Len(listeners)
  /\ slots \in Seq(Blocks)
  /\ records \in [Tracers -> Activations]
  /\ removed \subseteq Listener
  /\ undefined \in BOOLEAN

\* Whoever comes and goes, before, between or during the events, the slots are those of
\* the blocks the machine is in, unless someone tried to remove the SlotsHandler.
SlotsFollowTheBlocks ==
  ~Telling /\ ~undefined /\ SlotsHandler \notin removed =>
    slots = [i \in DOMAIN activations |-> activations[i].block]

\* A tracer knows the innermost blocks, those entered since it was appended, and where
\* each of them is, even if it is moved forward in the list while the others are told: a
\* loop that passes over a listener leaves a null in the list, for good.
TracersSeeTheirBlocks ==
  ~Telling /\ ~undefined /\ ~Listed(Null) =>
    \A t \in Tracers \ removed :
      \E n \in 0..Len(activations) :
        records[t] = SubSeq(activations, n + 1, Len(activations))

\* An event that finds a null in the list is the last one, whoever is moved where by the
\* listeners that are called before it is reached, unless one of them appends another.
NullsAreFatal ==
  Telling /\ event.next = 1 /\ Listed(Null) ~> undefined \/ Len(listeners) > event.last

=============================================================================
