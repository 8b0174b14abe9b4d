----------------------------- MODULE CallStack -----------------------------
(***************************************************************************)
(* What running a program promises an observer of MachineEventsListener,   *)
(* and nothing about how: blocks are entered and left in stack order, one  *)
(* event for each, and a halt or an error, once it has come back from an   *)
(* operation, ends the run.  After it no block is entered and nothing      *)
(* turns it back into a success; all that is left is to leave every block  *)
(* in progress.                                                            *)
(***************************************************************************)
EXTENDS Integers, Sequences

CONSTANT Blocks

VARIABLES
  calls,    \* the blocks entered and not left, innermost last
  running,  \* a call of MachineState::execute is in progress
  doomed,   \* its fate is sealed: a halt or an error is on its way out
  crashed   \* the process is gone

callStackVars == <<calls, running, doomed, crashed>>

Init == calls = <<>> /\ ~running /\ ~doomed /\ ~crashed

Begin == /\ ~running /\ ~crashed
         /\ running' = TRUE
         /\ UNCHANGED <<calls, doomed, crashed>>

Enter == /\ running /\ ~doomed
         /\ \E b \in Blocks : calls' = Append(calls, b)
         /\ UNCHANGED <<running, doomed, crashed>>

Leave == /\ running /\ calls # <<>>
         /\ calls' = SubSeq(calls, 1, Len(calls) - 1)
         /\ UNCHANGED <<running, doomed, crashed>>

\* A halt or an error comes back from an operation.
Doom == /\ running /\ ~doomed
        /\ doomed' = TRUE
        /\ UNCHANGED <<calls, running, crashed>>

End == /\ running /\ calls = <<>>
       /\ running' = FALSE
       /\ doomed' = FALSE
       /\ UNCHANGED <<calls, crashed>>

\* A run that is on its way out does not get to dereference anything.
Crash == /\ ~crashed /\ ~(running /\ doomed)
         /\ running' = FALSE
         /\ doomed' = FALSE
         /\ crashed' = TRUE
         /\ UNCHANGED calls

Next == Begin \/ Enter \/ Leave \/ Doom \/ End \/ Crash

Spec == Init /\ [][Next]_callStackVars

=============================================================================
