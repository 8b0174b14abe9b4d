-------------------------------- MODULE Cursor --------------------------------
(***************************************************************************)
(* What a ByteStream promises: a file and a position in it, the number of  *)
(* bytes consumed.  Every call is one step, and does what the functions of *)
(* module Encoding say.                                                    *)
(***************************************************************************)
EXTENDS Encoding

VARIABLES data, pos, result

vars == <<data, pos, result>>

Bytes == 0..(Radix - 1)
Now   == [file |-> data, at |-> pos, v |-> result]

Move(s) == pos' = s.at /\ result' = s.v

\* When a file promises more data than it has, a length or all of the file is lost.
Data ==
  \/ Move(ReadData(Now))
  \/ ReadData(Now).at > pos /\ ReadData(Now).v = Nothing
     /\ pos' = Len(data) /\ result' = Nothing

Next ==
  /\ \/ Move(PeekByte(Now)) \/ Move(TakeByte(Now, Bytes)) \/ Move(ReadBoolean(Now)) \/ Data
     \/ \E b \in Bytes : \/ Move(TakeByte(Now, {b})) \/ Move(TakeByte(Now, Bytes \ {b}))
                         \/ Move(ReadUntil(Now, b)) \/ Move(ReadIdentifier(Now, b))
     \/ \E n \in Widths : Move(ReadNumber(Now, n))
  /\ UNCHANGED data

Init == pos = 0 /\ result = Nothing /\ data # <<>>
Spec == Init /\ [][Next]_vars

=============================================================================
