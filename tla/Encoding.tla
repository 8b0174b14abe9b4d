------------------------------- MODULE Encoding -------------------------------
(***************************************************************************)
(* The bytes of a file, as functions: what Serializer                      *)
(* (src/stream/serializer.cpp) writes for a number, a name, a block of     *)
(* data or a boolean, and what ByteStream (src/stream/byte_stream.cpp)     *)
(* makes of a file from a given place on.                                  *)
(*                                                                         *)
(* A reader is a record: the file, how many of its bytes are consumed, and *)
(* what the last call returned.  Module ByteStream has the loops of the    *)
(* code; through module Cursor it is checked to return what these          *)
(* functions return.                                                       *)
(***************************************************************************)
EXTENDS Integers, Sequences

CONSTANTS
  Radix,        \* the values of a byte (256)
  NumberBytes,  \* the default width of a number (8)
  Widths        \* the widths a number may have (1, 2, 4, 8)

Nothing       == <<"nothing">>
Some(type, v) == <<type, v>>

(***************************************************************************)
(* Serializer: numbers are written most significant byte first, and a      *)
(* number that is too large for its width loses its upper bytes.           *)
(***************************************************************************)
\* Mutant: least significant byte first.
MutantWriteNumber(n, width) == [i \in 1..width |-> (n \div Radix ^ (i - 1)) % Radix]
WriteNumber(n, width) ==
  IF width \in Widths THEN [i \in 1..width |-> (n \div Radix ^ (width - i)) % Radix]
                      ELSE <<>>

\* Mutant: the closing marker is forgotten.
MutantWriteIdentifier(s, marker) == <<marker>> \o s
WriteIdentifier(s, marker) == <<marker>> \o s \o <<marker>>

WriteData(s)    == WriteNumber(Len(s), NumberBytes) \o s
WriteBoolean(b) == WriteNumber(IF b THEN 1 ELSE 0, 1)

(***************************************************************************)
(* ByteStream: every call returns what it was asked for and moves past it, *)
(* or returns nothing.                                                     *)
(***************************************************************************)
Left(s)     == Len(s.file) - s.at
Ahead(s, i) == s.file[s.at + i]
Slice(s, n) == SubSeq(s.file, s.at + 1, s.at + n)

Give(s, n, v) == [s EXCEPT !.at = @ + n, !.v = v]
Refuse(s)     == [s EXCEPT !.v = Nothing]

BigEndian(b) == LET v[i \in 0..Len(b)] == IF i = 0 THEN 0 ELSE v[i - 1] * Radix + b[i]
                IN  v[Len(b)]

\* The first b at or after the i-th byte that is left, if there is one.
Positions(s, i, b) == {j \in i..Left(s) : Ahead(s, j) = b}
First(S)           == CHOOSE i \in S : \A j \in S : i <= j

PeekByte(s) == IF Left(s) > 0 THEN Give(s, 0, Some("byte", Ahead(s, 1))) ELSE Refuse(s)

\* next, nextIf and nextIfNot.
TakeByte(s, accepted) ==
  IF Left(s) = 0 THEN Refuse(s)
  ELSE IF Ahead(s, 1) \in accepted THEN Give(s, 1, Some("byte", Ahead(s, 1))) ELSE Refuse(s)

\* A number is taken whole or not at all.
ReadNumber(s, n) ==
  IF n <= Left(s) THEN Give(s, n, Some("number", BigEndian(Slice(s, n)))) ELSE Refuse(s)

\* A byte that is no boolean is lost.
ReadBoolean(s) ==
  IF Left(s) = 0 THEN Refuse(s)
  ELSE Give(s, 1, IF Ahead(s, 1) \in {0, 1} THEN Some("boolean", Ahead(s, 1) = 1) ELSE Nothing)

\* Up to and with the byte; what there is, when the byte does not come.
ReadUntil(s, b) ==
  LET found == Positions(s, 1, b) IN
  IF found = {} THEN Give(s, Left(s), <<"cut", Slice(s, Left(s))>>)
                ELSE Give(s, First(found), Some("bytes", Slice(s, First(found))))

\* A name is what lies between two markers.
ReadIdentifier(s, marker) ==
  LET found == Positions(s, 2, marker) IN
  IF Positions(s, 1, marker) = {} \/ Ahead(s, 1) # marker THEN Refuse(s)
  ELSE IF found = {} THEN Give(s, Left(s), Nothing)
  ELSE Give(s, First(found), Some("bytes", SubSeq(Slice(s, First(found) - 1), 2, First(found) - 1)))

\* A length, then as many bytes; the length is gone when the bytes are not there.
ReadData(s) ==
  LET n == ReadNumber(s, NumberBytes) IN
  IF n.v = Nothing THEN Refuse(s)
  ELSE IF n.v[2] <= Left(n) THEN Give(n, n.v[2], Some("bytes", Slice(n, n.v[2])))
  ELSE Refuse(n)

=============================================================================
