------------------------------ MODULE ByteStream ------------------------------
(***************************************************************************)
(* A file being read (src/stream/byte_stream.cpp).                         *)
(*                                                                         *)
(* The code keeps mOffset, the index of the byte it consumed last, or      *)
(* nothing before the first one, and moves it in one place: next().  The   *)
(* functions that read more than a byte loop over next(); one step here is *)
(* one turn of such a loop, and call, want, val and bytes are the loop's   *)
(* locals.  Sizes are size_t: sums are taken modulo Word.                  *)
(***************************************************************************)
EXTENDS Integers, Sequences

CONSTANTS
  Radix,        \* the values of a byte (256)
  Word,         \* the values of a size_t and of a uint64_t (2^64)
  NumberBytes,  \* the default width of readNumber (8)
  Widths,       \* the widths readNumber is asked for
  Files         \* what the mapped files may hold

Bytes == 0..(Radix - 1)

\* anonymous and fromFile hand out no stream over an empty file.
ASSUME StreamAssumption ==
  /\ Radix \in Nat \ {0} /\ Word \in Nat \ {0} /\ NumberBytes \in Nat \ {0}
  /\ Widths \subseteq Nat \ {0}
  /\ \A f \in Files : f \in Seq(Bytes) /\ f # <<>> /\ Len(f) < Word

VARIABLES
  data,    \* mBasePointer and mSize: the file
  offset,  \* mOffset
  call,    \* the function that is running, "none" between calls
  want,    \* its n, the bytes still to come, or the byte it looks for
  val,     \* readNumber's val
  bytes,   \* what it has read so far
  begun,   \* mOffset when it was called
  result   \* what the last call returned

locals == <<want, val, bytes>>
vars   == <<data, offset, call, want, val, bytes, begun, result>>

None    == -1
Outside == -1                 \* whatever lies past the end of the mapping
Nothing == <<"nothing">>
Some(type, v) == <<type, v>>
Size    == Len(data)

PeekOffset == IF offset = None THEN 0 ELSE offset + 1
Eof        == (IF offset = None THEN 0 ELSE offset) >= Size

\* Mutant: one byte too many is promised once something has been read.
MutantHasAtLeast(n) ==
  ~Eof /\ IF offset = None THEN n <= Size ELSE (offset + n) % Word <= Size
HasAtLeast(n) ==
  ~Eof /\ IF offset = None THEN n <= Size ELSE (offset + n) % Word < Size

ByteAt(o) == IF o < Size THEN data[o + 1] ELSE Outside
CanPeek   == ~Eof /\ HasAtLeast(1)
Peeked    == ByteAt(PeekOffset)

\* next(): it moves first and looks at the end afterwards.
Available  == ~Eof /\ PeekOffset < Size
\* Mutant: the offset moves on at the end of the file, too.
MutantMoveOffset == offset' = PeekOffset
MoveOffset == offset' = IF Eof THEN offset ELSE PeekOffset

\* The stream is handed out with nothing read.
Opened ==
  /\ offset = None /\ begun = None
  /\ call = "none"
  /\ want = 0 /\ val = 0 /\ bytes = <<>>
  /\ result = Nothing

Init == data \in Files /\ Opened

Return(r) ==
  /\ result' = r
  /\ call' = "none"
  /\ want' = 0 /\ val' = 0 /\ bytes' = <<>>
  /\ begun' = offset'

Begin(function, n) ==
  /\ call' = function /\ want' = n /\ val' = 0 /\ bytes' = <<>>
  /\ UNCHANGED result

-----------------------------------------------------------------------------
(***************************************************************************)
(* The calls that need no loop.                                            *)
(***************************************************************************)
Peek ==
  /\ call = "none"
  /\ UNCHANGED <<data, offset>>
  /\ Return(IF CanPeek THEN Some("byte", Peeked) ELSE Nothing)

Next1 ==
  /\ call = "none"
  /\ MoveOffset
  /\ Return(IF Available THEN Some("byte", Peeked) ELSE Nothing)
  /\ UNCHANGED data

NextIf(b) ==
  /\ call = "none"
  /\ \/ CanPeek /\ Peeked = b /\ offset' = PeekOffset /\ Return(Some("byte", b))
     \/ ~(CanPeek /\ Peeked = b) /\ UNCHANGED offset /\ Return(Nothing)
  /\ UNCHANGED data

NextIfNot(b) ==
  /\ call = "none"
  /\ \/ CanPeek /\ Peeked # b /\ offset' = PeekOffset /\ Return(Some("byte", Peeked))
     \/ ~(CanPeek /\ Peeked # b) /\ UNCHANGED offset /\ Return(Nothing)
  /\ UNCHANGED data

(***************************************************************************)
(* Numbers, booleans, and data: readBoolean and readData begin with a call *)
(* of readNumber.                                                          *)
(***************************************************************************)
ReadCounted(function, n) ==
  /\ call = "none"
  /\ UNCHANGED <<data, offset>>
  /\ \/ HasAtLeast(n) /\ Begin(function, n) /\ begun' = offset
     \/ ~HasAtLeast(n) /\ Return(Nothing)

ReadNumber(n) == ReadCounted("number", n)
ReadBoolean   == ReadCounted("boolean", 1)
ReadData      == ReadCounted("length", NumberBytes)

Counting == call \in {"number", "boolean", "length", "data"}

CountedByte ==
  /\ Counting /\ want > 0
  /\ MoveOffset
  /\ \/ /\ Available
        /\ want' = want - 1
        /\ val' = (val * Radix + Peeked) % Word
        /\ bytes' = Append(bytes, Peeked)
        /\ UNCHANGED <<call, begun, result>>
     \/ ~Available /\ Return(Nothing)
  /\ UNCHANGED data

NumberDone  == call = "number" /\ Return(Some("number", val))
BooleanDone ==
  /\ call = "boolean"
  /\ Return(IF val \in {0, 1} THEN Some("boolean", val = 1) ELSE Nothing)
DataDone    == call = "data" /\ Return(Some("bytes", bytes))

\* The length is known: are there as many bytes?  The sum in hasAtLeast may wrap.
LengthDone ==
  /\ call = "length"
  /\ \/ HasAtLeast(val) /\ Begin("data", val) /\ UNCHANGED begun
     \/ ~HasAtLeast(val) /\ Return(Nothing)

CountedDone ==
  /\ Counting /\ want = 0
  /\ UNCHANGED <<data, offset>>
  /\ NumberDone \/ BooleanDone \/ DataDone \/ LengthDone

(***************************************************************************)
(* Reading up to a byte: readUntil keeps it, readIdentifier drops it.      *)
(***************************************************************************)
ReadUntil(b) ==
  /\ call = "none"
  /\ Begin("until", b) /\ begun' = offset
  /\ UNCHANGED <<data, offset>>

ReadIdentifier(marker) ==
  /\ call = "none"
  /\ \/ /\ CanPeek /\ Peeked = marker
        /\ MoveOffset
        /\ Begin("identifier", marker) /\ begun' = offset
     \/ ~(CanPeek /\ Peeked = marker) /\ UNCHANGED offset /\ Return(Nothing)
  /\ UNCHANGED data

\* Mutant: the loop does not look whether there was a byte.
MutantUntilByte ==
  /\ call = "until"
  /\ MoveOffset
  /\ \/ Available /\ Peeked = want /\ Return(Some("bytes", Append(bytes, Peeked)))
     \/ /\ ~(Available /\ Peeked = want)
        /\ bytes' = IF Available THEN Append(bytes, Peeked) ELSE bytes
        /\ UNCHANGED <<call, want, val, begun, result>>
  /\ UNCHANGED data

UntilByte ==
  /\ call = "until"
  /\ MoveOffset
  /\ \/ ~Available /\ Return(<<"cut", bytes>>)
     \/ Available /\ Peeked = want /\ Return(Some("bytes", Append(bytes, Peeked)))
     \/ /\ Available /\ Peeked # want
        /\ bytes' = Append(bytes, Peeked)
        /\ UNCHANGED <<call, want, val, begun, result>>
  /\ UNCHANGED data

\* Mutant: a name the file cuts short is taken for a name.
MutantIdentifierByte ==
  /\ call = "identifier"
  /\ MoveOffset
  /\ \/ (~Available \/ Peeked = want) /\ Return(Some("bytes", bytes))
     \/ /\ Available /\ Peeked # want
        /\ bytes' = Append(bytes, Peeked)
        /\ UNCHANGED <<call, want, val, begun, result>>
  /\ UNCHANGED data

IdentifierByte ==
  /\ call = "identifier"
  /\ MoveOffset
  /\ \/ ~Available /\ Return(Nothing)
     \/ Available /\ Peeked = want /\ Return(Some("bytes", bytes))
     \/ /\ Available /\ Peeked # want
        /\ bytes' = Append(bytes, Peeked)
        /\ UNCHANGED <<call, want, val, begun, result>>
  /\ UNCHANGED data

Progress == CountedByte \/ CountedDone \/ UntilByte \/ IdentifierByte

Next ==
  \/ Progress
  \/ Peek \/ Next1 \/ ReadBoolean \/ ReadData
  \/ \E b \in Bytes : NextIf(b) \/ NextIfNot(b) \/ ReadUntil(b) \/ ReadIdentifier(b)
  \/ \E n \in Widths : ReadNumber(n)

Spec     == Init /\ [][Next]_vars
\* The loops run on one thread, which nothing stops.
FairSpec == Spec /\ WF_vars(Progress)

-----------------------------------------------------------------------------
(***************************************************************************)
(* Properties.                                                             *)
(***************************************************************************)

\* The offset never leaves the file by more than the one step next() takes to find
\* the end, and the loops' locals have their shape.
TypeOK ==
  /\ data \in Files
  /\ offset \in None..Size /\ begun \in None..Size
  /\ call \in {"none", "number", "boolean", "length", "data", "until", "identifier"}
  /\ want \in Nat /\ val \in Nat
  /\ bytes \in Seq(Bytes)

\* No byte a call looks at or returns lies past the end of the file, although
\* hasAtLeast adds to the offset without a thought for overflow.
NoReadPastEnd ==
  /\ CanPeek => PeekOffset < Size
  /\ result # Some("byte", Outside)
  /\ \A i \in DOMAIN bytes : bytes[i] # Outside

\* The stream is a cursor; while a loop runs, the cursor stands where it was called.
Clip(n)  == IF n > Size THEN Size ELSE n
Position == IF call = "none" THEN offset ELSE begun
Seen     == INSTANCE Cursor WITH pos <- Clip(Position + 1)

\* No number the stream is asked for is wider than its word, and a file leaves room in the
\* address space for one of them.
ASSUME WidthAssumption ==
  \A w \in Widths \cup {1, NumberBytes} :
    /\ \A f \in Files : Len(f) + w <= Word
    /\ \A n \in 0..w : \A b \in [1..n -> Bytes] : Seen!BigEndian(b) < Word

\* Every call keeps the cursor's promise: a number is taken whole or not at all, a
\* name up to its closing marker, and nothing is returned that is not in the file.
ImplementsCursor == Seen!Spec

\* Every loop ends: no file, whatever lengths it claims, keeps a reader for ever.
CallsReturn == call # "none" ~> call = "none"

=============================================================================
