--------------------------- MODULE ByteStreamProofs ---------------------------
(***************************************************************************)
(* A ByteStream never reads past the end of its file and implements the    *)
(* abstract reader, for every file and every sequence of calls; what a     *)
(* Serializer writes, it reads back (module Wire).  The type invariant     *)
(* alone is not inductive for the first: the results must be bytes, too    *)
(* (Inv).                                                                  *)
(***************************************************************************)
EXTENDS Wire, DataLemmas, SequenceTheorems, TLAPS

ResultIsAByte == \A b : result = Some("byte", b) => b \in Bytes
Inv == TypeOK /\ ResultIsAByte

\* A sum that stays below the modulus is not changed by it.
LEMMA SmallRemainder == ASSUME NEW n \in Nat, NEW m \in Nat, n < m PROVE n % m = n
  BY SMT

LEMMA RemainderIsNat == ASSUME NEW n \in Int, NEW m \in Nat \ {0} PROVE n % m \in Nat
  BY SMT

\* What the invariant says of the file and of the place in it.
LEMMA Sizes == ASSUME TypeOK PROVE /\ Size \in Nat \ {0} /\ Size < Word /\ Word \in Nat \ {0}
                                   /\ data \in Seq(Bytes) /\ PeekOffset \in Nat
                                   /\ PeekOffset = offset + 1
                                   /\ offset \in Int /\ -1 <= offset /\ offset <= Size
<1>1. data \in Seq(Bytes) /\ data # <<>> /\ Size < Word /\ Word \in Nat \ {0}
  BY StreamAssumption DEF TypeOK, Size
<1>2. Size \in Nat \ {0}
  BY <1>1, SMT DEF Size, Bytes
<1> HIDE DEF Size
<1>3. offset \in Int /\ -1 <= offset /\ offset <= Size
  BY <1>2, SMT DEF TypeOK, None
<1>4. PeekOffset \in Nat /\ PeekOffset = offset + 1
  BY <1>3, SMT DEF PeekOffset, None
<1>5. QED BY <1>1, <1>2, <1>3, <1>4

\* The bytes of the file are bytes.
LEMMA InsideIsAByte == ASSUME TypeOK, NEW o \in Nat, o < Size PROVE ByteAt(o) \in Bytes
<1>1. data \in Seq(Bytes) /\ Size \in Nat
  BY Sizes
<1>2. o + 1 \in 1..Size
  BY <1>1, SMT
<1>3. QED BY <1>1, <1>2, SMT DEF ByteAt, Size

\* Where peek() looks there is a byte: the sum in hasAtLeast(1) is too small to wrap.
LEMMA PeekIsInside == ASSUME TypeOK, CanPeek PROVE PeekOffset < Size /\ Peeked \in Bytes
<1> USE Sizes
<1>1. PeekOffset < Size
  <2>1. CASE offset = None
    BY <2>1, SMT DEF PeekOffset, None
  <2>2. CASE offset # None
    <3>1. offset \in Nat /\ offset < Size /\ (offset + 1) % Word < Size
      BY <2>2, SMT DEF CanPeek, HasAtLeast, Eof, None
    <3>2. CASE offset + 1 = Word
      BY <3>1, <3>2, SMT
    <3>3. CASE offset + 1 < Word
      <4>1. (offset + 1) % Word = offset + 1
        BY <3>1, <3>3, SmallRemainder
      <4>2. QED BY <3>1, <4>1
    <3>4. QED BY <3>1, <3>2, <3>3, SMT
  <2>3. QED BY <2>1, <2>2
<1>2. QED BY <1>1, InsideIsAByte DEF Peeked

LEMMA AvailableIsInside == ASSUME TypeOK, Available PROVE Peeked \in Bytes
  BY Sizes, InsideIsAByte DEF Available, Peeked

\* One call of next() keeps the offset within the file.
LEMMA MoveKeepsOffset == ASSUME TypeOK, MoveOffset PROVE offset' \in None..Size
  BY Sizes, SMT DEF MoveOffset, Eof, None

LEMMA PeekKeepsOffset == ASSUME TypeOK, CanPeek PROVE PeekOffset \in None..Size
  BY Sizes, PeekIsInside, SMT DEF None

\* Returning anything that is no byte, or a byte, restores the shape of the locals.
LEMMA ReturnKeepsInv ==
  ASSUME Inv, UNCHANGED data, offset' \in None..Size, NEW r, Return(r),
         \A b : r = Some("byte", b) => b \in Bytes
  PROVE  Inv'
<1>1. TypeOK'
  <2>1. data' \in Files /\ offset' \in None..Size'
    BY DEF Inv, TypeOK, Size
  <2>2. begun' \in None..Size'
    BY <2>1 DEF Return
  <2>3. QED BY <2>1, <2>2, SMT DEF Return, TypeOK
<1>2. ResultIsAByte'
  BY DEF Return, ResultIsAByte
<1>3. QED BY <1>1, <1>2 DEF Inv

LEMMA InitInv == Init => Inv
<1> SUFFICES ASSUME Init PROVE Inv
  OBVIOUS
<1>1. data \in Seq(Bytes)
  BY StreamAssumption DEF Init, Opened
<1>2. Size \in Nat
  BY <1>1, SMT DEF Size, Bytes
<1>3. offset \in None..Size /\ begun \in None..Size
  BY <1>2, SMT DEF Init, Opened, None
<1>4. TypeOK
  BY <1>3 DEF Init, Opened, TypeOK
<1>5. ResultIsAByte
  BY DEF Init, Opened, ResultIsAByte, Some, Nothing
<1>6. QED BY <1>4, <1>5 DEF Inv

\* A call that begins, or a turn of its loop: all but the offset is plain.
LEMMA LocalsKeepInv ==
  ASSUME Inv, UNCHANGED <<data, result>>, offset' \in None..Size, begun' \in {offset, begun},
         call' \in {"none", "number", "boolean", "length", "data", "until", "identifier"},
         want' \in Nat, val' \in Nat, bytes' \in Seq(Bytes)
  PROVE  Inv'
<1>1. begun' \in None..Size'
  BY DEF Inv, TypeOK, Size
<1>2. TypeOK'
  BY <1>1, SMT DEF Inv, TypeOK, Size
<1>3. ResultIsAByte'
  BY DEF Inv, ResultIsAByte
<1>4. QED BY <1>2, <1>3 DEF Inv

LEMMA BeginKeepsInv ==
  ASSUME Inv, UNCHANGED data, offset' \in None..Size, begun' \in {offset, begun},
         NEW n \in Nat, NEW function, Begin(function, n),
         function \in {"number", "boolean", "length", "data", "until", "identifier"}
  PROVE  Inv'
<1>1. bytes' \in Seq(Bytes) /\ want' \in Nat /\ val' \in Nat
  BY SMT DEF Begin
<1>2. QED BY <1>1, LocalsKeepInv DEF Begin

LEMMA PeekInv == ASSUME Inv, Peek PROVE Inv'
<1>1. offset' \in None..Size
  BY DEF Inv, TypeOK, Peek
<1>2. CASE CanPeek
  BY <1>1, <1>2, PeekIsInside, ReturnKeepsInv DEF Peek, Inv, Some
<1>3. CASE ~CanPeek
  BY <1>1, <1>3, ReturnKeepsInv DEF Peek, Some, Nothing
<1>4. QED BY <1>2, <1>3

LEMMA Next1Inv == ASSUME Inv, Next1 PROVE Inv'
<1>1. offset' \in None..Size
  BY MoveKeepsOffset DEF Inv, Next1
<1>2. CASE Available
  BY <1>1, <1>2, AvailableIsInside, ReturnKeepsInv DEF Next1, Inv, Some
<1>3. CASE ~Available
  BY <1>1, <1>3, ReturnKeepsInv DEF Next1, Some, Nothing
<1>4. QED BY <1>2, <1>3

LEMMA NextIfInv == ASSUME Inv, NEW b \in Bytes, NextIf(b) \/ NextIfNot(b) PROVE Inv'
<1>1. offset' \in None..Size
  BY PeekKeepsOffset DEF Inv, TypeOK, NextIf, NextIfNot
<1>2. UNCHANGED data
  BY DEF NextIf, NextIfNot
<1>3. CASE Return(Nothing)
  BY <1>1, <1>2, <1>3, ReturnKeepsInv DEF Some, Nothing
<1>4. CASE Return(Some("byte", b))
  BY <1>1, <1>2, <1>4, ReturnKeepsInv DEF Some
<1>5. CASE CanPeek /\ Return(Some("byte", Peeked))
  BY <1>1, <1>2, <1>5, PeekIsInside, ReturnKeepsInv DEF Some, Inv
<1>6. QED BY <1>3, <1>4, <1>5 DEF NextIf, NextIfNot

LEMMA ReadCountedInv ==
  ASSUME Inv, NEW n \in Nat, NEW function, function \in {"number", "boolean", "length"},
         ReadCounted(function, n)
  PROVE  Inv'
<1>1. UNCHANGED data /\ offset' \in None..Size
  BY DEF Inv, TypeOK, ReadCounted
<1>2. CASE Begin(function, n) /\ begun' = offset
  BY <1>1, <1>2, BeginKeepsInv
<1>3. CASE Return(Nothing)
  BY <1>1, <1>3, ReturnKeepsInv DEF Some, Nothing
<1>4. QED BY <1>2, <1>3 DEF ReadCounted

LEMMA CountedByteInv == ASSUME Inv, CountedByte PROVE Inv'
<1>1. UNCHANGED data /\ offset' \in None..Size
  BY MoveKeepsOffset DEF Inv, CountedByte
<1>2. CASE ~Available
  BY <1>1, <1>2, ReturnKeepsInv DEF CountedByte, Some, Nothing
<1>3. CASE Available
  <2>1. Peeked \in Bytes /\ Radix \in Nat /\ Word \in Nat \ {0} /\ val \in Nat /\ want \in Nat
    BY <1>3, AvailableIsInside, StreamAssumption DEF Inv, TypeOK
  <2>2. bytes' \in Seq(Bytes)
    BY <1>3, <2>1, SMT DEF CountedByte, Inv, TypeOK
  <2>3. want' \in Nat
    BY <1>3, <2>1, SMT DEF CountedByte
  <2>4. val' \in Nat
    <3>1. val * Radix \in Int
      BY <2>1, SMT
    <3>2. val * Radix + Peeked \in Int
      BY <2>1, <3>1, SMT DEF Bytes
    <3>3. QED BY <1>3, <2>1, <3>2, RemainderIsNat DEF CountedByte
  <2>5. QED BY <1>1, <1>3, <2>2, <2>3, <2>4, LocalsKeepInv DEF CountedByte, Inv, TypeOK
<1>4. QED BY <1>2, <1>3

LEMMA CountedDoneInv == ASSUME Inv, CountedDone PROVE Inv'
<1>1. UNCHANGED data /\ offset' \in None..Size /\ val \in Nat
  BY DEF Inv, TypeOK, CountedDone
<1>2. CASE NumberDone
  BY <1>1, <1>2, ReturnKeepsInv DEF NumberDone, Some
<1>3. CASE BooleanDone
  <2>1. CASE val \in {0, 1}
    BY <1>1, <1>3, <2>1, ReturnKeepsInv DEF BooleanDone, Some
  <2>2. CASE val \notin {0, 1}
    BY <1>1, <1>3, <2>2, ReturnKeepsInv DEF BooleanDone, Some, Nothing
  <2>3. QED BY <2>1, <2>2
<1>4. CASE DataDone
  BY <1>1, <1>4, ReturnKeepsInv DEF DataDone, Some
<1>5. CASE LengthDone
  <2>1. CASE Begin("data", val) /\ begun' = begun
    BY <1>1, <2>1, BeginKeepsInv
  <2>2. CASE Return(Nothing)
    BY <1>1, <2>2, ReturnKeepsInv DEF Some, Nothing
  <2>3. QED BY <1>5, <2>1, <2>2 DEF LengthDone
<1>6. QED BY <1>2, <1>3, <1>4, <1>5 DEF CountedDone

LEMMA ReadUntilInv == ASSUME Inv, NEW b \in Bytes, ReadUntil(b) \/ ReadIdentifier(b) PROVE Inv'
<1>1. UNCHANGED data /\ offset' \in None..Size
  BY MoveKeepsOffset DEF Inv, TypeOK, ReadUntil, ReadIdentifier
<1>2. CASE Return(Nothing)
  BY <1>1, <1>2, ReturnKeepsInv DEF Some, Nothing
<1>3. ASSUME NEW function \in {"until", "identifier"}, Begin(function, b), begun' = offset
      PROVE  Inv'
  BY <1>1, <1>3, BeginKeepsInv DEF Bytes
<1>4. QED BY <1>2, <1>3 DEF ReadUntil, ReadIdentifier

LEMMA MarkedByteInv == ASSUME Inv, UntilByte \/ IdentifierByte PROVE Inv'
<1>1. UNCHANGED data /\ offset' \in None..Size
  BY MoveKeepsOffset DEF Inv, UntilByte, IdentifierByte
<1>2. CASE \E r : Return(r) /\ \A b : r # Some("byte", b)
  BY <1>1, <1>2, ReturnKeepsInv
<1>3. CASE Available /\ bytes' = Append(bytes, Peeked)
           /\ UNCHANGED <<call, want, val, begun, result>>
  <2>1. bytes' \in Seq(Bytes)
    BY <1>3, AvailableIsInside, SMT DEF Inv, TypeOK
  <2>2. QED BY <1>1, <1>3, <2>1, LocalsKeepInv DEF Inv, TypeOK
<1>4. QED BY <1>2, <1>3 DEF UntilByte, IdentifierByte, Some, Nothing

LEMMA NextKeepsInv == Inv /\ [Next]_vars => Inv'
<1> SUFFICES ASSUME Inv, [Next]_vars PROVE Inv'
  OBVIOUS
<1>1. CASE Progress
  BY <1>1, CountedByteInv, CountedDoneInv, MarkedByteInv DEF Progress
<1>2. CASE Peek \/ Next1
  BY <1>2, PeekInv, Next1Inv
<1>3. CASE ReadBoolean \/ ReadData
  BY <1>3, ReadCountedInv, StreamAssumption DEF ReadBoolean, ReadData
<1>4. ASSUME NEW b \in Bytes,
             NextIf(b) \/ NextIfNot(b) \/ ReadUntil(b) \/ ReadIdentifier(b)
      PROVE  Inv'
  BY <1>4, NextIfInv, ReadUntilInv
<1>5. ASSUME NEW n \in Widths, ReadNumber(n) PROVE Inv'
  BY <1>5, ReadCountedInv, StreamAssumption DEF ReadNumber
<1>6. CASE UNCHANGED vars
  <2>1. TypeOK'
    BY <1>6 DEF vars, Inv, TypeOK, Size
  <2>2. QED BY <1>6, <2>1 DEF vars, Inv, ResultIsAByte
<1>7. QED BY <1>1, <1>2, <1>3, <1>4, <1>5, <1>6 DEF Next

\* The type invariant and the shape of results hold in every reachable state.
THEOREM InvariantHolds == Spec => []Inv
  BY InitInv, NextKeepsInv, PTL DEF Spec

\* The offset and the locals have their shape, for every file.
THEOREM TypeCorrect == Spec => []TypeOK
<1>1. Inv => TypeOK
  BY DEF Inv
<1>2. QED BY <1>1, InvariantHolds, PTL

\* No call looks at a byte past the end of the file, nor returns one.
THEOREM StaysInside == Spec => []NoReadPastEnd
<1>1. Inv => NoReadPastEnd
  <2> SUFFICES ASSUME Inv PROVE NoReadPastEnd
    OBVIOUS
  <2>1. CanPeek => PeekOffset < Size
    BY PeekIsInside DEF Inv
  <2>2. Outside \notin Bytes
    BY SMT DEF Outside, Bytes
  <2>3. result # Some("byte", Outside)
    BY <2>2 DEF Inv, ResultIsAByte
  <2>4. bytes \in Seq(Bytes)
    BY DEF Inv, TypeOK
  <2>5. \A i \in DOMAIN bytes : bytes[i] \in Bytes
    BY <2>4, SMT
  <2>6. QED BY <2>1, <2>2, <2>3, <2>5 DEF NoReadPastEnd
<1>2. QED BY <1>1, InvariantHolds, PTL

(***************************************************************************)
(* A ByteStream is a cursor (module Cursor).  While a loop of the code     *)
(* runs the cursor stands still, so the proof needs what the loop has done *)
(* so far (LoopInv): the bytes it has are those behind the place it was    *)
(* called at, its number is the number they spell, and it looks for a byte *)
(* it has not met.                                                         *)
(***************************************************************************)
\* What the loop consumed before the first of the bytes: the opening marker, the length.
Lead == CASE call = "identifier" -> 1
          [] call = "data" -> NumberBytes
          [] OTHER -> 0

\* The file from the place on where the running call began.
Start  == begun + 1
Length == Seen!BigEndian(SubSeq(data, Start + 1, Start + NumberBytes))

BytesAreConsumed ==
  /\ offset = begun + Lead + Len(bytes)
  /\ \A i \in 1..Len(bytes) : bytes[i] = data[Start + Lead + i]
  /\ Lead + Len(bytes) > 0 => offset < Size

NumberInv ==
  /\ val = Seen!BigEndian(bytes)
  /\ offset + want < Size
  /\ want + Len(bytes) \in CASE call = "number" -> Widths
                             [] call = "boolean" -> {1}
                             [] OTHER -> {NumberBytes}

NotMet == want \in Bytes /\ \A i \in 1..Len(bytes) : bytes[i] # want

LoopInv ==
  /\ call # "none" => BytesAreConsumed
  /\ call \in {"number", "boolean", "length"} => NumberInv
  /\ call = "data" => want + Len(bytes) = Length
  /\ call = "until" => NotMet
  /\ call = "identifier" => NotMet /\ data[Start + 1] = want

(***************************************************************************)
(* What the functions of module Encoding compute.                          *)
(***************************************************************************)
\* BigEndian, as a function of the number of bytes.
IsValue(v, b, n) == v = [i \in 0..n |-> IF i = 0 THEN 0 ELSE v[i - 1] * Radix + b[i]]

\* There is such a function, for every number of bytes.
LEMMA ValueExists == ASSUME NEW b PROVE \A n \in Nat : \E v : IsValue(v, b, n)
<1> DEFINE S == {n \in Nat : \E v : IsValue(v, b, n)}
<1>1. 0 \in S
  <2> DEFINE w == [i \in 0..0 |-> 0]
  <2>1. \A i \in 0..0 : w[i] = IF i = 0 THEN 0 ELSE w[i - 1] * Radix + b[i]
    BY SMT
  <2>2. w = [i \in 0..0 |-> w[i]]
    OBVIOUS
  <2> HIDE DEF w
  <2>3. IsValue(w, b, 0)
    BY <2>1, <2>2, Zenon DEF IsValue
  <2>4. QED BY <2>3
<1>2. ASSUME NEW n \in Nat, n \in S PROVE n + 1 \in S
  <2>1. PICK v : IsValue(v, b, n)
    BY <1>2
  <2> DEFINE w == [i \in 0..(n + 1) |-> IF i <= n THEN v[i] ELSE v[n] * Radix + b[n + 1]]
  <2>2. IsValue(w, b, n + 1)
    <3>1. \A i \in 1..(n + 1) : w[i - 1] = v[i - 1]
      BY SMT
    <3>2. \A i \in 1..n : v[i] = v[i - 1] * Radix + b[i]
      BY <2>1, SMT DEF IsValue
    <3>3. v[0] = 0
      BY <2>1, SMT DEF IsValue
    <3>6. w[0] = v[0] /\ w[n] = v[n] /\ w[n + 1] = v[n] * Radix + b[n + 1]
      BY SMT
    <3>7. \A i \in 1..n : w[i] = v[i] /\ i - 1 \in 0..n /\ w[i - 1] = v[i - 1]
      BY SMT
    <3>8. \A i \in 0..(n + 1) : \/ i = 0
                                \/ i # 0 /\ i \in 1..n
                                \/ i # 0 /\ i = n + 1 /\ i - 1 = n
      BY SMT
    <3>4. \A i \in 0..(n + 1) : w[i] = IF i = 0 THEN 0 ELSE w[i - 1] * Radix + b[i]
      <4> HIDE DEF w
      <4>1. QED BY <3>2, <3>3, <3>6, <3>7, <3>8, Zenon
    <3>5. w = [i \in 0..(n + 1) |-> w[i]]
      OBVIOUS
    <3> HIDE DEF w
    <3>9. QED BY <3>4, <3>5, Zenon DEF IsValue
  <2>3. QED BY <2>2
<1>3. \A n \in Nat : n \in S
  <2> HIDE DEF S
  <2>1. QED BY <1>1, <1>2, Induction, Zenon
<1>4. QED BY <1>3

\* Two of them have the same values for the same bytes.
LEMMA ValueIsUnique ==
  ASSUME NEW n \in Nat, NEW m \in Nat, n <= m, NEW b, NEW c, \A i \in 1..n : b[i] = c[i],
         NEW v, IsValue(v, b, n), NEW w, IsValue(w, c, m)
  PROVE  v[n] = w[n]
<1> DEFINE S == {i \in Nat : i <= n => v[i] = w[i]}
<1>1. 0 \in S
  BY SMT DEF IsValue
<1>2. ASSUME NEW i \in Nat, i \in S PROVE i + 1 \in S
  <2>1. SUFFICES ASSUME i + 1 <= n PROVE v[i + 1] = w[i + 1]
    BY SMT
  <2>2. i + 1 \in 0..n /\ i + 1 \in 0..m /\ i + 1 # 0 /\ i + 1 \in 1..n /\ (i + 1) - 1 = i /\ i <= n
    BY <2>1, SMT
  <2>3. v[i + 1] = v[i] * Radix + b[i + 1]
    <3>1. \A j \in 0..n : j # 0 => v[j] = v[j - 1] * Radix + b[j]
      BY Zenon DEF IsValue
    <3>2. QED BY <2>2, <3>1
  <2>4. w[i + 1] = w[i] * Radix + c[i + 1]
    <3>1. \A j \in 0..m : j # 0 => w[j] = w[j - 1] * Radix + c[j]
      BY Zenon DEF IsValue
    <3>2. QED BY <2>2, <3>1
  <2>5. QED BY <1>2, <2>2, <2>3, <2>4
<1>3. \A i \in Nat : i \in S
  <2> HIDE DEF S
  <2>1. QED BY <1>1, <1>2, Induction, Zenon
<1>4. QED BY <1>3, SMT

\* BigEndian is the last value of such a function.
LEMMA BigEndianIsValue ==
  ASSUME NEW b, Len(b) \in Nat
  PROVE  \E v : IsValue(v, b, Len(b)) /\ Seen!BigEndian(b) = v[Len(b)]
<1> DEFINE v == CHOOSE v : IsValue(v, b, Len(b))
<1>1. IsValue(v, b, Len(b))
  BY ValueExists, Zenon
<1>2. Seen!BigEndian(b) = v[Len(b)]
  BY Zenon DEF Seen!BigEndian, IsValue
<1>3. QED BY <1>1, <1>2, Zenon

\* A number begins with nothing and grows by a digit to the base of Radix.
LEMMA NumberGrows ==
  ASSUME NEW b \in Seq(Bytes), NEW x \in Bytes
  PROVE  /\ Seen!BigEndian(<<>>) = 0
         /\ Seen!BigEndian(Append(b, x)) = Seen!BigEndian(b) * Radix + x
<1>1. Seen!BigEndian(<<>>) = 0
  <2>1. Len(<<>>) = 0
    BY EmptySeq
  <2>2. PICK v : IsValue(v, <<>>, 0) /\ Seen!BigEndian(<<>>) = v[0]
    BY <2>1, BigEndianIsValue
  <2>3. QED BY <2>2, SMT DEF IsValue
<1> DEFINE c == Append(b, x)
           n == Len(b)
<1>2. /\ n \in Nat /\ n <= n + 1 /\ Len(c) = n + 1 /\ n + 1 \in Nat /\ c[n + 1] = x
      /\ \A i \in 1..n : b[i] = c[i]
  <2> HIDE DEF c
  <2>1. n \in Nat /\ Len(c) = n + 1 /\ c[n + 1] = x /\ \A i \in 1..n : b[i] = c[i]
    BY AppendProperties, LenProperties DEF c
  <2> HIDE DEF n
  <2>2. QED BY <2>1, SMT
<1> HIDE DEF c, n
<1>3. PICK v : IsValue(v, b, n) /\ Seen!BigEndian(b) = v[n]
  BY <1>2, BigEndianIsValue DEF n
<1>4. PICK w : IsValue(w, c, n + 1) /\ Seen!BigEndian(c) = w[n + 1]
  BY <1>2, BigEndianIsValue
<1>5. v[n] = w[n]
  BY <1>2, <1>3, <1>4, ValueIsUnique
<1>6. w[n + 1] = w[n] * Radix + c[n + 1]
  <2>1. \A i \in 0..(n + 1) : i # 0 => w[i] = w[i - 1] * Radix + c[i]
    BY <1>4, Zenon DEF IsValue
  <2>2. n + 1 \in 0..(n + 1) /\ n + 1 # 0 /\ (n + 1) - 1 = n
    BY <1>2, SMT
  <2>3. QED BY <2>1, <2>2
<1>7. QED BY <1>1, <1>2, <1>3, <1>4, <1>5, <1>6 DEF c

\* A reader of f that stands behind its a-th byte.
IsReader(s, f, a) == s.file = f /\ s.at = a /\ DOMAIN s = {"file", "at", "v"}

\* What the functions of module Encoding make of one.
Reads(s, f, a) ==
  /\ Seen!Left(s) = Len(f) - a
  /\ \A i : Seen!Ahead(s, i) = f[a + i]
  /\ \A n : Seen!Slice(s, n) = SubSeq(f, a + 1, a + n)
  /\ IsReader(Seen!Refuse(s), f, a) /\ Seen!Refuse(s).v = Nothing
  /\ \A n, v : IsReader(Seen!Give(s, n, v), f, a + n) /\ Seen!Give(s, n, v).v = v

\* The reader of a file at a place: what is left, what it gives, and what it refuses.
LEMMA Readers ==
  ASSUME NEW f, NEW a, NEW s, IsReader(s, f, a)
  PROVE  Reads(s, f, a)
<1>1. IsReader(Seen!Refuse(s), f, a) /\ Seen!Refuse(s).v = Nothing
  BY Zenon DEF Seen!Refuse, Seen!Nothing, Nothing, IsReader
<1>2. ASSUME NEW n, NEW v
      PROVE  IsReader(Seen!Give(s, n, v), f, a + n) /\ Seen!Give(s, n, v).v = v
  BY SMT DEF Seen!Give, IsReader
<1>3. QED
  BY <1>1, <1>2, Zenon DEF Reads, Seen!Left, Seen!Ahead, Seen!Slice, IsReader

\* The first of some numbers is the one that is least.
LEMMA FirstIs ==
  ASSUME NEW S, S \subseteq Int, NEW i \in S, \A j \in S : i <= j
  PROVE  Seen!First(S) = i
<1>1. Seen!First(S) \in S /\ \A j \in S : Seen!First(S) <= j
  BY Zenon DEF Seen!First
<1>2. PICK k : k = Seen!First(S)
  OBVIOUS
<1>3. k \in Int /\ i \in Int /\ k <= i /\ i <= k
  BY <1>1, <1>2, Zenon
<1>4. QED BY <1>2, <1>3, SMT
(***************************************************************************)
(* The stream and its cursor.                                              *)
(***************************************************************************)
\* The cursor is in the file, and at the byte that is looked at next.
LEMMA Sight ==
  ASSUME TypeOK
  PROVE  /\ CanPeek <=> offset + 1 < Size
         /\ Available <=> offset + 1 < Size
         /\ offset + 1 < Size => Peeked = data[offset + 2] /\ Peeked \in Bytes /\ ~Eof
<1> USE Sizes
<1>1. CanPeek => offset + 1 < Size
  BY PeekIsInside
<1>2. ASSUME offset + 1 < Size PROVE CanPeek /\ Available /\ ~Eof
  <2>1. ~Eof
    BY <1>2, SMT DEF Eof, None
  <2>2. CASE offset = None
    BY <1>2, <2>1, <2>2, SMT DEF CanPeek, HasAtLeast, Available, None
  <2>3. CASE offset # None
    <3>1. offset + 1 \in Nat /\ offset + 1 < Word
      BY <1>2, SMT
    <3>2. (offset + 1) % Word = offset + 1
      BY <3>1, SmallRemainder
    <3>3. QED BY <1>2, <2>1, <2>3, <3>2 DEF CanPeek, HasAtLeast, Available
  <2>4. QED BY <2>2, <2>3
<1>3. Available => offset + 1 < Size
  BY DEF Available
<1>4. ASSUME offset + 1 < Size PROVE Peeked = data[offset + 2] /\ Peeked \in Bytes
  <2>1. (offset + 1) + 1 = offset + 2
    BY SMT
  <2>2. Peeked = data[offset + 2]
    BY <1>4, <2>1 DEF Peeked, ByteAt
  <2>3. QED BY <1>2, <1>4, <2>2, AvailableIsInside
<1>5. QED BY <1>1, <1>2, <1>3, <1>4

\* What the cursor sees, and where it stands.
LEMMA NowIs ==
  ASSUME TypeOK
  PROVE  /\ IsReader(Seen!Now, data, Clip(Position + 1))
         /\ Clip(Position + 1) \in Nat /\ Clip(Position + 1) <= Size /\ Size = Len(data)
         /\ Position \in Int /\ -1 <= Position /\ Position <= Size
         /\ Position < Size => Clip(Position + 1) = Position + 1
         /\ Position + 1 >= Size => Clip(Position + 1) = Size
         /\ Reads(Seen!Now, data, Clip(Position + 1))
<1>1. Position \in Int /\ -1 <= Position /\ Position <= Size
  BY Sizes, SMT DEF TypeOK, Position, None
<1>2. Size \in Nat
  BY Sizes
<1>3. IsReader(Seen!Now, data, Clip(Position + 1))
  BY DEF Seen!Now, IsReader
<1> HIDE DEF Position
<1>4. PICK p \in Int, z \in Nat : p = Position /\ z = Size
  BY <1>1, <1>2
<1>5. Clip(p + 1) = IF p + 1 > z THEN z ELSE p + 1
  BY <1>4 DEF Clip
<1>6. Reads(Seen!Now, data, Clip(Position + 1))
  BY <1>3, Readers
<1>7. QED BY <1>1, <1>3, <1>4, <1>5, <1>6, SMT DEF Size

\* A call that returns moves the cursor to the offset.
LEMMA Returns ==
  ASSUME TypeOK, UNCHANGED data, NEW r, Return(r), NEW o \in Int, offset' = o,
         NEW s, s.v = r, s.at = IF o + 1 > Size THEN Size ELSE o + 1
  PROVE  Seen!Move(s)
<1>1. Clip(Position + 1)' = s.at
  BY DEF Clip, Position, Return, Size
<1>2. QED BY <1>1 DEF Seen!Move, Return

\* A call that goes on leaves it where it is.
LEMMA Stutters ==
  ASSUME UNCHANGED <<data, result, Position>> PROVE UNCHANGED Seen!vars
  BY DEF Seen!vars, Clip, Size

\* A call of next() that finds nothing ends at the end of the file.
LEMMA EndOfFile ==
  ASSUME TypeOK, MoveOffset, ~Available
  PROVE  offset + 1 >= Size /\ offset' \in Int /\ offset' + 1 >= Size
<1>1. offset + 1 >= Size
  BY Sight, Sizes, SMT
<1>2. QED BY <1>1, Sizes, SMT DEF MoveOffset

\* One that finds a byte moves past it.
LEMMA OneByte ==
  ASSUME TypeOK, MoveOffset, Available PROVE offset' = offset + 1 /\ offset + 1 < Size
  BY Sight, Sizes DEF MoveOffset

\* peek looks and does not move.
LEMMA PeekSeen == ASSUME TypeOK, Peek PROVE Seen!Next
<1> DEFINE s == Seen!PeekByte(Seen!Now)
           a == Clip(Position + 1)
<1>1. /\ Position = offset /\ UNCHANGED <<data, offset>> /\ offset \in Int
      /\ Return(IF CanPeek THEN Some("byte", Peeked) ELSE Nothing)
  BY Sizes DEF Peek, Position
<1>2. a \in Nat /\ a <= Size /\ a = (IF offset + 1 > Size THEN Size ELSE offset + 1)
  BY <1>1, NowIs DEF Clip
<1>3. /\ Seen!Left(Seen!Now) = Size - a /\ Seen!Ahead(Seen!Now, 1) = data[a + 1]
      /\ IsReader(Seen!Refuse(Seen!Now), data, a) /\ Seen!Refuse(Seen!Now).v = Nothing
      /\ \A n, v : /\ IsReader(Seen!Give(Seen!Now, n, v), data, a + n)
                   /\ Seen!Give(Seen!Now, n, v).v = v
  <2>1. Reads(Seen!Now, data, a) /\ Len(data) = Size
    BY NowIs
  <2>2. QED BY <2>1, Zenon DEF Reads
<1> HIDE DEF a
<1>4. s.at = a /\ s.v = IF CanPeek THEN Some("byte", Peeked) ELSE Nothing
  <2>1. CASE CanPeek
    <3>1. offset + 1 < Size /\ Peeked = data[offset + 2]
      BY <2>1, Sight
    <3>2. a + 1 = offset + 2 /\ Size - a > 0 /\ a + 0 = a
      BY <1>1, <1>2, <3>1, Sizes, SMT
    <3>3. s = Seen!Give(Seen!Now, 0, Some("byte", Peeked))
      BY <1>3, <3>1, <3>2 DEF Seen!PeekByte, Seen!Some, Some
    <3>4. s.at = a + 0 /\ s.v = Some("byte", Peeked)
      <4> HIDE DEF s
      <4>1. QED BY <1>3, <3>3, Zenon DEF IsReader
    <3>5. QED BY <2>1, <3>2, <3>4
  <2>2. CASE ~CanPeek
    <3>1. ~(offset + 1 < Size)
      BY <2>2, Sight
    <3>2. ~(Size - a > 0)
      BY <1>1, <1>2, <3>1, Sizes, SMT
    <3>3. s = Seen!Refuse(Seen!Now)
      BY <1>3, <3>2 DEF Seen!PeekByte
    <3>4. QED BY <1>3, <2>2, <3>3 DEF IsReader
  <2>3. QED BY <2>1, <2>2
<1> HIDE DEF s
<1>5. Seen!Move(s)
  BY <1>1, <1>2, <1>4, Returns
<1>6. QED BY <1>1, <1>5 DEF Seen!Next, s

\* next, nextIf and nextIfNot take a byte that they are asked for.
LEMMA TakeSeen ==
  ASSUME TypeOK, call = "none", UNCHANGED data, NEW A,
         \/ /\ offset + 1 < Size /\ Peeked \in A
            /\ offset' = offset + 1 /\ Return(Some("byte", Peeked))
         \/ /\ ~(offset + 1 < Size /\ Peeked \in A)
            /\ offset' = offset \/ (offset' \in Int /\ offset + 1 >= Size /\ offset' + 1 >= Size)
            /\ Return(Nothing)
  PROVE  Seen!Move(Seen!TakeByte(Seen!Now, A))
<1> DEFINE s == Seen!TakeByte(Seen!Now, A)
           a == Clip(Position + 1)
<1>1. Position = offset /\ offset \in Int /\ Size \in Nat
  BY Sizes DEF Position
<1>2. a \in Nat /\ a <= Size /\ a = (IF offset + 1 > Size THEN Size ELSE offset + 1)
  BY <1>1, NowIs DEF Clip
<1>3. /\ Seen!Left(Seen!Now) = Size - a /\ Seen!Ahead(Seen!Now, 1) = data[a + 1]
      /\ IsReader(Seen!Refuse(Seen!Now), data, a) /\ Seen!Refuse(Seen!Now).v = Nothing
      /\ \A v : IsReader(Seen!Give(Seen!Now, 1, v), data, a + 1) /\ Seen!Give(Seen!Now, 1, v).v = v
  <2>1. Reads(Seen!Now, data, a) /\ Len(data) = Size
    BY NowIs
  <2>2. QED BY <2>1, Zenon DEF Reads
<1> HIDE DEF a
<1>4. ASSUME offset + 1 < Size
      PROVE  a + 1 = offset + 2 /\ Size - a # 0 /\ Peeked = data[a + 1]
             /\ a + 1 = IF (offset + 1) + 1 > Size THEN Size ELSE (offset + 1) + 1
  <2>1. a + 1 = offset + 2 /\ Size - a # 0
        /\ a + 1 = IF (offset + 1) + 1 > Size THEN Size ELSE (offset + 1) + 1
    BY <1>1, <1>2, <1>4, SMT
  <2>2. QED BY <1>4, <2>1, Sight
<1>5. CASE /\ offset + 1 < Size /\ Peeked \in A
           /\ offset' = offset + 1 /\ Return(Some("byte", Peeked))
  <2>1. s = Seen!Give(Seen!Now, 1, Some("byte", Peeked))
    BY <1>3, <1>4, <1>5 DEF Seen!TakeByte, Seen!Some, Some
  <2>2. s.v = Some("byte", Peeked) /\ s.at = a + 1
    BY <1>3, <2>1 DEF IsReader
  <2>3. offset + 1 \in Int
    BY <1>1, SMT
  <2> HIDE DEF s
  <2>4. Seen!Move(s)
    BY <1>4, <1>5, <2>2, <2>3, Returns
  <2>5. QED BY <2>4 DEF s
<1>6. CASE /\ ~(offset + 1 < Size /\ Peeked \in A)
           /\ offset' = offset \/ (offset' \in Int /\ offset + 1 >= Size /\ offset' + 1 >= Size)
           /\ Return(Nothing)
  <2>1. s = Seen!Refuse(Seen!Now)
    <3>1. CASE offset + 1 < Size
      BY <1>3, <1>4, <1>6, <3>1 DEF Seen!TakeByte
    <3>2. CASE ~(offset + 1 < Size)
      <4>1. Size - a = 0
        BY <1>1, <1>2, <3>2, SMT
      <4>2. QED BY <1>3, <4>1 DEF Seen!TakeByte
    <3>3. QED BY <3>1, <3>2
  <2>2. s.v = Nothing /\ s.at = a
    BY <1>3, <2>1 DEF IsReader
  <2>3. PICK o \in Int : /\ o = offset'
                         /\ o = offset \/ (offset + 1 >= Size /\ o + 1 >= Size)
    BY <1>1, <1>6
  <2>4. a = IF o + 1 > Size THEN Size ELSE o + 1
    <3>1. CASE o = offset
      BY <1>2, <3>1
    <3>2. CASE offset + 1 >= Size /\ o + 1 >= Size
      BY <1>1, <1>2, <3>2, SMT
    <3>3. QED BY <2>3, <3>1, <3>2
  <2> HIDE DEF s
  <2>5. Seen!Move(s)
    BY <1>6, <2>2, <2>3, <2>4, Returns
  <2>6. QED BY <2>5 DEF s
<1>7. QED BY <1>5, <1>6

\* next takes whatever comes,
LEMMA Next1Seen == ASSUME TypeOK, Next1 PROVE Seen!Next
<1>1. Seen!Move(Seen!TakeByte(Seen!Now, Bytes))
  <2>1. CASE Available
    BY <2>1, OneByte, Sight, TakeSeen DEF Next1
  <2>2. CASE ~Available
    BY <2>2, EndOfFile, Sight, TakeSeen DEF Next1
  <2>3. QED BY <2>1, <2>2
<1>2. QED BY <1>1 DEF Seen!Next, Seen!Bytes, Bytes, Next1

\* nextIf one byte,
LEMMA NextIfSeen == ASSUME TypeOK, NEW b \in Bytes, NextIf(b) PROVE Seen!Next
<1>1. Seen!Move(Seen!TakeByte(Seen!Now, {b}))
  BY Sight, Sizes, TakeSeen DEF NextIf
<1>2. QED BY <1>1 DEF Seen!Next, Seen!Bytes, Bytes, NextIf

\* nextIfNot all the others.
LEMMA NextIfNotSeen == ASSUME TypeOK, NEW b \in Bytes, NextIfNot(b) PROVE Seen!Next
<1>1. Seen!Move(Seen!TakeByte(Seen!Now, Bytes \ {b}))
  BY Sight, Sizes, TakeSeen DEF NextIfNot
<1>2. QED BY <1>1 DEF Seen!Next, Seen!Bytes, Bytes, NextIfNot
(***************************************************************************)
(* What the loops have done.                                               *)
(***************************************************************************)
\* hasAtLeast, when it is asked for one of the widths: the sum cannot wrap.
LEMMA HasIs ==
  ASSUME TypeOK, NEW w \in Widths \cup {1, NumberBytes}
  PROVE  w \in Nat \ {0} /\ (HasAtLeast(w) <=> offset + w < Size)
<1> USE Sizes
<1>1. w \in Nat \ {0}
  BY StreamAssumption
<1>2. Size + w <= Word
  BY WidthAssumption DEF TypeOK, Size
<1>3. CASE offset = None
  BY <1>1, <1>3, SMT DEF HasAtLeast, Eof, None
<1>4. CASE offset # None /\ offset < Size
  <2>1. offset + w \in Nat /\ offset + w < Word /\ ~Eof
    BY <1>1, <1>2, <1>4, SMT DEF Eof, None
  <2>2. (offset + w) % Word = offset + w
    BY <2>1, SmallRemainder
  <2>3. QED BY <1>1, <1>4, <2>1, <2>2 DEF HasAtLeast
<1>5. CASE offset # None /\ offset = Size
  BY <1>1, <1>5, SMT DEF HasAtLeast, Eof
<1>6. QED BY <1>3, <1>4, <1>5, SMT

\* What is consumed before the bytes is a number of bytes.
LEMMA LeadIsNat == Lead \in Nat
  BY StreamAssumption, SMT DEF Lead

\* The bytes of a running call are what it has consumed of the file.
LEMMA BytesAreASlice ==
  ASSUME TypeOK, BytesAreConsumed
  PROVE  bytes = SubSeq(data, Start + Lead + 1, Start + Lead + Len(bytes))
<1> DEFINE t == SubSeq(data, Start + Lead + 1, Start + Lead + Len(bytes))
<1>1. PICK k \in Nat, m \in Nat : k = Len(bytes) /\ m = Start + Lead
  <2>1. Start \in Nat /\ Len(bytes) \in Nat
    BY Sizes, SMT DEF Start, TypeOK, None
  <2>2. Start + Lead \in Nat
    BY <2>1, LeadIsNat, SMT
  <2>3. QED BY <2>1, <2>2
<1>2. bytes \in Seq(Bytes) /\ \A i \in 1..k : bytes[i] \in Bytes /\ bytes[i] = data[m + i]
  BY <1>1, ElementOfSeq DEF TypeOK, BytesAreConsumed
<1>3. \A i \in (m + 1)..(m + k) : data[i] \in Bytes
  <2>1. \A i \in (m + 1)..(m + k) : i - m \in 1..k /\ m + (i - m) = i
    BY SMT
  <2>2. QED BY <1>2, <2>1
<1>4. /\ SubSeq(data, m + 1, m + k) \in Seq(Bytes)
      /\ Len(SubSeq(data, m + 1, m + k)) = IF m + 1 <= m + k THEN m + k - (m + 1) + 1 ELSE 0
      /\ \A i \in 1..(m + k - (m + 1) + 1) : SubSeq(data, m + 1, m + k)[i] = data[m + 1 + i - 1]
  BY <1>3, SubSeqProperties
<1>5. t = SubSeq(data, m + 1, m + k)
  BY <1>1
<1> HIDE DEF t
<1>6. /\ t \in Seq(Bytes) /\ Len(t) = k /\ \A i \in 1..k : t[i] = data[m + i]
  BY <1>4, <1>5, SMT
<1>7. bytes = t
  BY <1>1, <1>2, <1>6, SeqEqual
<1>8. QED BY <1>7 DEF t

\* A loop that is given a byte has consumed it.
LEMMA ByteMore ==
  ASSUME TypeOK, BytesAreConsumed, MoveOffset, Available,
         bytes' = Append(bytes, Peeked), UNCHANGED <<data, begun, call>>
  PROVE  BytesAreConsumed'
<1>1. PICK k \in Nat, g \in Int, l \in Nat, o \in Int, z \in Nat :
        k = Len(bytes) /\ g = begun /\ l = Lead /\ o = offset /\ z = Size
  <2>1. begun \in Int /\ Len(bytes) \in Nat
    BY Sizes, SMT DEF TypeOK, None
  <2>2. QED BY <2>1, Sizes, LeadIsNat
<1>2. o = g + l + k /\ o + 1 < z /\ offset' = o + 1 /\ Peeked = data[o + 2]
  BY <1>1, OneByte, Sight DEF BytesAreConsumed
<1>3. /\ bytes \in Seq(Bytes) /\ Peeked \in Bytes
      /\ \A i \in 1..k : bytes[i] = data[g + 1 + l + i]
  BY <1>1, AvailableIsInside DEF TypeOK, BytesAreConsumed, Start
<1>4. /\ Len(bytes') = k + 1 /\ bytes'[k + 1] = Peeked
      /\ \A i \in 1..k : bytes'[i] = bytes[i]
  BY <1>1, <1>3, AppendProperties
<1>5. Lead' = l /\ Start' = g + 1 /\ Size' = z
  BY <1>1 DEF Lead, Start, Size
<1>6. offset' = g + l + (k + 1) /\ offset' < z /\ g + 1 + l + (k + 1) = o + 2
  BY <1>2, SMT
<1>7. \A i \in 1..(k + 1) : i \in 1..k \/ i = k + 1
  BY SMT
<1>8. \A i \in 1..(k + 1) : bytes'[i] = data[g + 1 + l + i]
  BY <1>2, <1>3, <1>4, <1>6, <1>7
<1>9. QED BY <1>1, <1>4, <1>5, <1>6, <1>8 DEF BytesAreConsumed

\* A loop that begins has nothing yet.
LEMMA BeginLoop ==
  ASSUME TypeOK, NEW function, NEW n, Begin(function, n), UNCHANGED data, begun' \in Int,
         offset' = begun' + Lead', Lead' > 0 => offset' < Size'
  PROVE  /\ BytesAreConsumed' /\ Len(bytes') = 0 /\ bytes' = <<>>
         /\ call' = function /\ want' = n /\ val' = 0
<1>1. bytes' = <<>> /\ Len(bytes') = 0 /\ call' = function /\ want' = n /\ val' = 0
  BY EmptySeq DEF Begin
<1>2. PICK g \in Int, l \in Int : g = begun' /\ l = Lead'
  BY StreamAssumption, SMT DEF Lead
<1>3. offset' = g + l + 0 /\ (l + 0 > 0 => offset' < Size')
  <2>1. offset' = g + l /\ (l > 0 => offset' < Size')
    BY <1>2
  <2>2. g + l + 0 = g + l /\ l + 0 = l
    BY SMT
  <2>3. QED BY <2>1, <2>2
<1>4. \A i \in 1..0 : FALSE
  BY SMT
<1>5. BytesAreConsumed'
  BY <1>1, <1>2, <1>3, <1>4 DEF BytesAreConsumed
<1>6. QED BY <1>1, <1>5

\* A number is begun only when there are enough bytes for it.
LEMMA ReadCountedLoop ==
  ASSUME TypeOK, NEW w \in Widths \cup {1, NumberBytes}, NEW function,
         \/ function = "number" /\ w \in Widths
         \/ function = "boolean" /\ w = 1
         \/ function = "length" /\ w = NumberBytes,
         ReadCounted(function, w)
  PROVE  LoopInv'
<1>1. CASE Return(Nothing)
  BY <1>1 DEF Return, LoopInv
<1>2. CASE HasAtLeast(w) /\ Begin(function, w) /\ begun' = offset
  <2>1. UNCHANGED <<data, offset>> /\ offset \in Int /\ call' = function
    BY <1>2, Sizes DEF ReadCounted, Begin
  <2>2. Lead' = 0
    BY <2>1 DEF Lead
  <2>3. offset' = begun' + Lead' /\ ~(Lead' > 0)
    BY <1>2, <2>1, <2>2, SMT
  <2>4. BytesAreConsumed' /\ Len(bytes') = 0 /\ bytes' = <<>> /\ want' = w /\ val' = 0
    BY <1>2, <2>1, <2>3, BeginLoop
  <2>5. w \in Nat \ {0} /\ offset' + w < Size' /\ w + 0 = w
    BY <1>2, <2>1, HasIs, SMT DEF Size
  <2>6. Seen!BigEndian(<<>>) = 0
    <3>1. 0 \in Bytes /\ <<>> \in Seq(Bytes)
      BY StreamAssumption, SMT DEF Bytes
    <3>2. QED BY <3>1, NumberGrows
  <2>7. NumberInv'
    BY <2>1, <2>4, <2>5, <2>6 DEF NumberInv
  <2>8. QED BY <2>1, <2>4, <2>7 DEF LoopInv
<1>3. QED BY <1>1, <1>2 DEF ReadCounted

\* A digit more: no width the stream is asked for overflows the word.
LEMMA CountedByteLoop == ASSUME TypeOK, LoopInv, CountedByte PROVE LoopInv'
<1>1. CASE Return(Nothing)
  BY <1>1 DEF Return, LoopInv
<1>2. CASE /\ Available
           /\ want' = want - 1
           /\ val' = (val * Radix + Peeked) % Word
           /\ bytes' = Append(bytes, Peeked)
           /\ UNCHANGED <<call, begun, result>>
  <2>1. /\ UNCHANGED <<data, begun, call>> /\ MoveOffset /\ Counting
        /\ call # "none" /\ call # "until" /\ call # "identifier"
    BY <1>2 DEF CountedByte, Counting
  <2>2. BytesAreConsumed'
    BY <1>2, <2>1, ByteMore DEF LoopInv
  <2>3. /\ bytes \in Seq(Bytes) /\ Peeked \in Bytes /\ want \in Nat \ {0} /\ Len(bytes) \in Nat
        /\ Len(bytes') = Len(bytes) + 1 /\ bytes' \in Seq(Bytes)
    <3>1. bytes \in Seq(Bytes) /\ Peeked \in Bytes
      BY <1>2, AvailableIsInside DEF TypeOK
    <3>2. want \in Nat \ {0}
      BY SMT DEF CountedByte, TypeOK
    <3>3. QED BY <1>2, <3>1, <3>2, AppendProperties, LenProperties
  <2>4. want' + Len(bytes') = want + Len(bytes)
    BY <1>2, <2>3, SMT
  <2>5. ASSUME call \in {"number", "boolean", "length"} PROVE NumberInv'
    <3>1. NumberInv
      BY <2>5 DEF LoopInv
    <3>2. offset' + want' < Size'
      <4>1. offset' = offset + 1 /\ offset \in Int /\ Size' = Size
        BY <1>2, <2>1, OneByte, Sizes DEF Size
      <4>2. QED BY <1>2, <2>3, <3>1, <4>1, SMT DEF NumberInv
    <3>3. PICK w \in Widths \cup {1, NumberBytes} : w = want + Len(bytes)
      BY <2>5, <3>1 DEF NumberInv
    <3>4. w \in Nat /\ Len(bytes') \in 0..w
      BY <2>3, <3>3, SMT
    <3>5. bytes' \in [1..Len(bytes') -> Bytes]
      BY <2>3, LenProperties
    <3>6. Seen!BigEndian(bytes') < Word
      BY <3>4, <3>5, WidthAssumption
    <3>7. Seen!BigEndian(bytes') = val * Radix + Peeked
      BY <1>2, <2>3, <3>1, NumberGrows DEF NumberInv
    <3>8. val * Radix + Peeked \in Nat
      <4>1. val \in Nat /\ Radix \in Nat /\ Peeked \in Nat
        BY <2>3, StreamAssumption, SMT DEF TypeOK, Bytes
      <4>2. QED BY <4>1, SMT
    <3>9. val' = val * Radix + Peeked
      BY <1>2, <3>6, <3>7, <3>8, StreamAssumption, SmallRemainder
    <3>10. QED BY <2>1, <2>4, <3>1, <3>2, <3>7, <3>9 DEF NumberInv
  <2>6. ASSUME call = "data" PROVE want' + Len(bytes') = Length'
    <3>1. Length' = Length
      BY <2>1 DEF Length, Start
    <3>2. QED BY <2>4, <2>6, <3>1 DEF LoopInv
  <2>7. QED BY <2>1, <2>2, <2>5, <2>6 DEF LoopInv
<1>3. QED BY <1>1, <1>2 DEF CountedByte
\* The length of the data is what the first bytes spell.
LEMMA CountedDoneLoop == ASSUME TypeOK, LoopInv, CountedDone PROVE LoopInv'
<1>1. CASE \E r : Return(r)
  BY <1>1 DEF Return, LoopInv
<1>2. CASE call = "length" /\ HasAtLeast(val) /\ Begin("data", val) /\ UNCHANGED begun
  <2>1. /\ UNCHANGED <<data, offset, begun>> /\ want = 0 /\ call' = "data"
        /\ BytesAreConsumed /\ NumberInv
    BY <1>2 DEF CountedDone, Begin, LoopInv
  <2>2. /\ Lead = 0 /\ Lead' = NumberBytes /\ NumberBytes \in Nat \ {0} /\ begun \in Int
        /\ Len(bytes) \in Nat /\ offset \in Int /\ Size \in Nat
    BY <1>2, <2>1, StreamAssumption, Sizes, SMT DEF Lead, TypeOK, None
  <2>3. Len(bytes) = NumberBytes /\ offset < Size
    <3>1. want + Len(bytes) = NumberBytes /\ offset + want < Size
      BY <1>2, <2>1 DEF NumberInv
    <3>2. QED BY <2>1, <2>2, <3>1, SMT
  <2>4. offset = begun + NumberBytes
    <3>1. offset = begun + 0 + NumberBytes
      BY <2>1, <2>2, <2>3 DEF BytesAreConsumed
    <3>2. QED BY <2>2, <3>1, SMT
  <2>5. BytesAreConsumed' /\ want' = val /\ Len(bytes') = 0
    <3>1. offset' = begun' + Lead' /\ offset' < Size' /\ begun' \in Int
      BY <2>1, <2>2, <2>3, <2>4 DEF Size
    <3>2. QED BY <1>2, <2>1, <3>1, BeginLoop
  <2>6. val = Length'
    <3>1. bytes = SubSeq(data, Start + 1, Start + NumberBytes)
      <4>1. Start + 0 + 1 = Start + 1 /\ Start + 0 = Start
        BY <2>2, SMT DEF Start
      <4>2. QED BY <2>1, <2>2, <2>3, <4>1, BytesAreASlice
    <3>2. QED BY <2>1, <3>1 DEF NumberInv, Length, Start
  <2>7. val + 0 = val
    BY SMT DEF TypeOK
  <2>8. QED BY <2>1, <2>5, <2>6, <2>7 DEF LoopInv
<1>3. QED BY <1>1, <1>2 DEF CountedDone, NumberDone, BooleanDone, DataDone, LengthDone

\* A search begins, behind the opening marker of a name.
LEMMA MarkLoop ==
  ASSUME TypeOK, NEW b \in Bytes, ReadUntil(b) \/ ReadIdentifier(b) PROVE LoopInv'
<1>1. CASE Return(Nothing)
  BY <1>1 DEF Return, LoopInv
<1>2. CASE ReadUntil(b)
  <2>1. /\ UNCHANGED <<data, offset>> /\ Begin("until", b) /\ begun' = offset
        /\ offset \in Int /\ call' = "until"
    BY <1>2, Sizes DEF ReadUntil, Begin
  <2>2. Lead' = 0 /\ offset' = begun' + Lead' /\ ~(Lead' > 0)
    BY <2>1, SMT DEF Lead
  <2>3. BytesAreConsumed' /\ Len(bytes') = 0 /\ want' = b
    BY <2>1, <2>2, BeginLoop
  <2>4. \A i \in 1..0 : FALSE
    BY SMT
  <2>5. NotMet'
    BY <2>3, <2>4 DEF NotMet, Bytes
  <2>6. QED BY <2>1, <2>3, <2>5 DEF LoopInv
<1>3. CASE /\ CanPeek /\ Peeked = b
           /\ MoveOffset
           /\ Begin("identifier", b) /\ begun' = offset /\ UNCHANGED data
  <2>1. /\ offset' = offset + 1 /\ offset + 1 < Size /\ offset \in Int /\ Size \in Nat
        /\ Peeked = data[offset + 2] /\ call' = "identifier"
    BY <1>3, Sight, OneByte, Sizes DEF Begin
  <2>2. Lead' = 1 /\ offset' = begun' + Lead' /\ offset' < Size'
    BY <1>3, <2>1 DEF Lead, Size
  <2>3. BytesAreConsumed' /\ Len(bytes') = 0 /\ want' = b
    BY <1>3, <2>1, <2>2, BeginLoop
  <2>4. \A i \in 1..0 : FALSE
    BY SMT
  <2>5. NotMet'
    BY <2>3, <2>4 DEF NotMet, Bytes
  <2>6. Start' + 1 = offset + 2
    BY <1>3, <2>1, SMT DEF Start
  <2>7. data'[Start' + 1] = want'
    BY <1>3, <2>1, <2>3, <2>6
  <2>8. QED BY <2>1, <2>3, <2>5, <2>7 DEF LoopInv
<1>4. QED BY <1>1, <1>2, <1>3 DEF ReadIdentifier

\* It goes on when the byte is not the one it looks for.
LEMMA MarkedByteLoop ==
  ASSUME TypeOK, LoopInv, UntilByte \/ IdentifierByte PROVE LoopInv'
<1>1. CASE \E r : Return(r)
  BY <1>1 DEF Return, LoopInv
<1>2. CASE /\ Available /\ Peeked # want
           /\ bytes' = Append(bytes, Peeked)
           /\ UNCHANGED <<call, want, val, begun, result>>
  <2>1. UNCHANGED <<data, begun, call, want>> /\ MoveOffset /\ call \in {"until", "identifier"}
    BY <1>2 DEF UntilByte, IdentifierByte
  <2>2. BytesAreConsumed'
    BY <1>2, <2>1, ByteMore DEF LoopInv
  <2>3. NotMet
    BY <2>1 DEF LoopInv
  <2>4. bytes \in Seq(Bytes) /\ Peeked \in Bytes
    BY <1>2, AvailableIsInside DEF TypeOK
  <2>5. PICK k \in Nat : k = Len(bytes)
    BY <2>4, LenProperties
  <2>6. /\ Len(bytes') = k + 1 /\ bytes'[k + 1] = Peeked
        /\ \A i \in 1..k : bytes'[i] = bytes[i]
    BY <1>2, <2>4, <2>5, AppendProperties
  <2>7. \A i \in 1..(k + 1) : i \in 1..k \/ i = k + 1
    BY SMT
  <2>8. NotMet'
    BY <1>2, <2>1, <2>3, <2>5, <2>6, <2>7 DEF NotMet, Bytes
  <2>9. QED BY <2>1, <2>2, <2>8 DEF LoopInv, Start
<1>3. QED BY <1>1, <1>2 DEF UntilByte, IdentifierByte

\* LoopInv is inductive, with the type invariant.
LEMMA NextLoop == ASSUME TypeOK, LoopInv, [Next]_vars PROVE LoopInv'
<1>1. CASE Progress
  BY <1>1, CountedByteLoop, CountedDoneLoop, MarkedByteLoop DEF Progress
<1>2. CASE Peek \/ Next1
  BY <1>2 DEF Peek, Next1, Return, LoopInv
<1>3. CASE ReadBoolean \/ ReadData
  BY <1>3, ReadCountedLoop DEF ReadBoolean, ReadData
<1>4. ASSUME NEW b \in Bytes,
             NextIf(b) \/ NextIfNot(b) \/ ReadUntil(b) \/ ReadIdentifier(b)
      PROVE  LoopInv'
  <2>1. CASE NextIf(b) \/ NextIfNot(b)
    BY <2>1 DEF NextIf, NextIfNot, Return, LoopInv
  <2>2. CASE ReadUntil(b) \/ ReadIdentifier(b)
    BY <2>2, MarkLoop
  <2>3. QED BY <1>4, <2>1, <2>2
<1>5. ASSUME NEW n \in Widths, ReadNumber(n) PROVE LoopInv'
  BY <1>5, ReadCountedLoop DEF ReadNumber
<1>6. CASE UNCHANGED vars
  BY <1>6 DEF vars, LoopInv, BytesAreConsumed, NumberInv, NotMet, Length, Lead, Start, Size
<1>7. QED BY <1>1, <1>2, <1>3, <1>4, <1>5, <1>6 DEF Next
(***************************************************************************)
(* Every step of the stream is a step of the cursor, or none.              *)
(***************************************************************************)
\* A call that is refused at once leaves the cursor where it is.
LEMMA RefusedSeen ==
  ASSUME TypeOK, call = "none", UNCHANGED <<data, offset>>, Return(Nothing),
         NEW s, s = Seen!Refuse(Seen!Now)
  PROVE  Seen!Move(s)
<1>1. Position = offset /\ offset \in Int
  BY Sizes DEF Position
<1>2. s.v = Nothing /\ s.at = Clip(Position + 1)
  BY NowIs DEF Reads, IsReader
<1>3. s.at = IF offset + 1 > Size THEN Size ELSE offset + 1
  BY <1>1, <1>2 DEF Clip
<1>4. QED BY <1>1, <1>2, <1>3, Returns

\* A call that is to read a number goes on, or is refused when too few bytes are left.
LEMMA ReadCountedSeen ==
  ASSUME TypeOK, NEW w \in Widths \cup {1, NumberBytes}, NEW function, function # "none",
         ReadCounted(function, w),
         NEW s, ~(w <= Seen!Left(Seen!Now)) => s = Seen!Refuse(Seen!Now)
  PROVE  UNCHANGED Seen!vars \/ (Seen!Move(s) /\ UNCHANGED data)
<1>1. call = "none" /\ UNCHANGED <<data, offset>>
  BY DEF ReadCounted
<1>2. CASE HasAtLeast(w) /\ Begin(function, w) /\ begun' = offset
  <2>1. Position' = Position /\ UNCHANGED <<data, result>>
    BY <1>1, <1>2 DEF Position, Begin
  <2>2. QED BY <2>1, Stutters
<1>3. CASE ~HasAtLeast(w) /\ Return(Nothing)
  <2>1. w \in Nat \ {0} /\ ~(offset + w < Size)
    BY <1>3, HasIs
  <2>2. PICK a \in Nat : /\ a = Clip(Position + 1) /\ Seen!Left(Seen!Now) = Size - a
                         /\ offset < Size => a = offset + 1
                         /\ offset + 1 >= Size => a = Size
    BY <1>1, NowIs DEF Reads, Position
  <2>3. ~(w <= Seen!Left(Seen!Now))
    BY <2>1, <2>2, Sizes, SMT
  <2>4. QED BY <1>1, <1>3, <2>3, RefusedSeen
<1>4. QED BY <1>2, <1>3 DEF ReadCounted

\* So readNumber,
LEMMA ReadNumberSeen ==
  ASSUME TypeOK, NEW n \in Widths, ReadNumber(n)
  PROVE  [Seen!Next]_(Seen!vars)
<1> DEFINE s == Seen!ReadNumber(Seen!Now, n)
<1>1. ~(n <= Seen!Left(Seen!Now)) => s = Seen!Refuse(Seen!Now)
  BY DEF Seen!ReadNumber
<1> HIDE DEF s
<1>2. UNCHANGED Seen!vars \/ (Seen!Move(s) /\ UNCHANGED data)
  BY <1>1, ReadCountedSeen DEF ReadNumber
<1>3. QED BY <1>2 DEF Seen!Next, s

\* readBoolean,
LEMMA ReadBooleanSeen == ASSUME TypeOK, ReadBoolean PROVE [Seen!Next]_(Seen!vars)
<1> DEFINE s == Seen!ReadBoolean(Seen!Now)
<1>1. Seen!Left(Seen!Now) \in Nat
  BY NowIs, Sizes, SMT DEF Reads
<1>2. ~(1 <= Seen!Left(Seen!Now)) => s = Seen!Refuse(Seen!Now)
  <2>1. ~(1 <= Seen!Left(Seen!Now)) => Seen!Left(Seen!Now) = 0
    <3>1. PICK l \in Nat : l = Seen!Left(Seen!Now)
      BY <1>1
    <3>2. QED BY <3>1, SMT
  <2>2. QED BY <2>1 DEF Seen!ReadBoolean
<1> HIDE DEF s
<1>3. UNCHANGED Seen!vars \/ (Seen!Move(s) /\ UNCHANGED data)
  BY <1>2, ReadCountedSeen DEF ReadBoolean
<1>4. QED BY <1>3 DEF Seen!Next, s

\* and readData.
LEMMA ReadDataSeen == ASSUME TypeOK, ReadData PROVE [Seen!Next]_(Seen!vars)
<1> DEFINE s == Seen!ReadData(Seen!Now)
<1>1. ~(NumberBytes <= Seen!Left(Seen!Now)) => s = Seen!Refuse(Seen!Now)
  <2>1. ~(NumberBytes <= Seen!Left(Seen!Now)) =>
          Seen!ReadNumber(Seen!Now, NumberBytes).v = Seen!Nothing
    BY NowIs DEF Seen!ReadNumber, Reads, Nothing, Seen!Nothing
  <2>2. QED BY <2>1 DEF Seen!ReadData
<1> HIDE DEF s
<1>2. UNCHANGED Seen!vars \/ (Seen!Move(s) /\ UNCHANGED data)
  BY <1>1, ReadCountedSeen DEF ReadData
<1>3. QED BY <1>2 DEF Seen!Next, Seen!Data, s

\* What a call of readData reads: its length first, then as many bytes or nothing.
LEMMA DataIs ==
  ASSUME TypeOK, NEW a \in Nat, a = Clip(Position + 1), a = Start, a + NumberBytes <= Size,
         Length \in Nat, NEW e, e = a + NumberBytes
  PROVE  /\ Length <= Size - e =>
              /\ Seen!ReadData(Seen!Now).at = e + Length
              /\ Seen!ReadData(Seen!Now).v = Some("bytes", SubSeq(data, e + 1, e + Length))
         /\ ~(Length <= Size - e) =>
              Seen!ReadData(Seen!Now).at = e /\ Seen!ReadData(Seen!Now).v = Nothing
<1> DEFINE n == Seen!ReadNumber(Seen!Now, NumberBytes)
           s == Seen!ReadData(Seen!Now)
<1>1. Reads(Seen!Now, data, a) /\ Size = Len(data) /\ Size \in Nat /\ NumberBytes \in Nat
  BY NowIs, StreamAssumption, Sizes
<1>2. NumberBytes <= Seen!Left(Seen!Now)
  <2>1. Seen!Left(Seen!Now) = Size - a
    BY <1>1 DEF Reads
  <2>2. QED BY <1>1, <2>1, SMT
<1>3. n = Seen!Give(Seen!Now, NumberBytes, <<"number", Length>>)
  <2>1. Seen!Slice(Seen!Now, NumberBytes) = SubSeq(data, a + 1, a + NumberBytes)
    BY <1>1 DEF Reads
  <2>2. QED BY <1>2, <2>1 DEF Seen!ReadNumber, Seen!Some, Length
<1> HIDE DEF n, s
<1>4. IsReader(n, data, e) /\ n.v = <<"number", Length>>
  BY <1>1, <1>3 DEF Reads
<1>5. Reads(n, data, e)
  BY <1>4, Readers
<1>6. n.v # Seen!Nothing /\ n.v[2] = Length
  BY <1>4, SMT DEF Seen!Nothing
<1>7. s = IF Length <= Seen!Left(n) THEN Seen!Give(n, Length, Seen!Some("bytes", Seen!Slice(n, Length)))
                                   ELSE Seen!Refuse(n)
  BY <1>6 DEF s, n, Seen!ReadData
<1>8. Seen!Left(n) = Size - e /\ Seen!Slice(n, Length) = SubSeq(data, e + 1, e + Length)
  BY <1>1, <1>5 DEF Reads
<1>9. CASE Length <= Size - e
  <2>1. s = Seen!Give(n, Length, Some("bytes", SubSeq(data, e + 1, e + Length)))
    BY <1>7, <1>8, <1>9 DEF Seen!Some, Some
  <2>2. s.at = e + Length /\ s.v = Some("bytes", SubSeq(data, e + 1, e + Length))
    BY <1>5, <2>1 DEF Reads, IsReader
  <2>3. QED BY <1>9, <2>2 DEF s
<1>10. CASE ~(Length <= Size - e)
  <2>1. s = Seen!Refuse(n)
    BY <1>7, <1>8, <1>10
  <2>2. s.at = e /\ s.v = Nothing
    BY <1>5, <2>1 DEF Reads, IsReader
  <2>3. QED BY <1>10, <2>2 DEF s
<1>11. QED BY <1>9, <1>10
\* The numbers of a running call, and the cursor's: it stands at the call's beginning.
LEMMA Standing ==
  ASSUME TypeOK, call # "none"
  PROVE  /\ Position = begun /\ begun \in Int /\ -1 <= begun /\ begun <= Size /\ Size \in Nat
         /\ Clip(Position + 1) = (IF begun + 1 > Size THEN Size ELSE begun + 1)
         /\ offset \in Int /\ offset <= Size /\ Len(bytes) \in Nat /\ bytes \in Seq(Bytes)
         /\ Start = begun + 1 /\ want \in Nat /\ val \in Nat
<1>1. Position = begun /\ Start = begun + 1
  BY DEF Position, Start
<1>2. begun \in Int /\ -1 <= begun /\ begun <= Size
  BY Sizes, SMT DEF TypeOK, None
<1>3. bytes \in Seq(Bytes) /\ Len(bytes) \in Nat /\ want \in Nat /\ val \in Nat
  BY LenProperties DEF TypeOK
<1>4. QED BY <1>1, <1>2, <1>3, Sizes DEF Clip

\* Where the data begins, once the length is read.
LEMMA LengthIsRead ==
  ASSUME TypeOK, LoopInv, call = "data" \/ (call = "length" /\ want = 0)
  PROVE  \E a \in Nat, e \in Nat, o \in Int, z \in Nat :
           /\ a = Clip(Position + 1) /\ a = Start /\ e = a + NumberBytes
           /\ o = offset /\ z = Size
           /\ Length \in Nat /\ e <= z /\ a < e
           /\ call = "length" => val = Length /\ o + 1 = e
           /\ call = "data" =>
                /\ o + 1 = e + Len(bytes) /\ o + 1 <= z
                /\ want + Len(bytes) = Length
                /\ bytes = SubSeq(data, e + 1, e + Len(bytes))
<1>1. call # "none" /\ NumberBytes \in Nat \ {0} /\ BytesAreConsumed
  BY StreamAssumption DEF LoopInv
<1>2. PICK g \in Int, o \in Int, z \in Nat, k \in Nat, w \in Nat, n \in Nat :
        /\ g = begun /\ o = offset /\ z = Size /\ k = Len(bytes) /\ w = want /\ n = NumberBytes
        /\ -1 <= g
  BY <1>1, Standing
<1>3. CASE call = "length" /\ want = 0
  <2>1. NumberInv /\ Lead = 0
    BY <1>3 DEF LoopInv, Lead
  <2>2. o + w < z /\ w + k = n /\ o = g + 0 + k /\ w = 0
    BY <1>1, <1>2, <1>3, <2>1 DEF NumberInv, BytesAreConsumed
  <2>3. k = n /\ o + 1 = (g + 1) + n /\ g + 1 \in Nat /\ (g + 1) + n \in Nat /\ (g + 1) + n <= z
        /\ g + 1 < (g + 1) + n /\ ~(g + 1 > z)
    BY <1>1, <1>2, <2>2, SMT
  <2>4. Clip(Position + 1) = g + 1 /\ Start = g + 1
    BY <1>1, <1>2, <2>3, Standing
  <2>5. bytes = SubSeq(data, Start + 1, Start + n)
    <3>1. Start + 0 + 1 = Start + 1 /\ Start + 0 = Start
      BY <1>2, <2>4, SMT
    <3>2. QED BY <1>1, <1>2, <2>1, <2>3, <3>1, BytesAreASlice
  <2>6. val = Length /\ val \in Nat
    BY <1>1, <1>2, <2>1, <2>5, Standing DEF NumberInv, Length
  <2>7. QED BY <1>2, <1>3, <2>3, <2>4, <2>6
<1>4. CASE call = "data"
  <2>1. want + Len(bytes) = Length /\ Lead = NumberBytes
    BY <1>4 DEF LoopInv, Lead
  <2>2. o = g + n + k /\ (n + k > 0 => o < z) /\ w + k = Length
    BY <1>1, <1>2, <2>1 DEF BytesAreConsumed
  <2>3. Length \in Nat /\ g + 1 \in Nat /\ (g + 1) + n \in Nat /\ (g + 1) + n <= z
        /\ o + 1 = (g + 1) + n + k /\ o + 1 <= z
        /\ g + 1 < (g + 1) + n /\ ~(g + 1 > z)
    BY <1>1, <1>2, <2>2, SMT
  <2>4. Clip(Position + 1) = g + 1 /\ Start = g + 1
    BY <1>1, <1>2, <2>3, Standing
  <2>5. bytes = SubSeq(data, Start + n + 1, Start + n + k)
    BY <1>1, <1>2, <2>1, BytesAreASlice
  <2>6. QED BY <1>2, <1>4, <2>1, <2>3, <2>4, <2>5
<1>5. QED BY <1>3, <1>4

\* Only data whose length is a lie can run into the end of the file, and all of it is lost.
LEMMA CountedByteSeen == ASSUME TypeOK, LoopInv, CountedByte PROVE [Seen!Next]_(Seen!vars)
<1>1. MoveOffset /\ UNCHANGED data /\ Counting /\ call # "none" /\ want > 0
  BY DEF CountedByte, Counting
<1>2. CASE Available /\ UNCHANGED <<call, begun, result>>
  <2>1. Position' = Position
    BY <1>1, <1>2 DEF Position
  <2>2. QED BY <1>1, <1>2, <2>1, Stutters
<1>3. CASE ~Available /\ Return(Nothing)
  <2>1. PICK o \in Int : o = offset' /\ o + 1 >= Size /\ offset + 1 >= Size
    BY <1>1, <1>3, EndOfFile
  <2>2. call = "data"
    <3>1. SUFFICES ASSUME call \in {"number", "boolean", "length"} PROVE FALSE
      BY <1>1 DEF Counting
    <3>2. offset + want < Size /\ want \in Nat /\ offset \in Int /\ Size \in Nat
      BY <1>1, <3>1, Standing DEF LoopInv, NumberInv
    <3>3. QED BY <1>1, <2>1, <3>2, SMT
  <2>3. PICK a \in Nat, e \in Nat, f \in Int, z \in Nat :
          /\ a = Clip(Position + 1) /\ a = Start /\ e = a + NumberBytes
          /\ f = offset /\ z = Size
          /\ Length \in Nat /\ e <= z /\ a < e
          /\ f + 1 = e + Len(bytes) /\ f + 1 <= z
          /\ want + Len(bytes) = Length
    BY <2>2, LengthIsRead
  <2>4. ~(Length <= Size - e)
    <3>1. PICK k \in Nat, w \in Nat : k = Len(bytes) /\ w = want
      BY <1>1, Standing
    <3>2. w > 0 /\ w + k = Length /\ f + 1 = e + k /\ f + 1 >= z
      BY <1>1, <2>1, <2>3, <3>1
    <3>3. QED BY <2>3, <3>2, SMT
  <2>5. Seen!ReadData(Seen!Now).at = e /\ Seen!ReadData(Seen!Now).v = Nothing
    BY <2>3, <2>4, DataIs
  <2>6. Clip(Position + 1)' = Size
    <3>1. Position' = o /\ Size' = Size
      BY <1>1, <1>3, <2>1 DEF Return, Position, Size
    <3>2. (IF o + 1 > Size THEN Size ELSE o + 1) = Size
      BY <2>1, Sizes, SMT
    <3>3. QED BY <3>1, <3>2 DEF Clip
  <2>7. result' = Nothing
    BY <1>3 DEF Return
  <2>8. Seen!Data
    BY <2>3, <2>5, <2>6, <2>7 DEF Seen!Data, Nothing, Seen!Nothing, Size
  <2>9. QED BY <1>1, <2>8 DEF Seen!Next
<1>4. QED BY <1>2, <1>3 DEF CountedByte

\* A number is complete.
LEMMA NumberIs ==
  ASSUME TypeOK, LoopInv, call \in {"number", "boolean"}, want = 0
  PROVE  /\ Len(bytes) \in Nat \ {0}
         /\ call = "number" => Len(bytes) \in Widths
         /\ call = "boolean" => Len(bytes) = 1
         /\ offset \in Int /\ offset + 1 <= Size /\ Clip(Position + 1) = Start
         /\ Start \in Nat /\ offset + 1 = Start + Len(bytes)
         /\ bytes = SubSeq(data, Start + 1, Start + Len(bytes))
         /\ val = Seen!BigEndian(bytes)
<1>1. call # "none" /\ BytesAreConsumed /\ NumberInv /\ Lead = 0
  BY DEF LoopInv, Lead
<1>2. PICK g \in Int, o \in Int, z \in Nat, k \in Nat :
        /\ g = begun /\ o = offset /\ z = Size /\ k = Len(bytes) /\ -1 <= g
  BY <1>1, Standing
<1>3. o + 0 < z /\ 0 + k \in (IF call = "number" THEN Widths ELSE {1}) /\ o = g + 0 + k
  BY <1>1, <1>2 DEF NumberInv, BytesAreConsumed
<1>4. 0 + k = k
  BY SMT
<1>5. k \in Nat \ {0} /\ (call = "number" => k \in Widths) /\ (call = "boolean" => k = 1)
  BY <1>3, <1>4, StreamAssumption
<1>6. o + 1 <= z /\ g + 1 \in Nat /\ o + 1 = g + 1 + k /\ ~(g + 1 > z)
  BY <1>2, <1>3, <1>5, SMT
<1>7. Start = g + 1 /\ Clip(Position + 1) = g + 1
  BY <1>1, <1>2, <1>6, Standing
<1>8. bytes = SubSeq(data, Start + 1, Start + k)
  <2>1. Start + 0 + 1 = Start + 1 /\ Start + 0 = Start
    BY <1>2, <1>7, SMT
  <2>2. QED BY <1>1, <1>2, <2>1, BytesAreASlice
<1>9. QED BY <1>1, <1>2, <1>5, <1>6, <1>7, <1>8 DEF NumberInv

\* readNumber returns the number its bytes spell.
LEMMA NumberDoneSeen == ASSUME TypeOK, LoopInv, CountedDone, NumberDone PROVE Seen!Next
<1> DEFINE k == Len(bytes)
           s == Seen!ReadNumber(Seen!Now, k)
<1>1. call = "number" /\ want = 0 /\ UNCHANGED <<data, offset>> /\ Return(Some("number", val))
  BY DEF CountedDone, NumberDone
<1>2. /\ k \in Widths /\ k \in Nat \ {0} /\ offset \in Int /\ offset + 1 <= Size
      /\ Clip(Position + 1) = Start /\ Start \in Nat /\ offset + 1 = Start + k
      /\ bytes = SubSeq(data, Start + 1, Start + k) /\ val = Seen!BigEndian(bytes)
  BY <1>1, NumberIs
<1> HIDE DEF k
<1>3. Reads(Seen!Now, data, Start) /\ Size = Len(data) /\ Size \in Nat
  BY <1>2, NowIs, Sizes
<1>4. k <= Seen!Left(Seen!Now)
  <2>1. Seen!Left(Seen!Now) = Size - Start
    BY <1>3 DEF Reads
  <2>2. QED BY <1>2, <1>3, <2>1, SMT
<1>5. s = Seen!Give(Seen!Now, k, Some("number", val))
  BY <1>2, <1>3, <1>4 DEF Seen!ReadNumber, Reads, Seen!Some, Some
<1> HIDE DEF s
<1>6. s.at = Start + k /\ s.v = Some("number", val)
  BY <1>3, <1>5 DEF Reads, IsReader
<1>7. s.at = IF offset + 1 > Size THEN Size ELSE offset + 1
  BY <1>2, <1>3, <1>6, SMT
<1>8. Seen!Move(s)
  BY <1>1, <1>2, <1>6, <1>7, Returns
<1>9. QED BY <1>1, <1>2, <1>8 DEF Seen!Next, s

\* readBoolean returns what its only byte says.
LEMMA BooleanDoneSeen == ASSUME TypeOK, LoopInv, CountedDone, BooleanDone PROVE Seen!Next
<1> DEFINE s == Seen!ReadBoolean(Seen!Now)
           x == IF val \in {0, 1} THEN Some("boolean", val = 1) ELSE Nothing
<1>1. call = "boolean" /\ want = 0 /\ UNCHANGED <<data, offset>> /\ Return(x)
  BY DEF CountedDone, BooleanDone
<1>2. /\ Len(bytes) = 1 /\ offset \in Int /\ offset + 1 <= Size
      /\ Clip(Position + 1) = Start /\ Start \in Nat /\ offset + 1 = Start + 1
      /\ bytes = SubSeq(data, Start + 1, Start + 1) /\ val = Seen!BigEndian(bytes)
  BY <1>1, NumberIs
<1>3. Reads(Seen!Now, data, Start) /\ Size = Len(data) /\ Size \in Nat
  BY <1>2, NowIs, Sizes
<1>4. Seen!Left(Seen!Now) # 0 /\ Seen!Ahead(Seen!Now, 1) = data[Start + 1]
  <2>1. Seen!Left(Seen!Now) = Size - Start /\ Seen!Ahead(Seen!Now, 1) = data[Start + 1]
    BY <1>3 DEF Reads
  <2>2. QED BY <1>2, <1>3, <2>1, SMT
<1>5. val = data[Start + 1]
  <2>1. bytes[1] = data[Start + 1] /\ bytes[1] \in Bytes /\ bytes \in Seq(Bytes)
    <3>1. bytes \in Seq(Bytes) /\ 1 \in 1..Len(bytes)
      BY <1>2, SMT DEF TypeOK
    <3>2. bytes[1] = data[Start + 0 + 1]
      BY <1>1, <3>1 DEF LoopInv, BytesAreConsumed, Lead
    <3>3. Start + 0 + 1 = Start + 1
      BY <1>2, SMT
    <3>4. QED BY <3>1, <3>2, <3>3, ElementOfSeq
  <2>2. PICK y \in Bytes : y = bytes[1]
    BY <2>1
  <2>3. <<>> \in Seq(Bytes) /\ Len(<<>>) = 0
    BY EmptySeq
  <2>4. bytes = Append(<<>>, y)
    <3>1. Append(<<>>, y) = <<y>>
      OBVIOUS
    <3>2. <<y>> \in Seq(Bytes) /\ Len(<<y>>) = 1 /\ <<y>>[1] = y
      OBVIOUS
    <3>3. \A i \in 1..1 : bytes[i] = <<y>>[i]
      <4>1. \A i \in 1..1 : i = 1
        BY SMT
      <4>2. QED BY <2>2, <3>2, <4>1
    <3>4. QED BY <1>2, <2>1, <3>1, <3>2, <3>3, SeqEqual
  <2>5. Seen!BigEndian(bytes) = 0 * Radix + y
    BY <2>3, <2>4, NumberGrows
  <2>6. 0 * Radix + y = y
    BY StreamAssumption, SMT DEF Bytes
  <2>7. QED BY <1>2, <2>1, <2>2, <2>5, <2>6
<1>6. s = Seen!Give(Seen!Now, 1, x)
  BY <1>4, <1>5 DEF Seen!ReadBoolean, Seen!Some, Some, Seen!Nothing, Nothing
<1> HIDE DEF s, x
<1>7. s.at = Start + 1 /\ s.v = x
  BY <1>3, <1>6 DEF Reads, IsReader
<1>8. s.at = IF offset + 1 > Size THEN Size ELSE offset + 1
  BY <1>2, <1>3, <1>7, SMT
<1>9. Seen!Move(s)
  BY <1>1, <1>2, <1>7, <1>8, Returns
<1>10. QED BY <1>1, <1>9 DEF Seen!Next, s

\* readData returns its data, or goes on when the length is read, or refuses it.
LEMMA DataDoneSeen ==
  ASSUME TypeOK, LoopInv, CountedDone, DataDone \/ LengthDone PROVE [Seen!Next]_(Seen!vars)
<1> DEFINE s == Seen!ReadData(Seen!Now)
<1>1. want = 0 /\ UNCHANGED <<data, offset>> /\ call \in {"data", "length"}
  BY DEF CountedDone, DataDone, LengthDone
<1>2. PICK a \in Nat, e \in Nat, o \in Int, z \in Nat :
        /\ a = Clip(Position + 1) /\ a = Start /\ e = a + NumberBytes
        /\ o = offset /\ z = Size
        /\ Length \in Nat /\ e <= z /\ a < e
        /\ call = "length" => val = Length /\ o + 1 = e
        /\ call = "data" =>
             /\ o + 1 = e + Len(bytes) /\ o + 1 <= z
             /\ want + Len(bytes) = Length
             /\ bytes = SubSeq(data, e + 1, e + Len(bytes))
  BY <1>1, LengthIsRead
<1>3. /\ Length <= Size - e =>
           s.at = e + Length /\ s.v = Some("bytes", SubSeq(data, e + 1, e + Length))
      /\ ~(Length <= Size - e) => s.at = e /\ s.v = Nothing
  BY <1>2, DataIs
<1> HIDE DEF s
<1>4. ASSUME Seen!Move(s) PROVE Seen!Next
  BY <1>1, <1>4 DEF Seen!Next, Seen!Data, s
<1>5. CASE DataDone
  <2>1. call = "data" /\ Return(Some("bytes", bytes))
    BY <1>5 DEF DataDone
  <2>2. PICK k \in Nat : k = Len(bytes)
    BY <2>1, Standing
  <2>3. o + 1 = e + k /\ o + 1 <= z /\ 0 + k = Length /\ 0 + k = k
    BY <1>1, <1>2, <2>1, <2>2, SMT
  <2>4. k = Length /\ Length <= Size - e
    BY <1>2, <2>3, SMT
  <2>5. s.v = Some("bytes", bytes) /\ s.at = e + Length
    BY <1>2, <1>3, <2>1, <2>2, <2>4
  <2>6. s.at = IF o + 1 > Size THEN Size ELSE o + 1
    BY <1>2, <2>3, <2>4, <2>5, SMT
  <2>7. Seen!Move(s)
    BY <1>1, <1>2, <2>1, <2>5, <2>6, Returns
  <2>8. QED BY <1>4, <2>7
<1>6. CASE LengthDone /\ Begin("data", val) /\ UNCHANGED begun
  <2>1. Position' = Position /\ UNCHANGED <<data, result>>
    BY <1>1, <1>6 DEF LengthDone, Begin, Position
  <2>2. QED BY <2>1, Stutters
<1>7. CASE LengthDone /\ ~HasAtLeast(val) /\ Return(Nothing)
  <2>1. call = "length" /\ val = Length /\ o + 1 = e
    BY <1>2, <1>7 DEF LengthDone
  <2>2. ~(Length <= Size - e)
    <3>1. SUFFICES ASSUME Length <= Size - e PROVE HasAtLeast(val)
      BY <1>7
    <3>2. o \in Nat /\ o < z /\ o + Length < z /\ o + Length \in Nat
      BY <1>2, <2>1, <3>1, SMT
    <3>3. Word \in Nat /\ z < Word
      BY <1>2, Sizes
    <3>4. (o + Length) % Word = o + Length
      BY <3>2, <3>3, SmallRemainder, SMT
    <3>5. ~Eof
      BY <1>2, <3>2, SMT DEF Eof, None
    <3>6. offset # None
      BY <1>2, <3>2, SMT DEF None
    <3>7. QED BY <1>2, <2>1, <3>2, <3>4, <3>5, <3>6 DEF HasAtLeast
  <2>3. s.at = e /\ s.v = Nothing
    BY <1>3, <2>2
  <2>4. s.at = IF o + 1 > Size THEN Size ELSE o + 1
    BY <1>2, <2>1, <2>3, SMT
  <2>5. Seen!Move(s)
    BY <1>1, <1>2, <1>7, <2>3, <2>4, Returns
  <2>6. QED BY <1>4, <2>5
<1>8. QED BY <1>5, <1>6, <1>7 DEF LengthDone
\* A slice that is one longer has one more.
LEMMA SliceGrows ==
  ASSUME NEW S, NEW f, NEW m \in Nat, NEW k \in Nat, NEW x \in S,
         NEW b \in Seq(S), Len(b) = k, \A i \in 1..k : b[i] = f[m + i], f[m + (k + 1)] = x
  PROVE  SubSeq(f, m + 1, m + (k + 1)) = Append(b, x)
<1> DEFINE t == SubSeq(f, m + 1, m + (k + 1))
           c == Append(b, x)
<1>1. /\ c \in Seq(S) /\ Len(c) = k + 1 /\ c[k + 1] = x
      /\ \A i \in 1..k : c[i] = b[i]
  BY AppendProperties
<1>2. \A i \in (m + 1)..(m + (k + 1)) : f[i] \in S
  <2>1. \A i \in (m + 1)..(m + (k + 1)) :
          \/ i - m \in 1..k /\ m + (i - m) = i
          \/ i = m + (k + 1)
    BY SMT
  <2>2. \A i \in 1..k : f[m + i] \in S
    BY ElementOfSeq
  <2>3. QED BY <2>1, <2>2
<1>3. /\ t \in Seq(S)
      /\ Len(t) = IF m + 1 <= m + (k + 1) THEN m + (k + 1) - (m + 1) + 1 ELSE 0
      /\ \A i \in 1..(m + (k + 1) - (m + 1) + 1) : t[i] = f[m + 1 + i - 1]
  BY <1>2, SubSeqProperties
<1> HIDE DEF t, c
<1>4. Len(t) = k + 1 /\ \A i \in 1..(k + 1) : t[i] = f[m + i]
  BY <1>3, SMT
<1>5. \A i \in 1..(k + 1) : i \in 1..k \/ i = k + 1
  BY SMT
<1>6. \A i \in 1..(k + 1) : t[i] = c[i]
  BY <1>1, <1>4, <1>5
<1>7. t = c
  BY <1>1, <1>3, <1>4, <1>6, SeqEqual
<1>8. QED BY <1>7 DEF t, c

\* A slice of a slice.
LEMMA SliceOfSlice ==
  ASSUME NEW S, NEW f, NEW m \in Nat, NEW k \in Nat, \A i \in 1..(k + 1) : f[m + i] \in S,
         NEW b \in Seq(S), Len(b) = k, \A i \in 1..k : b[i] = f[m + 1 + i]
  PROVE  SubSeq(SubSeq(f, m + 1, m + (k + 1)), 2, k + 1) = b
<1> DEFINE t == SubSeq(f, m + 1, m + (k + 1))
           u == SubSeq(t, 2, k + 1)
<1>1. \A i \in (m + 1)..(m + (k + 1)) : f[i] \in S
  <2>1. \A i \in (m + 1)..(m + (k + 1)) : i - m \in 1..(k + 1) /\ m + (i - m) = i
    BY SMT
  <2>2. QED BY <2>1
<1>2. \A i \in 1..(m + (k + 1) - (m + 1) + 1) : t[i] = f[m + 1 + i - 1]
  BY <1>1, SubSeqProperties
<1> HIDE DEF t
<1>3. \A i \in 1..(k + 1) : t[i] = f[m + i]
  BY <1>2, SMT
<1>4. \A i \in 2..(k + 1) : t[i] \in S
  <2>1. \A i \in 2..(k + 1) : i \in 1..(k + 1)
    BY SMT
  <2>2. QED BY <1>3, <2>1
<1>5. /\ u \in Seq(S) /\ Len(u) = IF 2 <= k + 1 THEN k + 1 - 2 + 1 ELSE 0
      /\ \A i \in 1..(k + 1 - 2 + 1) : u[i] = t[2 + i - 1]
  BY <1>4, SubSeqProperties
<1> HIDE DEF u
<1>6. Len(u) = k /\ \A i \in 1..k : u[i] = t[i + 1] /\ i + 1 \in 1..(k + 1) /\ m + (i + 1) = m + 1 + i
  BY <1>5, SMT
<1>7. \A i \in 1..k : u[i] = b[i]
  BY <1>3, <1>6
<1>8. u = b
  BY <1>5, <1>6, <1>7, SeqEqual
<1>9. QED BY <1>8 DEF t, u

\* A search begins, or there is no opening marker.
LEMMA MarkSeen ==
  ASSUME TypeOK, NEW b \in Bytes, ReadUntil(b) \/ ReadIdentifier(b)
  PROVE  [Seen!Next]_(Seen!vars)
<1>1. call = "none" /\ UNCHANGED data
  BY DEF ReadUntil, ReadIdentifier
<1>2. ASSUME NEW function \in {"until", "identifier"}, Begin(function, b), begun' = offset
      PROVE  UNCHANGED Seen!vars
  <2>1. Position' = Position /\ UNCHANGED result
    BY <1>1, <1>2 DEF Begin, Position
  <2>2. QED BY <1>1, <2>1, Stutters
<1>3. CASE ~(CanPeek /\ Peeked = b) /\ UNCHANGED offset /\ Return(Nothing)
  <2> DEFINE s == Seen!ReadIdentifier(Seen!Now, b)
             a == Clip(Position + 1)
  <2>1. /\ Reads(Seen!Now, data, a) /\ a \in Nat /\ Size = Len(data) /\ Size \in Nat
        /\ offset \in Int
        /\ a = IF offset + 1 > Size THEN Size ELSE offset + 1
    BY <1>1, NowIs, Sizes DEF Clip, Position
  <2> HIDE DEF a
  <2>2. Seen!Left(Seen!Now) = Size - a /\ Seen!Ahead(Seen!Now, 1) = data[a + 1]
    BY <2>1 DEF Reads
  <2>3. Seen!Positions(Seen!Now, 1, b) = {} \/ Seen!Ahead(Seen!Now, 1) # b
    <3>1. CASE offset + 1 < Size
      <4>1. a + 1 = offset + 2
        BY <2>1, <3>1, SMT
      <4>2. QED BY <1>3, <2>2, <3>1, <4>1, Sight
    <3>2. CASE ~(offset + 1 < Size)
      <4>1. Size - a = 0
        BY <2>1, <3>2, SMT
      <4>2. \A i \in 1..0 : FALSE
        BY SMT
      <4>3. QED BY <2>2, <4>1, <4>2 DEF Seen!Positions
    <3>3. QED BY <3>1, <3>2
  <2>4. s = Seen!Refuse(Seen!Now)
    BY <2>3 DEF Seen!ReadIdentifier
  <2> HIDE DEF s
  <2>5. Seen!Move(s)
    BY <1>1, <1>3, <2>4, RefusedSeen
  <2>6. QED BY <1>1, <2>5 DEF Seen!Next, Seen!Bytes, Bytes, s
<1>4. QED BY <1>2, <1>3 DEF ReadUntil, ReadIdentifier

\* readUntil ends at the first byte that is the one, or at the end of the file.
LEMMA UntilByteSeen == ASSUME TypeOK, LoopInv, UntilByte PROVE [Seen!Next]_(Seen!vars)
<1> DEFINE s == Seen!ReadUntil(Seen!Now, want)
           found == Seen!Positions(Seen!Now, 1, want)
<1>1. call = "until" /\ call # "none" /\ UNCHANGED data /\ MoveOffset
  BY DEF UntilByte
<1>2. BytesAreConsumed /\ NotMet /\ Lead = 0
  BY <1>1 DEF LoopInv, Lead
<1>3. PICK g \in Int, o \in Int, z \in Nat, k \in Nat :
        /\ g = begun /\ o = offset /\ z = Size /\ k = Len(bytes) /\ -1 <= g /\ g <= z
  BY <1>1, Standing
<1>4. o = g + 0 + k /\ (0 + k > 0 => o < z) /\ \A i \in 1..k : bytes[i] = data[g + 1 + 0 + i]
  BY <1>1, <1>2, <1>3, Standing DEF BytesAreConsumed
<1>5. PICK a \in Nat : a = Clip(Position + 1) /\ a = IF g + 1 > z THEN z ELSE g + 1
  BY <1>1, <1>3, Standing, NowIs
<1>6. /\ Reads(Seen!Now, data, a) /\ Seen!Left(Seen!Now) = z - a
      /\ \A j : Seen!Ahead(Seen!Now, j) = data[a + j]
      /\ \A n : Seen!Slice(Seen!Now, n) = SubSeq(data, a + 1, a + n)
  BY <1>3, <1>5, NowIs DEF Reads
<1>7. bytes \in Seq(Bytes) /\ want \in Bytes /\ \A i \in 1..k : bytes[i] # want
  BY <1>1, <1>2, <1>3, Standing DEF NotMet
<1>8. found = {j \in 1..(z - a) : data[a + j] = want}
  BY <1>6 DEF Seen!Positions
<1>9. k > 0 => a = g + 1
  BY <1>3, <1>4, <1>5, SMT
<1>10. \A j \in 1..k : data[a + j] = bytes[j]
  <2>1. \A j \in 1..k : g + 1 + 0 + j = a + j
    BY <1>3, <1>9, SMT
  <2>2. QED BY <1>4, <2>1
<1>11. CASE ~Available /\ Return(<<"cut", bytes>>)
  <2>1. PICK p \in Int : p = offset' /\ p + 1 >= z /\ o + 1 >= z
    BY <1>1, <1>3, <1>11, EndOfFile
  <2>2. z - a = k /\ a + k = z
    <3>1. CASE g + 1 > z
      BY <1>3, <1>4, <1>5, <3>1, SMT
    <3>2. CASE g + 1 <= z
      BY <1>3, <1>4, <1>5, <2>1, <3>2, SMT
    <3>3. QED BY <1>3, <3>1, <3>2, SMT
  <2>3. found = {}
    BY <1>7, <1>8, <1>10, <2>2
  <2>4. bytes = SubSeq(data, a + 1, a + k)
    <3>1. CASE k = 0
      <4>1. bytes = <<>>
        BY <1>3, <1>7, <3>1, EmptySeq
      <4>2. SubSeq(data, a + 1, a + k) = <<>>
        <5>1. a + k < a + 1 /\ a + 1 \in Int /\ a + k \in Int
          BY <3>1, SMT
        <5>2. QED BY <5>1, SubSeqEmpty
      <4>3. QED BY <4>1, <4>2
    <3>2. CASE k # 0
      <4>1. Start + 0 = a /\ Start + 0 + 1 = a + 1 /\ Start + 0 + k = a + k
        <5>1. Start = g + 1 /\ a = g + 1
          BY <1>3, <1>9, <3>2, SMT DEF Start
        <5>2. QED BY <1>3, <5>1, SMT
      <4>2. QED BY <1>2, <1>3, <4>1, BytesAreASlice
    <3>3. QED BY <3>1, <3>2
  <2>5. s = Seen!Give(Seen!Now, z - a, <<"cut", bytes>>)
    BY <1>6, <2>2, <2>3, <2>4 DEF Seen!ReadUntil
  <2> HIDE DEF s
  <2>6. s.at = a + (z - a) /\ s.v = <<"cut", bytes>>
    BY <1>6, <2>5 DEF Reads, IsReader
  <2>7. s.at = IF p + 1 > z THEN z ELSE p + 1
    <3>1. a + (z - a) = z
      BY a \in Nat, z \in Nat, SMT
    <3>2. (IF p + 1 > z THEN z ELSE p + 1) = z
      <4>1. p + 1 >= z
        BY <2>1
      <4>2. p + 1 > z \/ p + 1 = z
        BY <4>1, p \in Int, z \in Int, SMT
      <4>3. QED BY <4>2, Zenon
    <3>3. QED BY <2>6, <3>1, <3>2
  <2>8. Seen!Move(s)
    BY <1>1, <1>3, <1>11, <2>1, <2>6, <2>7, Returns
  <2>9. QED BY <1>1, <1>7, <2>8 DEF Seen!Next, Seen!Bytes, Bytes, s
<1>12. CASE Available /\ Peeked = want /\ Return(Some("bytes", Append(bytes, Peeked)))
  <2>1. offset' = o + 1 /\ o + 1 < z /\ Peeked = data[o + 2]
    BY <1>1, <1>3, <1>12, OneByte, Sight
  <2>2. a = g + 1 /\ o + 2 = a + (k + 1) /\ k + 1 \in 1..(z - a) /\ (o + 1) + 1 = a + (k + 1)
        /\ (o + 1) + 1 <= z
    BY <1>3, <1>4, <1>5, <2>1, SMT
  <2>3. k + 1 \in found
    BY <1>8, <1>12, <2>1, <2>2
  <2>4. \A j \in found : k + 1 <= j
    <3>1. SUFFICES ASSUME NEW j \in 1..(z - a), data[a + j] = want, ~(k + 1 <= j) PROVE FALSE
      BY <1>8
    <3>2. j \in 1..k
      BY <3>1, SMT
    <3>3. QED BY <1>7, <1>10, <3>1, <3>2
  <2>5. found \subseteq Int
    BY <1>8, SMT
  <2> HIDE DEF found
  <2>6. Seen!First(found) = k + 1
    BY <2>3, <2>4, <2>5, FirstIs
  <2>7. SubSeq(data, a + 1, a + (k + 1)) = Append(bytes, Peeked)
    BY <1>3, <1>7, <1>10, <1>12, <2>1, <2>2, SliceGrows
  <2>8. s = Seen!Give(Seen!Now, k + 1, Some("bytes", Append(bytes, Peeked)))
    BY <1>6, <2>3, <2>6, <2>7 DEF Seen!ReadUntil, found, Seen!Some, Some
  <2> HIDE DEF s
  <2>9. s.at = a + (k + 1) /\ s.v = Some("bytes", Append(bytes, Peeked))
    BY <1>6, <2>8 DEF Reads, IsReader
  <2>10. s.at = IF (o + 1) + 1 > z THEN z ELSE (o + 1) + 1
    BY <1>3, <2>2, <2>9, SMT
  <2>11. Seen!Move(s)
    <3>1. o + 1 \in Int
      BY <1>3, SMT
    <3>2. QED BY <1>1, <1>3, <1>12, <2>1, <2>9, <2>10, <3>1, Returns
  <2>12. QED BY <1>1, <1>7, <2>11 DEF Seen!Next, Seen!Bytes, Bytes, s
<1>13. CASE UNCHANGED <<call, want, val, begun, result>>
  <2>1. Position' = Position
    BY <1>1, <1>13 DEF Position
  <2>2. QED BY <1>1, <1>13, <2>1, Stutters
<1>14. QED BY <1>11, <1>12, <1>13 DEF UntilByte

\* readIdentifier ends at the first closing marker, or nowhere.
LEMMA IdentifierByteSeen ==
  ASSUME TypeOK, LoopInv, IdentifierByte PROVE [Seen!Next]_(Seen!vars)
<1> DEFINE s == Seen!ReadIdentifier(Seen!Now, want)
           found == Seen!Positions(Seen!Now, 2, want)
<1>1. call = "identifier" /\ call # "none" /\ UNCHANGED data /\ MoveOffset
  BY DEF IdentifierByte
<1>2. BytesAreConsumed /\ NotMet /\ Lead = 1 /\ data[Start + 1] = want
  BY <1>1 DEF LoopInv, Lead
<1>3. PICK g \in Int, o \in Int, z \in Nat, k \in Nat :
        /\ g = begun /\ o = offset /\ z = Size /\ k = Len(bytes) /\ -1 <= g
  BY <1>1, Standing
<1>4. o = g + 1 + k /\ (1 + k > 0 => o < z) /\ \A i \in 1..k : bytes[i] = data[g + 1 + 1 + i]
  BY <1>1, <1>2, <1>3, Standing DEF BytesAreConsumed
<1>5. PICK a \in Nat : a = Clip(Position + 1) /\ a = IF g + 1 > z THEN z ELSE g + 1
  BY <1>1, <1>3, Standing, NowIs
<1>6. a = g + 1 /\ a < z /\ o = a + k /\ o < z /\ 1 \in 1..(z - a)
  <2>1. o = g + 1 + k /\ (1 + k > 0 => o < z)
    BY <1>4
  <2>2. g \in Int /\ o \in Int /\ z \in Nat /\ k \in Nat /\ -1 <= g
    BY <1>3
  <2>3. o < z /\ ~(g + 1 > z)
    BY <2>1, <2>2, SMT
  <2>4. a = g + 1
    BY <1>5, <2>3
  <2>5. QED BY <2>1, <2>2, <2>3, <2>4, SMT
<1>7. /\ Reads(Seen!Now, data, a) /\ Seen!Left(Seen!Now) = z - a
      /\ \A j : Seen!Ahead(Seen!Now, j) = data[a + j]
      /\ \A n : Seen!Slice(Seen!Now, n) = SubSeq(data, a + 1, a + n)
  BY <1>3, <1>5, NowIs DEF Reads
<1>8. bytes \in Seq(Bytes) /\ want \in Bytes /\ \A i \in 1..k : bytes[i] # want
  BY <1>1, <1>2, <1>3, Standing DEF NotMet
<1>9. found = {j \in 2..(z - a) : data[a + j] = want}
  BY <1>7 DEF Seen!Positions
<1>10. ~(Seen!Positions(Seen!Now, 1, want) = {} \/ Seen!Ahead(Seen!Now, 1) # want)
  <2>1. data[a + 1] = want
    BY <1>1, <1>2, <1>3, <1>6, Standing
  <2>2. QED BY <1>6, <1>7, <2>1 DEF Seen!Positions
<1>11. \A j \in 2..(k + 1) : data[a + j] # want
  <2>1. \A j \in 2..(k + 1) : j - 1 \in 1..k /\ g + 1 + 1 + (j - 1) = a + j
    BY <1>3, <1>6, SMT
  <2>2. QED BY <1>4, <1>8, <2>1
<1>12. CASE ~Available /\ Return(Nothing)
  <2>1. PICK p \in Int : p = offset' /\ p + 1 >= z /\ o + 1 >= z
    BY <1>1, <1>3, <1>12, EndOfFile
  <2>2. z - a = k + 1
    BY <1>3, <1>6, <2>1, SMT
  <2>3. found = {}
    BY <1>9, <1>11, <2>2
  <2>4. s = Seen!Give(Seen!Now, z - a, Nothing)
    BY <1>7, <1>10, <2>3 DEF Seen!ReadIdentifier, Nothing, Seen!Nothing
  <2> HIDE DEF s
  <2>5. s.at = a + (z - a) /\ s.v = Nothing
    BY <1>7, <2>4 DEF Reads, IsReader
  <2>6. s.at = IF p + 1 > z THEN z ELSE p + 1
    <3>1. a + (z - a) = z
      BY a \in Nat, z \in Nat, SMT
    <3>2. (IF p + 1 > z THEN z ELSE p + 1) = z
      <4>1. p + 1 >= z
        BY <2>1
      <4>2. p + 1 > z \/ p + 1 = z
        BY <4>1, p \in Int, z \in Int, SMT
      <4>3. QED BY <4>2, Zenon
    <3>3. QED BY <2>5, <3>1, <3>2
  <2>7. Seen!Move(s)
    BY <1>1, <1>3, <1>12, <2>1, <2>5, <2>6, Returns
  <2>8. QED BY <1>1, <1>8, <2>7 DEF Seen!Next, Seen!Bytes, Bytes, s
<1>13. CASE Available /\ Peeked = want /\ Return(Some("bytes", bytes))
  <2>1. offset' = o + 1 /\ o + 1 < z /\ Peeked = data[o + 2]
    BY <1>1, <1>3, <1>13, OneByte, Sight
  <2>2. o + 2 = a + (k + 2) /\ k + 2 \in 2..(z - a) /\ (o + 1) + 1 = a + (k + 2)
        /\ (o + 1) + 1 <= z /\ (k + 2) - 1 = k + 1
    BY <1>3, <1>6, <2>1, SMT
  <2>3. k + 2 \in found
    BY <1>9, <1>13, <2>1, <2>2
  <2>4. \A j \in found : k + 2 <= j
    <3>1. SUFFICES ASSUME NEW j \in 2..(z - a), data[a + j] = want, ~(k + 2 <= j) PROVE FALSE
      BY <1>9
    <3>2. j \in 2..(k + 1)
      BY <3>1, SMT
    <3>3. QED BY <1>11, <3>1, <3>2
  <2>5. found \subseteq Int
    BY <1>9, SMT
  <2> HIDE DEF found
  <2>6. Seen!First(found) = k + 2
    BY <2>3, <2>4, <2>5, FirstIs
  <2>7. SubSeq(SubSeq(data, a + 1, a + (k + 1)), 2, k + 1) = bytes
    <3>1. \A i \in 1..(k + 1) : data[a + i] \in Bytes
      <4>1. data \in Seq(Bytes) /\ Size = Len(data)
        BY Sizes DEF Size
      <4>2. \A i \in 1..(k + 1) : a + i \in 1..z
        BY <1>6, SMT
      <4>3. QED BY <1>3, <4>1, <4>2, ElementOfSeq
    <3>2. \A i \in 1..k : bytes[i] = data[a + 1 + i]
      BY <1>4, <1>6
    <3>3. QED BY <1>3, <1>8, <3>1, <3>2, SliceOfSlice
  <2>8. s = Seen!Give(Seen!Now, k + 2, Some("bytes", bytes))
    BY <1>7, <1>10, <2>2, <2>3, <2>6, <2>7 DEF Seen!ReadIdentifier, found, Seen!Some, Some
  <2> HIDE DEF s
  <2>9. s.at = a + (k + 2) /\ s.v = Some("bytes", bytes)
    BY <1>7, <2>8 DEF Reads, IsReader
  <2>10. s.at = IF (o + 1) + 1 > z THEN z ELSE (o + 1) + 1
    BY <1>3, <2>2, <2>9, SMT
  <2>11. Seen!Move(s)
    <3>1. o + 1 \in Int
      BY <1>3, SMT
    <3>2. QED BY <1>1, <1>3, <1>13, <2>1, <2>9, <2>10, <3>1, Returns
  <2>12. QED BY <1>1, <1>8, <2>11 DEF Seen!Next, Seen!Bytes, Bytes, s
<1>14. CASE UNCHANGED <<call, want, val, begun, result>>
  <2>1. Position' = Position
    BY <1>1, <1>14 DEF Position
  <2>2. QED BY <1>1, <1>14, <2>1, Stutters
<1>15. QED BY <1>12, <1>13, <1>14 DEF IdentifierByte

\* All the steps.
LEMMA NextSeen == ASSUME TypeOK, LoopInv, [Next]_vars PROVE [Seen!Next]_(Seen!vars)
<1>1. CASE CountedByte \/ UntilByte \/ IdentifierByte
  BY <1>1, CountedByteSeen, UntilByteSeen, IdentifierByteSeen
<1>2. CASE CountedDone
  <2>1. NumberDone \/ BooleanDone \/ DataDone \/ LengthDone
    BY <1>2 DEF CountedDone
  <2>2. QED BY <1>2, <2>1, NumberDoneSeen, BooleanDoneSeen, DataDoneSeen
<1>3. CASE Peek \/ Next1
  BY <1>3, PeekSeen, Next1Seen
<1>4. CASE ReadBoolean \/ ReadData
  BY <1>4, ReadBooleanSeen, ReadDataSeen
<1>5. ASSUME NEW b \in Bytes,
             NextIf(b) \/ NextIfNot(b) \/ ReadUntil(b) \/ ReadIdentifier(b)
      PROVE  [Seen!Next]_(Seen!vars)
  BY <1>5, NextIfSeen, NextIfNotSeen, MarkSeen
<1>6. ASSUME NEW n \in Widths, ReadNumber(n) PROVE [Seen!Next]_(Seen!vars)
  BY <1>6, ReadNumberSeen
<1>7. CASE UNCHANGED vars
  <2>1. UNCHANGED <<data, result, Position>>
    BY <1>7 DEF vars, Position
  <2>2. QED BY <2>1, Stutters
<1>8. QED BY <1>1, <1>2, <1>3, <1>4, <1>5, <1>6, <1>7 DEF Next, Progress

\* A stream that is handed out is a cursor at the beginning of a file that is not empty.
LEMMA InitSeen == ASSUME Init PROVE Seen!Init /\ LoopInv
<1>1. call = "none" /\ offset = -1 /\ result = Nothing /\ data \in Files
  BY DEF Init, Opened, None
<1>2. data # <<>> /\ Size \in Nat
  BY <1>1, InitInv, Sizes, StreamAssumption DEF Inv
<1>3. Clip(Position + 1) = 0
  <2>1. Position + 1 = 0
    BY <1>1, SMT DEF Position
  <2>2. ~(0 > Size)
    BY <1>2, SMT
  <2>3. QED BY <2>1, <2>2 DEF Clip
<1>4. QED BY <1>1, <1>2, <1>3 DEF Seen!Init, Seen!Nothing, Nothing, LoopInv

\* What each loop of ByteStream has done when it is interrupted by the end of a step is
\* known in every reachable state, for every file.
THEOREM LoopsKeepTheirPromise == Spec => []LoopInv
<1>1. Init => LoopInv
  BY InitSeen
<1>2. TypeOK /\ LoopInv /\ [Next]_vars => LoopInv'
  BY NextLoop
<1>3. QED BY <1>1, <1>2, TypeCorrect, PTL DEF Spec

\* ByteStream is a Cursor: a call returns what the function of module Encoding returns,
\* whole or not at all, and leaves the reader at the byte behind it, for every file, every
\* width and every sequence of calls.
THEOREM StreamIsACursor == Spec => ImplementsCursor
<1>1. Init => Seen!Init
  BY InitSeen
<1>2. TypeOK /\ LoopInv /\ [Next]_vars => [Seen!Next]_(Seen!vars)
  BY NextSeen
<1>3. QED BY <1>1, <1>2, TypeCorrect, LoopsKeepTheirPromise, PTL
         DEF Spec, ImplementsCursor, Seen!Spec
(***************************************************************************)
(* What is written, byte by byte.                                          *)
(***************************************************************************)
\* Division by a product: the digit above the last n places.
LEMMA NextDigit ==
  ASSUME NEW n \in Nat, NEW r \in Nat \ {0}, NEW p \in Nat \ {0}
  PROVE  n % (r * p) = ((n \div p) % r) * p + (n % p)
<1>1. PICK q \in Nat, b \in Nat : q = n \div p /\ b = n % p /\ n = p * q + b /\ b < p
  BY SMT
<1>2. PICK t \in Nat, d \in Nat : d = q % r /\ q = r * t + d /\ d <= r - 1
  BY <1>1, SMT
<1>3. r * p \in Nat \ {0} /\ d * p + b \in Nat
  BY <1>1, <1>2, SMT
<1>4. d * p + b < r * p
  <2>1. d * p <= (r - 1) * p
    BY <1>2, SMT
  <2>2. (r - 1) * p = r * p - p
    BY SMT
  <2>3. QED BY <1>1, <1>2, <2>1, <2>2, SMT
<1>5. n = (r * p) * t + (d * p + b)
  <2>1. p * q = (r * p) * t + d * p
    BY <1>2, SMT
  <2>2. QED BY <1>1, <1>2, <1>3, <2>1, SMT
<1>6. PICK m \in Nat \ {0}, c \in Nat : m = r * p /\ c = d * p + b
  BY <1>3
<1>7. n % m = c
  <2>1. c < m /\ n = m * t + c
    BY <1>4, <1>5, <1>6
  <2>2. (m * t + c) % m = c
    BY <2>1, SMT
  <2>3. QED BY <2>1, <2>2
<1>8. QED BY <1>1, <1>2, <1>6, <1>7

\* The powers of the radix, up to a width.
LEMMA Powers ==
  ASSUME NEW w \in Widths
  PROVE  /\ w \in Nat \ {0} /\ Radix \in Nat \ {0}
         /\ \A n \in 0..w : Radix ^ n \in Nat \ {0}
         /\ \A n \in 0..(w - 1) : Radix ^ (n + 1) = Radix * Radix ^ n
         /\ Radix ^ 0 = 1
<1>1. w \in Nat \ {0} /\ Radix \in Nat \ {0}
  BY StreamAssumption
<1>2. Radix ^ 0 = 1 /\ \A n \in 0..(w - 1) : Radix ^ (n + 1) = Radix * Radix ^ n
  BY PowerAssumption
<1> DEFINE S == {n \in Nat : n <= w => Radix ^ n \in Nat \ {0}}
<1>3. 0 \in S
  BY <1>2
<1>4. ASSUME NEW n \in Nat, n \in S PROVE n + 1 \in S
  <2>1. SUFFICES ASSUME n + 1 <= w PROVE Radix ^ (n + 1) \in Nat \ {0}
    OBVIOUS
  <2>2. n \in 0..(w - 1) /\ n <= w
    BY <1>1, <2>1, SMT
  <2>3. PICK p \in Nat \ {0} : p = Radix ^ n
    BY <1>4, <2>2
  <2>4. Radix * p \in Nat \ {0}
    BY <1>1, SMT
  <2>5. QED BY <1>2, <2>2, <2>3, <2>4
<1>5. \A n \in Nat : n \in S
  <2> HIDE DEF S
  <2>1. QED BY <1>3, <1>4, Induction, Zenon
<1>6. \A n \in 0..w : Radix ^ n \in Nat \ {0}
  BY <1>1, <1>5, SMT
<1>7. QED BY <1>1, <1>2, <1>6

\* A number that is written has its width.
LEMMA NumberWritten ==
  ASSUME NEW n \in Nat, NEW w \in Widths
  PROVE  /\ Code!WriteNumber(n, w) \in Seq(Bytes) /\ Len(Code!WriteNumber(n, w)) = w
         /\ \A i \in 1..w : Code!WriteNumber(n, w)[i] = (n \div Radix ^ (w - i)) % Radix
<1> DEFINE b == Code!WriteNumber(n, w)
<1>1. w \in Nat
  BY StreamAssumption
<1>2. b = [i \in 1..w |-> (n \div Radix ^ (w - i)) % Radix]
  BY DEF Code!WriteNumber
<1>3. \A i \in 1..w : (n \div Radix ^ (w - i)) % Radix \in Bytes
  <2>1. SUFFICES ASSUME NEW i \in 1..w PROVE (n \div Radix ^ (w - i)) % Radix \in Bytes
    OBVIOUS
  <2>2. w - i \in 0..w
    BY <1>1, SMT
  <2>3. PICK p \in Nat \ {0} : p = Radix ^ (w - i)
    BY <2>2, Powers
  <2>4. (n \div p) % Radix \in Bytes
    BY StreamAssumption, SMT DEF Bytes
  <2>5. QED BY <2>3, <2>4
<1>4. b \in [1..w -> Bytes]
  BY <1>2, <1>3
<1>5. b \in Seq(Bytes) /\ Len(b) = w
  <2> HIDE DEF b
  <2>1. b \in Seq(Bytes)
    BY <1>1, <1>4, SeqDef
  <2>2. Len(b) \in Nat /\ 1..Len(b) = 1..w
    <3>1. DOMAIN b = 1..w
      BY <1>4
    <3>2. QED BY <2>1, <3>1, LenProperties
  <2>3. QED BY <1>1, <2>1, <2>2, SMT
<1>6. QED BY <1>2, <1>5

\* What is read of it is what its width leaves of the number.
LEMMA NumberReadBack ==
  ASSUME NEW n \in Nat, NEW w \in Widths
  PROVE  Seen!BigEndian(Code!WriteNumber(n, w)) = n % Radix ^ w
<1> DEFINE b == Code!WriteNumber(n, w)
<1>1. /\ w \in Nat \ {0} /\ Radix \in Nat \ {0} /\ Radix ^ 0 = 1
      /\ \A i \in 0..w : Radix ^ i \in Nat \ {0}
      /\ \A i \in 0..(w - 1) : Radix ^ (i + 1) = Radix * Radix ^ i
  BY Powers
<1>2. Len(b) = w /\ \A i \in 1..w : b[i] = (n \div Radix ^ (w - i)) % Radix
  BY NumberWritten
<1> HIDE DEF b
<1>3. PICK v : IsValue(v, b, w) /\ Seen!BigEndian(b) = v[w]
  BY <1>1, <1>2, BigEndianIsValue
<1>4. v[0] = 0 /\ \A i \in 0..w : i # 0 => v[i] = v[i - 1] * Radix + b[i]
  <2>1. \A i \in 0..w : v[i] = IF i = 0 THEN 0 ELSE v[i - 1] * Radix + b[i]
    BY <1>3, Zenon DEF IsValue
  <2>2. 0 \in 0..w
    BY <1>1, SMT
  <2>3. QED BY <2>1, <2>2
<1> DEFINE S == {i \in Nat : i <= w => /\ v[i] \in Nat
                                       /\ v[i] * Radix ^ (w - i) + (n % Radix ^ (w - i))
                                            = n % Radix ^ w}
<1>5. 0 \in S
  <2>1. w - 0 = w /\ w \in 0..w
    BY <1>1, SMT
  <2>2. PICK p \in Nat \ {0} : p = Radix ^ w
    BY <1>1, <2>1
  <2>3. 0 * p + (n % p) = n % p
    BY SMT
  <2>4. QED BY <1>4, <2>1, <2>2, <2>3
<1>6. ASSUME NEW i \in Nat, i \in S PROVE i + 1 \in S
  <2> DEFINE k == w - (i + 1)
  <2>1. SUFFICES ASSUME i + 1 <= w
                 PROVE  /\ v[i + 1] \in Nat
                        /\ v[i + 1] * Radix ^ k + (n % Radix ^ k) = n % Radix ^ w
    OBVIOUS
  <2>2. /\ i <= w /\ i + 1 \in 0..w /\ i + 1 # 0 /\ (i + 1) - 1 = i /\ i + 1 \in 1..w
        /\ k \in 0..(w - 1) /\ k \in 0..w /\ w - i = k + 1 /\ w \in 0..w
    BY <1>1, <2>1, SMT
  <2> HIDE DEF k
  <2>3. PICK p \in Nat \ {0}, m \in Nat \ {0}, e \in Nat :
          p = Radix ^ k /\ m = Radix ^ w /\ e = v[i]
    BY <1>1, <1>6, <2>2
  <2>4. e * (Radix * p) + (n % (Radix * p)) = n % m
    BY <1>1, <1>6, <2>2, <2>3
  <2>5. PICK d \in Nat : d = (n \div p) % Radix
    BY <1>1, SMT
  <2>6. n % (Radix * p) = d * p + (n % p)
    BY <1>1, <2>5, NextDigit
  <2>7. v[i + 1] = e * Radix + d
    <3>1. b[i + 1] = d
      BY <1>2, <2>2, <2>3, <2>5 DEF k
    <3>2. QED BY <1>4, <2>2, <2>3, <3>1
  <2>8. (e * Radix + d) * p + (n % p) = n % m
    <3>1. (e * Radix + d) * p = e * (Radix * p) + d * p
      BY <1>1, SMT
    <3>2. PICK x \in Nat, y \in Nat, z \in Nat : x = e * (Radix * p) /\ y = d * p /\ z = n % p
      BY <1>1, SMT
    <3>3. x + (y + z) = n % m
      BY <2>4, <2>6, <3>2
    <3>4. (x + y) + z = x + (y + z)
      BY SMT
    <3>5. QED BY <3>1, <3>2, <3>3, <3>4
  <2>9. e * Radix + d \in Nat
    BY <1>1, SMT
  <2>10. QED BY <2>3, <2>7, <2>8, <2>9
<1>7. \A i \in Nat : i \in S
  <2> HIDE DEF S
  <2>1. QED BY <1>5, <1>6, Induction, Zenon
<1>8. v[w] \in Nat /\ v[w] * Radix ^ 0 + (n % Radix ^ 0) = n % Radix ^ w
  <2>1. w <= w /\ w - w = 0
    BY <1>1, SMT
  <2>2. QED BY <1>1, <1>7, <2>1
<1>9. v[w] * 1 + (n % 1) = v[w]
  BY <1>8, SMT
<1>10. QED BY <1>1, <1>3, <1>8, <1>9 DEF b

\* Every item is written as bytes.
LEMMA WrittenIsBytes == ASSUME NEW item \in Items PROVE Written(item) \in Seq(Bytes)
<1>1. IsItem(item) /\ 1 \in Widths /\ NumberBytes \in Widths
  BY ItemAssumption
<1>2. CASE item.kind = "number" /\ item.value \in Nat /\ item.width \in Widths
  BY <1>2, NumberWritten DEF Written
<1>3. CASE /\ item.kind = "identifier" /\ item.marker \in Bytes
           /\ item.value \in Seq(Bytes \ {item.marker})
  <2>1. item.value \in Seq(Bytes) /\ <<item.marker>> \in Seq(Bytes)
    <3>1. item.value \in Seq(Bytes)
      BY <1>3, SeqMonotonic, Bytes \ {item.marker} \subseteq Bytes
    <3>2. <<item.marker>> \in Seq(Bytes)
      BY <1>3, SMT DEF Bytes
    <3>3. QED BY <3>1, <3>2
  <2>2. <<item.marker>> \o item.value \in Seq(Bytes)
    BY <2>1, ConcatProperties
  <2>3. (<<item.marker>> \o item.value) \o <<item.marker>> \in Seq(Bytes)
    BY <2>1, <2>2, ConcatProperties
  <2>4. Written(item) = (<<item.marker>> \o item.value) \o <<item.marker>>
    BY <1>3, Zenon DEF Written, Code!WriteIdentifier
  <2>5. QED BY <2>3, <2>4
<1>4. CASE item.kind = "data" /\ item.value \in Seq(Bytes)
  <2>1. Len(item.value) \in Nat
    BY <1>4, LenProperties
  <2>2. Code!WriteNumber(Len(item.value), NumberBytes) \in Seq(Bytes)
    BY <1>1, <2>1, NumberWritten
  <2>3. Written(item) = Code!WriteNumber(Len(item.value), NumberBytes) \o item.value
    BY <1>4 DEF Written, Code!WriteData
  <2>4. QED BY <1>4, <2>2, <2>3, ConcatProperties
<1>5. CASE item.kind = "boolean" /\ item.value \in BOOLEAN
  <2>1. Written(item) = Code!WriteNumber(IF item.value THEN 1 ELSE 0, 1)
    BY <1>5 DEF Written, Code!WriteBoolean
  <2>2. (IF item.value THEN 1 ELSE 0) \in Nat
    OBVIOUS
  <2>3. QED BY <1>1, <2>1, <2>2, NumberWritten
<1>6. QED BY <1>1, <1>2, <1>3, <1>4, <1>5 DEF IsItem

\* A name is written between two markers, which it does not hold.
LEMMA NameWritten ==
  ASSUME NEW item, item.kind = "identifier", item.marker \in Bytes,
         item.value \in Seq(Bytes \ {item.marker})
  PROVE  LET w == Written(item)
             n == Len(item.value) IN
         /\ n \in Nat /\ Len(w) = n + 2 /\ 1 <= Len(w)
         /\ w[1] = item.marker /\ w[n + 2] = item.marker
         /\ item.value \in Seq(Bytes)
         /\ \A i \in 1..n : w[i + 1] = item.value[i] /\ item.value[i] # item.marker
<1> DEFINE s == item.value
           m == <<item.marker>>
<1>1. PICK n \in Nat : n = Len(s)
  BY LenProperties
<1>2. \A i \in 1..n : s[i] # item.marker
  BY <1>1, ElementOfSeq
<1>3. s \in Seq(Bytes) /\ m \in Seq(Bytes) /\ Len(m) = 1 /\ m[1] = item.marker
  <2>1. s \in Seq(Bytes)
    BY <1>1, SeqMonotonic, Bytes \ {item.marker} \subseteq Bytes
  <2>2. m \in Seq(Bytes) /\ Len(m) = 1 /\ m[1] = item.marker
    BY <1>1, SMT DEF Bytes
  <2>3. QED BY <2>1, <2>2
<1> HIDE DEF s, m
<1> DEFINE u == m \o s
           w == u \o m
<1>4. /\ u \in Seq(Bytes) /\ Len(u) = 1 + n
      /\ \A i \in 1..(1 + n) : u[i] = IF i <= 1 THEN m[i] ELSE s[i - 1]
  <2>1. /\ u \in Seq(Bytes) /\ Len(u) = Len(m) + Len(s)
        /\ \A i \in 1..(Len(m) + Len(s)) : u[i] = IF i <= Len(m) THEN m[i] ELSE s[i - Len(m)]
    BY <1>3, ConcatProperties
  <2>2. QED BY <1>1, <1>3, <2>1
<1> HIDE DEF u
<1>5. /\ Len(w) = (1 + n) + 1
      /\ \A i \in 1..((1 + n) + 1) : w[i] = IF i <= 1 + n THEN u[i] ELSE m[i - (1 + n)]
  <2>1. /\ Len(w) = Len(u) + Len(m)
        /\ \A i \in 1..(Len(u) + Len(m)) : w[i] = IF i <= Len(u) THEN u[i] ELSE m[i - Len(u)]
    BY <1>3, <1>4, ConcatProperties
  <2>2. QED BY <1>3, <1>4, <2>1
<1>6. w = Written(item)
  BY Zenon DEF Written, Code!WriteIdentifier, u, s, m
<1> HIDE DEF w
<1>7. /\ (1 + n) + 1 = n + 2 /\ 1 \in 1..(n + 2) /\ 1 \in 1..(1 + n) /\ 1 <= 1 + n /\ 1 <= n + 2
      /\ n + 2 \in 1..(n + 2) /\ ~(n + 2 <= 1 + n) /\ (n + 2) - (1 + n) = 1
      /\ \A i \in 1..n : /\ i + 1 \in 1..(n + 2) /\ i + 1 \in 1..(1 + n) /\ i + 1 <= 1 + n
                         /\ ~(i + 1 <= 1) /\ (i + 1) - 1 = i
  BY SMT
<1>8. w[1] = item.marker /\ w[n + 2] = item.marker
  <2>1. w[1] = u[1] /\ u[1] = m[1]
    BY <1>4, <1>5, <1>7
  <2>2. w[n + 2] = m[1]
    BY <1>5, <1>7
  <2>3. QED BY <1>3, <2>1, <2>2
<1>9. \A i \in 1..n : w[i + 1] = s[i]
  <2> TAKE i \in 1..n
  <2>1. w[i + 1] = u[i + 1]
    BY <1>5, <1>7
  <2>2. u[i + 1] = s[i]
    BY <1>4, <1>7
  <2>3. QED BY <2>1, <2>2
<1>10. n + 2 = Len(w) /\ 1 <= Len(w)
  BY <1>5, <1>6, <1>7
<1>11. QED BY <1>1, <1>2, <1>3, <1>6, <1>8, <1>9, <1>10 DEF s

(***************************************************************************)
(* The file of a script is one item after the other.                       *)
(***************************************************************************)
\* FlattenSeq, as a function of the number of sequences.
IsFlat(f, s, n) == f = [i \in 1..n |-> IF i = 1 THEN s[i] ELSE f[i - 1] \o s[i]]

\* There is such a function, for every number of sequences.
LEMMA FlatExists == ASSUME NEW s PROVE \A n \in Nat : \E f : IsFlat(f, s, n)
<1> DEFINE S == {n \in Nat : \E f : IsFlat(f, s, n)}
<1>1. 0 \in S
  <2> DEFINE g == [i \in 1..0 |-> s[i]]
  <2>1. \A i \in 1..0 : g[i] = IF i = 1 THEN s[i] ELSE g[i - 1] \o s[i]
    BY SMT
  <2>2. g = [i \in 1..0 |-> g[i]]
    OBVIOUS
  <2> HIDE DEF g
  <2>3. IsFlat(g, s, 0)
    BY <2>1, <2>2, Zenon DEF IsFlat
  <2>4. QED BY <2>3
<1>2. ASSUME NEW n \in Nat, n \in S PROVE n + 1 \in S
  <2>1. PICK f : IsFlat(f, s, n)
    BY <1>2
  <2> DEFINE g == [i \in 1..(n + 1) |-> IF i <= n THEN f[i]
                                        ELSE IF i = 1 THEN s[i] ELSE f[i - 1] \o s[i]]
  <2>2. \A i \in 1..n : f[i] = IF i = 1 THEN s[i] ELSE f[i - 1] \o s[i]
    BY <2>1, Zenon DEF IsFlat
  <2>3. \A i \in 1..(n + 1) : i \in 1..n \/ i = n + 1
    BY SMT
  <2>4. \A i \in 1..n : i \in 1..(n + 1) /\ i <= n /\ g[i] = f[i]
    BY SMT
  <2>5. \A i \in 1..(n + 1) : i # 1 => i - 1 \in 1..n
    BY SMT
  <2>6. n + 1 \in 1..(n + 1) /\ ~(n + 1 <= n)
    BY SMT
  <2>7. g[n + 1] = IF n + 1 = 1 THEN s[n + 1] ELSE f[(n + 1) - 1] \o s[n + 1]
    BY <2>6
  <2>8. g = [i \in 1..(n + 1) |-> g[i]]
    OBVIOUS
  <2> HIDE DEF g
  <2>9. \A i \in 1..(n + 1) : g[i] = IF i = 1 THEN s[i] ELSE g[i - 1] \o s[i]
    <3> TAKE i \in 1..(n + 1)
    <3>1. CASE i \in 1..n
      <4>1. i # 1 => g[i - 1] = f[i - 1]
        BY <2>4, <2>5
      <4>2. QED BY <2>2, <2>4, <3>1, <4>1
    <3>2. CASE i = n + 1
      <4>1. i # 1 => g[i - 1] = f[i - 1]
        BY <2>4, <2>5
      <4>2. QED BY <2>7, <3>2, <4>1
    <3>3. QED BY <2>3, <3>1, <3>2
  <2>10. IsFlat(g, s, n + 1)
    BY <2>8, <2>9, Zenon DEF IsFlat
  <2>11. QED BY <2>10
<1>3. \A n \in Nat : n \in S
  <2> HIDE DEF S
  <2>1. QED BY <1>1, <1>2, Induction, Zenon
<1>4. QED BY <1>3

\* Two of them have the same values for the same sequences.
LEMMA FlatIsUnique ==
  ASSUME NEW n \in Nat, NEW m \in Nat, n <= m, NEW s, NEW t, \A i \in 1..n : s[i] = t[i],
         NEW f, IsFlat(f, s, n), NEW g, IsFlat(g, t, m)
  PROVE  \A i \in 1..n : f[i] = g[i]
<1> DEFINE S == {i \in Nat : i \in 1..n => f[i] = g[i]}
<1>1. /\ \A i \in 1..n : f[i] = IF i = 1 THEN s[i] ELSE f[i - 1] \o s[i]
      /\ \A i \in 1..m : g[i] = IF i = 1 THEN t[i] ELSE g[i - 1] \o t[i]
  BY Zenon DEF IsFlat
<1>2. 0 \in S
  BY SMT
<1>3. ASSUME NEW i \in Nat, i \in S PROVE i + 1 \in S
  <2>1. SUFFICES ASSUME i + 1 \in 1..n PROVE f[i + 1] = g[i + 1]
    OBVIOUS
  <2>2. i + 1 \in 1..m /\ (i + 1) - 1 = i /\ (i + 1 # 1 => i \in 1..n)
    BY <2>1, SMT
  <2>3. QED BY <1>1, <1>3, <2>1, <2>2
<1>4. \A i \in Nat : i \in S
  <2> HIDE DEF S
  <2>1. QED BY <1>2, <1>3, Induction, Zenon
<1>5. \A i \in 1..n : i \in Nat
  BY SMT
<1>6. QED BY <1>4, <1>5

\* FlattenSeq is the last value of such a function.
LEMMA FlattenIs ==
  ASSUME NEW s, Len(s) \in Nat \ {0}
  PROVE  \E f : IsFlat(f, s, Len(s)) /\ FlattenSeq(s) = f[Len(s)]
<1> DEFINE f == CHOOSE f : IsFlat(f, s, Len(s))
<1>1. IsFlat(f, s, Len(s))
  BY FlatExists, Zenon
<1>2. FlattenSeq(s) = f[Len(s)]
  <2>1. Len(s) # 0
    OBVIOUS
  <2>2. QED BY <2>1, Zenon DEF FlattenSeq, IsFlat
<1>3. QED BY <1>1, <1>2, Zenon

\* The pieces of a script's file.
Pieces(s) == [i \in DOMAIN s |-> Written(s[i])]

LEMMA PiecesAre ==
  ASSUME NEW s \in Seq(Items)
  PROVE  /\ Pieces(s) \in Seq(Seq(Bytes)) /\ Len(Pieces(s)) = Len(s) /\ Len(s) \in Nat
         /\ \A i \in 1..Len(s) : Pieces(s)[i] = Written(s[i]) /\ s[i] \in Items
<1>1. PICK n \in Nat : n = Len(s) /\ DOMAIN s = 1..n /\ \A i \in 1..n : s[i] \in Items
  BY LenProperties, ElementOfSeq
<1> DEFINE p == Pieces(s)
<1>2. p \in [1..n -> Seq(Bytes)]
  BY <1>1, WrittenIsBytes DEF Pieces
<1>3. \A i \in 1..n : p[i] = Written(s[i])
  BY <1>1 DEF Pieces
<1> HIDE DEF p
<1>4. p \in Seq(Seq(Bytes))
  BY <1>2, SeqDef
<1>5. Len(p) = n
  <2>1. PICK m \in Nat : m = Len(p) /\ DOMAIN p = 1..m
    BY <1>4, LenProperties
  <2>2. 1..m = 1..n
    BY <1>2, <2>1
  <2>3. QED BY <2>1, <2>2, SMT
<1>6. QED BY <1>1, <1>3, <1>4, <1>5 DEF p

LEMMA EmptyFile == File(<<>>) = <<>>
<1>1. <<>> \in Seq(Items) /\ Len(<<>>) = 0
  BY EmptySeq
<1>2. Pieces(<<>>) \in Seq(Seq(Bytes)) /\ Len(Pieces(<<>>)) = 0
  BY <1>1, PiecesAre
<1>3. Pieces(<<>>) = <<>>
  BY <1>2, EmptySeq, SMT
<1>4. File(<<>>) = Pieces(<<>>)
  BY <1>2 DEF File, Pieces, FlattenSeq
<1>5. QED BY <1>3, <1>4

\* An item more is an item behind.
LEMMA FileGrows ==
  ASSUME NEW s \in Seq(Items), NEW x \in Items
  PROVE  File(Append(s, x)) = File(s) \o Written(x)
<1>1. File(<<>>) = <<>>
  BY EmptyFile
<1>2. PICK t : t = Append(s, x)
  OBVIOUS
<1>3. PICK n \in Nat : n = Len(s) /\ Len(t) = n + 1 /\ t \in Seq(Items)
                       /\ t[n + 1] = x /\ \A i \in 1..n : t[i] = s[i]
  BY <1>2, AppendProperties, LenProperties
<1>4. PICK p, q : p = Pieces(s) /\ q = Pieces(t)
  OBVIOUS
<1>5. Len(q) = n + 1 /\ q[n + 1] = Written(x) /\ Len(p) = n /\ \A i \in 1..n : q[i] = p[i]
  <2>1. \A i \in 1..n : i \in 1..(n + 1)
    BY SMT
  <2>2. n + 1 \in 1..(n + 1)
    BY SMT
  <2>3. QED BY <1>3, <1>4, <2>1, <2>2, PiecesAre
<1>6. PICK f : IsFlat(f, q, n + 1) /\ FlattenSeq(q) = f[n + 1]
  <2>1. n + 1 \in Nat \ {0}
    BY SMT
  <2>2. QED BY <1>5, <2>1, FlattenIs
<1>7. f[n + 1] = IF n + 1 = 1 THEN q[n + 1] ELSE f[n] \o q[n + 1]
  <2>1. \A i \in 1..(n + 1) : f[i] = IF i = 1 THEN q[i] ELSE f[i - 1] \o q[i]
    BY <1>6, Zenon DEF IsFlat
  <2>2. n + 1 \in 1..(n + 1) /\ (n + 1) - 1 = n
    BY SMT
  <2>3. QED BY <2>1, <2>2
<1>8. File(t) = f[n + 1]
  BY <1>4, <1>6 DEF File, Pieces
<1>9. CASE n = 0
  <2>1. s = <<>>
    <3>1. ~(Len(s) \in Nat \ {0})
      BY <1>3, <1>9
    <3>2. QED BY <3>1, EmptySeq
  <2>2. File(s) = <<>>
    BY <1>1, <2>1
  <2>3. <<>> \o Written(x) = Written(x)
    BY WrittenIsBytes, ConcatEmptySeq
  <2>4. n + 1 = 1
    BY <1>9, SMT
  <2>5. QED BY <1>1, <1>2, <1>5, <1>7, <1>8, <2>2, <2>3, <2>4
<1>10. CASE n # 0
  <2>1. n \in Nat \ {0} /\ n \in 1..n /\ n <= n + 1 /\ n + 1 # 1 /\ n + 1 \in Nat
    BY <1>10, SMT
  <2>2. PICK g : IsFlat(g, p, n) /\ FlattenSeq(p) = g[n]
    BY <1>5, <2>1, FlattenIs
  <2>3. g[n] = f[n]
    <3>1. \A i \in 1..n : p[i] = q[i]
      BY <1>5
    <3>2. \A i \in 1..n : g[i] = f[i]
      <4>1. PICK m \in Nat : m = n + 1 /\ n <= m /\ IsFlat(f, q, m)
        BY <1>6, <2>1
      <4>2. n \in Nat /\ IsFlat(g, p, n)
        BY <1>3, <2>2
      <4>3. QED BY <3>1, <4>1, <4>2, FlatIsUnique, SMTT(30)
    <3>3. QED BY <2>1, <3>2
  <2>4. File(s) = g[n]
    BY <1>4, <2>2 DEF File, Pieces
  <2>5. QED BY <1>1, <1>2, <1>5, <1>7, <1>8, <2>1, <2>3, <2>4
<1>11. QED BY <1>9, <1>10

\* The file of a script's first items.
Upto(s, k) == File(SubSeq(s, 1, k))

LEMMA FileOfMore ==
  ASSUME NEW s \in Seq(Items)
  PROVE  /\ Len(s) \in Nat
         /\ Upto(s, 0) = <<>> /\ Upto(s, Len(s)) = File(s)
         /\ \A k \in 0..(Len(s) - 1) : /\ Upto(s, k + 1) = Upto(s, k) \o Written(s[k + 1])
                                       /\ Written(s[k + 1]) \in Seq(Bytes) /\ s[k + 1] \in Items
         /\ \A k \in 0..Len(s) : Upto(s, k) \in Seq(Bytes)
<1>1. PICK n \in Nat : n = Len(s)
  BY LenProperties
<1>2. Upto(s, 0) = <<>>
  <2>1. SubSeq(s, 1, 0) = <<>>
    BY SubSeqEmpty, 0 < 1
  <2>2. QED BY <2>1, EmptyFile DEF Upto
<1>3. Upto(s, n) = File(s)
  BY <1>1, SubSeqFull DEF Upto
<1>4. ASSUME NEW k \in 0..(n - 1)
      PROVE  /\ Upto(s, k + 1) = Upto(s, k) \o Written(s[k + 1])
             /\ Written(s[k + 1]) \in Seq(Bytes) /\ s[k + 1] \in Items
  <2>1. k \in Nat /\ k + 1 \in 1..n /\ (k + 1) - 1 = k /\ 1 \in 1..n /\ k + 1 \in 1..(k + 1)
        /\ k + 1 \in 1..n /\ \A i \in 1..k : i \in 1..n
    BY <1>1, SMT
  <2>2. s[k + 1] \in Items /\ \A i \in 1..k : s[i] \in Items
    BY <1>1, <2>1, ElementOfSeq
  <2>3. SubSeq(s, 1, k) \in Seq(Items)
    BY <2>1, <2>2, SubSeqProperties
  <2>4. SubSeq(s, 1, k + 1) = SubSeq(s, 1, k) \o <<s[k + 1]>>
    <3>1. k + 1 \in 1..Len(s) /\ 1 \in 1..Len(s)
      BY <1>1, <2>1
    <3>2. SubSeq(s, 1, k + 1) = SubSeq(s, 1, (k + 1) - 1) \o <<s[k + 1]>>
      BY <2>1, <3>1, SubSeqRecursiveSecond
    <3>3. QED BY <2>1, <3>2
  <2>5. SubSeq(s, 1, k + 1) = Append(SubSeq(s, 1, k), s[k + 1])
    BY <2>2, <2>3, <2>4, AppendIsConcat
  <2>6. QED BY <2>2, <2>3, <2>5, FileGrows, WrittenIsBytes DEF Upto
<1> DEFINE S == {k \in Nat : k <= n => Upto(s, k) \in Seq(Bytes)}
<1>5. 0 \in S
  BY <1>2, EmptySeq
<1>6. ASSUME NEW k \in Nat, k \in S PROVE k + 1 \in S
  <2>1. SUFFICES ASSUME k + 1 <= n PROVE Upto(s, k + 1) \in Seq(Bytes)
    OBVIOUS
  <2>2. k <= n /\ k \in 0..(n - 1)
    BY <1>1, <2>1, SMT
  <2>3. QED BY <1>4, <1>6, <2>2, ConcatProperties
<1>7. \A k \in Nat : k \in S
  <2> HIDE DEF S
  <2>1. QED BY <1>5, <1>6, Induction, Zenon
<1>8. \A k \in 0..n : Upto(s, k) \in Seq(Bytes)
  BY <1>1, <1>7, SMT
<1>9. QED BY <1>1, <1>2, <1>3, <1>4, <1>8

\* An item of a script is where the items before it end.
LEMMA FileHasItem ==
  ASSUME NEW s \in Seq(Items), NEW k \in 0..(Len(s) - 1)
  PROVE  /\ k \in 0..Len(s) /\ k + 1 \in 0..Len(s) /\ k \in Nat
         /\ s[k + 1] \in Items /\ Written(s[k + 1]) \in Seq(Bytes)
         /\ Len(Upto(s, k)) \in Nat /\ Len(Written(s[k + 1])) \in Nat
         /\ Len(Upto(s, k + 1)) = Len(Upto(s, k)) + Len(Written(s[k + 1]))
         /\ Len(Upto(s, k + 1)) <= Len(File(s)) /\ Len(File(s)) \in Nat
         /\ \A i \in 1..Len(Written(s[k + 1])) :
              File(s)[Len(Upto(s, k)) + i] = Written(s[k + 1])[i]
<1>1. PICK n \in Nat : n = Len(s)
  BY FileOfMore
<1>2. /\ k \in 0..n /\ k \in Nat /\ k + 1 \in 0..n /\ k + 1 <= n
  BY <1>1, SMT
<1>3. PICK w : w = Written(s[k + 1]) /\ w \in Seq(Bytes) /\ s[k + 1] \in Items
  BY FileOfMore
<1>4. /\ \A j \in 0..n : Upto(s, j) \in Seq(Bytes) /\ Len(Upto(s, j)) \in Nat
      /\ \A j \in 0..(n - 1) : /\ Upto(s, j + 1) = Upto(s, j) \o Written(s[j + 1])
                               /\ Written(s[j + 1]) \in Seq(Bytes)
                               /\ Len(Written(s[j + 1])) \in Nat
      /\ Upto(s, n) = File(s)
  BY <1>1, FileOfMore, LenProperties
<1>5. PICK a \in Nat, l \in Nat : a = Len(Upto(s, k)) /\ l = Len(w)
  BY <1>2, <1>3, <1>4, LenProperties
<1> DEFINE S == {j \in Nat : k + 1 <= j /\ j <= n =>
                               /\ a + l <= Len(Upto(s, j))
                               /\ \A i \in 1..l : Upto(s, j)[a + i] = w[i]}
<1>6. /\ Len(Upto(s, k + 1)) = a + l
      /\ \A i \in 1..l : Upto(s, k + 1)[a + i] = w[i]
  <2>1. Upto(s, k + 1) = Upto(s, k) \o w /\ Upto(s, k) \in Seq(Bytes)
    BY <1>1, <1>2, <1>3, <1>4
  <2>2. /\ Len(Upto(s, k) \o w) = a + l
        /\ \A i \in 1..(a + l) : (Upto(s, k) \o w)[i] = IF i <= a THEN Upto(s, k)[i] ELSE w[i - a]
    BY <1>3, <1>5, <2>1, ConcatProperties
  <2>3. \A i \in 1..l : a + i \in 1..(a + l) /\ ~(a + i <= a) /\ (a + i) - a = i
    BY SMT
  <2>4. QED BY <2>1, <2>2, <2>3
<1>7. 0 \in S
  BY <1>2, SMT
<1>8. ASSUME NEW j \in Nat, j \in S PROVE j + 1 \in S
  <2>1. SUFFICES ASSUME k + 1 <= j + 1, j + 1 <= n
                 PROVE  /\ a + l <= Len(Upto(s, j + 1))
                        /\ \A i \in 1..l : Upto(s, j + 1)[a + i] = w[i]
    OBVIOUS
  <2>2. CASE j = k
    BY <1>6, <2>2, SMT
  <2>3. CASE j # k
    <3>1. k + 1 <= j /\ j <= n /\ j \in 0..(n - 1) /\ j \in 0..n
      BY <1>2, <2>1, <2>3, SMT
    <3>2. PICK u, x : u = Upto(s, j) /\ x = Written(s[j + 1])
      OBVIOUS
    <3>3. /\ u \in Seq(Bytes) /\ x \in Seq(Bytes) /\ Upto(s, j + 1) = u \o x
      BY <1>4, <3>1, <3>2
    <3>4. PICK b \in Nat, c \in Nat : b = Len(u) /\ c = Len(x)
      BY <3>3, LenProperties
    <3>5. a + l <= b /\ \A i \in 1..l : u[a + i] = w[i]
      BY <1>8, <3>1, <3>2, <3>4
    <3>6. /\ Len(u \o x) = b + c
          /\ \A i \in 1..(b + c) : (u \o x)[i] = IF i <= b THEN u[i] ELSE x[i - b]
      BY <3>3, <3>4, ConcatProperties
    <3>7. a + l <= b + c /\ \A i \in 1..l : a + i \in 1..(b + c) /\ a + i <= b
      BY <3>5, SMT
    <3>8. QED BY <3>3, <3>5, <3>6, <3>7
  <2>4. QED BY <2>2, <2>3
<1>9. \A j \in Nat : j \in S
  <2> HIDE DEF S
  <2>1. QED BY <1>7, <1>8, Induction, Zenon
<1>10. a + l <= Len(Upto(s, n)) /\ \A i \in 1..l : Upto(s, n)[a + i] = w[i]
  BY <1>2, <1>9, SMT
<1>11. Len(File(s)) \in Nat
  <2>1. n \in 0..n
    BY SMT
  <2>2. QED BY <1>4, <2>1
<1>12. QED BY <1>1, <1>2, <1>3, <1>4, <1>5, <1>6, <1>10, <1>11

(***************************************************************************)
(* Reading a script back.  Between calls the reader stands behind the last *)
(* item it has read; a running call began there and is the one the next    *)
(* item asks for (WireInv).  What the call has read so far is LoopInv's.   *)
(***************************************************************************)
NoneMissing == \A k \in DOMAIN answers : answers[k] # Nothing

\* The call that runs is the one for the item.
IsAsked(item) ==
  \/ item.kind = "number" /\ call = "number" /\ want + Len(bytes) = item.width
  \/ item.kind = "identifier" /\ call = "identifier" /\ want = item.marker
  \/ item.kind = "data" /\ call = "length"
  \/ item.kind = "data" /\ call = "data" /\ want + Len(bytes) = Len(item.value)
  \/ item.kind = "boolean" /\ call = "boolean"

ReaderInv ==
  /\ Size <= Len(File(script)) /\ \A i \in 1..Size : data[i] = File(script)[i]
  /\ Len(answers) <= Len(script)
  /\ call = "none" /\ NoneMissing => offset + 1 = EndOf(Len(answers)) /\ offset < Size
  /\ call # "none" => /\ NoneMissing /\ Len(answers) < Len(script)
                      /\ begun + 1 = EndOf(Len(answers)) /\ begun < Size
                      /\ IsAsked(NextItem)

WireInv ==
  /\ script \in Scripts /\ \E S : answers \in Seq(S)
  /\ script = <<>> => answers = <<>>
  /\ script # <<>> => ReaderInv
  /\ ReadsWhatWasWritten

\* The file holds w behind its a-th byte, as far as it goes.
Holds(a, w) ==
  /\ a \in Nat /\ a <= Size /\ w \in Seq(Bytes) /\ Len(w) \in Nat
  /\ \A i \in 1..Len(w) : a + i <= Size => data[a + i] = w[i]

\* The call for an item that is behind the a-th byte ends as it should, or goes on.
Ends(a, item) ==
  LET end == a + Len(Written(item)) IN
  /\ call' = "none"
  /\ result' = IF end <= Size THEN Expected(item) ELSE Nothing
  /\ end <= Size => offset' + 1 = end

Goes(a, item) == call' # "none" /\ begun' + 1 = a /\ IsAsked(item)'

\* A call begins.
LEMMA AskItem ==
  ASSUME TypeOK, NEW a, NEW item \in Items, Holds(a, Written(item)), offset + 1 = a,
         \/ item.kind = "number"     /\ ReadNumber(item.width)
         \/ item.kind = "identifier" /\ ReadIdentifier(item.marker)
         \/ item.kind = "data"       /\ ReadData
         \/ item.kind = "boolean"    /\ ReadBoolean
  PROVE  Ends(a, item) \/ Goes(a, item)
<1> DEFINE w == Written(item)
<1>1. /\ IsItem(item) /\ 1 \in Widths /\ NumberBytes \in Widths
      /\ \A n \in Widths : n \in Nat \ {0}
  BY ItemAssumption, StreamAssumption
<1>2. PICK z \in Nat, o \in Int, l \in Nat : z = Size /\ o = offset /\ l = Len(w)
  BY Sizes DEF Holds
<1>3. o + 1 = a /\ a \in Nat /\ a <= z
  BY <1>2 DEF Holds
<1>4. ASSUME NEW n \in Widths, NEW function, ReadCounted(function, n), n <= l, function # "none"
      PROVE  \/ Ends(a, item)
             \/ /\ call' = function /\ begun' + 1 = a /\ want' + Len(bytes') = n
  <2>1. CASE ~HasAtLeast(n) /\ Return(Nothing)
    <3>1. ~(o + n < z)
      BY <1>2, <2>1, HasIs
    <3>2. ~(a + l <= z)
      BY <1>1, <1>2, <1>3, <1>4, <3>1, SMT
    <3>3. QED BY <1>2, <2>1, <3>2 DEF Ends, Return
  <2>2. CASE HasAtLeast(n) /\ Begin(function, n) /\ begun' = offset
    <3>1. Len(<<>>) = 0 /\ n + 0 = n
      BY <1>1, EmptySeq, SMT
    <3>2. QED BY <1>2, <1>3, <2>2, <3>1 DEF Begin
  <2>3. QED BY <1>4, <2>1, <2>2 DEF ReadCounted
<1>5. CASE item.kind = "number" /\ ReadNumber(item.width)
  <2>1. item.value \in Nat /\ item.width \in Widths
    BY <1>1, <1>5 DEF IsItem
  <2>2. l = item.width
    BY <1>2, <1>5, <2>1, NumberWritten DEF Written
  <2>3. item.width <= l
    BY <1>2, <2>2, SMT
  <2>4. \/ Ends(a, item)
        \/ call' = "number" /\ begun' + 1 = a /\ want' + Len(bytes') = item.width
    BY <1>4, <1>5, <2>1, <2>3 DEF ReadNumber
  <2>5. QED BY <1>5, <2>4 DEF Goes, IsAsked
<1>6. CASE item.kind = "boolean" /\ ReadBoolean
  <2>1. PICK v \in Nat : v = IF item.value THEN 1 ELSE 0
    OBVIOUS
  <2>2. w = Code!WriteNumber(v, 1)
    BY <1>6, <2>1 DEF Written, Code!WriteBoolean
  <2>3. l = 1
    BY <1>1, <1>2, <2>2, NumberWritten
  <2>6. 1 <= l
    BY <2>3, SMT
  <2>4. Ends(a, item) \/ (call' = "boolean" /\ begun' + 1 = a)
    BY <1>1, <1>4, <1>6, <2>6 DEF ReadBoolean
  <2>5. QED BY <1>6, <2>4 DEF Goes, IsAsked
<1>7. CASE item.kind = "data" /\ ReadData
  <2>1. item.value \in Seq(Bytes)
    BY <1>1, <1>7 DEF IsItem
  <2> DEFINE b == Code!WriteNumber(Len(item.value), NumberBytes)
  <2>2. PICK v \in Nat : v = Len(item.value)
    BY <2>1, LenProperties
  <2>3. b \in Seq(Bytes) /\ Len(b) = NumberBytes /\ w = b \o item.value
    BY <1>1, <1>7, <2>2, NumberWritten DEF Written, Code!WriteData
  <2>4. l = NumberBytes + v
    <3> HIDE DEF b, w
    <3>1. Len(b \o item.value) = Len(b) + Len(item.value)
      BY <2>1, <2>3, ConcatProperties
    <3>2. QED BY <1>2, <2>2, <2>3, <3>1
  <2>5. NumberBytes <= l
    BY <1>1, <2>2, <2>4, SMT
  <2>6. Ends(a, item) \/ (call' = "length" /\ begun' + 1 = a)
    BY <1>1, <1>4, <1>7, <2>5 DEF ReadData
  <2>7. QED BY <1>7, <2>6 DEF Goes, IsAsked
<1>8. CASE item.kind = "identifier" /\ ReadIdentifier(item.marker)
  <2>1. item.marker \in Bytes /\ item.value \in Seq(Bytes \ {item.marker})
    BY <1>1, <1>8 DEF IsItem
  <2>2. w[1] = item.marker /\ 1 <= l
    BY <1>2, <1>8, <2>1, NameWritten
  <2>3. CASE CanPeek /\ Peeked = item.marker /\ Begin("identifier", item.marker) /\ begun' = offset
    BY <1>2, <1>3, <1>8, <2>3 DEF Begin, Goes, IsAsked
  <2>4. CASE ~(CanPeek /\ Peeked = item.marker) /\ Return(Nothing)
    <3>1. ~(a + 1 <= z)
      <4>1. SUFFICES ASSUME a + 1 <= z PROVE FALSE
        OBVIOUS
      <4>2. o + 1 < z /\ o + 2 = a + 1 /\ 1 \in 1..l
        BY <1>2, <1>3, <2>2, <4>1, SMT
      <4>3. CanPeek /\ Peeked = data[a + 1]
        BY <1>2, <4>2, Sight
      <4>4. data[a + 1] = w[1]
        BY <1>2, <4>1, <4>2 DEF Holds
      <4>5. QED BY <2>2, <2>4, <4>3, <4>4
    <3>2. ~(a + l <= z)
      BY <1>2, <1>3, <2>2, <3>1, SMT
    <3>3. QED BY <1>2, <2>4, <3>2 DEF Ends, Return
  <2>5. QED BY <1>8, <2>3, <2>4 DEF ReadIdentifier
<1>9. QED BY <1>5, <1>6, <1>7, <1>8

\* A number that is begun is not cut short: all of its bytes are in the file.
LEMMA DigitGoes ==
  ASSUME TypeOK, LoopInv, call \in {"number", "boolean", "length"}, CountedByte
  PROVE  UNCHANGED <<call, begun>> /\ want' + Len(bytes') = want + Len(bytes)
<1>1. want \in Nat /\ want > 0 /\ MoveOffset /\ offset + want < Size
  BY DEF CountedByte, TypeOK, LoopInv, NumberInv
<1>2. CASE ~Available
  <2>1. offset + 1 >= Size
    BY <1>1, <1>2, EndOfFile
  <2>2. QED BY <1>1, <2>1, Sizes, SMT
<1>3. CASE Available /\ want' = want - 1 /\ bytes' = Append(bytes, Peeked) /\ UNCHANGED <<call, begun>>
  <2>1. PICK k \in Nat : k = Len(bytes) /\ Len(bytes') = k + 1
    BY <1>3, AvailableIsInside, AppendProperties, LenProperties DEF TypeOK
  <2>2. (want - 1) + (k + 1) = want + k
    BY <1>1, SMT
  <2>3. QED BY <1>3, <2>1, <2>2
<1>4. QED BY <1>2, <1>3 DEF CountedByte

\* A number that is complete is the one that was written.
LEMMA WholeNumber ==
  ASSUME TypeOK, LoopInv, call \in {"number", "boolean", "length"}, want = 0,
         NEW a \in Nat, begun + 1 = a, NEW k \in Widths, Len(bytes) = k, NEW n \in Nat,
         \A i \in 1..k : a + i <= Size => data[a + i] = Code!WriteNumber(n, k)[i]
  PROVE  val = n % Radix ^ k /\ offset \in Nat /\ offset + 1 = a + k /\ offset < Size
<1> DEFINE w == Code!WriteNumber(n, k)
<1>1. /\ BytesAreConsumed /\ NumberInv /\ Lead = 0 /\ Start = a /\ k \in Nat \ {0}
  BY StreamAssumption DEF LoopInv, Lead, Start
<1>2. PICK o \in Int, z \in Nat, g \in Int : o = offset /\ z = Size /\ g = begun
  BY Sizes, SMT DEF TypeOK, None
<1>3. o = g + 0 + k /\ (0 + k > 0 => o < z) /\ \A i \in 1..k : bytes[i] = data[a + 0 + i]
  BY <1>1, <1>2 DEF BytesAreConsumed
<1>4. /\ o \in Nat /\ o + 1 = a + k /\ o < z
      /\ \A i \in 1..k : a + i <= z /\ a + 0 + i = a + i
  BY <1>1, <1>2, <1>3, SMT
<1>5. \A i \in 1..k : bytes[i] = w[i]
  BY <1>2, <1>3, <1>4
<1>6. bytes \in Seq(Bytes) /\ w \in Seq(Bytes) /\ Len(w) = k
  BY NumberWritten DEF TypeOK
<1> HIDE DEF w
<1>7. bytes = w
  BY <1>5, <1>6, SeqEqual
<1>8. val = n % Radix ^ k
  BY <1>1, <1>7, NumberReadBack DEF NumberInv, w
<1>9. QED BY <1>2, <1>4, <1>8

\* A number of a script is read.
LEMMA NumberItem ==
  ASSUME TypeOK, LoopInv, NEW a, NEW item \in Items, Holds(a, Written(item)), begun + 1 = a,
         item.kind = "number", call = "number", want + Len(bytes) = item.width, Progress
  PROVE  Ends(a, item) \/ Goes(a, item)
<1>1. item.value \in Nat /\ item.width \in Widths
  BY ItemAssumption DEF IsItem
<1>2. Written(item) = Code!WriteNumber(item.value, item.width)
  BY DEF Written
<1>3. CASE CountedByte
  BY <1>3, DigitGoes DEF Goes, IsAsked
<1>4. CASE CountedDone
  <2>1. want = 0 /\ UNCHANGED <<data, offset>> /\ Return(Some("number", val))
    BY <1>4 DEF CountedDone, NumberDone, BooleanDone, DataDone, LengthDone
  <2>2. PICK k \in Nat : k = Len(bytes)
    BY LenProperties DEF TypeOK
  <2>3. k = item.width
    <3>1. 0 + k = item.width
      BY <2>1, <2>2
    <3>2. QED BY <2>2, <3>1, SMT
  <2>4. Len(Written(item)) = k /\ a \in Nat
    BY <1>1, <1>2, <2>3, NumberWritten DEF Holds
  <2>5. \A i \in 1..k : a + i <= Size => data[a + i] = Code!WriteNumber(item.value, k)[i]
    BY <1>2, <2>3, <2>4 DEF Holds
  <2>6. val = item.value % Radix ^ k /\ offset \in Nat /\ offset + 1 = a + k /\ offset < Size
    <3>1. k \in Widths /\ Len(bytes) = k /\ want = 0 /\ a \in Nat /\ item.value \in Nat
      BY <1>1, <2>1, <2>2, <2>3, <2>4
    <3>2. QED BY <2>5, <3>1, WholeNumber
  <2>7. a + k <= Size
    BY <2>6, Sizes, SMT
  <2>8. Expected(item) = Some("number", val)
    BY <2>3, <2>6 DEF Expected
  <2>9. QED BY <2>1, <2>4, <2>6, <2>7, <2>8 DEF Ends, Return
<1>5. QED BY <1>3, <1>4 DEF Progress, UntilByte, IdentifierByte

\* A boolean is.
LEMMA BooleanItem ==
  ASSUME TypeOK, LoopInv, NEW a, NEW item \in Items, Holds(a, Written(item)), begun + 1 = a,
         item.kind = "boolean", call = "boolean", Progress
  PROVE  Ends(a, item) \/ Goes(a, item)
<1>1. item.value \in BOOLEAN /\ 1 \in Widths /\ Radix > 1 /\ Radix \in Nat
  BY ItemAssumption, StreamAssumption DEF IsItem
<1>2. PICK n \in {0, 1} : n = IF item.value THEN 1 ELSE 0
  OBVIOUS
<1>3. Written(item) = Code!WriteNumber(n, 1) /\ n \in Nat
  BY <1>2 DEF Written, Code!WriteBoolean
<1>4. CASE CountedByte
  BY <1>4, DigitGoes DEF Goes, IsAsked
<1>5. CASE CountedDone
  <2>1. /\ want = 0 /\ UNCHANGED <<data, offset>>
        /\ Return(IF val \in {0, 1} THEN Some("boolean", val = 1) ELSE Nothing)
    BY <1>5 DEF CountedDone, NumberDone, BooleanDone, DataDone, LengthDone
  <2>2. PICK k \in Nat : k = Len(bytes)
    BY LenProperties DEF TypeOK
  <2>3. k = 1
    <3>1. 0 + k = 1
      BY <2>1, <2>2 DEF LoopInv, NumberInv
    <3>2. QED BY <3>1, SMT
  <2>4. Len(Written(item)) = 1 /\ a \in Nat
    <3>1. Len(Code!WriteNumber(n, 1)) = 1
      BY <1>1, <1>3, NumberWritten
    <3>2. QED BY <1>3, <3>1 DEF Holds
  <2>5. \A i \in 1..1 : a + i <= Size => data[a + i] = Code!WriteNumber(n, 1)[i]
    BY <1>3, <2>4 DEF Holds
  <2>6. val = n % Radix ^ 1 /\ offset \in Nat /\ offset + 1 = a + 1 /\ offset < Size
    BY <1>1, <1>3, <2>1, <2>2, <2>3, <2>4, <2>5, WholeNumber
  <2>7. a + 1 <= Size
    BY <2>6, Sizes, SMT
  <2>8. val = n
    <3>1. Radix ^ 1 = Radix
      <4>1. 0 \in 0..(1 - 1) /\ 0 + 1 = 1 /\ Radix * 1 = Radix
        BY <1>1, SMT
      <4>2. QED BY <1>1, <4>1, Powers
    <3>2. n < Radix
      BY <1>1, <1>2, SMT
    <3>3. QED BY <1>1, <1>3, <2>6, <3>1, <3>2, SmallRemainder
  <2>9. (val = 1) = item.value
    BY <1>1, <1>2, <2>8
  <2>10. result' = Some("boolean", item.value)
    BY <1>2, <2>1, <2>8, <2>9 DEF Return
  <2>11. Expected(item) = Some("boolean", item.value)
    BY DEF Expected
  <2>12. QED BY <2>1, <2>4, <2>6, <2>7, <2>10, <2>11 DEF Ends, Return
<1>6. QED BY <1>4, <1>5 DEF Progress, UntilByte, IdentifierByte

\* What is written for data: a length, then the data.
LEMMA DataWritten ==
  ASSUME NEW item \in Items, item.kind = "data"
  PROVE  LET w == Written(item)
             n == Len(item.value) IN
         /\ n \in Nat /\ NumberBytes \in Widths /\ NumberBytes \in Nat \ {0}
         /\ item.value \in Seq(Bytes) /\ Len(w) = NumberBytes + n
         /\ n % Radix ^ NumberBytes = n
         /\ \A i \in 1..NumberBytes : w[i] = Code!WriteNumber(n, NumberBytes)[i]
         /\ \A i \in 1..n : w[NumberBytes + i] = item.value[i]
<1>1. /\ item.value \in Seq(Bytes) /\ Len(item.value) < Radix ^ NumberBytes
      /\ NumberBytes \in Widths /\ NumberBytes \in Nat \ {0}
  BY ItemAssumption, StreamAssumption DEF IsItem
<1> DEFINE s == item.value
           b == Code!WriteNumber(Len(s), NumberBytes)
           w == b \o s
<1>2. PICK n \in Nat : n = Len(s)
  BY <1>1, LenProperties
<1>3. Written(item) = w
  BY Zenon DEF Written, Code!WriteData
<1>4. b \in Seq(Bytes) /\ Len(b) = NumberBytes
  BY <1>1, <1>2, NumberWritten
<1>5. n % Radix ^ NumberBytes = n
  <2>1. NumberBytes \in 0..NumberBytes
    BY <1>1, SMT
  <2>2. Radix ^ NumberBytes \in Nat \ {0}
    BY <1>1, <2>1, Powers
  <2>3. QED BY <1>1, <1>2, <2>2, SmallRemainder
<1> HIDE DEF b, s
<1>6. /\ Len(w) = Len(b) + Len(s)
      /\ \A i \in 1..(Len(b) + Len(s)) : w[i] = IF i <= Len(b) THEN b[i] ELSE s[i - Len(b)]
  <2>1. s \in Seq(Bytes)
    BY <1>1 DEF s
  <2>2. QED BY <1>4, <2>1, ConcatProperties
<1> HIDE DEF w
<1>7. PICK e \in Nat : e = NumberBytes
  BY <1>1
<1>8. /\ \A i \in 1..e : i \in 1..(e + n) /\ i <= e
      /\ \A i \in 1..n : e + i \in 1..(e + n) /\ ~(e + i <= e) /\ (e + i) - e = i
  BY SMT
<1>9. Len(w) = e + n /\ \A i \in 1..(e + n) : w[i] = IF i <= e THEN b[i] ELSE s[i - e]
  BY <1>2, <1>4, <1>6, <1>7
<1>10. /\ \A i \in 1..e : w[i] = b[i]
       /\ \A i \in 1..n : w[e + i] = s[i]
  BY <1>8, <1>9
<1>11. QED BY <1>1, <1>2, <1>3, <1>5, <1>7, <1>9, <1>10 DEF b, s

\* Its length is read.
LEMMA LengthItem ==
  ASSUME TypeOK, LoopInv, NEW a, NEW item \in Items, Holds(a, Written(item)), begun + 1 = a,
         item.kind = "data", call = "length", Progress
  PROVE  Ends(a, item) \/ Goes(a, item)
<1>1. CASE CountedByte
  BY <1>1, DigitGoes DEF Goes, IsAsked
<1>2. CASE CountedDone
  <2>1. /\ want = 0 /\ UNCHANGED <<data, offset>>
        /\ \/ HasAtLeast(val) /\ Begin("data", val) /\ UNCHANGED begun
           \/ ~HasAtLeast(val) /\ Return(Nothing)
    BY <1>2 DEF CountedDone, NumberDone, BooleanDone, DataDone, LengthDone
  <2>2. PICK k \in Nat, e \in Nat, n \in Nat, z \in Nat :
          k = Len(bytes) /\ e = NumberBytes /\ n = Len(item.value) /\ z = Size
    BY DataWritten, Sizes, LenProperties DEF TypeOK
  <2>3. /\ e \in Widths /\ Len(Written(item)) = e + n /\ n % Radix ^ e = n
        /\ \A i \in 1..e : Written(item)[i] = Code!WriteNumber(n, e)[i]
        /\ a \in Nat
    BY <2>2, DataWritten DEF Holds
  <2>4. k = e
    <3>1. 0 + k = e
      BY <2>1, <2>2 DEF LoopInv, NumberInv
    <3>2. QED BY <3>1, SMT
  <2>5. \A i \in 1..e : a + i <= Size => data[a + i] = Code!WriteNumber(n, e)[i]
    <3>1. \A i \in 1..e : i \in 1..(e + n)
      BY SMT
    <3>2. QED BY <2>3, <3>1 DEF Holds
  <2>6. val = n /\ offset \in Nat /\ offset + 1 = a + e /\ offset < Size
    <3>1. val = n % Radix ^ e /\ offset \in Nat /\ offset + 1 = a + e /\ offset < Size
      <4>1. want = 0 /\ Len(bytes) = e
        BY <2>1, <2>2, <2>4
      <4>2. QED BY <2>2, <2>3, <2>5, <4>1, WholeNumber
    <3>2. QED BY <2>3, <3>1
  <2>7. CASE HasAtLeast(val) /\ Begin("data", val) /\ UNCHANGED begun
    <3>1. Len(<<>>) = 0 /\ n + 0 = n
      BY EmptySeq, SMT
    <3>2. want' + Len(bytes') = Len(item.value) /\ call' = "data"
      BY <2>2, <2>6, <2>7, <3>1 DEF Begin
    <3>3. QED BY <2>7, <3>2 DEF Goes, IsAsked
  <2>8. CASE ~HasAtLeast(val) /\ Return(Nothing)
    <3>1. PICK o \in Nat : o = offset /\ o + 1 = a + e /\ o < z
      BY <2>2, <2>6
    <3>2. ~(o + n < z)
      <4>1. SUFFICES ASSUME o + n < z PROVE FALSE
        OBVIOUS
      <4>2. o + n \in Nat /\ o + n < Word
        BY <2>2, <4>1, Sizes, SMT
      <4>3. (o + n) % Word = o + n
        BY <4>2, Sizes, SmallRemainder
      <4>4. offset # None /\ ~Eof
        BY <2>2, <3>1, SMT DEF None, Eof
      <4>5. QED BY <2>2, <2>6, <2>8, <3>1, <4>1, <4>3, <4>4 DEF HasAtLeast
    <3>3. ~(a + (e + n) <= z)
      BY <2>3, <3>1, <3>2, SMT
    <3>4. QED BY <2>2, <2>3, <2>8, <3>3 DEF Ends, Return
  <2>9. QED BY <2>1, <2>7, <2>8
<1>3. QED BY <1>1, <1>2 DEF Progress, UntilByte, IdentifierByte

\* Then as many bytes.
LEMMA DataItem ==
  ASSUME TypeOK, LoopInv, NEW a, NEW item \in Items, Holds(a, Written(item)), begun + 1 = a,
         item.kind = "data", call = "data", want + Len(bytes) = Len(item.value), Progress
  PROVE  Ends(a, item) \/ Goes(a, item)
<1> DEFINE w == Written(item)
<1>1. PICK k \in Nat, e \in Nat, n \in Nat, z \in Nat, o \in Int, g \in Int, x \in Nat :
        /\ k = Len(bytes) /\ e = NumberBytes /\ n = Len(item.value) /\ z = Size
        /\ o = offset /\ g = begun /\ x = want
  <2>1. begun \in Int /\ want \in Nat /\ Len(bytes) \in Nat
    BY Sizes, SMT DEF TypeOK, None
  <2>2. QED BY <2>1, DataWritten, Sizes
<1>2. /\ Len(w) = e + n /\ e # 0 /\ a \in Nat /\ x + k = n
      /\ \A i \in 1..n : w[e + i] = item.value[i]
      /\ item.value \in Seq(Bytes)
  BY <1>1, DataWritten DEF Holds
<1>3. BytesAreConsumed /\ Lead = e /\ Start = a
  BY <1>1 DEF LoopInv, Lead, Start
<1>4. o = g + e + k /\ (e + k > 0 => o < z) /\ \A i \in 1..k : bytes[i] = data[a + e + i]
  BY <1>1, <1>3 DEF BytesAreConsumed
<1>5. o + 1 = a + e + k /\ o < z
  <2>1. g + 1 = a /\ e + k > 0
    BY <1>1, <1>2, SMT
  <2>2. QED BY <1>4, <2>1, SMT
<1>6. CASE CountedByte /\ Available
  <2>1. want' = want - 1 /\ bytes' = Append(bytes, Peeked) /\ UNCHANGED <<call, begun>>
    BY <1>6 DEF CountedByte
  <2>2. Len(bytes') = k + 1
    BY <1>1, <1>6, <2>1, AvailableIsInside, AppendProperties DEF TypeOK
  <2>3. want' + Len(bytes') = Len(item.value)
    <3>1. (x - 1) + (k + 1) = x + k
      BY SMT
    <3>2. QED BY <1>1, <1>2, <2>1, <2>2, <3>1
  <2>4. QED BY <2>1, <2>3 DEF Goes, IsAsked
<1>7. CASE CountedByte /\ ~Available
  <2>1. MoveOffset /\ Return(Nothing) /\ x > 0
    BY <1>1, <1>7 DEF CountedByte
  <2>2. o + 1 >= z
    BY <1>1, <1>7, <2>1, EndOfFile
  <2>3. ~(a + (e + n) <= z)
    BY <1>2, <1>5, <2>1, <2>2, SMT
  <2>4. QED BY <1>1, <1>2, <2>1, <2>3 DEF Ends, Return
<1>8. CASE CountedDone
  <2>1. x = 0 /\ UNCHANGED <<data, offset>> /\ Return(Some("bytes", bytes))
    BY <1>1, <1>8 DEF CountedDone, NumberDone, BooleanDone, DataDone, LengthDone
  <2>2. k = n /\ o + 1 = a + (e + n) /\ a + (e + n) <= z
    BY <1>2, <1>5, <2>1, SMT
  <2>3. ASSUME NEW i \in 1..n PROVE bytes[i] = item.value[i]
    <3>1. /\ a + e + i = a + (e + i) /\ a + (e + i) <= z /\ e + i \in 1..(e + n)
      BY <1>2, <2>2, SMT
    <3>2. data[a + (e + i)] = w[e + i]
      BY <1>1, <1>2, <3>1 DEF Holds
    <3>3. QED BY <1>2, <1>4, <2>2, <3>1, <3>2
  <2>4. bytes = item.value
    <3>1. Len(bytes) = Len(item.value) /\ \A i \in 1..Len(bytes) : bytes[i] = item.value[i]
      BY <1>1, <2>2, <2>3
    <3>2. QED BY <1>2, <3>1, SeqEqual DEF TypeOK
  <2>5. Expected(item) = Some("bytes", bytes)
    BY <2>4 DEF Expected
  <2>6. QED BY <1>1, <1>2, <2>1, <2>2, <2>5 DEF Ends, Return
<1>9. QED BY <1>6, <1>7, <1>8 DEF Progress, UntilByte, IdentifierByte

\* A name is, up to the marker behind it.
LEMMA NameItem ==
  ASSUME TypeOK, LoopInv, NEW a, NEW item \in Items, Holds(a, Written(item)), begun + 1 = a,
         item.kind = "identifier", call = "identifier", want = item.marker, Progress
  PROVE  Ends(a, item) \/ Goes(a, item)
<1> DEFINE w == Written(item)
<1>1. PICK k \in Nat, n \in Nat, z \in Nat, o \in Int, g \in Int :
        k = Len(bytes) /\ n = Len(item.value) /\ z = Size /\ o = offset /\ g = begun
  <2>1. begun \in Int /\ Len(bytes) \in Nat /\ Len(item.value) \in Nat
    BY Sizes, ItemAssumption, NameWritten, SMT DEF TypeOK, None, IsItem
  <2>2. QED BY <2>1, Sizes
<1>2. /\ Len(w) = n + 2 /\ a \in Nat /\ w[n + 2] = want
      /\ \A i \in 1..n : w[i + 1] = item.value[i] /\ item.value[i] # want
      /\ item.value \in Seq(Bytes)
  BY <1>1, NameWritten, ItemAssumption DEF Holds, IsItem
<1>3. BytesAreConsumed /\ Lead = 1 /\ Start = a /\ NotMet
  BY DEF LoopInv, Lead, Start
<1>4. o = g + 1 + k /\ (1 + k > 0 => o < z) /\ \A i \in 1..k : bytes[i] = data[a + 1 + i]
  BY <1>1, <1>3 DEF BytesAreConsumed
<1>5. o + 1 = a + 1 + k /\ o < z
  BY <1>1, <1>4, SMT
<1>6. \A i \in 1..k : i <= n + 1 => bytes[i] = w[i + 1]
  <2> TAKE i \in 1..k
  <2> HAVE i <= n + 1
  <2>1. i + 1 \in 1..(n + 2) /\ a + 1 + i = a + (i + 1) /\ a + (i + 1) <= z
    BY <1>2, <1>5, SMT
  <2>2. data[a + (i + 1)] = w[i + 1]
    BY <1>1, <1>2, <2>1 DEF Holds
  <2>3. QED BY <1>4, <2>1, <2>2
<1>7. k <= n
  <2>1. SUFFICES ASSUME ~(k <= n) PROVE FALSE
    OBVIOUS
  <2>2. n + 1 \in 1..k /\ n + 1 <= n + 1 /\ (n + 1) + 1 = n + 2
    BY <2>1, SMT
  <2>3. bytes[n + 1] = want
    BY <1>2, <1>6, <2>2
  <2>4. QED BY <1>1, <1>3, <2>2, <2>3 DEF NotMet
<1>8. CASE IdentifierByte /\ ~Available
  <2>1. MoveOffset /\ Return(Nothing)
    BY <1>8 DEF IdentifierByte
  <2>2. o + 1 >= z
    BY <1>1, <1>8, <2>1, EndOfFile
  <2>3. ~(a + (n + 2) <= z)
    BY <1>2, <1>5, <1>7, <2>2, SMT
  <2>4. QED BY <1>1, <1>2, <2>1, <2>3 DEF Ends, Return
<1>9. CASE IdentifierByte /\ Available /\ Peeked = want
  <2>1. MoveOffset /\ Return(Some("bytes", bytes))
    BY <1>9 DEF IdentifierByte
  <2>2. o + 1 < z /\ offset' = o + 1 /\ Peeked = data[o + 2]
    BY <1>1, <1>9, <2>1, OneByte, Sight
  <2>3. o + 2 = a + (k + 2) /\ a + (k + 2) <= z /\ k + 2 \in 1..(n + 2)
    BY <1>2, <1>5, <1>7, <2>2, SMT
  <2>4. w[k + 2] = want
    BY <1>1, <1>2, <1>9, <2>2, <2>3 DEF Holds
  <2>5. k = n
    <3>1. SUFFICES ASSUME k # n PROVE FALSE
      OBVIOUS
    <3>2. k + 1 \in 1..n /\ (k + 1) + 1 = k + 2
      BY <1>7, <3>1, SMT
    <3>3. QED BY <1>2, <2>4, <3>2
  <2>6. \A i \in 1..k : i \in 1..n /\ i <= n + 1
    BY <2>5, SMT
  <2>7. \A i \in 1..k : bytes[i] = item.value[i]
    BY <1>2, <1>6, <2>6
  <2>8. bytes = item.value
    BY <1>1, <1>2, <2>5, <2>7, SeqEqual DEF TypeOK
  <2>9. Expected(item) = Some("bytes", bytes)
    BY <2>8 DEF Expected
  <2>10. offset' + 1 = a + (n + 2) /\ a + (n + 2) <= z
    BY <2>2, <2>3, <2>5, SMT
  <2>11. QED BY <1>1, <1>2, <2>1, <2>9, <2>10 DEF Ends, Return
<1>10. CASE IdentifierByte /\ Available /\ Peeked # want
  BY <1>10 DEF IdentifierByte, Goes, IsAsked
<1>11. QED BY <1>8, <1>9, <1>10 DEF Progress, CountedByte, CountedDone, Counting, UntilByte

\* Where the reader of a script is.
LEMMA NextIs ==
  ASSUME TypeOK, WireInv, Len(answers) < Len(script)
  PROVE  /\ script \in Seq(Items) /\ script # <<>> /\ ReaderInv
         /\ Len(answers) \in 0..(Len(script) - 1) /\ Len(answers) \in Nat /\ Len(script) \in Nat
         /\ NextItem \in Items
<1>1. script \in Seq(Items)
  BY ItemAssumption DEF WireInv
<1>2. PICK n \in Nat, k \in Nat : n = Len(script) /\ k = Len(answers)
  BY <1>1, LenProperties DEF WireInv
<1>3. script # <<>>
  <2>1. SUFFICES ASSUME script = <<>> PROVE FALSE
    OBVIOUS
  <2>2. n = 0
    BY <1>2, <2>1, EmptySeq
  <2>3. k < n
    BY <1>2
  <2>4. QED BY <2>2, <2>3, SMT
<1>4. k \in 0..(n - 1) /\ k + 1 \in 1..n
  BY <1>2, SMT
<1>5. script[k + 1] \in Items
  BY <1>1, <1>2, <1>4, ElementOfSeq
<1>6. QED BY <1>1, <1>2, <1>3, <1>4, <1>5 DEF WireInv, NextItem

\* The file holds what is to be read next.
LEMMA NextIsHeld ==
  ASSUME TypeOK, WireInv, Len(answers) < Len(script), NEW a \in Int, a = EndOf(Len(answers)),
         a <= Size
  PROVE  Holds(a, Written(NextItem))
<1>1. /\ script \in Seq(Items) /\ ReaderInv /\ Len(answers) \in 0..(Len(script) - 1)
  BY NextIs
<1>2. PICK k \in Nat : k = Len(answers)
  BY NextIs
<1> DEFINE f == File(script)
           w == Written(NextItem)
<1>3. /\ w \in Seq(Bytes) /\ Len(w) \in Nat /\ a \in Nat
      /\ \A i \in 1..Len(w) : f[a + i] = w[i]
  BY <1>1, <1>2, FileHasItem DEF NextItem, EndOf, Upto
<1>4. \A i \in 1..Size : data[i] = f[i]
  BY <1>1 DEF ReaderInv
<1> HIDE DEF f, w
<1>5. \A i \in 1..Len(w) : a + i <= Size => data[a + i] = w[i]
  <2> TAKE i \in 1..Len(w)
  <2> HAVE a + i <= Size
  <2>1. a + i \in 1..Size
    BY <1>3, Sizes, SMT
  <2>2. QED BY <1>3, <1>4, <2>1
<1>6. QED BY <1>3, <1>5 DEF Holds, w

\* An answer more: it is the right one, and it ends where the next item begins.
LEMMA EndsKeepsInv ==
  ASSUME TypeOK, TypeOK', WireInv, NoneMissing, Len(answers) < Len(script),
         NEW a, a = EndOf(Len(answers)), NEW item, item = NextItem, Ends(a, item),
         Record, UNCHANGED <<script, data>>
  PROVE  WireInv'
<1>1. PICK k \in Nat, n \in Nat, z \in Nat : k = Len(answers) /\ n = Len(script) /\ z = Size
  BY NextIs, Sizes
<1> DEFINE end == EndOf(k) + Len(Written(NextItem))
<1>2. /\ script \in Seq(Items) /\ script # <<>> /\ ReaderInv /\ k \in 0..(n - 1)
  BY <1>1, NextIs
<1>3. end \in Nat /\ EndOf(k + 1) = end /\ script[k + 1] = NextItem
  BY <1>1, <1>2, FileHasItem DEF NextItem, EndOf, Upto
<1>4. /\ call' = "none" /\ answers' = Append(answers, result')
      /\ result' = IF end <= Size THEN Expected(NextItem) ELSE Nothing
      /\ end <= Size => offset' + 1 = end
  BY <1>1 DEF Ends, Record
<1> HIDE DEF end
<1>5. PICK S : answers \in Seq(S)
  BY DEF WireInv
<1> DEFINE T == S \cup {result'}
<1>6. /\ answers' \in Seq(T) /\ Len(answers') = k + 1 /\ answers'[k + 1] = result'
      /\ \A i \in 1..k : answers'[i] = answers[i]
  <2>1. answers \in Seq(T)
    BY <1>5, SeqMonotonic, S \subseteq T
  <2>2. result' \in T
    OBVIOUS
  <2>3. QED BY <1>1, <1>4, <2>1, <2>2, AppendProperties
<1> HIDE DEF T
<1>7. DOMAIN answers' = 1..(k + 1) /\ DOMAIN answers = 1..k
  BY <1>1, <1>5, <1>6, LenProperties
<1>8. k + 1 <= n /\ k + 1 \in 1..(k + 1) /\ \A i \in 1..(k + 1) : i \in 1..k \/ i = k + 1
  BY <1>1, <1>2, SMT
<1>9. Size' = Size
  BY DEF Size
<1>10. ReadsWhatWasWritten'
  <2> SUFFICES ASSUME NEW i \in 1..(k + 1)
               PROVE  answers'[i] = IF EndOf(i) <= Size THEN Expected(script[i]) ELSE Nothing
    BY <1>7, <1>9 DEF ReadsWhatWasWritten, EndOf
  <2>1. CASE i \in 1..k
    BY <1>6, <1>7, <2>1 DEF ReadsWhatWasWritten, WireInv
  <2>2. CASE i = k + 1
    BY <1>3, <1>4, <1>6, <2>2
  <2>3. QED BY <1>8, <2>1, <2>2
<1>11. NoneMissing' => end <= Size
  BY <1>4, <1>6, <1>7, <1>8 DEF NoneMissing
<1>12. NoneMissing' => offset' + 1 = EndOf(k + 1) /\ offset' < Size
  <2>1. SUFFICES ASSUME NoneMissing' PROVE offset' + 1 = EndOf(k + 1) /\ offset' < Size
    OBVIOUS
  <2>2. offset' + 1 = end /\ end <= z
    BY <1>1, <1>4, <1>11, <2>1
  <2>3. PICK o \in Int : o = offset'
    BY SMT DEF TypeOK, None
  <2>4. o + 1 = end /\ o + 1 <= z
    BY <2>2, <2>3
  <2>6. o < z
    BY <2>4, SMT
  <2>7. QED BY <1>1, <1>3, <2>3, <2>4, <2>6
<1>13. ReaderInv'
  BY <1>1, <1>2, <1>4, <1>6, <1>8, <1>9, <1>12 DEF ReaderInv, EndOf
<1>14. QED BY <1>2, <1>6, <1>10, <1>13 DEF WireInv

\* No answer yet: the call goes on.
LEMMA GoesKeepsInv ==
  ASSUME TypeOK, TypeOK', WireInv, NoneMissing, Len(answers) < Len(script),
         NEW a, a = EndOf(Len(answers)), a <= Size, NEW item, item = NextItem, Goes(a, item),
         Record, UNCHANGED <<script, data>>
  PROVE  WireInv'
<1>1. script # <<>> /\ ReaderInv
  BY NextIs
<1>2. UNCHANGED answers /\ call' # "none" /\ begun' + 1 = EndOf(Len(answers)) /\ IsAsked(item)'
  BY DEF Record, Goes
<1>3. UNCHANGED <<EndOf(Len(answers)), NextItem, Size>> /\ NoneMissing'
  BY <1>2 DEF EndOf, NextItem, Size, NoneMissing
<1>4. IsAsked(NextItem)'
  BY <1>2, <1>3 DEF IsAsked
<1>5. begun' < Size
  <2>1. PICK g \in Int, z \in Nat : g = begun' /\ z = Size
    BY Sizes, SMT DEF TypeOK, None
  <2>2. g + 1 <= z
    BY <1>2, <2>1
  <2>3. g < z
    BY <2>2, SMT
  <2>4. QED BY <2>1, <2>3
<1>6. ReaderInv'
  BY <1>1, <1>2, <1>3, <1>5, <1>4 DEF ReaderInv
<1>7. ReadsWhatWasWritten'
  BY <1>2 DEF WireInv, ReadsWhatWasWritten, EndOf, Size
<1>8. QED BY <1>1, <1>2, <1>6, <1>7 DEF WireInv

\* Only a call that runs makes progress.
LEMMA ProgressRuns == ASSUME Progress PROVE call # "none" /\ UNCHANGED data
  BY DEF Progress, CountedByte, CountedDone, Counting, UntilByte, IdentifierByte

\* The reader of a script makes the calls of a stream, and a script is read of its own file.
LEMMA WireIsStream ==
  ASSUME TypeOK, WireInv, [WireNext]_wireVars
  PROVE  [Next]_vars
<1>1. CASE UNCHANGED wireVars
  BY <1>1 DEF wireVars
<1>2. CASE Ask
  <2>1. NextItem \in Items
    BY <1>2, NextIs DEF Ask
  <2>2. IsItem(NextItem)
    BY <2>1, ItemAssumption
  <2>3. QED BY <1>2, <2>2 DEF Ask, Next, IsItem
<1>3. CASE Progress \/ Next
  BY <1>3 DEF Next
<1>4. QED BY <1>1, <1>2, <1>3 DEF WireNext

LEMMA WireBegins == ASSUME WireInit PROVE Init /\ WireInv
<1>1. script \in Seq(Items) /\ script \in Scripts /\ answers = <<>> /\ Opened
  BY ItemAssumption DEF WireInit
<1>2. data \in Files
  <2>1. CASE script = <<>>
    BY <2>1, OpenAssumption DEF WireInit
  <2>2. CASE script # <<>>
    BY <2>2, ItemAssumption DEF WireInit
  <2>3. QED BY <2>1, <2>2
<1>3. Init
  BY <1>1, <1>2 DEF Init
<1>4. Len(answers) = 0 /\ DOMAIN answers = {} /\ answers \in Seq({})
  <2>1. <<>> \in Seq({}) /\ Len(<<>>) = 0
    BY EmptySeq
  <2>2. DOMAIN <<>> = 1..0
    BY <2>1, LenProperties
  <2>3. QED BY <1>1, <2>1, <2>2, SMT
<1>5. ReadsWhatWasWritten
  BY <1>4 DEF ReadsWhatWasWritten
<1>6. ASSUME script # <<>> PROVE ReaderInv
  <2> DEFINE f == File(script)
  <2>1. PICK n \in 1..Len(f) : data = SubSeq(f, 1, n)
    BY <1>6 DEF WireInit, Cuts
  <2>2. f \in Seq(Bytes) /\ Len(f) \in Nat /\ Len(script) \in Nat
    <3>1. Len(script) \in Nat
      BY <1>1, LenProperties
    <3>2. Len(script) \in 0..Len(script)
      BY <3>1, SMT
    <3>3. f \in Seq(Bytes)
      BY <1>1, <3>2, FileOfMore
    <3>4. QED BY <3>1, <3>3, LenProperties
  <2> HIDE DEF f
  <2>3. /\ n \in Nat /\ 1 <= n /\ n <= Len(f) /\ n - 1 + 1 = n
        /\ \A i \in 1..n : i \in 1..Len(f) /\ 1 + i - 1 = i
    BY <2>1, <2>2, SMT
  <2>4. \A i \in 1..n : f[i] \in Bytes
    BY <2>2, <2>3, ElementOfSeq
  <2>5. Len(data) = n /\ \A i \in 1..n : data[i] = f[i]
    <3>1. /\ Len(SubSeq(f, 1, n)) = IF 1 <= n THEN n - 1 + 1 ELSE 0
          /\ \A i \in 1..(n - 1 + 1) : SubSeq(f, 1, n)[i] = f[1 + i - 1]
      BY <2>3, <2>4, SubSeqProperties
    <3>2. QED BY <2>1, <2>3, <3>1
  <2>6. EndOf(0) = 0
    <3>1. Len(Upto(script, 0)) = 0
      BY <1>1, FileOfMore, EmptySeq
    <3>2. QED BY <3>1 DEF EndOf, Upto
  <2>7. offset = -1 /\ call = "none"
    BY <1>1 DEF Opened, None
  <2>8. offset + 1 = 0 /\ offset < n /\ 0 <= Len(script)
    BY <2>2, <2>3, <2>7, SMT
  <2>9. QED BY <1>4, <2>3, <2>5, <2>6, <2>7, <2>8 DEF ReaderInv, Size, f
<1>7. QED BY <1>1, <1>3, <1>4, <1>5, <1>6 DEF WireInv

\* WireInv is inductive, with what is known of the stream.
LEMMA WireStep ==
  ASSUME TypeOK, TypeOK', LoopInv, WireInv, [WireNext]_wireVars PROVE WireInv'
<1>1. CASE UNCHANGED wireVars
  BY <1>1 DEF wireVars, vars, WireInv, ReaderInv, NoneMissing, IsAsked, NextItem, EndOf,
              ReadsWhatWasWritten, Size
<1>2. CASE script = <<>> /\ UNCHANGED <<script, answers>>
  <2>1. answers = <<>>
    BY <1>2 DEF WireInv
  <2>2. DOMAIN answers = {}
    <3>1. <<>> \in Seq({}) /\ Len(<<>>) = 0
      BY EmptySeq
    <3>2. DOMAIN <<>> = 1..0
      BY <3>1, LenProperties
    <3>3. QED BY <2>1, <3>2, SMT
  <2>3. ReadsWhatWasWritten'
    BY <1>2, <2>2 DEF ReadsWhatWasWritten
  <2>4. QED BY <1>2, <2>3 DEF WireInv
<1>3. CASE script # <<>> /\ Ask /\ Record /\ UNCHANGED script
  <2>1. call = "none" /\ Len(answers) < Len(script) /\ NoneMissing
    BY <1>3 DEF Ask, NoneMissing
  <2>2. ReaderInv /\ NextItem \in Items
    BY <2>1, NextIs
  <2>3. PICK a \in Int, z \in Nat, o \in Int :
          a = EndOf(Len(answers)) /\ a = o + 1 /\ o = offset /\ o < z /\ z = Size
    <3>1. offset + 1 \in Int
      BY Sizes, SMT
    <3>2. QED BY <2>1, <2>2, <3>1, Sizes DEF ReaderInv
  <2>4. a <= Size
    BY <2>3, SMT
  <2>5. PICK item \in Items : item = NextItem /\ Holds(a, Written(item))
    BY <2>1, <2>2, <2>3, <2>4, NextIsHeld
  <2>6. Ends(a, item) \/ Goes(a, item)
    BY <1>3, <2>3, <2>5, AskItem DEF Ask
  <2>7. UNCHANGED data
    BY <1>3 DEF Ask, ReadNumber, ReadIdentifier, ReadData, ReadBoolean, ReadCounted
  <2>8. QED BY <1>3, <2>1, <2>3, <2>4, <2>5, <2>6, <2>7, EndsKeepsInv, GoesKeepsInv
<1>4. CASE script # <<>> /\ Progress /\ Record /\ UNCHANGED script
  <2>1. /\ NoneMissing /\ Len(answers) < Len(script) /\ begun + 1 = EndOf(Len(answers))
        /\ begun < Size /\ IsAsked(NextItem) /\ UNCHANGED data
    BY <1>4, ProgressRuns DEF WireInv, ReaderInv
  <2>2. NextItem \in Items
    BY <2>1, NextIs
  <2>3. PICK a \in Int, z \in Nat, g \in Int :
          a = EndOf(Len(answers)) /\ a = g + 1 /\ g = begun /\ g < z /\ z = Size
    <3>1. begun \in Int /\ begun + 1 \in Int
      BY Sizes, SMT DEF TypeOK, None
    <3>2. QED BY <2>1, <3>1, Sizes
  <2>4. a <= Size
    BY <2>3, SMT
  <2>5. PICK item \in Items : item = NextItem /\ Holds(a, Written(item))
    BY <2>1, <2>2, <2>3, <2>4, NextIsHeld
  <2>6. Ends(a, item) \/ Goes(a, item)
    <3>1. item \in Items /\ Holds(a, Written(item)) /\ begun + 1 = a /\ Progress /\ IsAsked(item)
      BY <1>4, <2>1, <2>3, <2>5 DEF IsAsked
    <3>2. CASE item.kind = "number" /\ call = "number" /\ want + Len(bytes) = item.width
      BY <3>1, <3>2, NumberItem
    <3>3. CASE item.kind = "identifier" /\ call = "identifier" /\ want = item.marker
      BY <3>1, <3>3, NameItem
    <3>4. CASE item.kind = "data" /\ call = "length"
      BY <3>1, <3>4, LengthItem
    <3>5. CASE item.kind = "data" /\ call = "data" /\ want + Len(bytes) = Len(item.value)
      BY <3>1, <3>5, DataItem
    <3>6. CASE item.kind = "boolean" /\ call = "boolean"
      BY <3>1, <3>6, BooleanItem
    <3>7. QED BY <3>1, <3>2, <3>3, <3>4, <3>5, <3>6 DEF IsAsked
  <2>7. QED BY <1>4, <2>1, <2>3, <2>4, <2>5, <2>6, EndsKeepsInv, GoesKeepsInv
<1>5. QED BY <1>1, <1>2, <1>3, <1>4 DEF WireNext

\* What is known of the stream holds whether a script is read or not.
AllInv == Inv /\ LoopInv /\ WireInv

LEMMA WireStepKeepsAll == AllInv /\ [WireNext]_wireVars => AllInv' /\ [Next]_vars
<1>1. SUFFICES ASSUME AllInv, [WireNext]_wireVars PROVE AllInv' /\ [Next]_vars
  OBVIOUS
<1>2. [Next]_vars
  BY <1>1, WireIsStream DEF AllInv, Inv
<1>3. Inv'
  BY <1>1, <1>2, NextKeepsInv DEF AllInv
<1>4. LoopInv'
  BY <1>1, <1>2, NextLoop DEF AllInv, Inv
<1>5. WireInv'
  BY <1>1, <1>3, WireStep DEF AllInv, Inv
<1>6. QED BY <1>2, <1>3, <1>4, <1>5 DEF AllInv

LEMMA WireBeginsAll == WireInit => AllInv /\ Init
  BY WireBegins, InitInv, InitSeen DEF AllInv

\* What was written is what is read back, item by item; of a file that was cut short, the
\* first item it does not hold to its last byte reads as nothing, and it is the last thing
\* read: for every radix, every width, every script of items and every place of the cut.
THEOREM WhatIsWrittenIsRead == WireSpec => []ReadsWhatWasWritten
<1>1. AllInv => ReadsWhatWasWritten
  BY DEF AllInv, WireInv
<1>2. QED BY <1>1, WireBeginsAll, WireStepKeepsAll, PTL DEF WireSpec

\* Reading a script is using the stream: what is proved of every sequence of calls holds of
\* a loader's, too.
THEOREM LoadersUseTheStream ==
  WireSpec => Spec /\ []TypeOK /\ []NoReadPastEnd /\ ImplementsCursor
<1>1. WireSpec => Spec
  BY WireBeginsAll, WireStepKeepsAll, PTL DEF WireSpec, Spec
<1>2. QED BY <1>1, TypeCorrect, StaysInside, StreamIsACursor, PTL
=============================================================================
