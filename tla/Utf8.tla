--------------------------------- MODULE Utf8 ---------------------------------
(***************************************************************************)
(* A text in a program is a sequence of characters, in a file a sequence   *)
(* of bytes: what std::wstring_convert<codecvt_utf8<char32_t>> makes of    *)
(* one and of the other.  It throws when it cannot, and nobody catches.    *)
(***************************************************************************)
EXTENDS Integers, Sequences

LOCAL INSTANCE SequencesExt

CONSTANT DropsTail   \* TRUE when the library is silent about a last character that is cut
                     \* (libstdc++), FALSE when it throws there too

ASSUME DropsTailAssumption == DropsTail \in BOOLEAN

\* What a call returns that does not: an exception is on its way out of main.
Thrown == <<"thrown">>

\* The k-th group of six bits of a character, from its end.
Six(c, k) == 128 + ((c \div 64 ^ k) % 64)

EncodedChar(c) ==
  CASE c < 128   -> <<c>>
    [] c \in 128..2047   -> <<192 + c \div 64, Six(c, 0)>>
    [] c \in 2048..65535 -> <<224 + c \div 4096, Six(c, 1), Six(c, 0)>>
    [] c > 65535 -> <<240 + c \div 262144, Six(c, 2), Six(c, 1), Six(c, 0)>>

\* Value_String::utf8, of characters that have a code.
ToUtf8(chars) == FlattenSeq([i \in DOMAIN chars |-> EncodedChar(chars[i])])

\* How many bytes the first one announces, and where the second one lies: no character
\* has a longer code than it needs, none is a surrogate, none is too large.
Announced(lead) == CASE lead < 128       -> 1
                     [] lead \in 194..223 -> 2
                     [] lead \in 224..239 -> 3
                     [] lead \in 240..244 -> 4
                     [] OTHER            -> 0
SecondBytes(lead) == CASE lead = 224 -> 160..191
                       [] lead = 237 -> 128..159
                       [] lead = 240 -> 144..191
                       [] lead = 244 -> 128..143
                       [] OTHER      -> 128..191

\* The character that begins at place i is well formed, as far as the bytes go.
WellFormedAt(bytes, i) ==
  LET n == Announced(bytes[i]) IN
  /\ n > 0
  /\ \A j \in (i + 1)..(i + n - 1) :
       j \in DOMAIN bytes => bytes[j] \in IF j = i + 1 THEN SecondBytes(bytes[i]) ELSE 128..191

DecodedChar(bytes, i) ==
  LET n == Announced(bytes[i])
      Bits(k) == bytes[i + k] - 128
  IN  CASE n = 1 -> bytes[i]
        [] n = 2 -> (bytes[i] - 192) * 64 + Bits(1)
        [] n = 3 -> (bytes[i] - 224) * 4096 + Bits(1) * 64 + Bits(2)
        [] n = 4 -> (bytes[i] - 240) * 262144 + Bits(1) * 4096 + Bits(2) * 64 + Bits(3)

\* Value::fromString of bytes: a value of class string, or an exception.
FromString(bytes) ==
  LET end == Len(bytes) + 1
      from[i \in 1..end] ==
        LET after == i + Announced(bytes[i]) IN
        IF i = end THEN <<"string", <<>>>>
        ELSE IF ~WellFormedAt(bytes, i) THEN Thrown
        ELSE IF after > end THEN IF DropsTail THEN <<"string", <<>>>> ELSE Thrown
        ELSE IF from[after] = Thrown THEN Thrown
        ELSE <<"string", <<DecodedChar(bytes, i)>> \o from[after][2]>>
  IN  from[1]

\* The first and the last character of every length come back as they were, and none of
\* them is read when one more character stands in the place of its end.
Ends == {0, 127, 128, 2047, 2048, 55295, 57344, 65535, 65536, 1114111}
ASSUME CodesAreRead ==
  \A c \in Ends :
    LET code == ToUtf8(<<c>>) IN
    /\ FromString(code \o <<65>>) = <<"string", <<c, 65>>>>
    /\ \A n \in 1..(Len(code) - 1) : FromString(SubSeq(code, 1, n) \o <<65>>) = Thrown

=============================================================================
