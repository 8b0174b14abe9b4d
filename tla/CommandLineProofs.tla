--------------------------- MODULE CommandLineProofs ---------------------------
(***************************************************************************)
(* Proofs about the command line, for every set of spellings, counts and   *)
(* command lines: what the turns of the loop have done by any time is what *)
(* the places of the words mean.                                           *)
(***************************************************************************)
EXTENDS CommandLine, DataLemmas, SequenceTheorems, FiniteSetTheorems

(***************************************************************************)
(* A parser, and what its turns leave alone.                               *)
(***************************************************************************)
IsParser(p) ==
  /\ p \in [dashes : BOOLEAN, options : {p.options}, arguments : {p.arguments},
            allowed : Seq(Nat), goOn : [excess : BOOLEAN, noValue : BOOLEAN],
            enabled : {p.enabled}, values : Seq(Seq(STRING)), free : Seq(STRING),
            reports : Seq({"noValue", "excess"} \X STRING), argv : Seq(STRING),
            at : Nat, inDashes : BOOLEAN]
  /\ Len(p.values) = Len(p.allowed)
  /\ \A w \in DOMAIN p.arguments : p.arguments[w] \in 1..Len(p.allowed)

SameLine(p, q) ==
  /\ q.dashes = p.dashes /\ q.options = p.options /\ q.arguments = p.arguments
  /\ q.allowed = p.allowed /\ q.argv = p.argv

\* The next turn looks at another word.
LEMMA AtMoves ==
  ASSUME NEW p, IsParser(p), NEW n \in Nat, NEW q, q = [p EXCEPT !.at = n]
  PROVE  /\ IsParser(q) /\ SameLine(p, q) /\ q.at = n /\ q.inDashes = p.inDashes
         /\ q.free = p.free /\ q.enabled = p.enabled /\ q.values = p.values
         /\ q.reports = p.reports /\ q.goOn = p.goOn
BY DEF IsParser, SameLine

\* A problem is reported.
LEMMA ReportIsLast ==
  ASSUME NEW p, IsParser(p), NEW kind \in {"noValue", "excess"}, NEW word \in STRING,
         NEW q, q = Report(p, kind, word)
  PROVE  /\ IsParser(q) /\ SameLine(p, q) /\ q.at = p.at /\ q.inDashes = p.inDashes
         /\ q.free = p.free /\ q.enabled = p.enabled /\ q.values = p.values
         /\ q.reports # <<>> /\ q.goOn = p.goOn
<1> DEFINE r == Append(p.reports, <<kind, word>>)
<1>1. r \in Seq({"noValue", "excess"} \X STRING) /\ r # <<>>
  BY AppendProperties DEF IsParser
<1>2. q = [p EXCEPT !.reports = r]
  BY DEF Report
<1> HIDE DEF r
<1>3. QED BY <1>1, <1>2 DEF IsParser, SameLine

\* A word is a free input.
LEMMA FreeGrows ==
  ASSUME NEW p, IsParser(p), NEW word \in STRING, NEW q, q = [p EXCEPT !.free = Append(@, word)]
  PROVE  /\ IsParser(q) /\ SameLine(p, q) /\ q.at = p.at /\ q.inDashes = p.inDashes
         /\ q.free = Append(p.free, word) /\ q.enabled = p.enabled /\ q.values = p.values
         /\ q.reports = p.reports /\ q.goOn = p.goOn
<1> DEFINE f == Append(p.free, word)
<1>1. f \in Seq(STRING)
  BY AppendProperties DEF IsParser
<1>2. q = [p EXCEPT !.free = f]
  OBVIOUS
<1>3. QED
  <2> HIDE DEF f
  <2>1. /\ IsParser(q) /\ SameLine(p, q) /\ q.at = p.at /\ q.inDashes = p.inDashes
        /\ q.free = f /\ q.enabled = p.enabled /\ q.values = p.values
        /\ q.reports = p.reports /\ q.goOn = p.goOn
    BY <1>1, <1>2 DEF IsParser, SameLine
  <2>2. QED BY <2>1 DEF f

\* The dashes are met.
LEMMA DashesAreMet ==
  ASSUME NEW p, IsParser(p), NEW q, q = [p EXCEPT !.inDashes = TRUE]
  PROVE  /\ IsParser(q) /\ SameLine(p, q) /\ q.at = p.at /\ q.inDashes = TRUE
         /\ q.free = p.free /\ q.enabled = p.enabled /\ q.values = p.values
         /\ q.reports = p.reports /\ q.goOn = p.goOn
BY DEF IsParser, SameLine

\* An option is enabled.
LEMMA OptionIsEnabled ==
  ASSUME NEW p, IsParser(p), NEW id, NEW q, q = [p EXCEPT !.enabled = @ \cup {id}]
  PROVE  /\ IsParser(q) /\ SameLine(p, q) /\ q.at = p.at /\ q.inDashes = p.inDashes
         /\ q.free = p.free /\ q.enabled = p.enabled \cup {id} /\ q.values = p.values
         /\ q.reports = p.reports /\ q.goOn = p.goOn
BY DEF IsParser, SameLine

WithValue(values, id, word) == [values EXCEPT ![id] = Append(@, word)]

\* An argument gets a value.
LEMMA ValueIsTaken ==
  ASSUME NEW p, IsParser(p), NEW id \in 1..Len(p.allowed), NEW i \in 1..Len(p.argv),
         NEW q, q = TakeValue(p, id, i)
  PROVE  /\ IsParser(q) /\ SameLine(p, q) /\ q.at = p.at /\ q.inDashes = p.inDashes
         /\ q.free = p.free /\ q.enabled = p.enabled
         /\ q.values = WithValue(p.values, id, p.argv[i])
         /\ q.reports = p.reports /\ q.goOn = p.goOn
<1> DEFINE v == [p.values EXCEPT ![id] = Append(@, p.argv[i])]
<1>1. p.values \in Seq(Seq(STRING)) /\ Len(p.values) = Len(p.allowed) /\ p.argv \in Seq(STRING)
  BY DEF IsParser
<1>2. Append(p.values[id], p.argv[i]) \in Seq(STRING)
  BY <1>1, AppendProperties
<1>3. v \in Seq(Seq(STRING)) /\ Len(v) = Len(p.values)
  BY <1>1, <1>2, ExceptSeq
<1>4. q = [p EXCEPT !.values = v]
  BY DEF TakeValue
<1> HIDE DEF v
<1>5. /\ IsParser(q) /\ SameLine(p, q) /\ q.at = p.at /\ q.inDashes = p.inDashes
      /\ q.free = p.free /\ q.enabled = p.enabled /\ q.values = v
      /\ q.reports = p.reports /\ q.goOn = p.goOn
  BY <1>1, <1>3, <1>4 DEF IsParser, SameLine
<1>6. QED BY <1>5 DEF v, WithValue

(***************************************************************************)
(* The places of words.                                                    *)
(***************************************************************************)

\* A set of numbers with one in it has a smallest.
LEMMA Smallest ==
  ASSUME NEW T, T \subseteq Nat, T # {}
  PROVE  \E x \in T : \A y \in T : x <= y
<1> DEFINE Less == {q \in Nat \X Nat : q[1] < q[2]}
<1>1. OpToRel(<, Nat) = Less
  BY Zenon DEF OpToRel
<1>2. IsWellFoundedOn(Less, Nat)
  BY <1>1, NatLessThanWellFounded, Zenon
<1>3. PICK x \in T : \A y \in T : <<y, x>> \notin Less
  <2> HIDE DEF Less
  <2>1. QED BY <1>2, WFMin, Zenon
<1>4. \A y \in Nat : y < x => <<y, x>> \in Less
  BY x \in Nat, SMT
<1>5. \A y \in T : ~(y < x)
  BY <1>3, <1>4, Zenon
<1>6. QED BY <1>3, <1>5, SMT

Runs(p, i) == {k \in 0..(i - 1) : \A j \in (i - k)..(i - 1) : p.argv[j] \in ArgumentWords(p)}
Longest(p, i) == CHOOSE k \in Runs(p, i) : \A l \in Runs(p, i) : l <= k

\* There is a longest run in front of every place.
LEMMA LongestIsThere ==
  ASSUME NEW p, NEW i \in Nat \ {0}
  PROVE  Longest(p, i) \in Runs(p, i) /\ \A l \in Runs(p, i) : l <= Longest(p, i)
<1> DEFINE T == {i - k : k \in Runs(p, i)}
<1>1. 0 \in Runs(p, i) /\ \A k \in Runs(p, i) : k \in Nat /\ i - k \in Nat
  BY DEF Runs
<1>2. PICK x \in T : \A y \in T : x <= y
  <2>1. T \subseteq Nat /\ T # {}
    BY <1>1
  <2> HIDE DEF T
  <2>2. QED BY <2>1, Smallest
<1>3. PICK k \in Runs(p, i) : x = i - k
  BY <1>2
<1>4. \A l \in Runs(p, i) : l <= k
  <2> SUFFICES ASSUME NEW l \in Runs(p, i) PROVE l <= k
    OBVIOUS
  <2>1. i - k <= i - l
    BY <1>2, <1>3
  <2>2. k \in Nat /\ l \in Nat
    BY <1>1
  <2>3. QED BY <2>1, <2>2
<1>5. QED BY <1>4, Zenon DEF Longest

\* A word is a value when an argument's word that is none is in front of it.
LEMMA ValueBehindArgument ==
  ASSUME NEW p, NEW i \in Nat \ {0}
  PROVE  ValueAt(p, i) <=> i > 1 /\ p.argv[i - 1] \in ArgumentWords(p) /\ ~ValueAt(p, i - 1)
<1> DEFINE A == p.argv[i - 1] \in ArgumentWords(p)
<1>1. \A n \in Nat \ {0} : ValueAt(p, n) <=> Longest(p, n) % 2 = 1
  BY DEF ValueAt, Longest, Runs
<1>2. Longest(p, i) \in Runs(p, i) /\ \A l \in Runs(p, i) : l <= Longest(p, i)
  BY LongestIsThere
<1>3. 0 \in Runs(p, i) /\ \A k \in Runs(p, i) : k \in 0..(i - 1)
  BY DEF Runs
<1>4. CASE i = 1
  <2>1. Longest(p, i) = 0
    BY <1>2, <1>3, <1>4
  <2>2. QED BY <1>1, <1>4, <2>1
<1>5. CASE i > 1 /\ ~A
  <2>1. \A k \in Runs(p, i) : k = 0
    BY <1>5 DEF Runs
  <2>2. Longest(p, i) = 0
    BY <1>2, <2>1
  <2>3. QED BY <1>1, <1>5, <2>2
<1>6. CASE i > 1 /\ A
  <2> DEFINE h == i - 1
  <2>1. h \in Nat \ {0} /\ h + 1 = i
    BY <1>6
  <2>2. Longest(p, h) \in Runs(p, h) /\ \A l \in Runs(p, h) : l <= Longest(p, h)
    BY <2>1, LongestIsThere
  <2>3. \A k \in Nat : k \in Runs(p, h) <=> k + 1 \in Runs(p, i)
    <3> SUFFICES ASSUME NEW k \in Nat PROVE k \in Runs(p, h) <=> k + 1 \in Runs(p, i)
      OBVIOUS
    <3>1. /\ k \in 0..(h - 1) <=> k + 1 \in 0..(i - 1)
          /\ \A j : j \in (i - (k + 1))..(i - 1) <=> j = h \/ j \in (h - k)..(h - 1)
      BY <2>1
    <3>2. QED BY <1>6, <3>1, Zenon DEF Runs
  <2>4. \A k \in Runs(p, h) : k \in Nat
    BY <2>1 DEF Runs
  <2>5. \A l \in Runs(p, i) : l \in Nat /\ (l = 0 \/ (l - 1 \in Nat /\ (l - 1) + 1 = l))
    BY <1>3
  <2>6. Longest(p, i) = Longest(p, h) + 1
    <3>1. Longest(p, h) + 1 <= Longest(p, i)
      BY <1>2, <2>2, <2>3, <2>4
    <3>2. Longest(p, i) # 0
      BY <2>2, <2>4, <3>1, <1>2, <2>5
    <3>3. Longest(p, i) - 1 \in Runs(p, h)
      BY <1>2, <2>3, <2>5, <3>2
    <3>4. Longest(p, i) - 1 <= Longest(p, h)
      BY <2>2, <3>3
    <3>5. QED BY <1>2, <2>2, <2>4, <2>5, <3>1, <3>4
  <2>7. ValueAt(p, i) <=> ~ValueAt(p, h)
    <3>1. Longest(p, h) \in Nat
      BY <2>2, <2>4
    <3>2. \A m \in Nat : (m + 1) % 2 = 1 <=> ~(m % 2 = 1)
      OBVIOUS
    <3>3. QED BY <1>1, <2>1, <2>6, <3>1, <3>2
  <2>8. QED BY <1>6, <2>7
<1>7. QED BY <1>4, <1>5, <1>6

\* Where the dashes are.
DashPlaces(p) ==
  {i \in Words(p) : p.dashes /\ p.argv[i] = "--" /\ ~ValueAt(p, i)} \cup {Len(p.argv) + 1}

\* The dashes are the first of the places they may have, one behind the words if none.
LEMMA DashesAreFirst ==
  ASSUME NEW p, IsParser(p)
  PROVE  /\ Dashes(p) \in DashPlaces(p) /\ \A j \in DashPlaces(p) : Dashes(p) <= j
         /\ Dashes(p) \in 1..(Len(p.argv) + 1)
<1>1. Len(p.argv) \in Nat /\ DashPlaces(p) \subseteq 1..(Len(p.argv) + 1)
  <2>1. Len(p.argv) \in Nat /\ DOMAIN p.argv = 1..Len(p.argv)
    BY DEF IsParser
  <2>2. Words(p) \subseteq 1..Len(p.argv)
    BY <2>1 DEF Words
  <2>3. QED BY <2>1, <2>2 DEF DashPlaces
<1>2. \E x \in DashPlaces(p) : \A y \in DashPlaces(p) : x <= y
  <2>1. DashPlaces(p) \subseteq Nat /\ DashPlaces(p) # {}
    BY <1>1 DEF DashPlaces
  <2>2. QED BY <2>1, Smallest
<1>3. Dashes(p) = CHOOSE i \in DashPlaces(p) : \A j \in DashPlaces(p) : i <= j
  BY DEF Dashes, DashPlaces
<1>4. QED BY <1>1, <1>2, <1>3

\* The meaning of a line is in what is declared and the line.
LEMMA SameMeaning ==
  ASSUME NEW p, NEW q, IsParser(p), SameLine(p, q)
  PROVE  /\ Words(q) = Words(p) /\ ArgumentWords(q) = ArgumentWords(p)
         /\ \A i : ValueAt(q, i) <=> ValueAt(p, i)
         /\ Dashes(q) = Dashes(p) /\ Looked(q) = Looked(p)
         /\ OptionsAt(q) = OptionsAt(p) /\ FreeAt(q) = FreeAt(p)
         /\ \A id : ValuesAt(q, id) = ValuesAt(p, id)
         /\ WellFormed(q) <=> WellFormed(p)
<1>1. Words(q) = Words(p) /\ ArgumentWords(q) = ArgumentWords(p)
  BY DEF Words, ArgumentWords, SameLine
<1>2. ASSUME NEW i PROVE ValueAt(q, i) <=> ValueAt(p, i)
  <2>1. Runs(q, i) = Runs(p, i)
    BY <1>1 DEF Runs, SameLine
  <2>2. QED BY <2>1 DEF ValueAt, Runs
<1>3. Dashes(q) = Dashes(p)
  <2>1. DashPlaces(q) = DashPlaces(p)
    BY <1>1, <1>2 DEF DashPlaces, SameLine
  <2>2. QED BY <2>1 DEF Dashes, DashPlaces
<1>4. Looked(q) = Looked(p)
  BY <1>1, <1>2, <1>3 DEF Looked
<1>5. OptionsAt(q) = OptionsAt(p) /\ FreeAt(q) = FreeAt(p)
  BY <1>1, <1>3, <1>4 DEF OptionsAt, FreeAt, SameLine
<1>6. ASSUME NEW id PROVE ValuesAt(q, id) = ValuesAt(p, id)
  BY <1>1, <1>2, <1>3 DEF ValuesAt, SameLine
<1>7. WellFormed(q) <=> WellFormed(p)
  BY <1>1, <1>4, <1>6 DEF WellFormed, SameLine
<1>8. QED BY <1>1, <1>2, <1>3, <1>4, <1>5, <1>6, <1>7

(***************************************************************************)
(* The words at some places.                                               *)
(***************************************************************************)
IsCollected(f, s, S, n) ==
  f = [i \in 0..n |-> IF i = 0 THEN <<>> ELSE f[i - 1] \o (IF i \in S THEN <<s[i]>> ELSE <<>>)]

\* The words at the places S among the first n words of a line.
Collected(s, S, n) == LET f == CHOOSE f : IsCollected(f, s, S, Len(s)) IN f[n]

\* Collecting the words at some places is a recursion that a function answers.
LEMMA CollectedExists ==
  ASSUME NEW s, NEW S PROVE \A n \in Nat : \E f : IsCollected(f, s, S, n)
<1> DEFINE More(i) == IF i \in S THEN <<s[i]>> ELSE <<>>
           T == {n \in Nat : \E f : IsCollected(f, s, S, n)}
<1>1. 0 \in T
  <2> DEFINE g == [i \in 0..0 |-> <<>>]
  <2>1. \A i \in 0..0 : i = 0
    BY SMT
  <2>2. g = [i \in 0..0 |-> IF i = 0 THEN <<>> ELSE g[i - 1] \o More(i)]
    BY <2>1, Zenon
  <2>3. IsCollected(g, s, S, 0)
    BY <2>2, Zenon DEF IsCollected
  <2>4. QED BY <2>3
<1>2. ASSUME NEW n \in Nat, n \in T PROVE n + 1 \in T
  <2>1. PICK f : IsCollected(f, s, S, n)
    BY <1>2
  <2> DEFINE g == [i \in 0..(n + 1) |-> IF i <= n THEN f[i] ELSE f[n] \o More(n + 1)]
  <2>2. IsCollected(g, s, S, n + 1)
    <3>1. \A i \in 1..(n + 1) : g[i - 1] = f[i - 1]
      BY SMT
    <3>2. \A i \in 0..n : f[i] = IF i = 0 THEN <<>> ELSE f[i - 1] \o More(i)
      BY <2>1, Zenon DEF IsCollected
    <3>3. \A i \in 0..n : g[i] = f[i]
      BY SMT
    <3>4. g[n + 1] = f[n] \o More(n + 1) /\ g[n] = f[n] /\ (n + 1) - 1 = n /\ n + 1 # 0
      <4>1. n + 1 \in 0..(n + 1) /\ n \in 0..(n + 1) /\ ~(n + 1 <= n) /\ n <= n
            /\ (n + 1) - 1 = n /\ n + 1 # 0
        BY SMT
      <4>2. \A i \in 0..(n + 1) : g[i] = IF i <= n THEN f[i] ELSE f[n] \o More(n + 1)
        OBVIOUS
      <4> HIDE DEF g, More
      <4>3. QED BY <4>1, <4>2, Zenon
    <3>5. \A i \in 0..(n + 1) : i \in 0..n \/ i = n + 1
      BY SMT
    <3>6. \A i \in 0..(n + 1) : i # 0 => i \in 1..(n + 1)
      BY SMT
    <3>7. g = [i \in 0..(n + 1) |-> g[i]]
      OBVIOUS
    <3> HIDE DEF g, More
    <3>8. \A i \in 0..(n + 1) : g[i] = IF i = 0 THEN <<>> ELSE g[i - 1] \o More(i)
      BY <3>1, <3>2, <3>3, <3>4, <3>5, <3>6, Zenon
    <3>9. g = [i \in 0..(n + 1) |-> IF i = 0 THEN <<>> ELSE g[i - 1] \o More(i)]
      BY <3>7, <3>8, Zenon
    <3>10. QED BY <3>9, Zenon DEF IsCollected, More
  <2>3. QED BY <2>2
<1>3. \A n \in Nat : n \in T
  <2> HIDE DEF T
  <2>1. QED BY <1>1, <1>2, Induction, Zenon
<1>4. QED BY <1>3

\* One word more.
LEMMA CollectedGrows ==
  ASSUME NEW s, Len(s) \in Nat, NEW S
  PROVE  /\ Collected(s, S, 0) = <<>>
         /\ \A n \in 1..Len(s) : Collected(s, S, n) =
              Collected(s, S, n - 1) \o (IF n \in S THEN <<s[n]>> ELSE <<>>)
<1> DEFINE f == CHOOSE f : IsCollected(f, s, S, Len(s))
<1>1. IsCollected(f, s, S, Len(s))
  BY CollectedExists, Zenon
<1>2. \A n : Collected(s, S, n) = f[n]
  BY DEF Collected
<1> HIDE DEF f
<1>3. \A i \in 0..Len(s) :
        f[i] = IF i = 0 THEN <<>> ELSE f[i - 1] \o (IF i \in S THEN <<s[i]>> ELSE <<>>)
  BY <1>1, Zenon DEF IsCollected
<1>4. 0 \in 0..Len(s) /\ \A n \in 1..Len(s) : n \in 0..Len(s) /\ n # 0
  BY SMT
<1>5. QED BY <1>2, <1>3, <1>4, Zenon

\* A word that is at one of the places comes last.
LEMMA CollectedNext ==
  ASSUME NEW s, Len(s) \in Nat, NEW S, NEW n \in 1..Len(s), NEW W,
         Collected(s, S, n - 1) \in Seq(W)
  PROVE  /\ n \in S => Collected(s, S, n) = Append(Collected(s, S, n - 1), s[n])
         /\ n \notin S => Collected(s, S, n) = Collected(s, S, n - 1)
<1> DEFINE c == Collected(s, S, n - 1)
<1>1. Collected(s, S, n) = c \o (IF n \in S THEN <<s[n]>> ELSE <<>>)
  <2>1. \A m \in 1..Len(s) : Collected(s, S, m) =
          Collected(s, S, m - 1) \o (IF m \in S THEN <<s[m]>> ELSE <<>>)
    BY CollectedGrows
  <2>2. QED BY <2>1, Zenon
<1>2. c \o <<>> = c /\ c \o <<s[n]>> = Append(c, s[n])
  <2>1. c \in Seq(W \cup {s[n]})
    OBVIOUS
  <2> HIDE DEF c
  <2>2. QED BY <2>1, ConcatEmptySeq, AppendIsConcat
<1>3. QED BY <1>1, <1>2

\* Behind the last place there is no more.
LEMMA CollectedEnds ==
  ASSUME NEW s, Len(s) \in Nat, NEW S, NEW m \in 0..Len(s), NEW W, Collected(s, S, m) \in Seq(W),
         \A i \in (m + 1)..Len(s) : i \notin S
  PROVE  Collected(s, S, Len(s)) = Collected(s, S, m)
<1> DEFINE T == {n \in Nat : m + n <= Len(s) => Collected(s, S, m + n) = Collected(s, S, m)}
<1>1. 0 \in T
  BY m + 0 = m
<1>2. ASSUME NEW n \in Nat, n \in T PROVE n + 1 \in T
  <2>1. SUFFICES ASSUME m + (n + 1) <= Len(s)
                 PROVE  Collected(s, S, m + (n + 1)) = Collected(s, S, m)
    OBVIOUS
  <2>2. /\ m + (n + 1) \in 1..Len(s) /\ (m + (n + 1)) - 1 = m + n /\ m + n <= Len(s)
        /\ m + (n + 1) \in (m + 1)..Len(s)
    BY <2>1
  <2>3. Collected(s, S, m + n) = Collected(s, S, m)
    BY <1>2, <2>2
  <2>4. m + (n + 1) \notin S
    BY <2>2
  <2>5. QED BY <2>2, <2>3, <2>4, CollectedNext
<1>3. \A n \in Nat : n \in T
  <2> HIDE DEF T
  <2>1. QED BY <1>1, <1>2, Induction, Zenon
<1>4. Len(s) - m \in Nat /\ m + (Len(s) - m) = Len(s)
  OBVIOUS
<1>5. QED BY <1>3, <1>4

\* The words at some places are those collected up to the last place.
LEMMA WordsAtAreCollected ==
  ASSUME NEW p, NEW S PROVE WordsAt(p, S) = Collected(p.argv, S, Len(p.argv))
BY Zenon DEF WordsAt, Collected, IsCollected

(***************************************************************************)
(* What one turn does with a parser.                                       *)
(***************************************************************************)
Moves(p, q, n) ==
  q.at = n /\ q.reports = p.reports /\ q.inDashes = p.inDashes
Finds(p, q, free, enabled, values) == q.free = free /\ q.enabled = enabled /\ q.values = values

\* The word of an argument: a problem, or the word behind it is its value.
LEMMA ArgumentOutcomes ==
  ASSUME NEW p, IsParser(p), ~AllRead(p), NEW a, a = p.at, NEW id, id = p.arguments[p.argv[a]],
         p.argv[a] \in DOMAIN p.arguments, NEW q, q = ArgumentTurn(p)
  PROVE  /\ IsParser(q) /\ SameLine(p, q)
         /\ IsEmpty(p, a + 1) \/ Full(p, id) => q.reports # <<>>
         /\ ~IsEmpty(p, a + 1) /\ ~Full(p, id) =>
              /\ Moves(p, q, a + 2)
              /\ Finds(p, q, p.free, p.enabled,
                       WithValue(p.values, id, p.argv[a + 1]))
         /\ p.reports # <<>> => q.reports # <<>>
<1> DEFINE word == p.argv[p.at]
           r    == Skip(p)
           n    == Report(r, "noValue", word)
           e    == Report(r, "excess", word)
<1>1. /\ a \in 1..Len(p.argv) /\ Len(p.argv) \in Nat /\ id \in 1..Len(p.allowed)
      /\ word \in STRING /\ p.allowed \in Seq(Nat)
  BY DEF AllRead, IsParser
<1>2. /\ IsParser(r) /\ SameLine(p, r) /\ Moves(p, r, a + 1)
      /\ Finds(p, r, p.free, p.enabled, p.values) /\ r.goOn = p.goOn
  <2>1. r = [p EXCEPT !.at = a + 1] /\ a + 1 \in Nat
    BY <1>1 DEF Skip
  <2> HIDE DEF r
  <2>2. QED BY <2>1, AtMoves DEF Moves, Finds
<1> HIDE DEF r, word
<1>3. /\ IsParser(n) /\ SameLine(p, n) /\ n.reports # <<>> /\ n.at = a + 1
      /\ IsParser(e) /\ SameLine(p, e) /\ e.reports # <<>> /\ e.at = a + 1
  BY <1>1, <1>2, ReportIsLast DEF SameLine, Moves
<1> HIDE DEF n, e
<1>4. IsEmpty(p, r.at) <=> IsEmpty(p, a + 1)
  BY <1>2 DEF Moves
<1>5. q = IF IsEmpty(p, r.at) THEN IF p.goOn.noValue THEN Skip(n) ELSE Leave(n)
          ELSE IF Full(p, id)
               THEN IF p.goOn.excess THEN Skip(TakeValue(e, id, r.at)) ELSE Leave(e)
          ELSE Skip(TakeValue(r, id, r.at))
  <2> DEFINE own == p.arguments[p.argv[p.at]]
  <2>1. q = IF IsEmpty(p, r.at) THEN IF p.goOn.noValue THEN Skip(n) ELSE Leave(n)
            ELSE IF Full(p, own)
               THEN IF p.goOn.excess THEN Skip(TakeValue(e, own, r.at)) ELSE Leave(e)
            ELSE Skip(TakeValue(r, own, r.at))
    BY DEF ArgumentTurn, r, n, e, word
  <2>2. own = id
    OBVIOUS
  <2> HIDE DEF own
  <2>3. QED BY <2>1, <2>2
<1>6. ASSUME NEW x, IsParser(x), SameLine(p, x)
      PROVE  /\ IsParser(Leave(x)) /\ SameLine(p, Leave(x)) /\ Leave(x).reports = x.reports
             /\ IsParser(Skip(x)) /\ SameLine(p, Skip(x)) /\ Moves(x, Skip(x), x.at + 1)
             /\ Finds(x, Skip(x), x.free, x.enabled, x.values)
  <2>1. Leave(x) = [x EXCEPT !.at = 0] /\ Skip(x) = [x EXCEPT !.at = x.at + 1] /\ x.at + 1 \in Nat
    BY <1>6 DEF Leave, Skip, IsParser
  <2>2. 0 \in Nat
    OBVIOUS
  <2>3. IsParser(Leave(x)) /\ SameLine(x, Leave(x)) /\ Leave(x).reports = x.reports
    BY <1>6, <2>1, <2>2, AtMoves
  <2>4. /\ IsParser(Skip(x)) /\ SameLine(x, Skip(x)) /\ Moves(x, Skip(x), x.at + 1)
        /\ Finds(x, Skip(x), x.free, x.enabled, x.values)
    BY <1>6, <2>1, AtMoves DEF Moves, Finds
  <2>5. QED BY <1>6, <2>3, <2>4 DEF SameLine
<1>7. CASE IsEmpty(p, a + 1)
  <2>1. q = Skip(n) \/ q = Leave(n)
    BY <1>4, <1>5, <1>7
  <2>2. QED BY <1>3, <1>6, <1>7, <2>1 DEF Moves
<1>8. CASE ~IsEmpty(p, a + 1) /\ Full(p, id)
  <2>1. a + 1 \in 1..Len(p.argv) /\ r.at = a + 1
    <3>1. r.at = a + 1
      BY <1>2 DEF Moves
    <3>2. ~(a + 1 > Len(p.argv))
      BY <1>8 DEF IsEmpty
    <3>3. QED BY <1>1, <3>1, <3>2
  <2> DEFINE t == TakeValue(e, id, r.at)
  <2>2. IsParser(t) /\ SameLine(p, t) /\ t.reports # <<>>
    <3>1. id \in 1..Len(e.allowed) /\ r.at \in 1..Len(e.argv)
      BY <1>1, <1>3, <2>1 DEF SameLine
    <3>2. IsParser(t) /\ SameLine(e, t) /\ t.reports = e.reports
      <4>1. t = TakeValue(e, id, r.at)
        OBVIOUS
      <4> HIDE DEF t
      <4>2. QED BY <1>3, <3>1, <4>1, ValueIsTaken
    <3>3. QED BY <1>3, <3>2 DEF SameLine
  <2>3. q = Skip(t) \/ q = Leave(e)
    BY <1>4, <1>5, <1>8
  <2> HIDE DEF t
  <2>4. QED BY <1>3, <1>6, <1>8, <2>2, <2>3 DEF Moves
<1>9. CASE ~IsEmpty(p, a + 1) /\ ~Full(p, id)
  <2>1. a + 1 \in 1..Len(p.argv) /\ r.at = a + 1
    <3>1. r.at = a + 1
      BY <1>2 DEF Moves
    <3>2. ~(a + 1 > Len(p.argv))
      BY <1>9 DEF IsEmpty
    <3>3. QED BY <1>1, <3>1, <3>2
  <2> DEFINE t == TakeValue(r, id, r.at)
  <2>2. /\ IsParser(t) /\ SameLine(p, t) /\ Moves(p, t, a + 1)
        /\ Finds(p, t, p.free, p.enabled, WithValue(p.values, id, p.argv[a + 1]))
    <3>1. id \in 1..Len(r.allowed) /\ r.at \in 1..Len(r.argv)
      BY <1>1, <1>2, <2>1 DEF SameLine
    <3>2. /\ IsParser(t) /\ SameLine(r, t) /\ t.at = r.at /\ t.inDashes = r.inDashes
          /\ t.free = r.free /\ t.enabled = r.enabled /\ t.reports = r.reports
          /\ t.values = WithValue(r.values, id, r.argv[r.at])
      <4>1. t = TakeValue(r, id, r.at)
        OBVIOUS
      <4> HIDE DEF t
      <4>2. QED BY <1>2, <3>1, <4>1, ValueIsTaken
    <3> HIDE DEF t
    <3>3. QED BY <1>2, <2>1, <3>2 DEF SameLine, Moves, Finds
  <2>3. q = Skip(t)
    BY <1>4, <1>5, <1>9
  <2> HIDE DEF t
  <2>4. (a + 1) + 1 = a + 2
    BY <1>1
  <2>5. /\ IsParser(q) /\ SameLine(p, q) /\ Moves(t, q, t.at + 1)
        /\ Finds(t, q, t.free, t.enabled, t.values)
    BY <1>6, <2>2, <2>3
  <2>6. /\ Moves(p, q, a + 2)
        /\ Finds(p, q, p.free, p.enabled, WithValue(p.values, id, p.argv[a + 1]))
    BY <2>2, <2>4, <2>5 DEF Moves, Finds
  <2>7. QED BY <1>9, <2>5, <2>6 DEF Moves
<1>10. QED BY <1>7, <1>8, <1>9

\* What becomes of the a-th word.
Outcome(p, q, a, word) ==
  /\ word = "" => Moves(p, q, 0) /\ Finds(p, q, p.free, p.enabled, p.values)
  /\ word # "" /\ (\/ p.inDashes
                   \/ /\ ~(p.dashes /\ word = "--")
                      /\ word \notin DOMAIN p.arguments \cup DOMAIN p.options) =>
       Moves(p, q, a + 1) /\ Finds(p, q, Append(p.free, word), p.enabled, p.values)
  /\ word # "" /\ ~p.inDashes /\ p.dashes /\ word = "--" =>
       /\ q.at = a + 1 /\ q.reports = p.reports /\ q.inDashes = TRUE
       /\ Finds(p, q, p.free, p.enabled, p.values)
  /\ word # "" /\ ~p.inDashes /\ ~(p.dashes /\ word = "--") /\ word \in DOMAIN p.options =>
       /\ Moves(p, q, a + 1)
       /\ Finds(p, q, p.free, p.enabled \cup {p.options[word]}, p.values)
  /\ word # "" /\ ~p.inDashes /\ ~(p.dashes /\ word = "--") /\ word \in ArgumentWords(p) =>
       q = ArgumentTurn(p)

\* A turn is one step of the loop.
LEMMA TurnOutcomes ==
  ASSUME NEW p, IsParser(p), ~AllRead(p), NEW a, a = p.at, NEW word, word = p.argv[a],
         NEW q, q = Turn(p)
  PROVE  /\ a \in 1..Len(p.argv) /\ Len(p.argv) \in Nat
         /\ IsParser(q) /\ SameLine(p, q) /\ Outcome(p, q, a, word)
         /\ p.reports # <<>> => q.reports # <<>>
<1>1. a \in 1..Len(p.argv) /\ Len(p.argv) \in Nat /\ word \in STRING /\ a + 1 \in Nat /\ 0 \in Nat
  BY DEF AllRead, IsParser
<1>2. IsEmpty(p, a) <=> word = ""
  <2>1. ~(a > Len(p.argv))
    BY <1>1
  <2>2. QED BY <2>1, Zenon DEF IsEmpty
<1>3. ASSUME NEW x, IsParser(x), x.at = a
      PROVE  /\ IsParser(Skip(x)) /\ SameLine(x, Skip(x)) /\ Moves(x, Skip(x), a + 1)
             /\ Finds(x, Skip(x), x.free, x.enabled, x.values)
  <2>1. Skip(x) = [x EXCEPT !.at = a + 1]
    BY <1>3 DEF Skip
  <2>2. QED BY <1>1, <1>3, <2>1, AtMoves DEF Moves, Finds
<1>4. CASE word = ""
  <2>1. q = [p EXCEPT !.at = 0]
    BY <1>2, <1>4 DEF Turn, Leave
  <2>2. /\ IsParser(q) /\ SameLine(p, q) /\ Moves(p, q, 0)
        /\ Finds(p, q, p.free, p.enabled, p.values)
    BY <1>1, <2>1, AtMoves DEF Moves, Finds
  <2>3. p.reports # <<>> => q.reports # <<>>
    BY <2>2 DEF Moves
  <2>4. QED BY <1>1, <1>4, <2>2, <2>3 DEF Outcome
<1>5. CASE word # "" /\ (\/ p.inDashes
                         \/ /\ ~(p.dashes /\ word = "--")
                            /\ word \notin DOMAIN p.arguments \cup DOMAIN p.options)
  <2> DEFINE x == [p EXCEPT !.free = Append(@, word)]
  <2>1. q = Skip(x)
    BY <1>2, <1>5 DEF Turn
  <2>2. /\ IsParser(x) /\ SameLine(p, x) /\ Moves(p, x, a)
        /\ Finds(p, x, Append(p.free, word), p.enabled, p.values)
    BY <1>1, FreeGrows DEF Moves, Finds
  <2> HIDE DEF x
  <2>3. x.at = a
    BY <2>2 DEF Moves
  <2>4. /\ IsParser(q) /\ SameLine(x, q) /\ Moves(x, q, a + 1)
        /\ Finds(x, q, x.free, x.enabled, x.values)
    BY <1>3, <2>1, <2>2, <2>3
  <2>5. /\ SameLine(p, q) /\ Moves(p, q, a + 1)
        /\ Finds(p, q, Append(p.free, word), p.enabled, p.values)
    BY <2>2, <2>4 DEF SameLine, Moves, Finds
  <2>6. p.reports # <<>> => q.reports # <<>>
    BY <2>5 DEF Moves
  <2>7. QED BY <1>1, <1>5, <2>4, <2>5, <2>6 DEF ArgumentWords, Outcome
<1>6. CASE word # "" /\ ~p.inDashes /\ p.dashes /\ word = "--"
  <2> DEFINE x == [p EXCEPT !.inDashes = TRUE]
  <2>1. q = Skip(x)
    BY <1>2, <1>6 DEF Turn
  <2>2. /\ IsParser(x) /\ SameLine(p, x) /\ x.at = a /\ x.inDashes = TRUE /\ x.reports = p.reports
        /\ Finds(p, x, p.free, p.enabled, p.values)
    BY DashesAreMet DEF Finds
  <2> HIDE DEF x
  <2>3. /\ IsParser(q) /\ SameLine(x, q) /\ Moves(x, q, a + 1)
        /\ Finds(x, q, x.free, x.enabled, x.values)
    BY <1>3, <2>1, <2>2
  <2>4. /\ SameLine(p, q) /\ q.at = a + 1 /\ q.reports = p.reports /\ q.inDashes = TRUE
        /\ Finds(p, q, p.free, p.enabled, p.values)
    BY <2>2, <2>3 DEF SameLine, Moves, Finds
  <2>5. QED BY <1>1, <1>6, <2>3, <2>4 DEF Outcome
<1>7. CASE word # "" /\ ~p.inDashes /\ ~(p.dashes /\ word = "--") /\ word \in DOMAIN p.options
  <2> DEFINE x == [p EXCEPT !.enabled = @ \cup {p.options[word]}]
  <2>1. q = Skip(x)
    BY <1>2, <1>7 DEF Turn
  <2>2. /\ IsParser(x) /\ SameLine(p, x) /\ Moves(p, x, a)
        /\ Finds(p, x, p.free, p.enabled \cup {p.options[word]}, p.values)
    BY OptionIsEnabled DEF Moves, Finds
  <2> HIDE DEF x
  <2>3. x.at = a
    BY <2>2 DEF Moves
  <2>4. /\ IsParser(q) /\ SameLine(x, q) /\ Moves(x, q, a + 1)
        /\ Finds(x, q, x.free, x.enabled, x.values)
    BY <1>3, <2>1, <2>2, <2>3
  <2>5. /\ SameLine(p, q) /\ Moves(p, q, a + 1)
        /\ Finds(p, q, p.free, p.enabled \cup {p.options[word]}, p.values)
    BY <2>2, <2>4 DEF SameLine, Moves, Finds
  <2>6. p.reports # <<>> => q.reports # <<>>
    BY <2>5 DEF Moves
  <2>7. QED BY <1>1, <1>7, <2>4, <2>5, <2>6 DEF ArgumentWords, Outcome
<1>8. CASE word # "" /\ ~p.inDashes /\ ~(p.dashes /\ word = "--") /\ word \in ArgumentWords(p)
  <2>1. word \in DOMAIN p.arguments /\ word \notin DOMAIN p.options
    BY <1>8 DEF ArgumentWords
  <2>2. q = ArgumentTurn(p)
    BY <1>2, <1>8, <2>1 DEF Turn
  <2>3. IsParser(q) /\ SameLine(p, q) /\ (p.reports # <<>> => q.reports # <<>>)
    BY <2>1, <2>2, ArgumentOutcomes
  <2>4. QED BY <1>1, <1>8, <2>1, <2>2, <2>3 DEF Outcome
<1>9. \/ word \notin DOMAIN p.arguments \cup DOMAIN p.options
      \/ word \in DOMAIN p.options
      \/ word \in ArgumentWords(p)
  BY DEF ArgumentWords
<1>10. QED BY <1>4, <1>5, <1>6, <1>7, <1>8, <1>9

(***************************************************************************)
(* What the turns have found when they come to a place.                    *)
(***************************************************************************)
NoneEmpty(p, n) == \A i \in 1..n : p.argv[i] # ""

Before(S, a) == {i \in S : i < a}

FoundBefore(p, a) ==
  /\ p.free = Collected(p.argv, FreeAt(p), a - 1)
  /\ p.enabled = {p.options[p.argv[i]] : i \in Before(OptionsAt(p), a)}
  /\ \A id \in 1..Len(p.allowed) :
       /\ p.values[id] = Collected(p.argv, ValuesAt(p, id), a - 1)
       /\ Len(p.values[id]) = Cardinality(Before(ValuesAt(p, id), a))
       /\ p.allowed[id] # 0 => Len(p.values[id]) <= p.allowed[id]

\* All words before a are read, and the next turn looks the a-th one up, if there is one.
ReadBefore(p, a) ==
  /\ a \in 1..(Len(p.argv) + 1) /\ NoneEmpty(p, a - 1)
  /\ p.inDashes <=> a > Dashes(p)
  /\ a <= Dashes(p) => ~ValueAt(p, a)
  /\ \A i \in Looked(p) : i < a /\ p.argv[i] \in ArgumentWords(p) => i + 1 < a

EndsAt(p, a) == a > Len(p.argv) \/ p.argv[a] = ""

\* The words mean the same as long as nothing else is declared.
LEMMA FoundStays ==
  ASSUME NEW p, NEW q, NEW a, IsParser(p), SameLine(p, q),
         Finds(p, q, p.free, p.enabled, p.values)
  PROVE  /\ FoundBefore(p, a) => FoundBefore(q, a)
         /\ q.inDashes = p.inDashes /\ ReadBefore(p, a) => ReadBefore(q, a)
         /\ EndsAt(p, a) => EndsAt(q, a)
<1>1. /\ Words(q) = Words(p) /\ ArgumentWords(q) = ArgumentWords(p)
      /\ \A i : ValueAt(q, i) <=> ValueAt(p, i)
      /\ Dashes(q) = Dashes(p) /\ Looked(q) = Looked(p)
      /\ OptionsAt(q) = OptionsAt(p) /\ FreeAt(q) = FreeAt(p)
      /\ \A id : ValuesAt(q, id) = ValuesAt(p, id)
  BY SameMeaning
<1>2. FoundBefore(p, a) => FoundBefore(q, a)
  BY <1>1 DEF FoundBefore, SameLine, Finds
<1>3. q.inDashes = p.inDashes /\ ReadBefore(p, a) => ReadBefore(q, a)
  BY <1>1 DEF ReadBefore, SameLine, NoneEmpty
<1>4. QED BY <1>2, <1>3 DEF EndsAt, SameLine

\* The sets of places are what they say.
LEMMA PlacesOf ==
  ASSUME NEW p, IsParser(p), NEW a, a \in 1..Len(p.argv), NoneEmpty(p, a)
  PROVE  /\ a \in Words(p)
         /\ a > Dashes(p) => /\ a \in FreeAt(p) /\ a \notin OptionsAt(p) /\ a \notin Looked(p)
                             /\ \A id : a \notin ValuesAt(p, id)
         /\ a = Dashes(p) => /\ a \notin FreeAt(p) /\ a \notin OptionsAt(p) /\ a \notin Looked(p)
                             /\ \A id : a \notin ValuesAt(p, id)
                             /\ p.dashes /\ p.argv[a] = "--"
         /\ a < Dashes(p) /\ ~ValueAt(p, a) =>
              /\ a \in Looked(p) /\ \A id : a \notin ValuesAt(p, id)
              /\ a \in OptionsAt(p) <=> p.argv[a] \in DOMAIN p.options
              /\ a \in FreeAt(p) <=> p.argv[a] \notin DOMAIN p.arguments \cup DOMAIN p.options
              /\ ~(p.dashes /\ p.argv[a] = "--")
         /\ a < Dashes(p) /\ ValueAt(p, a) =>
              /\ a \notin FreeAt(p) /\ a \notin OptionsAt(p) /\ a \notin Looked(p)
              /\ \A id : a \in ValuesAt(p, id) <=> p.arguments[p.argv[a - 1]] = id
<1>1. Len(p.argv) \in Nat /\ DOMAIN p.argv = 1..Len(p.argv) /\ a \in Nat
  BY DEF IsParser
<1>2. a \in Words(p)
  BY <1>1 DEF Words, NoneEmpty
<1>3. /\ Dashes(p) \in DashPlaces(p) /\ \A j \in DashPlaces(p) : Dashes(p) <= j
      /\ Dashes(p) \in 1..(Len(p.argv) + 1)
  BY DashesAreFirst
<1> DEFINE d == Dashes(p)
<1>4. d \in Nat
  BY <1>1, <1>3
<1> HIDE DEF d
<1>5. Looked(p) = {i \in Words(p) : i < d /\ ~ValueAt(p, i)}
  BY DEF Looked, d
<1>6. \A id : ValuesAt(p, id) = {i \in Words(p) : i < d /\ ValueAt(p, i)
                                                    /\ p.arguments[p.argv[i - 1]] = id}
  BY DEF ValuesAt, d
<1>7. FreeAt(p) = {i \in Looked(p) : p.argv[i] \notin DOMAIN p.arguments \cup DOMAIN p.options}
                     \cup {i \in Words(p) : i > d}
  BY DEF FreeAt, d
<1>8. CASE a > d
  <2>1. ~(a < d) /\ a # d
    BY <1>1, <1>4, <1>8
  <2>2. QED BY <1>2, <1>5, <1>6, <1>7, <1>8, <2>1 DEF OptionsAt, d
<1>9. CASE a = d
  <2>1. ~(a < d) /\ ~(a > d)
    BY <1>1, <1>4, <1>9
  <2>2. p.dashes /\ p.argv[a] = "--"
    BY <1>1, <1>3, <1>9 DEF DashPlaces, d
  <2>3. QED BY <1>2, <1>5, <1>6, <1>7, <1>9, <2>1, <2>2 DEF OptionsAt, d
<1>10. CASE a < d
  <2>1. ~(a > d) /\ a # d
    BY <1>1, <1>4, <1>10
  <2>2. ~ValueAt(p, a) => ~(p.dashes /\ p.argv[a] = "--")
    <3>1. a \notin DashPlaces(p)
      BY <1>1, <1>3, <1>4, <1>10 DEF d
    <3>2. QED BY <1>2, <3>1 DEF DashPlaces
  <2>3. QED BY <1>2, <1>5, <1>6, <1>7, <1>10, <2>1, <2>2 DEF OptionsAt, d
<1>11. QED BY <1>1, <1>4, <1>8, <1>9, <1>10

\* The sets are of places.
LEMMA PlacesAreFinite ==
  ASSUME NEW p, IsParser(p), NEW id
  PROVE  /\ ValuesAt(p, id) \subseteq 1..Len(p.argv) /\ OptionsAt(p) \subseteq 1..Len(p.argv)
         /\ FreeAt(p) \subseteq 1..Len(p.argv) /\ Looked(p) \subseteq 1..Len(p.argv)
         /\ IsFiniteSet(ValuesAt(p, id))
<1>1. Len(p.argv) \in Nat /\ DOMAIN p.argv = 1..Len(p.argv)
  BY DEF IsParser
<1>2. Words(p) \subseteq 1..Len(p.argv)
  BY <1>1 DEF Words
<1>3. Looked(p) \subseteq Words(p)
  BY DEF Looked
<1>4. /\ ValuesAt(p, id) \subseteq Words(p) /\ OptionsAt(p) \subseteq Words(p)
      /\ FreeAt(p) \subseteq Words(p)
  BY <1>3 DEF ValuesAt, OptionsAt, FreeAt
<1>5. IsFiniteSet(1..Len(p.argv))
  BY <1>1, FS_Interval
<1>6. IsFiniteSet(ValuesAt(p, id))
  BY <1>2, <1>4, <1>5, FS_Subset
<1>7. QED BY <1>2, <1>3, <1>4, <1>6

\* The places before the next word are those before this one, and this one if it is one.
LEMMA BeforeGrows ==
  ASSUME NEW S, NEW n \in Nat, S \subseteq 1..n, NEW a \in Nat
  PROVE  /\ a \in S => /\ Before(S, a + 1) = Before(S, a) \cup {a} /\ a \notin Before(S, a)
                       /\ Cardinality(Before(S, a + 1)) = Cardinality(Before(S, a)) + 1
                       /\ Cardinality(Before(S, a)) + 1 <= Cardinality(S)
         /\ a \notin S => Before(S, a + 1) = Before(S, a)
         /\ IsFiniteSet(Before(S, a)) /\ Cardinality(Before(S, a)) \in Nat
<1>1. IsFiniteSet(S)
  <2>1. IsFiniteSet(1..n)
    BY FS_Interval
  <2>2. QED BY <2>1, FS_Subset
<1>2. Before(S, a) \subseteq S /\ Before(S, a + 1) \subseteq S
  BY DEF Before
<1>3. IsFiniteSet(Before(S, a)) /\ Cardinality(Before(S, a)) \in Nat
  BY <1>1, <1>2, FS_Subset, FS_CardinalityType
<1>4. /\ \A i \in S : i < a + 1 <=> i < a \/ i = a
      /\ ~(a < a)
  OBVIOUS
<1>5. a \in S => Before(S, a + 1) = Before(S, a) \cup {a} /\ a \notin Before(S, a)
  BY <1>4 DEF Before
<1>6. a \notin S => Before(S, a + 1) = Before(S, a)
  BY <1>4 DEF Before
<1>7. a \in S => Cardinality(Before(S, a + 1)) = Cardinality(Before(S, a)) + 1
  BY <1>3, <1>5, FS_AddElement
<1>8. Cardinality(Before(S, a + 1)) <= Cardinality(S)
  BY <1>1, <1>2, FS_Subset
<1>9. QED BY <1>3, <1>5, <1>6, <1>7, <1>8

Grown(s, S, a, word) == IF a \in S THEN Append(s, word) ELSE s

\* What is at a place adds to what was found in front of it.
LEMMA FoundGrows ==
  ASSUME NEW p, NEW q, IsParser(p), IsParser(q), SameLine(p, q), NEW a, a \in 1..Len(p.argv),
         FoundBefore(p, a),
         q.free = Grown(p.free, FreeAt(p), a, p.argv[a]),
         q.enabled = IF a \in OptionsAt(p) THEN p.enabled \cup {p.options[p.argv[a]]}
                     ELSE p.enabled,
         \A id \in 1..Len(p.allowed) :
           /\ q.values[id] = Grown(p.values[id], ValuesAt(p, id), a, p.argv[a])
           /\ a \in ValuesAt(p, id) => ~Full(p, id)
  PROVE  FoundBefore(q, a + 1)
<1>1. /\ Len(p.argv) \in Nat /\ a \in Nat /\ (a + 1) - 1 = a /\ p.argv \in Seq(STRING)
      /\ p.free \in Seq(STRING) /\ p.values \in Seq(Seq(STRING)) /\ Len(p.values) = Len(p.allowed)
      /\ p.allowed \in Seq(Nat)
  BY DEF IsParser
<1>2. /\ OptionsAt(q) = OptionsAt(p) /\ FreeAt(q) = FreeAt(p)
      /\ \A id : ValuesAt(q, id) = ValuesAt(p, id)
      /\ q.argv = p.argv /\ q.options = p.options /\ q.allowed = p.allowed
  BY SameMeaning DEF SameLine
<1>3. ASSUME NEW S, NEW s \in Seq(STRING), s = Collected(p.argv, S, a - 1)
      PROVE  Grown(s, S, a, p.argv[a]) = Collected(p.argv, S, a)
  <2>1. /\ a \in S => Collected(p.argv, S, a) = Append(s, p.argv[a])
        /\ a \notin S => Collected(p.argv, S, a) = s
    BY <1>1, <1>3, CollectedNext
  <2>2. QED BY <2>1 DEF Grown
<1>4. q.free = Collected(q.argv, FreeAt(q), (a + 1) - 1)
  BY <1>1, <1>2, <1>3 DEF FoundBefore
<1>5. q.enabled = {q.options[q.argv[i]] : i \in Before(OptionsAt(q), a + 1)}
  <2>1. OptionsAt(p) \subseteq 1..Len(p.argv)
    BY PlacesAreFinite
  <2>2. /\ a \in OptionsAt(p) => Before(OptionsAt(p), a + 1) = Before(OptionsAt(p), a) \cup {a}
        /\ a \notin OptionsAt(p) => Before(OptionsAt(p), a + 1) = Before(OptionsAt(p), a)
    BY <1>1, <2>1, BeforeGrows
  <2>3. p.enabled = {p.options[p.argv[i]] : i \in Before(OptionsAt(p), a)}
    BY DEF FoundBefore
  <2>4. QED BY <1>2, <2>2, <2>3
<1>6. ASSUME NEW id \in 1..Len(q.allowed)
      PROVE  /\ q.values[id] = Collected(q.argv, ValuesAt(q, id), (a + 1) - 1)
             /\ Len(q.values[id]) = Cardinality(Before(ValuesAt(q, id), a + 1))
             /\ q.allowed[id] # 0 => Len(q.values[id]) <= q.allowed[id]
  <2> DEFINE v == p.values[id]
             V == ValuesAt(p, id)
             n == p.allowed[id]
  <2>1. id \in 1..Len(p.allowed)
    BY <1>2, <1>6
  <2>2. v \in Seq(STRING) /\ Len(v) \in Nat /\ n \in Nat
    <3>1. p.values[id] \in Seq(STRING)
      BY <1>1, <2>1
    <3>2. p.allowed[id] \in Nat
      BY <1>1, <2>1
    <3>3. Len(v) \in Nat
      <4> HIDE DEF v
      <4>1. QED BY <3>1, LenProperties DEF v
    <3>4. QED BY <3>1, <3>2, <3>3
  <2>3. /\ v = Collected(p.argv, V, a - 1) /\ Len(v) = Cardinality(Before(V, a))
        /\ n # 0 => Len(v) <= n
    BY <2>1 DEF FoundBefore
  <2>4. q.values[id] = Grown(v, V, a, p.argv[a]) /\ (a \in V => ~(n # 0 /\ n = Len(v)))
    BY <2>1 DEF Full
  <2>5. /\ a \in V => Cardinality(Before(V, a + 1)) = Cardinality(Before(V, a)) + 1
        /\ a \notin V => Before(V, a + 1) = Before(V, a)
    <3>1. V \subseteq 1..Len(p.argv)
      BY PlacesAreFinite
    <3> HIDE DEF V
    <3>2. QED BY <1>1, <3>1, BeforeGrows
  <2>6. p.argv[a] \in STRING
    BY <1>1
  <2> HIDE DEF v, V, n
  <2>7. q.values[id] = Collected(p.argv, V, a)
    BY <1>3, <2>2, <2>3, <2>4
  <2>8. CASE a \in V
    <3>1. q.values[id] = Append(v, p.argv[a])
      BY <2>4, <2>8 DEF Grown
    <3>2. Len(q.values[id]) = Len(v) + 1
      BY <2>2, <2>6, <3>1, AppendProperties
    <3>3. n # 0 => Len(v) + 1 <= n
      BY <2>2, <2>3, <2>4, <2>8
    <3>4. Len(q.values[id]) = Cardinality(Before(V, a + 1)) /\ (n # 0 => Len(q.values[id]) <= n)
      BY <2>3, <2>5, <2>8, <3>2, <3>3
    <3>5. QED BY <1>1, <1>2, <2>7, <3>4 DEF n, V
  <2>9. CASE a \notin V
    <3>1. q.values[id] = v
      BY <2>4, <2>9 DEF Grown
    <3>2. Len(q.values[id]) = Cardinality(Before(V, a + 1)) /\ (n # 0 => Len(q.values[id]) <= n)
      BY <2>3, <2>5, <2>9, <3>1
    <3>3. QED BY <1>1, <1>2, <2>7, <3>2 DEF n, V
  <2>10. QED BY <2>8, <2>9
<1>7. QED BY <1>4, <1>5, <1>6 DEF FoundBefore

(***************************************************************************)
(* A turn of the loop.                                                     *)
(***************************************************************************)
\* What holds of a parser that has reported nothing, and looks at a place next or has left.
Reading(p) ==
  \E a : /\ FoundBefore(p, a) /\ ReadBefore(p, a)
         /\ p.at = a \/ (p.at = 0 /\ EndsAt(p, a))

\* Once something is reported, the line has something wrong.
Sorting(p) == IF p.reports = <<>> THEN Reading(p) ELSE ~WellFormed(p)

\* A word that is no argument's has no value behind it.
LEMMA NextPlace ==
  ASSUME NEW p, NEW q, IsParser(p), SameLine(p, q), NEW a, a \in 1..Len(p.argv), ReadBefore(p, a),
         NoneEmpty(p, a), q.inDashes <=> a + 1 > Dashes(p),
         a < Dashes(p) => p.argv[a] \notin ArgumentWords(p)
  PROVE  ReadBefore(q, a + 1)
<1> DEFINE d == Dashes(p)
<1>1. /\ Words(q) = Words(p) /\ ArgumentWords(q) = ArgumentWords(p)
      /\ \A i : ValueAt(q, i) <=> ValueAt(p, i)
      /\ Dashes(q) = d /\ Looked(q) = Looked(p) /\ q.argv = p.argv
  BY SameMeaning DEF SameLine
<1>2. Len(p.argv) \in Nat /\ a \in Nat /\ d \in Nat
  <2>1. Dashes(p) \in 1..(Len(p.argv) + 1)
    BY DashesAreFirst
  <2>2. Len(p.argv) \in Nat
    BY DEF IsParser
  <2>3. QED BY <2>1, <2>2
<1>3. Looked(p) \subseteq 1..Len(p.argv) /\ \A i \in Looked(p) : i < d
  BY PlacesAreFinite DEF Looked
<1> HIDE DEF d
<1>4. NoneEmpty(q, (a + 1) - 1)
  <2>1. (a + 1) - 1 = a
    BY <1>2
  <2>2. QED BY <1>1, <2>1, Zenon DEF NoneEmpty
<1>5. a + 1 <= d => ~ValueAt(q, a + 1)
  <2>1. a + 1 \in Nat \ {0} /\ (a + 1) - 1 = a /\ (a + 1 <= d => a < d)
    BY <1>2
  <2>2. ValueAt(p, a + 1) => p.argv[a] \in ArgumentWords(p)
    BY <2>1, ValueBehindArgument
  <2>3. QED BY <1>1, <2>1, <2>2 DEF d
<1>6. ASSUME NEW i \in Looked(q), i < a + 1, q.argv[i] \in ArgumentWords(q) PROVE i + 1 < a + 1
  <2>1. i \in Nat /\ i \in Looked(p) /\ i < d /\ p.argv[i] \in ArgumentWords(p)
    BY <1>1, <1>3, <1>6
  <2>2. i # a
    BY <2>1 DEF d
  <2>3. i < a
    BY <1>2, <1>6, <2>1, <2>2
  <2>4. i + 1 < a
    BY <2>1, <2>3 DEF ReadBefore
  <2>5. QED BY <1>2, <2>1, <2>4
<1>7. a + 1 \in 1..(Len(q.argv) + 1)
  BY <1>1, <1>2
<1>8. QED BY <1>1, <1>4, <1>5, <1>6, <1>7 DEF ReadBefore, d

\* The word behind that of an argument is its value.
LEMMA NextValue ==
  ASSUME NEW p, NEW q, IsParser(p), SameLine(p, q), NEW a, a \in 1..Len(p.argv), ReadBefore(p, a),
         a < Dashes(p), p.argv[a] \in ArgumentWords(p),
         a + 1 <= Len(p.argv), NoneEmpty(p, a + 1), q.inDashes = FALSE
  PROVE  ReadBefore(q, a + 2) /\ ValueAt(p, a + 1) /\ a + 1 < Dashes(p)
<1> DEFINE d == Dashes(p)
<1>1. /\ Words(q) = Words(p) /\ ArgumentWords(q) = ArgumentWords(p)
      /\ \A i : ValueAt(q, i) <=> ValueAt(p, i)
      /\ Dashes(q) = d /\ Looked(q) = Looked(p) /\ q.argv = p.argv
  BY SameMeaning DEF SameLine
<1>2. Len(p.argv) \in Nat /\ a \in Nat /\ d \in Nat
  <2>1. Dashes(p) \in 1..(Len(p.argv) + 1)
    BY DashesAreFirst
  <2>2. Len(p.argv) \in Nat
    BY DEF IsParser
  <2>3. QED BY <2>1, <2>2
<1>3. Looked(p) \subseteq 1..Len(p.argv) /\ \A i \in Looked(p) : i < d /\ ~ValueAt(p, i)
  BY PlacesAreFinite DEF Looked
<1>4. ~ValueAt(p, a)
  BY <1>2 DEF ReadBefore
<1>5. d \in DashPlaces(p)
  BY DashesAreFirst
<1>6. a < d
  OBVIOUS
<1> HIDE DEF d
<1>7. /\ a + 1 \in Nat \ {0} /\ (a + 1) - 1 = a /\ a + 1 > 1
      /\ a + 2 \in Nat \ {0} /\ (a + 2) - 1 = a + 1
  BY <1>2
<1>8. ValueAt(p, a + 1)
  BY <1>4, <1>7, ValueBehindArgument
<1>9. ~ValueAt(p, a + 2)
  BY <1>7, <1>8, ValueBehindArgument
<1>10. NoneEmpty(q, (a + 2) - 1)
  BY <1>1, <1>7, Zenon DEF NoneEmpty
<1>11. a + 1 < d
  <2>1. a + 1 # d
    <3>1. SUFFICES ASSUME a + 1 = d PROVE FALSE
      OBVIOUS
    <3>2. d # Len(p.argv) + 1
      BY <1>2, <3>1
    <3>3. ~ValueAt(p, d)
      BY <1>5, <3>2, Zenon DEF DashPlaces
    <3>4. QED BY <1>8, <3>1, <3>3
  <2>2. QED BY <1>2, <1>6, <2>1
<1>12. ASSUME NEW i \in Looked(q), i < a + 2, q.argv[i] \in ArgumentWords(q) PROVE i + 1 < a + 2
  <2>1. i \in Nat /\ i \in Looked(p) /\ p.argv[i] \in ArgumentWords(p) /\ i # a + 1
    BY <1>1, <1>3, <1>8, <1>12
  <2>2. i < a \/ i = a
    BY <1>2, <1>12, <2>1
  <2>3. i < a => i + 1 < a
    BY <2>1 DEF ReadBefore
  <2>4. QED BY <1>2, <2>1, <2>2, <2>3
<1>13. a + 2 \in 1..(Len(q.argv) + 1)
  BY <1>1, <1>2
<1>14. ~(a + 2 > d)
  BY <1>2, <1>11
<1>15. ReadBefore(q, a + 2)
  BY <1>1, <1>9, <1>10, <1>12, <1>13, <1>14 DEF ReadBefore
<1>16. QED BY <1>8, <1>11, <1>15 DEF d

\* The turn after a - 1 words.
LEMMA TurnSorts ==
  ASSUME NEW p, IsParser(p), ~AllRead(p), p.reports = <<>>,
         NEW a, a = p.at, FoundBefore(p, a), ReadBefore(p, a)
  PROVE  Sorting(Turn(p))
<1> DEFINE q    == Turn(p)
           word == p.argv[a]
           d    == Dashes(p)
<1>1. /\ a \in 1..Len(p.argv) /\ Len(p.argv) \in Nat /\ IsParser(q) /\ SameLine(p, q)
      /\ Outcome(p, q, a, word)
  <2>1. q = Turn(p) /\ word = p.argv[a]
    OBVIOUS
  <2> HIDE DEF q, word
  <2>2. QED BY <2>1, TurnOutcomes
<1> HIDE DEF q, word
<1>2. /\ Words(q) = Words(p) /\ ArgumentWords(q) = ArgumentWords(p)
      /\ \A i : ValueAt(q, i) <=> ValueAt(p, i)
      /\ Dashes(q) = d /\ Looked(q) = Looked(p)
      /\ (WellFormed(q) <=> WellFormed(p))
      /\ q.argv = p.argv
  BY <1>1, SameMeaning DEF SameLine
<1>3. d \in Nat /\ a \in Nat
  <2>1. Dashes(p) \in 1..(Len(p.argv) + 1)
    BY DashesAreFirst
  <2>2. QED BY <1>1, <2>1
<1>4. CASE word = ""
  <2>1. Moves(p, q, 0) /\ Finds(p, q, p.free, p.enabled, p.values)
    BY <1>1, <1>4 DEF Outcome
  <2>2. EndsAt(p, a)
    BY <1>4 DEF EndsAt, word
  <2>3. FoundBefore(q, a) /\ ReadBefore(q, a) /\ EndsAt(q, a) /\ q.at = 0 /\ q.reports = <<>>
    BY <2>1, <2>2, <1>1, FoundStays DEF Moves
  <2>4. QED BY <2>3 DEF Sorting, Reading, q
<1>5. word # "" => NoneEmpty(p, a)
  <2>1. \A i \in 1..a : i \in 1..(a - 1) \/ i = a
    BY <1>3
  <2>2. QED BY <2>1, Zenon DEF NoneEmpty, ReadBefore, word
<1>6. /\ a > d <=> p.inDashes
      /\ a <= d => ~ValueAt(p, a)
      /\ a > d \/ a = d \/ a < d
      /\ a <= d <=> a < d \/ a = d
      /\ ~(a > d /\ a < d) /\ ~(a > d /\ a = d)
  BY <1>3 DEF ReadBefore
<1> DEFINE places ==
      /\ a > d => /\ a \in FreeAt(p) /\ a \notin OptionsAt(p) /\ a \notin Looked(p)
                  /\ \A id : a \notin ValuesAt(p, id)
      /\ a = d => /\ a \notin FreeAt(p) /\ a \notin OptionsAt(p) /\ a \notin Looked(p)
                  /\ \A id : a \notin ValuesAt(p, id)
                  /\ p.dashes /\ word = "--"
      /\ a < d =>
           /\ a \in Looked(p) /\ \A id : a \notin ValuesAt(p, id)
           /\ a \in OptionsAt(p) <=> word \in DOMAIN p.options
           /\ a \in FreeAt(p) <=> word \notin DOMAIN p.arguments \cup DOMAIN p.options
           /\ ~(p.dashes /\ word = "--")
<1>7. word # "" => places
  BY <1>1, <1>5, <1>6, PlacesOf DEF word, d
<1> HIDE DEF places
\* The words that one turn reads.
<1>8. ASSUME word # "", places, q.at = a + 1, q.reports = <<>>,
             q.inDashes <=> a + 1 > d,
             a < d => word \notin ArgumentWords(p),
             Finds(p, q, Grown(p.free, FreeAt(p), a, word),
                   IF a \in OptionsAt(p) THEN p.enabled \cup {p.options[word]} ELSE p.enabled,
                   p.values)
      PROVE  Sorting(q)
  <2>1. ReadBefore(q, a + 1)
    BY <1>1, <1>5, <1>8, NextPlace DEF word, d
  <2>2. \A id : a \notin ValuesAt(p, id)
    BY <1>6, <1>8 DEF places
  <2>3. FoundBefore(q, a + 1)
    BY <1>1, <1>8, <2>2, FoundGrows DEF Finds, Grown, word
  <2>4. QED BY <1>8, <2>1, <2>3 DEF Sorting, Reading
<1>9. CASE word # "" /\ p.inDashes
  <2>1. Moves(p, q, a + 1) /\ Finds(p, q, Append(p.free, word), p.enabled, p.values)
    BY <1>1, <1>9 DEF Outcome
  <2>2. a > d /\ a + 1 > d /\ ~(a < d)
    <3>1. a > d /\ ~(a < d)
      BY <1>6, <1>9
    <3>2. QED BY <1>3, <3>1
  <2>3. a \in FreeAt(p) /\ a \notin OptionsAt(p)
    BY <1>7, <1>9, <2>2 DEF places
  <2>4. q.at = a + 1 /\ q.reports = <<>> /\ (q.inDashes <=> a + 1 > d)
    BY <1>9, <2>1, <2>2 DEF Moves
  <2>5. QED BY <1>7, <1>8, <1>9, <2>1, <2>2, <2>3, <2>4 DEF Grown, q
<1>10. CASE word # "" /\ ~p.inDashes /\ p.dashes /\ word = "--"
  <2>1. /\ q.at = a + 1 /\ q.reports = p.reports /\ q.inDashes = TRUE
        /\ Finds(p, q, p.free, p.enabled, p.values)
    BY <1>1, <1>10 DEF Outcome
  <2>2. a = d /\ ~(a < d)
    BY <1>6, <1>7, <1>10 DEF places
  <2>3. a \notin FreeAt(p) /\ a \notin OptionsAt(p)
    BY <1>7, <1>10, <2>2 DEF places
  <2>4. q.inDashes <=> a + 1 > d
    BY <1>3, <2>1, <2>2
  <2>5. QED BY <1>7, <1>8, <1>10, <2>1, <2>2, <2>3, <2>4 DEF Grown, q
\* A word that is looked up.
<1>11. word # "" /\ ~p.inDashes /\ ~(p.dashes /\ word = "--") => a < d /\ ~(a + 1 > d)
  <2>1. a < d => ~(a + 1 > d)
    BY <1>3
  <2>2. QED BY <1>6, <1>7, <2>1 DEF places
<1>12. CASE word # "" /\ ~p.inDashes /\ ~(p.dashes /\ word = "--") /\ word \in DOMAIN p.options
  <2>1. Moves(p, q, a + 1) /\ Finds(p, q, p.free, p.enabled \cup {p.options[word]}, p.values)
    BY <1>1, <1>12 DEF Outcome
  <2>2. a \notin FreeAt(p) /\ a \in OptionsAt(p) /\ word \notin ArgumentWords(p)
    BY <1>7, <1>11, <1>12 DEF places, ArgumentWords
  <2>3. q.at = a + 1 /\ q.reports = <<>> /\ (q.inDashes <=> a + 1 > d)
    BY <1>11, <1>12, <2>1 DEF Moves
  <2>4. QED BY <1>7, <1>8, <1>12, <2>1, <2>2, <2>3 DEF Grown, q
<1>13. CASE /\ word # "" /\ ~p.inDashes /\ ~(p.dashes /\ word = "--")
            /\ word \notin DOMAIN p.arguments \cup DOMAIN p.options
  <2>1. Moves(p, q, a + 1) /\ Finds(p, q, Append(p.free, word), p.enabled, p.values)
    BY <1>1, <1>13 DEF Outcome
  <2>2. a \in FreeAt(p) /\ a \notin OptionsAt(p) /\ word \notin ArgumentWords(p)
    BY <1>7, <1>11, <1>13 DEF places, ArgumentWords
  <2>3. q.at = a + 1 /\ q.reports = <<>> /\ (q.inDashes <=> a + 1 > d)
    BY <1>11, <1>13, <2>1 DEF Moves
  <2>4. QED BY <1>7, <1>8, <1>13, <2>1, <2>2, <2>3 DEF Grown, q
<1>14. CASE word # "" /\ ~p.inDashes /\ ~(p.dashes /\ word = "--") /\ word \in ArgumentWords(p)
  <2> DEFINE id == p.arguments[word]
             V  == ValuesAt(p, id)
  <2>1. q = ArgumentTurn(p) /\ word \in DOMAIN p.arguments
    BY <1>1, <1>14 DEF Outcome, ArgumentWords
  <2>2. /\ IsEmpty(p, a + 1) \/ Full(p, id) => q.reports # <<>>
        /\ ~IsEmpty(p, a + 1) /\ ~Full(p, id) =>
             /\ Moves(p, q, a + 2)
             /\ Finds(p, q, p.free, p.enabled, WithValue(p.values, id, p.argv[a + 1]))
    BY <2>1, ArgumentOutcomes DEF word
  <2>3. /\ a < d /\ a \in Looked(p) /\ a \notin FreeAt(p) /\ a \notin OptionsAt(p)
        /\ \A i : a \notin ValuesAt(p, i)
    BY <1>7, <1>11, <1>14, <2>1 DEF places, ArgumentWords
  <2>4. /\ id \in 1..Len(p.allowed) /\ p.inDashes = FALSE /\ p.allowed \in Seq(Nat)
        /\ p.values \in Seq(Seq(STRING)) /\ Len(p.values) = Len(p.allowed)
    BY <1>14, <2>1 DEF IsParser
  <2> HIDE DEF id
  <2>5. CASE IsEmpty(p, a + 1)
    <3>1. a + 1 \notin Words(p)
      <4>1. a + 1 \in 1..(a + 1) /\ DOMAIN p.argv = 1..Len(p.argv)
        BY <1>1, <1>3 DEF IsParser
      <4>2. a + 1 \in 1..Len(p.argv) => ~(a + 1 > Len(p.argv))
        BY <1>1
      <4>3. QED BY <2>5, <4>1, <4>2, Zenon DEF IsEmpty, Words
    <3>2. ~WellFormed(p)
      BY <1>14, <2>3, <3>1 DEF WellFormed, word
    <3>3. QED BY <1>2, <2>2, <2>5, <3>2 DEF Sorting, q
  <2>6. ASSUME ~IsEmpty(p, a + 1)
        PROVE  /\ NoneEmpty(p, a + 1) /\ a + 1 <= Len(p.argv) /\ a + 1 \in 1..Len(p.argv)
               /\ ValueAt(p, a + 1) /\ a + 1 < d
               /\ a + 1 \notin FreeAt(p) /\ a + 1 \notin OptionsAt(p)
               /\ \A i : a + 1 \in ValuesAt(p, i) <=> id = i
    <3>1. ~(a + 1 > Len(p.argv)) /\ p.argv[a + 1] # ""
      BY <2>6, Zenon DEF IsEmpty
    <3>2. a + 1 <= Len(p.argv) /\ a + 1 \in 1..Len(p.argv) /\ (a + 1) - 1 = a
      <4>1. ~(a + 1 > Len(p.argv))
        BY <3>1
      <4> HIDE <3>1
      <4>2. QED BY <1>1, <1>3, <4>1
    <3>3. NoneEmpty(p, a + 1)
      <4>1. \A i \in 1..(a + 1) : i \in 1..a \/ i = a + 1
        BY <1>3
      <4>2. QED BY <1>5, <1>14, <3>1, <4>1, Zenon DEF NoneEmpty
    <3>4. ValueAt(p, a + 1) /\ a + 1 < d
      <4>1. SameLine(p, p)
        BY DEF SameLine
      <4>2. QED BY <1>1, <1>14, <2>3, <2>4, <3>2, <3>3, <4>1, NextValue DEF word, d
    <3>5. /\ a + 1 \notin FreeAt(p) /\ a + 1 \notin OptionsAt(p)
          /\ \A i : a + 1 \in ValuesAt(p, i) <=> p.arguments[p.argv[(a + 1) - 1]] = i
      BY <3>2, <3>3, <3>4, PlacesOf DEF d
    <3>6. QED BY <3>2, <3>3, <3>4, <3>5 DEF id, word
  <2>7. CASE ~IsEmpty(p, a + 1) /\ Full(p, id)
    <3>1. V \subseteq 1..Len(p.argv) /\ a \notin V /\ a + 1 \in V /\ IsFiniteSet(V)
      BY <2>3, <2>6, <2>7, PlacesAreFinite
    <3> HIDE DEF V
    <3>2. Before(V, a + 1) = Before(V, a) /\ Cardinality(Before(V, a)) \in Nat
      BY <1>1, <1>3, <3>1, BeforeGrows
    <3>3. Cardinality(Before(V, a + 1)) + 1 <= Cardinality(V)
      <4>1. a + 1 \in Nat
        BY <1>3
      <4>2. QED BY <1>1, <3>1, <4>1, BeforeGrows
    <3>4. p.allowed[id] # 0 /\ p.allowed[id] = Cardinality(Before(V, a))
      BY <2>4, <2>7 DEF Full, FoundBefore, V
    <3>5. Cardinality(V) \in Nat
      BY <3>1, FS_CardinalityType
    <3>6. ~(Cardinality(V) <= p.allowed[id])
      BY <3>2, <3>3, <3>4, <3>5
    <3>7. id \in DOMAIN p.allowed
      BY <2>4
    <3>8. ~WellFormed(p)
      BY <3>4, <3>6, <3>7 DEF WellFormed, V
    <3>9. QED BY <1>2, <2>2, <2>7, <3>8 DEF Sorting, q
  <2>8. CASE ~IsEmpty(p, a + 1) /\ ~Full(p, id)
    <3>1. /\ Moves(p, q, a + 2)
          /\ Finds(p, q, p.free, p.enabled, WithValue(p.values, id, p.argv[a + 1]))
      BY <2>2, <2>8
    <3>2. FoundBefore(p, a + 1)
      <4>1. SameLine(p, p)
        BY DEF SameLine
      <4>2. QED BY <1>1, <2>3, <4>1, FoundGrows DEF Grown
    <3>3. FoundBefore(q, (a + 1) + 1)
      <4>1. \A i \in 1..Len(p.allowed) :
              /\ q.values[i] = Grown(p.values[i], ValuesAt(p, i), a + 1, p.argv[a + 1])
              /\ a + 1 \in ValuesAt(p, i) => ~Full(p, i)
        <5> SUFFICES
              ASSUME NEW i \in 1..Len(p.allowed)
              PROVE  /\ q.values[i] = Grown(p.values[i], ValuesAt(p, i), a + 1, p.argv[a + 1])
                     /\ a + 1 \in ValuesAt(p, i) => ~Full(p, i)
          OBVIOUS
        <5>1. i \in DOMAIN p.values
          BY <2>4
        <5>2. q.values = WithValue(p.values, id, p.argv[a + 1])
          BY <3>1 DEF Finds
        <5>3. q.values[i] = IF i = id THEN Append(p.values[i], p.argv[a + 1]) ELSE p.values[i]
          BY <5>1, <5>2 DEF WithValue
        <5>4. a + 1 \in ValuesAt(p, i) <=> i = id
          BY <2>6, <2>8
        <5>5. QED BY <2>8, <5>3, <5>4 DEF Grown
      <4>2. /\ q.free = Grown(p.free, FreeAt(p), a + 1, p.argv[a + 1])
            /\ q.enabled = IF a + 1 \in OptionsAt(p)
                           THEN p.enabled \cup {p.options[p.argv[a + 1]]} ELSE p.enabled
        BY <2>6, <2>8, <3>1 DEF Grown, Finds
      <4>3. a + 1 \in 1..Len(p.argv)
        BY <2>6, <2>8
      <4>4. QED BY <1>1, <3>2, <4>1, <4>2, <4>3, FoundGrows
    <3>4. ReadBefore(q, a + 2) /\ q.at = a + 2 /\ q.reports = <<>>
      <4>1. q.inDashes = FALSE /\ q.at = a + 2 /\ q.reports = <<>>
        BY <2>4, <3>1 DEF Moves
      <4>2. QED BY <1>1, <1>14, <2>3, <2>6, <2>8, <4>1, NextValue DEF word, d
    <3>5. (a + 1) + 1 = a + 2
      BY <1>3
    <3>6. QED BY <3>3, <3>4, <3>5 DEF Sorting, Reading, q
  <2>9. QED BY <2>5, <2>7, <2>8
<1>15. QED BY <1>4, <1>9, <1>10, <1>12, <1>13, <1>14 DEF ArgumentWords

(***************************************************************************)
(* The end of the line, and the invariant.                                 *)
(***************************************************************************)
\* Where no turn is left and nothing is reported, the words are where they belong.
LEMMA AllAreSorted ==
  ASSUME NEW p, IsParser(p), AllRead(p), p.reports = <<>>, Reading(p)
  PROVE  WellFormed(p) /\ Sorted(p)
<1>1. PICK a : /\ FoundBefore(p, a) /\ ReadBefore(p, a)
               /\ p.at = a \/ (p.at = 0 /\ EndsAt(p, a))
  BY DEF Reading
<1>2. /\ Len(p.argv) \in Nat /\ DOMAIN p.argv = 1..Len(p.argv)
      /\ p.free \in Seq(STRING) /\ p.values \in Seq(Seq(STRING)) /\ Len(p.values) = Len(p.allowed)
      /\ p.allowed \in Seq(Nat)
  BY DEF IsParser
<1>3. a \in 1..(Len(p.argv) + 1) /\ a \in Nat /\ a - 1 \in 0..Len(p.argv) /\ (a - 1) + 1 = a
  BY <1>1, <1>2 DEF ReadBefore
<1>4. EndsAt(p, a)
  <2>1. p.at = a => a > Len(p.argv)
    BY <1>3 DEF AllRead
  <2>2. QED BY <1>1, <2>1 DEF EndsAt
<1>5. \A i \in Words(p) : i < a
  <2> SUFFICES ASSUME NEW i \in Words(p), ~(i < a) PROVE FALSE
    OBVIOUS
  <2>1. i \in 1..Len(p.argv) /\ \A j \in 1..i : p.argv[j] # ""
    BY <1>2, Zenon DEF Words
  <2>2. a \in 1..i /\ ~(a > Len(p.argv))
    <3>1. i \in 1..Len(p.argv)
      BY <2>1
    <3> HIDE <2>1
    <3>2. QED BY <1>2, <1>3, <3>1
  <2>3. QED BY <1>4, <2>1, <2>2, Zenon DEF EndsAt
<1>6. ASSUME NEW S, S \subseteq Words(p)
      PROVE  \A i \in ((a - 1) + 1)..Len(p.argv) : i \notin S
  BY <1>2, <1>3, <1>5, <1>6
<1>7. /\ Looked(p) \subseteq Words(p) /\ OptionsAt(p) \subseteq Words(p)
      /\ FreeAt(p) \subseteq Words(p) /\ \A id : ValuesAt(p, id) \subseteq Words(p)
  BY DEF Looked, OptionsAt, FreeAt, ValuesAt
<1>8. p.free = WordsAt(p, FreeAt(p))
  BY <1>1, <1>2, <1>3, <1>6, <1>7, CollectedEnds, WordsAtAreCollected DEF FoundBefore
<1>9. ASSUME NEW id \in DOMAIN p.values PROVE p.values[id] = WordsAt(p, ValuesAt(p, id))
  <2>1. id \in 1..Len(p.allowed) /\ p.values[id] \in Seq(STRING)
    BY <1>2, <1>9
  <2>2. p.values[id] = Collected(p.argv, ValuesAt(p, id), a - 1)
    BY <1>1, <2>1 DEF FoundBefore
  <2>3. Collected(p.argv, ValuesAt(p, id), Len(p.argv))
          = Collected(p.argv, ValuesAt(p, id), a - 1)
    <3> DEFINE V == ValuesAt(p, id)
    <3>1. \A i \in ((a - 1) + 1)..Len(p.argv) : i \notin V
      BY <1>6, <1>7
    <3>2. Collected(p.argv, V, a - 1) \in Seq(STRING)
      BY <2>1, <2>2
    <3> HIDE DEF V
    <3>3. Collected(p.argv, V, Len(p.argv)) = Collected(p.argv, V, a - 1)
      BY <1>2, <1>3, <3>1, <3>2, CollectedEnds
    <3>4. QED BY <3>3 DEF V
  <2>4. QED BY <2>2, <2>3, WordsAtAreCollected
<1>10. ASSUME NEW S, S \subseteq Words(p) PROVE Before(S, a) = S
  BY <1>5, <1>10 DEF Before
<1>11. ASSUME NEW w \in DOMAIN p.options
       PROVE  IsOptionSet(p, w) <=> \E i \in OptionsAt(p) : p.options[p.argv[i]] = p.options[w]
  <2>1. p.enabled = {p.options[p.argv[i]] : i \in OptionsAt(p)}
    BY <1>1, <1>7, <1>10 DEF FoundBefore
  <2>2. QED BY <2>1 DEF IsOptionSet
<1>12. Sorted(p)
  BY <1>8, <1>9, <1>11 DEF Sorted
<1>13. ASSUME NEW i \in Looked(p), p.argv[i] \in ArgumentWords(p) PROVE i + 1 \in Words(p)
  <2>1. i \in Words(p) /\ i < a
    BY <1>5, <1>7
  <2>2. i + 1 < a
    BY <1>1, <1>13, <2>1 DEF ReadBefore
  <2>3. i \in 1..Len(p.argv)
    BY <1>2, <2>1 DEF Words
  <2>4. i + 1 \in 1..(a - 1) /\ i + 1 \in 1..Len(p.argv) /\ \A j \in 1..(i + 1) : j \in 1..(a - 1)
    BY <1>2, <1>3, <2>2, <2>3
  <2>5. NoneEmpty(p, a - 1)
    BY <1>1 DEF ReadBefore
  <2>6. QED BY <1>2, <2>4, <2>5, Zenon DEF NoneEmpty, Words
<1>14. ASSUME NEW id \in DOMAIN p.allowed, p.allowed[id] # 0
       PROVE  Cardinality(ValuesAt(p, id)) <= p.allowed[id]
  <2>1. id \in 1..Len(p.allowed) /\ Before(ValuesAt(p, id), a) = ValuesAt(p, id)
    BY <1>2, <1>7, <1>10, <1>14
  <2>2. QED BY <1>1, <1>14, <2>1 DEF FoundBefore
<1>15. QED BY <1>12, <1>13, <1>14 DEF WellFormed

\* What is declared is a parser that has found nothing.
Fresh(p) ==
  /\ p.at = 1 /\ p.inDashes = FALSE /\ p.free = <<>> /\ p.enabled = {} /\ p.reports = <<>>
  /\ \A id \in 1..Len(p.allowed) : p.values[id] = <<>>

Inv ==
  /\ stage \in {"declare", "parse"} /\ IsParser(command)
  /\ stage = "declare" => Fresh(command)
  /\ stage = "parse" => Sorting(command)

\* A new parser has found nothing.
LEMMA NewIsFresh == ASSUME NEW d \in BOOLEAN PROVE IsParser(NewParser(d)) /\ Fresh(NewParser(d))
BY DEF NewParser, IsParser, Fresh

\* Parsing begins with no word read.
LEMMA ParseBegins ==
  ASSUME NEW p, IsParser(p), Fresh(p), NEW line, line \in Seq(STRING), NEW q,
         q = StartParse(p, line)
  PROVE  IsParser(q) /\ Sorting(q)
<1>1. IsParser(q) /\ Fresh(q) /\ q.argv = line
  <2>1. q = [p EXCEPT !.argv = line]
    BY DEF StartParse
  <2>2. QED BY <2>1 DEF IsParser, Fresh
<1>2. Len(q.argv) \in Nat
  BY <1>1
<1>3. FoundBefore(q, 1)
  <2>1. OptionsAt(q) \subseteq 1..Len(q.argv) /\ \A id : ValuesAt(q, id) \subseteq 1..Len(q.argv)
    BY <1>1, PlacesAreFinite
  <2>2. ASSUME NEW S, S \subseteq 1..Len(q.argv) PROVE Before(S, 1) = {}
    <3>1. \A i \in 1..Len(q.argv) : ~(i < 1)
      BY <1>2
    <3>2. QED BY <2>2, <3>1, Zenon DEF Before
  <2>3. 1 - 1 = 0 /\ \A S : Collected(q.argv, S, 0) = <<>>
    BY <1>2, CollectedGrows
  <2>4. q.free = Collected(q.argv, FreeAt(q), 1 - 1)
    BY <1>1, <2>3 DEF Fresh
  <2>5. q.enabled = {q.options[q.argv[i]] : i \in Before(OptionsAt(q), 1)}
    BY <1>1, <2>1, <2>2 DEF Fresh
  <2>6. ASSUME NEW id \in 1..Len(q.allowed)
        PROVE  /\ q.values[id] = Collected(q.argv, ValuesAt(q, id), 1 - 1)
               /\ Len(q.values[id]) = Cardinality(Before(ValuesAt(q, id), 1))
               /\ q.allowed[id] # 0 => Len(q.values[id]) <= q.allowed[id]
    <3>1. q.values[id] = <<>> /\ Len(q.values[id]) = 0
      BY <1>1 DEF Fresh
    <3>2. Cardinality(Before(ValuesAt(q, id), 1)) = 0
      BY <2>1, <2>2, FS_EmptySet
    <3>3. q.allowed[id] \in Nat
      <4>1. q.allowed \in Seq(Nat)
        BY <1>1 DEF IsParser
      <4>2. QED BY <2>6, <4>1
    <3>4. QED BY <2>3, <3>1, <3>2, <3>3
  <2>7. QED BY <2>4, <2>5, <2>6 DEF FoundBefore
<1>4. ReadBefore(q, 1)
  <2>1. ~ValueAt(q, 1)
    BY ValueBehindArgument
  <2>2. Dashes(q) \in 1..(Len(q.argv) + 1)
    BY <1>1, DashesAreFirst
  <2>3. Looked(q) \subseteq 1..Len(q.argv)
    BY <1>1, PlacesAreFinite
  <2>4. 1 \in 1..(Len(q.argv) + 1) /\ ~(1 > Dashes(q)) /\ \A i \in 1..(1 - 1) : FALSE
    BY <1>2, <2>2
  <2>5. \A i \in Looked(q) : ~(i < 1)
    BY <1>2, <2>3
  <2>6. NoneEmpty(q, 1 - 1)
    BY <2>4, Zenon DEF NoneEmpty
  <2>7. QED BY <1>1, <2>1, <2>4, <2>5, <2>6 DEF ReadBefore, Fresh
<1>5. QED BY <1>1, <1>3, <1>4 DEF Sorting, Reading, Fresh

\* Declaring finds nothing.
LEMMA OptionIsDeclared ==
  ASSUME NEW p, IsParser(p), Fresh(p), NEW words
  PROVE  IsParser(AddOption(p, words)) /\ Fresh(AddOption(p, words))
<1> DEFINE o == Emplace(p.options, words, Cardinality(DOMAIN p.options) + 1)
           q == AddOption(p, words)
<1>1. q = [p EXCEPT !.options = o]
  BY DEF AddOption
<1> HIDE DEF o, q
<1>2. IsParser(q) /\ Fresh(q)
  BY <1>1 DEF IsParser, Fresh
<1>3. QED BY <1>2 DEF q

\* Declaring handlers finds nothing.
LEMMA HandlersAreDeclared ==
  ASSUME NEW p, IsParser(p), Fresh(p), NEW q, NEW x, x \in [excess : BOOLEAN, noValue : BOOLEAN],
         q = [p EXCEPT !.goOn = x]
  PROVE  IsParser(q) /\ Fresh(q)
BY DEF IsParser, Fresh

\* Declaring an argument finds nothing, and makes room for its values.
LEMMA ArgumentIsDeclared ==
  ASSUME NEW p, IsParser(p), Fresh(p), NEW words, NEW n \in Nat
  PROVE  IsParser(AddArgument(p, words, n)) /\ Fresh(AddArgument(p, words, n))
<1> DEFINE id == Len(p.allowed) + 1
           f  == Emplace(p.arguments, words, id)
           l  == Append(p.allowed, n)
           v  == Append(p.values, <<>>)
           q  == AddArgument(p, words, n)
<1>1. /\ p.allowed \in Seq(Nat) /\ p.values \in Seq(Seq(STRING)) /\ Len(p.values) = Len(p.allowed)
      /\ \A w \in DOMAIN p.arguments : p.arguments[w] \in 1..Len(p.allowed)
      /\ Len(p.allowed) \in Nat
  BY DEF IsParser
<1>2. /\ l \in Seq(Nat) /\ Len(l) = id /\ v \in Seq(Seq(STRING)) /\ Len(v) = id
      /\ \A i \in 1..id : v[i] = IF i = id THEN <<>> ELSE p.values[i]
  <2>1. l \in Seq(Nat) /\ Len(l) = id
    BY <1>1, AppendProperties
  <2>2. <<>> \in Seq(STRING)
    OBVIOUS
  <2>3. v \in Seq(Seq(STRING)) /\ Len(v) = id
    BY <1>1, <2>2, AppendProperties
  <2>4. \A i \in 1..id : v[i] = IF i = id THEN <<>> ELSE p.values[i]
    BY <1>1, <2>2, AppendProperties
  <2>5. QED BY <2>1, <2>3, <2>4
<1>3. \A w \in DOMAIN f : f[w] \in 1..id
  BY <1>1 DEF Emplace
<1>4. q = [p EXCEPT !.arguments = f, !.allowed = l, !.values = v]
  BY DEF AddArgument
<1>5. \A i \in 1..id : i = id \/ i \in 1..Len(p.allowed)
  BY <1>1
<1>6. \A i \in 1..id : v[i] = <<>>
  BY <1>2, <1>5 DEF Fresh
<1> HIDE DEF id, f, l, v, q
<1>7. /\ IsParser(q) /\ q.allowed = l /\ q.values = v /\ q.at = p.at /\ q.inDashes = p.inDashes
      /\ q.free = p.free /\ q.enabled = p.enabled /\ q.reports = p.reports
  BY <1>2, <1>3, <1>4 DEF IsParser
<1>8. Fresh(q)
  BY <1>2, <1>6, <1>7 DEF Fresh
<1>9. QED BY <1>7, <1>8 DEF q

\* A new parser keeps the invariant.
LEMMA InitInv == LineInit => Inv
BY NewIsFresh DEF LineInit, Inv

\* So does every step.
LEMMA NextInv == Inv /\ [LineNext]_lineVars => Inv'
<1> SUFFICES ASSUME Inv, [LineNext]_lineVars PROVE Inv'
  OBVIOUS
<1>1. CASE UNCHANGED lineVars
  BY <1>1 DEF Inv, lineVars
<1>2. CASE DeclareOption
  BY <1>2, OptionIsDeclared DEF DeclareOption, Inv
<1>3. CASE DeclareArgument
  BY <1>3, ArgumentIsDeclared, LinesAssumption DEF DeclareArgument, Inv
<1>4. CASE DeclareHandlers
  BY <1>4, HandlersAreDeclared DEF DeclareHandlers, Handle, Inv
<1>5. CASE Parse
  BY <1>5, ParseBegins, LinesAssumption DEF Parse, Inv
<1>6. CASE ReadArgument
  <2>1. stage = "parse" /\ stage' = "parse" /\ ~AllRead(command) /\ command' = Turn(command)
    BY <1>6 DEF ReadArgument
  <2>2. IsParser(command) /\ Sorting(command)
    BY <2>1 DEF Inv
  <2>3. PICK p : p = command
    OBVIOUS
  <2>4. /\ IsParser(Turn(p)) /\ SameLine(p, Turn(p))
        /\ p.reports # <<>> => Turn(p).reports # <<>>
    BY <2>1, <2>2, <2>3, TurnOutcomes
  <2>5. Sorting(Turn(p))
    <3>1. CASE p.reports # <<>>
      <4>1. ~WellFormed(p)
        BY <2>2, <2>3, <3>1 DEF Sorting
      <4>2. ~WellFormed(Turn(p))
        BY <2>2, <2>3, <2>4, <4>1, SameMeaning
      <4>3. QED BY <2>4, <3>1, <4>2 DEF Sorting
    <3>2. CASE p.reports = <<>>
      <4>1. PICK a : /\ FoundBefore(p, a) /\ ReadBefore(p, a)
                     /\ p.at = a \/ (p.at = 0 /\ EndsAt(p, a))
        BY <2>2, <2>3, <3>2 DEF Sorting, Reading
      <4>2. p.at = a
        BY <2>1, <2>3, <4>1 DEF AllRead
      <4>3. QED BY <2>1, <2>2, <2>3, <3>2, <4>1, <4>2, TurnSorts
    <3>3. QED BY <3>1, <3>2
  <2>6. QED BY <2>1, <2>3, <2>4, <2>5 DEF Inv
<1>7. QED BY <1>1, <1>2, <1>3, <1>4, <1>5, <1>6 DEF LineNext

\* Whatever is declared and whatever the words are, they are taken as their places say, or
\* one is complained about: for every set of spellings and every command line.
THEOREM WordsAreTaken == LineSpec => []CommandLineIsTaken
<1>1. Inv => CommandLineIsTaken
  BY AllAreSorted DEF Inv, Sorting, CommandLineIsTaken
<1>2. QED BY <1>1, InitInv, NextInv, PTL DEF LineSpec

=============================================================================
