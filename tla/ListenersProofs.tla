---------------------------- MODULE ListenersProofs ----------------------------
(***************************************************************************)
(* Proofs about module Listeners.  The list is what std::remove and        *)
(* push_back make of it, so the first part says what the loop of           *)
(* std::remove leaves behind, by induction over the places it passes; the  *)
(* rest is the inductive invariant, which says what each listener knows in *)
(* the middle of an event, by its place in the list.                       *)
(***************************************************************************)
EXTENDS Listeners, DataLemmas, SequenceTheorems

\* The loop of std::remove, as a function of the number of places it has passed.
IsSweep(f, s, l, n) == f = [i \in 0..n |->
  IF i = 0 THEN [list |-> s, kept |-> 0] ELSE Passed(f[i - 1], i, l)]

\* The loop computes something, however long the list is.
LEMMA SweepExists ==
  ASSUME NEW s, NEW l PROVE \A n \in Nat : \E f : IsSweep(f, s, l, n)
<1> DEFINE S == {n \in Nat : \E f : IsSweep(f, s, l, n)}
<1>1. 0 \in S
  <2>1. IsSweep([i \in 0..0 |-> [list |-> s, kept |-> 0]], s, l, 0)
    BY SMT DEF IsSweep
  <2>2. QED BY <2>1
<1>2. ASSUME NEW n \in Nat, n \in S PROVE n + 1 \in S
  <2>1. PICK f : IsSweep(f, s, l, n)
    BY <1>2
  <2> DEFINE g == [i \in 0..(n + 1) |-> IF i <= n THEN f[i] ELSE Passed(f[n], n + 1, l)]
  <2>2. IsSweep(g, s, l, n + 1)
    <3>1. \A i \in 1..(n + 1) : g[i - 1] = f[i - 1]
      BY SMT
    <3>2. \A i \in 1..n : f[i] = Passed(f[i - 1], i, l)
      BY <2>1, SMT DEF IsSweep
    <3>3. f[0] = [list |-> s, kept |-> 0]
      BY <2>1, SMT DEF IsSweep
    <3>4. \A i \in 0..(n + 1) :
            g[i] = IF i = 0 THEN [list |-> s, kept |-> 0] ELSE Passed(g[i - 1], i, l)
      BY <3>1, <3>2, <3>3, SMT
    <3>5. g = [i \in 0..(n + 1) |-> g[i]]
      OBVIOUS
    <3> HIDE DEF g
    <3>6. QED BY <3>4, <3>5, Zenon DEF IsSweep
  <2>3. QED BY <2>2
<1>3. \A n \in Nat : n \in S
  <2> HIDE DEF S
  <2>1. QED BY <1>1, <1>2, Induction, Zenon
<1>4. QED BY <1>3

\* Removed is the list of such a sweep.
LEMMA RemovedIsSwept ==
  ASSUME NEW s, NEW l, Len(s) \in Nat
  PROVE \E f : IsSweep(f, s, l, Len(s)) /\ Removed(s, l) = f[Len(s)].list
<1> DEFINE f == CHOOSE f : IsSweep(f, s, l, Len(s))
<1>1. IsSweep(f, s, l, Len(s))
  BY SweepExists, Zenon
<1>2. Removed(s, l) = f[Len(s)].list
  BY Zenon DEF Removed, IsSweep
<1>3. QED BY <1>1, <1>2, Zenon

Once(s, x) == \A j, k \in DOMAIN s : s[j] = x /\ s[k] = x => j = k

\* What is true of the list when the loop of std::remove has passed n places.
Swept(r, s, l, n) ==
  /\ r.kept \in 0..n /\ r.list = [k \in DOMAIN s |-> r.list[k]]
  /\ r.list = s \/ \E k \in (r.kept + 1)..n : r.list[k] = Null
  /\ \A k \in DOMAIN s : r.list[k] = Null \/ \E j \in DOMAIN s : r.list[k] = s[j]
  /\ \A x : x # l /\ x # Null /\ Once(s, x) => Once(r.list, x)
  /\ s # <<>> /\ s[1] # l => r.list[1] = s[1] /\ (n > 0 => r.kept > 0)

\* Every turn of the loop keeps that true.
LEMMA PassedIsSwept ==
  ASSUME NEW U, NEW s \in Seq(U), NEW l, l # Null,
         NEW n \in 0..(Len(s) - 1), NEW q, NEW k, Swept([list |-> q, kept |-> k], s, l, n)
  PROVE  Swept(Passed([list |-> q, kept |-> k], n + 1, l), s, l, n + 1)
<1> DEFINE r == [list |-> q, kept |-> k]
           p == Passed(r, n + 1, l)
<1> SUFFICES Swept(p, s, l, n + 1)
  OBVIOUS
<1>f. q = [i \in DOMAIN s |-> q[i]]
  BY Zenon DEF Swept
<1>0. /\ k \in 0..n /\ DOMAIN q = DOMAIN s
      /\ q = s \/ \E j \in (k + 1)..n : q[j] = Null
      /\ \A i \in DOMAIN s : q[i] = Null \/ \E j \in DOMAIN s : q[i] = s[j]
      /\ \A x : x # l /\ x # Null /\ Once(s, x) => Once(q, x)
      /\ s # <<>> /\ s[1] # l => q[1] = s[1] /\ (n > 0 => k > 0)
  <2>1. DOMAIN q = DOMAIN s
    BY <1>f
  <2>2. QED BY <2>1, Zenon DEF Swept
<1>1. DOMAIN s = 1..Len(s) /\ Len(s) \in Nat /\ n + 1 \in DOMAIN s /\ n \in Nat
  BY SMT
<1>2. CASE q[n + 1] = l
  <2>1. p = r
    BY <1>2 DEF Passed
  <2>2. n = 0 => k = 0 /\ q = s
    BY <1>0, SMT
  <2>3. s # <<>> /\ s[1] # l => q[1] = s[1] /\ k > 0
    BY <1>0, <1>1, <1>2, <2>2, SMT
  <2>4. k \in 0..(n + 1) /\ (q = s \/ \E j \in (k + 1)..(n + 1) : q[j] = Null)
    BY <1>0, <1>1, SMT
  <2>5. p.kept = k /\ p.list = q
    BY <2>1
  <2> HIDE DEF p
  <2>6. QED BY <1>0, <1>f, <2>3, <2>4, <2>5, Zenon DEF Swept
<1>3. CASE q[n + 1] # l /\ k = n
  <2>1. p = [list |-> q, kept |-> n + 1]
    BY <1>3, SMT DEF Passed
  <2>2. q = s
    BY <1>0, <1>1, <1>3, SMT
  <2>3. n + 1 \in 0..(n + 1) /\ n + 1 > 0
    BY <1>1, SMT
  <2>4. p.kept = n + 1 /\ p.list = q
    BY <2>1
  <2> HIDE DEF p
  <2>5. QED BY <1>0, <1>f, <2>2, <2>3, <2>4, Zenon DEF Swept
<1>4. CASE q[n + 1] # l /\ k < n
  <2> DEFINE m == [q EXCEPT ![k + 1] = q[n + 1], ![n + 1] = Null]
  <2>2. k + 1 \in DOMAIN s /\ k + 1 # n + 1 /\ k + 1 \in 0..(n + 1)
    BY <1>0, <1>1, <1>4, SMT
  <2>1. p = [list |-> m, kept |-> k + 1]
    BY <1>4, <2>2 DEF Passed
  <2>3. /\ DOMAIN m = DOMAIN s /\ m = [i \in DOMAIN s |-> m[i]] /\ m[n + 1] = Null /\ m[k + 1] = q[n + 1]
        /\ \A i \in DOMAIN s : i # n + 1 /\ i # k + 1 => m[i] = q[i]
    BY <1>0, <1>1, <2>2, Zenon
  <2> HIDE DEF m
  <2>4. \E j \in (k + 2)..(n + 1) : m[j] = Null
    <3>1. n + 1 \in (k + 2)..(n + 1)
      BY <1>0, <1>1, <1>4, SMT
    <3>2. QED BY <2>3, <3>1
  <2>5. ASSUME NEW i \in DOMAIN s PROVE m[i] = Null \/ \E j \in DOMAIN s : m[i] = s[j]
    <3>1. m[i] = Null \/ m[i] = q[n + 1] \/ m[i] = q[i]
      BY <2>3
    <3>2. QED BY <1>0, <1>1, <3>1
  <2>6. ASSUME NEW x, x # l, x # Null, Once(s, x) PROVE Once(m, x)
    <3>1. Once(q, x)
      BY <1>0, <2>6
    <3>2. SUFFICES ASSUME NEW i \in DOMAIN s, NEW j \in DOMAIN s, m[i] = x, m[j] = x
                   PROVE  i = j
      BY <2>3 DEF Once
    <3>3. i # n + 1 /\ j # n + 1
      BY <2>3, <2>6, <3>2
    <3>4. CASE i = k + 1 \/ j = k + 1
      BY <1>0, <1>1, <2>3, <3>1, <3>2, <3>3, <3>4, Zenon DEF Once
    <3>5. CASE i # k + 1 /\ j # k + 1
      BY <1>0, <2>3, <3>1, <3>2, <3>3, <3>5, Zenon DEF Once
    <3>6. QED BY <3>4, <3>5
  <2>7. s # <<>> /\ s[1] # l => m[1] = s[1] /\ k > 0
    <3>1. SUFFICES ASSUME s # <<>>, s[1] # l PROVE m[1] = s[1] /\ k > 0
      OBVIOUS
    <3>2. 1 \in DOMAIN s /\ k > 0 /\ n + 1 # 1 /\ k + 1 # 1
      BY <1>0, <1>1, <1>4, <3>1, SMT
    <3>3. QED BY <1>0, <2>3, <3>1, <3>2
  <2>8. k + 1 > 0 /\ n + 1 > 0 /\ k + 1 + 1 = k + 2
    BY <1>0, <1>1, SMT
  <2>9. /\ p.kept \in 0..(n + 1) /\ p.list = [i \in DOMAIN s |-> p.list[i]]
        /\ p.list = m /\ p.kept + 1 = k + 2 /\ p.kept > 0
    BY <2>1, <2>2, <2>3, <2>8
  <2> HIDE DEF p
  <2>10. QED BY <2>3, <2>4, <2>5, <2>6, <2>7, <2>8, <2>9, Zenon DEF Swept
<1>5. k < n \/ k = n
  BY <1>0, SMT
<1>6. QED BY <1>2, <1>3, <1>4, <1>5

\* It is true before the first turn.
LEMMA StartIsSwept == ASSUME NEW U, NEW s \in Seq(U), NEW l
                      PROVE  Swept([list |-> s, kept |-> 0], s, l, 0)
  BY SMT DEF Swept

\* What std::remove does to the list: when it moves anything it leaves a null; who was
\* listed once is listed once, and the first stays where it is.
LEMMA RemovedFacts ==
  ASSUME NEW U, NEW s \in Seq(U \cup {Null}), NEW l, l # Null
  PROVE  /\ Removed(s, l) \in Seq(U \cup {Null}) /\ Len(Removed(s, l)) = Len(s)
         /\ Removed(s, l) = s \/ \E k \in DOMAIN s : Removed(s, l)[k] = Null
         /\ \A k \in DOMAIN s : \/ Removed(s, l)[k] = Null
                                \/ \E j \in DOMAIN s : Removed(s, l)[k] = s[j]
         /\ \A x : x # l /\ x # Null /\ Once(s, x) => Once(Removed(s, l), x)
         /\ s # <<>> /\ s[1] # l => Removed(s, l)[1] = s[1]
<1>0. Len(s) \in Nat /\ DOMAIN s = 1..Len(s)
  OBVIOUS
<1>1. PICK f : IsSweep(f, s, l, Len(s)) /\ Removed(s, l) = f[Len(s)].list
  BY <1>0, RemovedIsSwept
<1> DEFINE S == {n \in Nat : n <= Len(s) =>
                    f[n] = [list |-> f[n].list, kept |-> f[n].kept] /\ Swept(f[n], s, l, n)}
<1>2. 0 \in S
  BY <1>0, <1>1, StartIsSwept, SMT DEF IsSweep
<1>3. ASSUME NEW n \in Nat, n \in S PROVE n + 1 \in S
  <2>1. SUFFICES ASSUME n + 1 <= Len(s)
                 PROVE  /\ f[n + 1] = [list |-> f[n + 1].list, kept |-> f[n + 1].kept]
                        /\ Swept(f[n + 1], s, l, n + 1)
    BY SMT
  <2>2. n \in 0..(Len(s) - 1) /\ n + 1 \in 0..Len(s) /\ n + 1 # 0 /\ (n + 1) - 1 = n /\ n <= Len(s)
    BY <1>0, <2>1, SMT
  <2>3. f[n] = [list |-> f[n].list, kept |-> f[n].kept] /\ Swept(f[n], s, l, n)
    BY <1>3, <2>2
  <2>4. f[n + 1] = Passed(f[n], n + 1, l)
    <3>1. \A i \in 0..Len(s) : i # 0 => f[i] = Passed(f[i - 1], i, l)
      BY <1>1, Zenon DEF IsSweep
    <3>2. QED BY <2>2, <3>1
  <2>5. Swept(f[n + 1], s, l, n + 1)
    <3>1. PICK q, k : f[n] = [list |-> q, kept |-> k]
      BY <2>3, Zenon
    <3>2. QED BY <2>2, <2>3, <2>4, <3>1, PassedIsSwept, Zenon
  <2>6. f[n + 1] = [list |-> f[n + 1].list, kept |-> f[n + 1].kept]
    BY <2>3, <2>4 DEF Passed
  <2>7. QED BY <2>5, <2>6
<1>4. \A n \in Nat : n \in S
  <2> HIDE DEF S
  <2>1. QED BY <1>2, <1>3, Induction, Zenon
<1>5. Swept(f[Len(s)], s, l, Len(s))
  <2>1. Len(s) \in S /\ Len(s) <= Len(s)
    BY <1>0, <1>4, SMT
  <2>2. QED BY <2>1
<1> DEFINE r == Removed(s, l)
<1> HIDE DEF S, r
<1>6. /\ r = [k \in DOMAIN s |-> r[k]]
      /\ r = s \/ \E k \in (f[Len(s)].kept + 1)..Len(s) : r[k] = Null
      /\ f[Len(s)].kept \in 0..Len(s)
      /\ \A k \in DOMAIN s : r[k] = Null \/ \E j \in DOMAIN s : r[k] = s[j]
      /\ \A x : x # l /\ x # Null /\ Once(s, x) => Once(r, x)
      /\ s # <<>> /\ s[1] # l => r[1] = s[1]
  BY <1>1, <1>5, Zenon DEF Swept, r
<1>7. r = s \/ \E k \in DOMAIN s : r[k] = Null
  BY <1>0, <1>6, SMT
<1>8. r \in Seq(U \cup {Null}) /\ Len(r) = Len(s)
  <2>1. \A k \in 1..Len(s) : r[k] \in U \cup {Null}
    BY <1>0, <1>6
  <2>2. r = [k \in 1..Len(s) |-> r[k]]
    BY <1>0, <1>6
  <2>3. QED BY <1>0, <2>1, <2>2, SMT
<1>9. QED BY <1>6, <1>7, <1>8 DEF r

(***************************************************************************)
(* Records that are the end of the activations.                            *)
(***************************************************************************)
Ends(r, a) ==
  Len(r) <= Len(a) /\ \A i \in 1..Len(r) : r[i] = a[Len(a) - Len(r) + i]

\* In the words of the property: records that are the end of the activations are what
\* is left of them after some n.
LEMMA EndsIsSuffix ==
  ASSUME NEW S, NEW r \in Seq(S), NEW a \in Seq(S), Ends(r, a)
  PROVE  \E n \in 0..Len(a) : r = SubSeq(a, n + 1, Len(a))
<1> DEFINE n == Len(a) - Len(r)
           q == SubSeq(a, n + 1, Len(a))
<1>1. Len(r) \in Nat /\ Len(a) \in Nat /\ n \in 0..Len(a) /\ n + 1 \in Int
      /\ \A i \in (n + 1)..Len(a) : a[i] \in S
  BY LenProperties, ElementOfSeq, SMT DEF Ends
<1>2. q \in Seq(S) /\ Len(q) = Len(r) /\ \A i \in 1..Len(r) : q[i] = a[n + i]
  <2>1. q \in Seq(S) /\ Len(q) = (IF n + 1 <= Len(a) THEN Len(a) - (n + 1) + 1 ELSE 0)
        /\ \A i \in 1..(Len(a) - (n + 1) + 1) : q[i] = a[n + 1 + i - 1]
    BY <1>1, SubSeqProperties
  <2> HIDE DEF q
  <2>2. QED BY <1>1, <2>1, SMT
<1>3. \A i \in 1..Len(r) : r[i] = q[i]
  BY <1>2 DEF Ends
<1>4. r = q
  BY <1>2, <1>3, SeqEqual
<1>5. QED BY <1>1, <1>4

\* A tracer that has just been appended knows nothing, and nothing wrong.
LEMMA NothingEnds == ASSUME NEW S, NEW a \in Seq(S) PROVE Ends(<<>>, a)
  BY SMT DEF Ends

\* All but the last.
LEMMA FrontFacts ==
  ASSUME NEW S, NEW s \in Seq(S), s # <<>>
  PROVE  /\ Front(s) \in Seq(S) /\ Len(Front(s)) = Len(s) - 1
         /\ \A i \in 1..(Len(s) - 1) : Front(s)[i] = s[i]
<1>1. PICK n \in Nat \ {0} : n = Len(s)
  BY EmptySeq
<1>2. \A i \in 1..(n - 1) : s[i] \in S
  BY <1>1, ElementOfSeq
<1>3. /\ Front(s) \in Seq(S) /\ Len(Front(s)) = IF 1 <= n - 1 THEN n - 1 - 1 + 1 ELSE 0
      /\ \A i \in 1..(n - 1 - 1 + 1) : Front(s)[i] = s[1 + i - 1]
  BY <1>1, <1>2, SubSeqProperties DEF Front
<1>4. QED BY <1>1, <1>3, SMT

\* A block is entered, by the records, too.
LEMMA AppendEnds ==
  ASSUME NEW S, NEW r \in Seq(S), NEW a \in Seq(S), NEW x \in S, Ends(r, a)
  PROVE  Ends(Append(r, x), Append(a, x))
<1>1. Len(r) \in Nat /\ Len(a) \in Nat
  OBVIOUS
<1>2. /\ Len(Append(r, x)) = Len(r) + 1 /\ \A i \in 1..Len(r) : Append(r, x)[i] = r[i]
      /\ Append(r, x)[Len(r) + 1] = x
      /\ Len(Append(a, x)) = Len(a) + 1 /\ \A i \in 1..Len(a) : Append(a, x)[i] = a[i]
      /\ Append(a, x)[Len(a) + 1] = x
  BY AppendProperties
<1>3. QED BY <1>1, <1>2, SMT DEF Ends

\* It is left.
LEMMA FrontEnds ==
  ASSUME NEW S, NEW r \in Seq(S), NEW a \in Seq(S), Ends(r, a), r # <<>>
  PROVE  Ends(Front(r), Front(a))
<1>1. Len(r) \in Nat /\ Len(a) \in Nat /\ Len(r) > 0 /\ Len(r) <= Len(a)
  BY EmptySeq, SMT DEF Ends
<1>2. /\ Len(Front(r)) = Len(r) - 1 /\ \A i \in 1..(Len(r) - 1) : Front(r)[i] = r[i]
      /\ Len(Front(a)) = Len(a) - 1 /\ \A i \in 1..(Len(a) - 1) : Front(a)[i] = a[i]
  <2>1. a # <<>>
    BY <1>1, EmptySeq
  <2>2. QED BY <2>1, FrontFacts
<1>3. PICK m \in Nat, n \in Nat : m = Len(r) /\ n = Len(a) /\ m > 0 /\ m <= n
  BY <1>1
<1>4. Len(Front(r)) <= Len(Front(a))
  BY <1>2, <1>3, SMT
<1>5. ASSUME NEW i \in 1..Len(Front(r))
      PROVE  Front(r)[i] = Front(a)[Len(Front(a)) - Len(Front(r)) + i]
  <2>1. i \in 1..(m - 1) /\ i \in 1..m /\ n - m + i \in 1..(n - 1) /\ (n - 1) - (m - 1) + i = n - m + i
    BY <1>2, <1>3, SMT
  <2>2. Front(r)[i] = r[i] /\ r[i] = a[n - m + i] /\ Front(a)[n - m + i] = a[n - m + i]
    BY <1>2, <1>3, <2>1 DEF Ends
  <2>3. QED BY <1>2, <1>3, <2>1, <2>2
<1>6. QED BY <1>4, <1>5 DEF Ends

\* It goes on.
LEMMA IndexEnds ==
  ASSUME NEW r \in Activations, NEW a \in Activations, Ends(r, a), r # <<>>, NEW i \in 0..MaxIndex
  PROVE  Ends([r EXCEPT ![Len(r)].index = i], [a EXCEPT ![Len(a)].index = i])
<1> DEFINE S  == [block : Blocks, index : 0..MaxIndex]
           rr == [r EXCEPT ![Len(r)].index = i]
           aa == [a EXCEPT ![Len(a)].index = i]
<1>0. r \in Seq(S) /\ a \in Seq(S)
  BY DEF Activations
<1>1. /\ Len(r) \in Nat /\ Len(a) \in Nat /\ Len(r) > 0 /\ Len(r) <= Len(a)
      /\ DOMAIN r = 1..Len(r) /\ DOMAIN a = 1..Len(a)
  <2> HIDE DEF S
  <2>1. Len(r) \in Nat \ {0} /\ Len(a) \in Nat /\ DOMAIN r = 1..Len(r) /\ DOMAIN a = 1..Len(a)
    BY <1>0, EmptySeq, LenProperties
  <2>2. QED BY <2>1, SMT DEF Ends
<1>2. r[Len(r)] = a[Len(a)] /\ \A j \in 1..Len(r) : r[j] = a[Len(a) - Len(r) + j]
  BY <1>1, SMT DEF Ends
<1>3. PICK x : x = [r[Len(r)] EXCEPT !.index = i]
  OBVIOUS
<1>4. rr = [r EXCEPT ![Len(r)] = x] /\ aa = [a EXCEPT ![Len(a)] = x]
  BY <1>2, <1>3
<1>5. x \in S
  <2>1. r[Len(r)] \in S
    <3> HIDE DEF S, rr, aa
    <3>1. Len(r) \in 1..Len(r)
      BY <1>1, SMT
    <3>2. QED BY <1>0, <3>1, ElementOfSeq
  <2>2. QED BY <1>3, <2>1
<1> HIDE DEF rr, aa, S
<1>6. /\ Len(rr) = Len(r) /\ \A j \in 1..Len(r) : rr[j] = IF j = Len(r) THEN x ELSE r[j]
      /\ Len(aa) = Len(a) /\ \A j \in 1..Len(a) : aa[j] = IF j = Len(a) THEN x ELSE a[j]
  <2>1. Len(r) \in 1..Len(r) /\ Len(a) \in 1..Len(a)
    BY <1>1, SMT
  <2>2. QED BY <1>0, <1>4, <1>5, <2>1, ExceptSeq
<1>7. Ends(rr, aa)
  <2>0. PICK m \in Nat, n \in Nat : m = Len(r) /\ n = Len(a) /\ m > 0 /\ m <= n
    BY <1>1
  <2>1. \A j \in 1..m : n - m + j \in 1..n /\ (j = m <=> n - m + j = n)
    BY <2>0, SMT
  <2>2. \A j \in 1..Len(r) : rr[j] = aa[Len(a) - Len(r) + j]
    BY <1>2, <1>6, <2>0, <2>1
  <2>3. QED BY <1>1, <1>6, <2>2 DEF Ends
<1>8. QED BY <1>7 DEF rr, aa

(***************************************************************************)
(* The inductive invariant.  While an event is told, the slots and the     *)
(* records are those of before for the listeners it has not reached, and   *)
(* those of after for the others; which is which is the place in the list. *)
(***************************************************************************)
Shape ==
  /\ TypeOK
  /\ capacity \in Nat \ {0}
  /\ event = [tells |-> event.tells, next |-> event.next, last |-> event.last]
  /\ event.last \in Nat /\ event.next \in Nat

BlocksOf(a) == [i \in DOMAIN a |-> a[i].block]

\* What the SlotsHandler makes of its slots when it is told.
Handled(s) ==
  CASE event.tells[1] = "entering" -> Append(s, event.tells[2])
    [] event.tells[1] = "leaving" /\ s # <<>> -> Front(s)
    [] OTHER -> s

SlotsHandlerIsFirst ==
  listeners # <<>> /\ listeners[1] = SlotsHandler /\ Once(listeners, SlotsHandler)

SlotsInv ==
  SlotsHandler \notin removed =>
    /\ SlotsHandlerIsFirst
    /\ Telling /\ event.next = 1 => Handled(slots) = BlocksOf(activations)
    /\ ~(Telling /\ event.next = 1) => slots = BlocksOf(activations)

TracerInv(t) ==
  /\ ~Listed(t) => records[t] = <<>>
  /\ \A p \in DOMAIN listeners : listeners[p] = t =>
       /\ p < event.next => Ends(records[t], activations)
       /\ event.next <= p /\ p <= event.last => Ends(TracerRecords(records[t]), activations)
       /\ event.last < p => records[t] = <<>>

TracersInv ==
  \A t \in Tracers \ removed :
    Once(listeners, t) /\ (~Listed(Null) => TracerInv(t))

Inv == Shape /\ SlotsInv /\ TracersInv

(***************************************************************************)
(* An event is told: what the slots and the records will be made of.       *)
(***************************************************************************)
\* The blocks of the activations are as many as the activations.
LEMMA BlocksShape ==
  ASSUME NEW a \in Activations
  PROVE  /\ Len(a) \in Nat /\ DOMAIN a = 1..Len(a)
         /\ BlocksOf(a) \in Seq(Blocks) /\ Len(BlocksOf(a)) = Len(a)
         /\ \A i \in 1..Len(a) : BlocksOf(a)[i] = a[i].block
<1>1. /\ Len(a) \in Nat /\ DOMAIN a = 1..Len(a)
      /\ \A i \in 1..Len(a) : a[i] \in [block : Blocks, index : 0..MaxIndex]
  BY LenProperties, ElementOfSeq DEF Activations
<1>2. BlocksOf(a) \in [1..Len(a) -> Blocks]
  BY <1>1 DEF BlocksOf
<1>3. BlocksOf(a) \in Seq(Blocks)
  BY <1>1, <1>2, SeqDef
<1>4. Len(BlocksOf(a)) = Len(a)
  BY <1>1, <1>2, <1>3, LenProperties, SMT
<1>5. QED BY <1>1, <1>3, <1>4 DEF BlocksOf

\* Entering a block adds it to them.
LEMMA BlocksAppend ==
  ASSUME NEW a \in Activations, NEW x \in [block : Blocks, index : 0..MaxIndex]
  PROVE  BlocksOf(Append(a, x)) = Append(BlocksOf(a), x.block)
<1> DEFINE S == [block : Blocks, index : 0..MaxIndex]
<1>0. x.block \in Blocks
  OBVIOUS
<1>1. a \in Seq(S) /\ x \in S
  BY DEF Activations
<1> HIDE DEF S
<1>2. /\ Append(a, x) \in Seq(S) /\ Len(Append(a, x)) = Len(a) + 1
      /\ \A i \in 1..Len(a) : Append(a, x)[i] = a[i]
      /\ Append(a, x)[Len(a) + 1] = x
  BY <1>1, AppendProperties
<1>3. /\ BlocksOf(Append(a, x)) \in Seq(Blocks) /\ Len(BlocksOf(Append(a, x))) = Len(a) + 1
      /\ \A i \in 1..(Len(a) + 1) : BlocksOf(Append(a, x))[i] = Append(a, x)[i].block
  BY <1>2, BlocksShape DEF S, Activations
<1>4. /\ Append(BlocksOf(a), x.block) \in Seq(Blocks)
      /\ Len(Append(BlocksOf(a), x.block)) = Len(a) + 1
      /\ \A i \in 1..Len(a) : Append(BlocksOf(a), x.block)[i] = a[i].block
      /\ Append(BlocksOf(a), x.block)[Len(a) + 1] = x.block
  BY <1>0, BlocksShape, AppendProperties
<1>5. \A i \in 1..(Len(a) + 1) : i \in 1..Len(a) \/ i = Len(a) + 1
  BY BlocksShape, SMT
<1>6. \A i \in 1..(Len(a) + 1) : BlocksOf(Append(a, x))[i] = Append(BlocksOf(a), x.block)[i]
  BY <1>2, <1>3, <1>4, <1>5
<1>7. QED BY <1>3, <1>4, <1>6, SeqEqual

\* Leaving takes the last away.
LEMMA BlocksFront ==
  ASSUME NEW a \in Activations, a # <<>>
  PROVE  BlocksOf(Front(a)) = Front(BlocksOf(a)) /\ BlocksOf(a) # <<>>
<1> DEFINE S == [block : Blocks, index : 0..MaxIndex]
<1>1. a \in Seq(S)
  BY DEF Activations
<1> HIDE DEF S
<1>2. /\ Front(a) \in Seq(S) /\ Len(Front(a)) = Len(a) - 1
      /\ \A i \in 1..(Len(a) - 1) : Front(a)[i] = a[i]
  BY <1>1, FrontFacts
<1>3. Len(a) \in Nat \ {0} /\ \A i \in 1..(Len(a) - 1) : i \in 1..Len(a)
  BY <1>1, EmptySeq, SMT
<1>4. /\ BlocksOf(Front(a)) \in Seq(Blocks) /\ Len(BlocksOf(Front(a))) = Len(a) - 1
      /\ \A i \in 1..(Len(a) - 1) : BlocksOf(Front(a))[i] = a[i].block
  BY <1>2, BlocksShape DEF S, Activations
<1>5. BlocksOf(a) # <<>>
  BY <1>3, BlocksShape, EmptySeq
<1>6. /\ Front(BlocksOf(a)) \in Seq(Blocks) /\ Len(Front(BlocksOf(a))) = Len(a) - 1
      /\ \A i \in 1..(Len(a) - 1) : Front(BlocksOf(a))[i] = a[i].block
  BY <1>3, <1>5, BlocksShape, FrontFacts
<1>7. BlocksOf(Front(a)) = Front(BlocksOf(a))
  BY <1>4, <1>6, SeqEqual
<1>8. QED BY <1>5, <1>7

\* The operation a block is at says nothing of its slots.
LEMMA IndexChanges ==
  ASSUME NEW r \in Activations, r # <<>>, NEW i \in 0..MaxIndex
  PROVE  /\ [r EXCEPT ![Len(r)].index = i] \in Activations
         /\ BlocksOf([r EXCEPT ![Len(r)].index = i]) = BlocksOf(r)
<1> DEFINE S  == [block : Blocks, index : 0..MaxIndex]
           rr == [r EXCEPT ![Len(r)].index = i]
<1>0. r \in Seq(S)
  BY DEF Activations
<1>1. PICK x : x = [r[Len(r)] EXCEPT !.index = i]
  OBVIOUS
<1>2. rr = [r EXCEPT ![Len(r)] = x]
  BY <1>1
<1>3. Len(r) \in 1..Len(r) /\ Len(r) \in Nat /\ DOMAIN r = 1..Len(r)
  <2> HIDE DEF S, rr
  <2>1. Len(r) \in Nat \ {0} /\ DOMAIN r = 1..Len(r)
    BY <1>0, EmptySeq, LenProperties
  <2>2. QED BY <2>1, SMT
<1>4. x \in S /\ x.block = r[Len(r)].block
  <2>1. r[Len(r)] \in S
    <3> HIDE DEF S, rr
    <3>1. QED BY <1>0, <1>3, ElementOfSeq
  <2>2. QED BY <1>1, <2>1
<1> HIDE DEF rr, S
<1>5. rr \in Seq(S) /\ \A j \in 1..Len(r) : rr[j] = IF j = Len(r) THEN x ELSE r[j]
  BY <1>0, <1>2, <1>3, <1>4, ExceptSeq
<1>6. DOMAIN rr = DOMAIN r
  BY <1>2
<1>7. BlocksOf(rr) = BlocksOf(r)
  BY <1>3, <1>4, <1>5, <1>6 DEF BlocksOf
<1>8. QED BY <1>5, <1>7 DEF rr, S, Activations

\* A listener that is told a block is entered, goes on or is left, does with its records
\* what the machine has done with its activations.
Told(what, a) ==
  /\ event'.tells = what
  /\ \A r \in Activations : Ends(r, activations) => Ends(TracerRecords(r)', a)
  /\ slots = BlocksOf(activations) => Handled(slots)' = BlocksOf(a)
  /\ a \in Activations

\* The machine enters a block, and so does who is told.
LEMMA EnterTold ==
  ASSUME Shape, NEW b \in Blocks, EnterBlock(b)
  PROVE  Told(<<"entering", b>>, activations')
<1> DEFINE S == [block : Blocks, index : 0..MaxIndex]
           x == Record(b, 0)
<1>1. x \in S /\ x.block = b
  BY ListenersAssumption, SMT DEF Record
<1>2. /\ event'.tells = <<"entering", b>> /\ slots' = slots
      /\ activations' = Append(activations, x) /\ activations \in Activations
  BY DEF EnterBlock, Tell, Shape, TypeOK
<1>3. /\ \A r : TracerRecords(r)' = Append(r, x)
      /\ Handled(slots)' = Append(slots, b)
  BY <1>2 DEF TracerRecords, Handled
<1>4. ASSUME NEW r \in Activations, Ends(r, activations)
      PROVE  Ends(TracerRecords(r)', activations')
  <2>1. r \in Seq(S) /\ activations \in Seq(S) /\ x \in S
    BY <1>1, <1>2 DEF Activations
  <2> HIDE DEF S, x
  <2>2. Ends(Append(r, x), Append(activations, x))
    BY <1>4, <2>1, AppendEnds
  <2>3. QED BY <1>2, <1>3, <2>2
<1>5. slots = BlocksOf(activations) => Handled(slots)' = BlocksOf(activations')
  <2> HIDE DEF x
  <2>1. BlocksOf(Append(activations, x)) = Append(BlocksOf(activations), x.block)
    BY <1>1, <1>2, BlocksAppend
  <2>2. QED BY <1>1, <1>2, <1>3, <2>1
<1>6. activations' \in Activations
  <2> HIDE DEF x
  <2>1. Append(activations, x) \in Seq(S)
    <3> HIDE DEF S
    <3>1. activations \in Seq(S)
      BY <1>2 DEF Activations, S
    <3>2. QED BY <1>1, <3>1, AppendProperties
  <2>2. QED BY <1>2, <2>1 DEF Activations
<1>7. QED BY <1>2, <1>4, <1>5, <1>6 DEF Told

\* It goes on to another operation.
LEMMA ExecuteTold ==
  ASSUME Shape, NEW i \in 0..MaxIndex, ExecuteOperation(i)
  PROVE  Told(<<"executing", i>>, activations')
<1>1. /\ event'.tells = <<"executing", i>> /\ slots' = slots
      /\ activations' = [activations EXCEPT ![Len(activations)].index = i]
      /\ activations \in Activations /\ activations # <<>>
  BY DEF ExecuteOperation, Tell, Shape, TypeOK
<1>2. /\ \A r : TracerRecords(r)' = IF r # <<>> THEN [r EXCEPT ![Len(r)].index = i] ELSE r
      /\ Handled(slots)' = slots
  BY <1>1 DEF TracerRecords, Handled
<1>3. /\ activations' \in Activations /\ BlocksOf(activations') = BlocksOf(activations)
  BY <1>1, IndexChanges
<1>4. ASSUME NEW r \in Activations, Ends(r, activations)
      PROVE  Ends(TracerRecords(r)', activations')
  <2>1. CASE r # <<>>
    BY <1>1, <1>2, <1>4, <2>1, IndexEnds, Zenon
  <2>2. CASE r = <<>>
    BY <1>2, <1>3, <2>2, NothingEnds DEF Activations
  <2>3. QED BY <2>1, <2>2
<1>5. QED BY <1>1, <1>2, <1>3, <1>4 DEF Told

\* It leaves the innermost block.
LEMMA LeaveTold ==
  ASSUME Shape, LeaveBlock
  PROVE  Told(<<"leaving">>, activations')
<1> DEFINE S == [block : Blocks, index : 0..MaxIndex]
<1>1. /\ event'.tells = <<"leaving">> /\ slots' = slots
      /\ activations' = Front(activations)
      /\ activations \in Activations /\ activations # <<>>
  BY DEF LeaveBlock, Tell, Shape, TypeOK
<1>2. /\ \A r : TracerRecords(r)' = IF r # <<>> THEN Front(r) ELSE r
      /\ Handled(slots)' = IF slots # <<>> THEN Front(slots) ELSE slots
  BY <1>1 DEF TracerRecords, Handled
<1>3. activations' \in Activations
  <2> HIDE DEF S
  <2>1. activations \in Seq(S)
    BY <1>1 DEF S, Activations
  <2>2. Front(activations) \in Seq(S)
    BY <1>1, <2>1, FrontFacts
  <2>3. QED BY <1>1, <2>2 DEF Activations, S
<1>4. ASSUME NEW r \in Activations, Ends(r, activations)
      PROVE  Ends(TracerRecords(r)', activations')
  <2>1. r \in Seq(S) /\ activations \in Seq(S) /\ activations' \in Seq(S)
    BY <1>1, <1>3 DEF Activations
  <2> HIDE DEF S
  <2>2. CASE r # <<>>
    BY <1>1, <1>2, <1>4, <2>1, <2>2, FrontEnds
  <2>3. CASE r = <<>>
    BY <1>2, <2>1, <2>3, NothingEnds
  <2>4. QED BY <2>2, <2>3
<1>5. slots = BlocksOf(activations) => Handled(slots)' = BlocksOf(activations')
  BY <1>1, <1>2, BlocksFront
<1>6. QED BY <1>1, <1>3, <1>4, <1>5 DEF Told

\* An event begins: what was true of the past is what the event has yet to bring to all
\* the listeners.
LEMMA TellInv ==
  ASSUME Inv, NEW what \in Events, Tell(what), Told(what, activations')
  PROVE  Inv'
<1>1. /\ TypeOK /\ SlotsInv /\ TracersInv /\ ~Telling
      /\ event.last \in Nat /\ event.next \in Nat /\ event.next > event.last
  BY DEF Inv, Shape, Tell, Telling
<1>2. /\ UNCHANGED <<listeners, capacity, slots, records, removed, undefined>>
      /\ event' = [tells |-> what, next |-> 1, last |-> Len(listeners)]
  BY DEF Tell
<1>3. Len(listeners) \in Nat /\ DOMAIN listeners = 1..Len(listeners)
  BY <1>1, LenProperties DEF TypeOK
<1>4. event'.tells = what /\ event'.next = 1 /\ event'.last = Len(listeners)
  BY <1>2
<1>5. Shape'
  <2>1. 1 \in 1..(Len(listeners) + 1)
    BY <1>3, SMT
  <2>2. activations' \in Activations
    BY DEF Told
  <2>3. QED BY <1>1, <1>2, <1>3, <1>4, <2>1, <2>2 DEF Inv, Shape, TypeOK
<1>6. SlotsInv'
  <2>1. SUFFICES ASSUME SlotsHandler \notin removed
                 PROVE  SlotsHandlerIsFirst' /\ Handled(slots)' = BlocksOf(activations')
                        /\ (Telling /\ event.next = 1)'
    BY <1>2 DEF SlotsInv
  <2>2. SlotsHandlerIsFirst /\ slots = BlocksOf(activations)
    BY <1>1, <2>1 DEF SlotsInv
  <2>3. Telling'
    BY <1>1, <1>3, <1>4, <2>2, EmptySeq, SMT DEF Telling, SlotsHandlerIsFirst, TypeOK
  <2>4. SlotsHandlerIsFirst'
    BY <1>2, <2>2 DEF SlotsHandlerIsFirst
  <2>5. QED BY <1>4, <2>2, <2>3, <2>4 DEF Told
<1>7. TracersInv'
  <2>1. SUFFICES ASSUME NEW t \in Tracers \ removed
                 PROVE  Once(listeners, t) /\ (~Listed(Null) => TracerInv(t)')
    BY <1>2 DEF TracersInv, Listed
  <2>2. Once(listeners, t)
    BY <1>1, <2>1 DEF TracersInv
  <2>3. ASSUME ~Listed(Null) PROVE TracerInv(t)'
    <3>1. TracerInv(t)
      BY <1>1, <2>1, <2>3 DEF TracersInv
    <3>2. records[t] \in Activations /\ activations \in Activations
      BY <1>1, <2>1 DEF TypeOK
    <3>3. ~Listed(t)' => records'[t] = <<>>
      BY <1>2, <3>1 DEF TracerInv, Listed
    <3>4. ASSUME NEW p \in DOMAIN listeners, listeners[p] = t
          PROVE  Ends(records[t], activations)
      <4>1. CASE p < event.next
        BY <3>1, <3>4, <4>1 DEF TracerInv
      <4>2. CASE event.last < p
        BY <3>1, <3>2, <3>4, <4>2, NothingEnds DEF TracerInv, Activations
      <4>3. QED BY <1>1, <1>3, <3>4, <4>1, <4>2, SMT
    <3>5. ASSUME NEW p \in DOMAIN listeners, listeners[p] = t
          PROVE  Ends(TracerRecords(records[t])', activations')
      <4>1. \A r \in Activations : Ends(r, activations) => Ends(TracerRecords(r)', activations')
        BY DEF Told
      <4>2. PICK r \in Activations : r = records[t] /\ r = records'[t]
        BY <1>2, <3>2
      <4>3. Ends(TracerRecords(r)', activations')
        BY <3>4, <3>5, <4>1, <4>2
      <4>4. TracerRecords(r)' = TracerRecords(records[t])'
        BY <4>2 DEF TracerRecords
      <4>5. QED BY <4>3, <4>4
    <3>6. \A p \in DOMAIN listeners : 1 <= p /\ p <= Len(listeners) /\ ~(p < 1)
      BY <1>3, SMT
    <3>7. \A p \in DOMAIN listeners : ~(Len(listeners) < p)
      BY <1>3, SMT
    <3>8. QED BY <1>2, <1>4, <3>3, <3>5, <3>6, <3>7 DEF TracerInv
  <2>4. QED BY <2>2, <2>3
<1>8. QED BY <1>5, <1>6, <1>7 DEF Inv

(***************************************************************************)
(* The list changes.                                                       *)
(***************************************************************************)
\* The list begins with the SlotsHandler alone.
LEMMA InitInv == ASSUME Init PROVE Inv
<1> USE ListenersAssumption DEF Init, Quiet, SlotsHandler, Null
<1>1. Shape
  <2>1. listeners \in Seq(Listener \cup {Null}) /\ Len(listeners) = 1
    BY SMT DEF Listener
  <2>2. activations \in Activations /\ slots \in Seq(Blocks)
    BY DEF Activations
  <2>3. records \in [Tracers -> Activations]
    BY DEF Activations
  <2>4. event.tells \in Events /\ event.next = 1 /\ event.last = 0
    BY DEF Events
  <2>5. /\ Len(listeners) <= capacity /\ capacity \in Nat \ {0}
        /\ event.next \in 1..(event.last + 1) /\ event.last <= Len(listeners)
        /\ event.last \in Nat /\ event.next \in Nat
    BY <2>1, <2>4, SMT
  <2>6. event = [tells |-> event.tells, next |-> event.next, last |-> event.last]
    OBVIOUS
  <2>7. removed \subseteq Listener /\ undefined \in BOOLEAN
    OBVIOUS
  <2>8. QED BY ONLY <2>1, <2>2, <2>3, <2>4, <2>5, <2>6, <2>7, Zenon DEF Shape, TypeOK
<1>2. SlotsInv
  <2>1. SlotsHandlerIsFirst
    BY DEF SlotsHandlerIsFirst, Once
  <2>2. ~Telling
    BY SMT DEF Telling
  <2>3. slots = BlocksOf(activations)
    BY DEF BlocksOf
  <2>4. QED BY <2>1, <2>2, <2>3 DEF SlotsInv
<1>3. TracersInv
  <2>1. ASSUME NEW t \in Tracers PROVE \A p \in DOMAIN listeners : listeners[p] # t
    OBVIOUS
  <2>2. QED BY <2>1 DEF TracersInv, TracerInv, Once
<1>4. QED BY <1>1, <1>2, <1>3 DEF Inv

\* A null in the list stays in it, and a listener removed in vain leaves it as it was:
\* only then is what the tracers know of interest.
LEMMA RemoveInv ==
  ASSUME Inv, NEW l \in Tracers \cup {SlotsHandler}, RemoveListener(l)
  PROVE  Inv'
<1> DEFINE r == Removed(listeners, l)
<1>1. TypeOK /\ SlotsInv /\ TracersInv /\ Shape
  BY DEF Inv, Shape
<1>2. /\ listeners' = r /\ removed' = removed \cup {l}
      /\ UNCHANGED <<capacity, activations, event, slots, records, undefined>>
  BY DEF RemoveListener
<1>3. l # Null /\ l \in Listener /\ Null \notin Tracers /\ SlotsHandler # Null
  BY ListenersAssumption DEF Listener, Null, SlotsHandler
<1>4. listeners \in Seq(Listener \cup {Null}) /\ DOMAIN listeners = 1..Len(listeners)
  BY <1>1, LenProperties DEF TypeOK
<1>5. /\ r \in Seq(Listener \cup {Null}) /\ Len(r) = Len(listeners)
      /\ r = listeners \/ \E k \in DOMAIN listeners : r[k] = Null
      /\ \A k \in DOMAIN listeners : r[k] = Null \/ \E j \in DOMAIN listeners : r[k] = listeners[j]
      /\ \A x : x # l /\ x # Null /\ Once(listeners, x) => Once(r, x)
      /\ listeners # <<>> /\ listeners[1] # l => r[1] = listeners[1]
  BY <1>3, <1>4, RemovedFacts
<1>6. DOMAIN r = DOMAIN listeners
  BY <1>4, <1>5, LenProperties
<1> HIDE DEF r
<1>7. Shape'
  BY <1>1, <1>2, <1>3, <1>5 DEF Shape, TypeOK
<1>8. SlotsInv'
  <2>1. SUFFICES ASSUME SlotsHandler \notin removed, SlotsHandler # l
                 PROVE  SlotsHandlerIsFirst'
    BY <1>1, <1>2 DEF SlotsInv, Telling, Handled
  <2>2. SlotsHandlerIsFirst
    BY <1>1, <2>1 DEF SlotsInv
  <2>3. r # <<>>
    BY <1>4, <1>5, <2>2, EmptySeq DEF SlotsHandlerIsFirst
  <2>4. r[1] = SlotsHandler /\ Once(r, SlotsHandler)
    BY <1>3, <1>5, <2>1, <2>2 DEF SlotsHandlerIsFirst
  <2>5. QED BY <1>2, <2>3, <2>4 DEF SlotsHandlerIsFirst
<1>9. TracersInv'
  <2>1. SUFFICES ASSUME NEW t \in Tracers \ removed, t # l
                 PROVE  Once(r, t) /\ (~Listed(Null)' => TracerInv(t)')
    BY <1>2 DEF TracersInv
  <2>2. Once(listeners, t) /\ (~Listed(Null) => TracerInv(t))
    BY <1>1, <2>1 DEF TracersInv
  <2>3. Once(r, t)
    BY <1>3, <1>5, <2>1, <2>2
  <2>4. ASSUME ~Listed(Null)' PROVE TracerInv(t)'
    <3>1. r = listeners
      BY <1>2, <1>5, <1>6, <2>4 DEF Listed
    <3>2. TracerInv(t)
      BY <1>2, <2>2, <2>4, <3>1 DEF Listed
    <3>3. QED BY <1>2, <3>1, <3>2 DEF TracerInv, Listed, TracerRecords
  <2>5. QED BY <2>3, <2>4
<1>10. QED BY <1>7, <1>8, <1>9 DEF Inv

\* A listener that is appended is beyond the last place the event goes to: it knows
\* nothing, and is told nothing until the next event.
LEMMA AppendInv ==
  ASSUME Inv, NEW l \in Tracers, AppendListener(l)
  PROVE  Inv'
<1> DEFINE n == Len(listeners)
           r == Append(listeners, l)
<1>1. TypeOK /\ SlotsInv /\ TracersInv /\ Shape
  BY DEF Inv, Shape
<1>2. /\ listeners' = r /\ removed' = IF Listed(l) THEN removed \cup {l} ELSE removed
      /\ capacity' = IF n = capacity THEN 2 * capacity ELSE capacity
      /\ UNCHANGED <<activations, event, slots, records>>
  BY DEF AppendListener
<1>3. l # Null /\ l \in Listener /\ Null \notin Tracers /\ l # SlotsHandler
  BY ListenersAssumption DEF Listener, Null, SlotsHandler
<1>4. /\ listeners \in Seq(Listener \cup {Null}) /\ n \in Nat /\ DOMAIN listeners = 1..n
      /\ event.next \in Nat /\ event.last \in Nat /\ event.next <= n + 1 /\ event.last <= n
      /\ event.next <= event.last + 1
  BY <1>1, LenProperties, SMT DEF TypeOK, Shape
<1>5. /\ r \in Seq(Listener \cup {Null}) /\ Len(r) = n + 1 /\ r # <<>>
      /\ DOMAIN r = 1..(n + 1) /\ r[n + 1] = l /\ \A k \in 1..n : r[k] = listeners[k]
  BY <1>3, <1>4, AppendProperties, LenProperties
<1> HIDE DEF r, n
<1>6. \A k \in DOMAIN r : \/ k \in DOMAIN listeners /\ r[k] = listeners[k]
                          \/ k = n + 1 /\ r[k] = l
  BY <1>4, <1>5, SMT
<1>7. \A k \in DOMAIN listeners : k \in DOMAIN r /\ r[k] = listeners[k] /\ k # n + 1
  BY <1>4, <1>5, SMT
<1>8. Shape'
  <2>1. capacity' \in Nat \ {0} /\ n + 1 <= capacity'
    <3>1. n <= capacity /\ capacity \in Nat \ {0}
      BY <1>1 DEF Shape, TypeOK, n
    <3>2. QED BY <1>2, <1>4, <3>1, SMT
  <2>2. undefined' \in BOOLEAN
    BY DEF AppendListener
  <2>3. event.last <= n + 1
    BY <1>4, SMT
  <2>4. QED BY <1>1, <1>2, <1>3, <1>5, <2>1, <2>2, <2>3 DEF Shape, TypeOK
<1>9. ASSUME NEW x, x # l, Once(listeners, x) PROVE Once(r, x)
  BY <1>6, <1>9 DEF Once
<1>10. SlotsInv'
  <2>1. SUFFICES ASSUME SlotsHandler \notin removed PROVE SlotsHandlerIsFirst'
    BY <1>1, <1>2 DEF SlotsInv, Telling, Handled
  <2>2. SlotsHandlerIsFirst
    BY <1>1, <2>1 DEF SlotsInv
  <2>3. 1 \in DOMAIN listeners
    BY <1>4, <2>2, EmptySeq, SMT DEF SlotsHandlerIsFirst, n
  <2>4. QED BY <1>2, <1>3, <1>5, <1>7, <1>9, <2>2, <2>3 DEF SlotsHandlerIsFirst
<1>11. TracersInv'
  <2>1. SUFFICES ASSUME NEW t \in Tracers \ removed, ~(Listed(l) /\ t = l)
                 PROVE  Once(r, t) /\ (~Listed(Null)' => TracerInv(t)')
    BY <1>2 DEF TracersInv
  <2>2. Once(listeners, t) /\ (~Listed(Null) => TracerInv(t))
    BY <1>1, <2>1 DEF TracersInv
  <2>3. ~Listed(Null)' => ~Listed(Null)
    BY <1>2, <1>7 DEF Listed
  <2>4. CASE t # l
    <3>1. Once(r, t)
      BY <1>9, <2>2, <2>4
    <3>2. ASSUME TracerInv(t) PROVE TracerInv(t)'
      <4>1. Listed(t) => Listed(t)'
        BY <1>2, <1>7 DEF Listed
      <4>2. \A p \in DOMAIN r : r[p] = t => p \in DOMAIN listeners /\ listeners[p] = t
        BY <1>6, <2>4
      <4>3. QED BY <1>2, <3>2, <4>1, <4>2 DEF TracerInv, TracerRecords
    <3>3. QED BY <2>2, <2>3, <3>1, <3>2
  <2>5. CASE t = l
    <3>1. \A p \in DOMAIN r : r[p] = t => p = n + 1
      BY <1>6, <2>1, <2>5 DEF Listed
    <3>2. Once(r, t)
      BY <3>1 DEF Once
    <3>3. ASSUME TracerInv(t) PROVE TracerInv(t)'
      <4>1. records[t] = <<>>
        BY <2>1, <2>5, <3>3 DEF TracerInv
      <4>2. ~(n + 1 < event.next) /\ ~(n + 1 <= event.last)
        BY <1>4, SMT
      <4>3. QED BY <1>2, <3>1, <4>1, <4>2 DEF TracerInv
    <3>4. QED BY <2>2, <2>3, <3>2, <3>3
  <2>6. QED BY <2>4, <2>5
<1>12. QED BY <1>8, <1>10, <1>11 DEF Inv

(***************************************************************************)
(* An event is delivered, to one listener more.                            *)
(***************************************************************************)
\* What a tracer keeps are records.
LEMMA RecordsShape ==
  ASSUME event.tells \in Events, NEW r \in Activations PROVE TracerRecords(r) \in Activations
<1> DEFINE S == [block : Blocks, index : 0..MaxIndex]
<1>1. r \in Seq(S)
  BY DEF Activations
<1>2. CASE event.tells[1] = "entering"
  <2>1. event.tells[2] \in Blocks
    BY <1>2 DEF Events
  <2>2. Record(event.tells[2], 0) \in S
    BY <2>1, ListenersAssumption, SMT DEF Record
  <2>3. TracerRecords(r) = Append(r, Record(event.tells[2], 0))
    BY <1>2 DEF TracerRecords
  <2> HIDE DEF S
  <2>4. Append(r, Record(event.tells[2], 0)) \in Seq(S)
    BY <1>1, <2>2, AppendProperties
  <2>5. QED BY <2>3, <2>4 DEF S, Activations
<1>3. CASE event.tells[1] = "executing" /\ r # <<>>
  <2>1. event.tells[2] \in 0..MaxIndex
    BY <1>3 DEF Events
  <2>2. TracerRecords(r) = [r EXCEPT ![Len(r)].index = event.tells[2]]
    BY <1>3 DEF TracerRecords
  <2>3. PICK i \in 0..MaxIndex : i = event.tells[2]
    BY <2>1
  <2>4. [r EXCEPT ![Len(r)].index = i] \in Activations
    BY <1>3, IndexChanges
  <2>5. QED BY <2>2, <2>3, <2>4
<1>4. CASE event.tells[1] = "leaving" /\ r # <<>>
  <2>1. TracerRecords(r) = Front(r)
    BY <1>4 DEF TracerRecords
  <2> HIDE DEF S
  <2>2. Front(r) \in Seq(S)
    BY <1>1, <1>4, FrontFacts
  <2>3. QED BY <2>1, <2>2 DEF S, Activations
<1>5. CASE ~(event.tells[1] = "entering") /\ ~(event.tells[1] = "executing" /\ r # <<>>)
           /\ ~(event.tells[1] = "leaving" /\ r # <<>>)
  BY <1>5 DEF TracerRecords
<1>6. QED BY <1>2, <1>3, <1>4, <1>5

\* What the SlotsHandler keeps are blocks.
LEMMA SlotsShape ==
  ASSUME event.tells \in Events, NEW s \in Seq(Blocks) PROVE Handled(s) \in Seq(Blocks)
<1>1. CASE event.tells[1] = "entering"
  <2>1. event.tells[2] \in Blocks
    BY <1>1 DEF Events
  <2>2. Append(s, event.tells[2]) \in Seq(Blocks)
    BY <2>1, AppendProperties
  <2>3. QED BY <1>1, <2>2 DEF Handled
<1>2. CASE event.tells[1] = "leaving" /\ s # <<>>
  BY <1>2, FrontFacts DEF Handled
<1>3. CASE ~(event.tells[1] = "entering") /\ ~(event.tells[1] = "leaving" /\ s # <<>>)
  BY <1>3 DEF Handled
<1>4. QED BY <1>1, <1>2, <1>3

\* One turn of the loop takes it from one place to the next; who is at another place
\* keeps what it knows.
LEMMA DeliverInv == ASSUME Inv, Deliver PROVE Inv'
<1>1. TypeOK /\ SlotsInv /\ TracersInv /\ Shape
  BY DEF Inv, Shape
<1>2. PICK p \in Nat, m \in Nat : p = event.next /\ m = event.last
  BY <1>1 DEF Shape
<1>3. /\ event'.tells = event.tells /\ event'.next = p + 1 /\ event'.last = m
      /\ event' = [tells |-> event'.tells, next |-> event'.next, last |-> event'.last]
  BY <1>1, <1>2 DEF Shape, Deliver
<1>4. Telling /\ p <= m /\ 1 <= p /\ UNCHANGED <<listeners, capacity, activations, removed>>
  BY <1>1, <1>2, SMT DEF Deliver, Telling, TypeOK
<1>5. DOMAIN listeners = 1..Len(listeners) /\ Len(listeners) \in Nat /\ m <= Len(listeners)
  BY <1>1, <1>2, LenProperties DEF TypeOK
<1>6. p \in DOMAIN listeners /\ p + 1 \in 1..(m + 1) /\ p + 1 # 1 /\ p + 1 \in Nat
  BY <1>4, <1>5, SMT
<1>7. \A k \in DOMAIN listeners : /\ k # p /\ k < p + 1 => k < p
                                  /\ p + 1 <= k => p <= k /\ k # p
                                  /\ k = p => ~(p + 1 <= k) /\ ~(m < k)
  BY <1>2, <1>4, <1>5, SMT
<1>8. \A r : TracerRecords(r)' = TracerRecords(r)
  BY <1>3 DEF TracerRecords
<1>9. /\ SlotsHandler \notin Tracers /\ Null \notin Tracers /\ SlotsHandler # Null
  BY ListenersAssumption DEF SlotsHandler, Null
<1> DEFINE l == listeners[p]
<1>10. \/ l = SlotsHandler /\ HandleSlots /\ UNCHANGED undefined
       \/ l \in Tracers /\ Trace(l) /\ UNCHANGED undefined
       \/ l = Null /\ undefined' = TRUE /\ UNCHANGED <<slots, records>>
  BY <1>2 DEF Deliver
<1> HIDE DEF l
<1>11. ASSUME slots' \in Seq(Blocks), records' \in [Tracers -> Activations],
              undefined' \in BOOLEAN
       PROVE  Shape'
  BY <1>1, <1>2, <1>3, <1>4, <1>5, <1>6, <1>11 DEF Shape, TypeOK
<1>12. SlotsHandler \notin removed => (l = SlotsHandler <=> p = 1)
  BY <1>1, <1>4, <1>5, <1>6 DEF SlotsInv, SlotsHandlerIsFirst, Once, l
\* Whoever is not at this place has been told, or will be, as before.
<1>13. ASSUME NEW t \in Tracers \ removed, l # t, records'[t] = records[t], TracerInv(t)
       PROVE  TracerInv(t)'
  <2>1. \A k \in DOMAIN listeners : listeners[k] = t => k # p
    BY <1>13 DEF l
  <2>2. ~Listed(t)' => ~Listed(t)
    BY <1>4 DEF Listed
  <2>3. QED BY <1>2, <1>3, <1>4, <1>7, <1>8, <1>13, <2>1, <2>2 DEF TracerInv
<1>14. ASSUME UNCHANGED slots, l # SlotsHandler PROVE SlotsInv'
  <2>1. SUFFICES ASSUME SlotsHandler \notin removed
                 PROVE  SlotsHandlerIsFirst' /\ slots = BlocksOf(activations)
    BY <1>3, <1>4, <1>6, <1>14 DEF SlotsInv
  <2>2. QED BY <1>1, <1>2, <1>4, <1>12, <1>14, <2>1 DEF SlotsInv, SlotsHandlerIsFirst
<1>15. \A t \in Tracers \ removed : Once(listeners, t) /\ (~Listed(Null) => TracerInv(t))
  BY <1>1 DEF TracersInv
<1>16. ASSUME \A t \in Tracers \ removed : ~Listed(Null) /\ TracerInv(t) => TracerInv(t)'
       PROVE  TracersInv'
  BY <1>4, <1>15, <1>16 DEF TracersInv, Listed
<1>17. CASE l = SlotsHandler /\ HandleSlots /\ UNCHANGED undefined
  <2>1. slots' = Handled(slots) /\ records' = records
    BY <1>17 DEF HandleSlots, Handled
  <2>2. Shape'
    BY <1>1, <1>11, <1>17, <2>1, SlotsShape DEF TypeOK
  <2>3. SlotsInv'
    BY <1>1, <1>2, <1>3, <1>4, <1>6, <1>12, <1>17, <2>1 DEF SlotsInv, SlotsHandlerIsFirst
  <2>4. TracersInv'
    BY <1>9, <1>13, <1>16, <1>17, <2>1
  <2>5. QED BY <2>2, <2>3, <2>4 DEF Inv
<1>18. CASE l \in Tracers /\ Trace(l) /\ UNCHANGED undefined
  <2>1. /\ slots' = slots /\ DOMAIN records = Tracers
        /\ records' = [records EXCEPT ![l] = TracerRecords(records[l])]
    BY <1>1, <1>18 DEF Trace, TypeOK
  <2>2. TracerRecords(records[l]) \in Activations
    BY <1>1, <1>18, RecordsShape DEF TypeOK
  <2>3. Shape'
    BY <1>1, <1>11, <1>18, <2>1, <2>2 DEF TypeOK
  <2>4. SlotsInv'
    BY <1>9, <1>14, <1>18, <2>1
  <2>5. ASSUME NEW t \in Tracers \ removed, TracerInv(t) PROVE TracerInv(t)'
    <3>1. CASE t # l
      BY <1>13, <2>1, <2>5, <3>1
    <3>2. CASE t = l
      <4>1. Ends(TracerRecords(records[t]), activations)
        BY <1>2, <1>4, <1>6, <2>5, <3>2 DEF TracerInv, l
      <4>2. records'[t] = TracerRecords(records[t])
        BY <1>18, <2>1, <3>2
      <4>3. \A k \in DOMAIN listeners : listeners[k] = t => k = p
        BY <1>6, <1>15, <3>2 DEF Once, l
      <4>4. Listed(t)'
        BY <1>4, <1>6, <3>2 DEF Listed, l
      <4>5. QED BY <1>3, <1>4, <1>7, <4>1, <4>2, <4>3, <4>4 DEF TracerInv
    <3>3. QED BY <3>1, <3>2
  <2>6. TracersInv'
    BY <1>16, <2>5
  <2>7. QED BY <2>3, <2>4, <2>6 DEF Inv
<1>19. CASE l = Null /\ undefined' = TRUE /\ UNCHANGED <<slots, records>>
  <2>1. Shape'
    BY <1>1, <1>11, <1>19 DEF TypeOK
  <2>2. SlotsInv'
    BY <1>9, <1>14, <1>19
  <2>3. Listed(Null)
    BY <1>6, <1>19 DEF Listed, l
  <2>4. TracersInv'
    BY <1>16, <2>3
  <2>5. QED BY <2>1, <2>2, <2>4 DEF Inv
<1>20. QED BY <1>10, <1>17, <1>18, <1>19

\* The invariant is inductive.
LEMMA NextInv == ASSUME Inv, [Next]_vars PROVE Inv'
<1>1. ASSUME NEW t \in Tracers, AppendListener(t) PROVE Inv'
  BY <1>1, AppendInv
<1>2. ASSUME NEW l \in Tracers \cup {SlotsHandler}, RemoveListener(l) PROVE Inv'
  BY <1>2, RemoveInv
<1>3. ASSUME NEW b \in Blocks, EnterBlock(b) PROVE Inv'
  <2>1. <<"entering", b>> \in Events
    BY DEF Events
  <2>2. Tell(<<"entering", b>>)
    BY <1>3 DEF EnterBlock
  <2>3. QED BY <1>3, <2>1, <2>2, EnterTold, TellInv DEF Inv
<1>4. ASSUME NEW i \in 0..MaxIndex, ExecuteOperation(i) PROVE Inv'
  <2>1. <<"executing", i>> \in Events
    BY DEF Events
  <2>2. Tell(<<"executing", i>>)
    BY <1>4 DEF ExecuteOperation
  <2>3. QED BY <1>4, <2>1, <2>2, ExecuteTold, TellInv DEF Inv
<1>5. ASSUME LeaveBlock PROVE Inv'
  <2>1. <<"leaving">> \in Events
    BY DEF Events
  <2>2. Tell(<<"leaving">>)
    BY <1>5 DEF LeaveBlock
  <2>3. QED BY <1>5, <2>1, <2>2, LeaveTold, TellInv DEF Inv
<1>6. CASE Deliver
  BY <1>6, DeliverInv
<1>7. CASE UNCHANGED vars
  BY <1>7 DEF vars, Inv, Shape, TypeOK, SlotsInv, SlotsHandlerIsFirst, Telling, Handled,
                TracersInv, TracerInv, TracerRecords, Listed
<1>8. QED BY <1>1, <1>2, <1>3, <1>4, <1>5, <1>6, <1>7 DEF Next

\* It holds for ever.
LEMMA SpecInv == Spec => []Inv
<1>1. Init => Inv
  BY InitInv
<1>2. Inv /\ [Next]_vars => Inv'
  BY NextInv
<1>3. QED BY <1>1, <1>2, PTL DEF Spec

(***************************************************************************)
(* The theorems.                                                           *)
(***************************************************************************)
\* The loop that tells the listeners stays inside their list, and the list inside its
\* array, whoever appends and removes listeners while it runs.
THEOREM TypeCorrect == Spec => []TypeOK
<1>1. Inv => TypeOK
  BY DEF Inv, Shape
<1>2. QED BY <1>1, SpecInv, PTL

\* MachineState's slots are those of the blocks it is in as long as nobody tries to remove
\* the SlotsHandler: no removal of another listener, and no append, moves it.
THEOREM SlotsFollow == Spec => []SlotsFollowTheBlocks
<1>1. Inv => SlotsFollowTheBlocks
  BY DEF Inv, SlotsInv, SlotsFollowTheBlocks, BlocksOf
<1>2. QED BY <1>1, SpecInv, PTL

\* A MachineTracer that is listed once, and that nobody removed, has the end of the
\* machine's activations for its records, as long as the list has no null.
THEOREM TracersSee == Spec => []TracersSeeTheirBlocks
<1>1. ASSUME Inv PROVE TracersSeeTheirBlocks
  <2>1. SUFFICES ASSUME ~Telling, ~Listed(Null), NEW t \in Tracers \ removed
                 PROVE  \E n \in 0..Len(activations) :
                          records[t] = SubSeq(activations, n + 1, Len(activations))
    BY DEF TracersSeeTheirBlocks
  <2>2. TracerInv(t)
    BY <1>1, <2>1 DEF Inv, TracersInv
  <2>3. activations \in Activations /\ records[t] \in Activations
    BY <1>1, <2>1 DEF Inv, Shape, TypeOK
  <2>4. \A p \in DOMAIN listeners : p < event.next \/ event.last < p
    <3>1. event.last < event.next /\ event.last \in Nat /\ event.next \in Nat
      BY <1>1, <2>1, SMT DEF Inv, Shape, Telling
    <3>2. DOMAIN listeners = 1..Len(listeners) /\ Len(listeners) \in Nat
      BY <1>1, LenProperties DEF Inv, Shape, TypeOK
    <3>3. QED BY <3>1, <3>2, SMT
  <2>5. Ends(records[t], activations)
    BY <2>2, <2>3, <2>4, NothingEnds DEF TracerInv, Listed, Activations
  <2>6. QED BY <2>3, <2>5, EndsIsSuffix DEF Activations
<1>2. QED BY <1>1, SpecInv, PTL
=============================================================================
