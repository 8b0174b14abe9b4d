------------------------ MODULE NativeLibrariesProofs ------------------------
(***************************************************************************)
(* Proofs about NativeLibraries, for every set of libraries, whatever they *)
(* share, and every sequence of loads, registrations, stores and clears,   *)
(* natives under names that are not their own included.                    *)
(***************************************************************************)
EXTENDS NativeLibraries, SequenceTheorems, TLAPS

(***************************************************************************)
(* Qualified names.                                                        *)
(***************************************************************************)

LEMMA SeqOfMore ==
  ASSUME NEW S, NEW T, S \subseteq T, NEW s \in Seq(S)
  PROVE  s \in Seq(T)
<1>1. Len(s) \in Nat /\ s \in [1..Len(s) -> T]
  BY LenProperties
<1> QED BY <1>1, SeqDef

LEMMA SeparatorIsText ==
  ASSUME NEW S, ":" \in S
  PROVE  /\ Separator \in Seq(S) /\ Len(Separator) = 2
         /\ Separator[1] = ":" /\ Separator[2] = ":"
<1>1. PICK c \in S : c = ":"
  OBVIOUS
<1>2. Separator = <<c, c>>
  BY <1>1 DEF Separator
<1> QED BY <1>1, <1>2

\* The first separator of a qualified name is the one behind its bucket.
LEMMA NameIsFound ==
  ASSUME NEW b, BucketName(b), NEW a \in Seq(STRING), Find(b, a)
  PROVE  GetOperation(FullyQualifiedName(b, a))
<1>. DEFINE name == FullyQualifiedName(b, a)
            at   == Separators(name)
            n    == Len(b) + 1
            Char == STRING \cup {":"}
<1>0. /\ Len(a) \in Nat /\ a \in Seq(Char) /\ b \in Seq(Char)
      /\ Separator \in Seq(Char) /\ Len(Separator) = 2
      /\ Separator[1] = ":" /\ Separator[2] = ":"
  <2>1. ":" \in Char
    OBVIOUS
  <2>2. Len(a) \in Nat /\ a \in Seq(Char) /\ b \in Seq(Char)
    BY LenProperties, SeqOfMore DEF BucketName
  <2> QED BY <2>1, <2>2, SeparatorIsText
<1> HIDE DEF Char
<1>1. /\ b \in Seq(Char) /\ Len(b) \in Nat /\ Len(b) # 0 /\ DOMAIN b = 1..Len(b)
      /\ Separators(b) = {} /\ b[Len(b)] # ":"
  BY <1>0, LenProperties DEF BucketName
<1>2. PICK s : s = Separator \o a
  OBVIOUS
<1>3. /\ s \in Seq(Char) /\ Len(s) = Len(a) + 2 /\ s[1] = ":" /\ s[2] = ":"
      /\ \A i \in 1..Len(a) : s[i + 2] = a[i]
  <2>2. /\ s \in Seq(Char) /\ Len(s) = 2 + Len(a)
        /\ \A i \in 1..(2 + Len(a)) : s[i] = IF i <= 2 THEN Separator[i] ELSE a[i - 2]
    <3>1. PICK p : p = Separator
      OBVIOUS
    <3>2. p \in Seq(Char) /\ Len(p) = 2 /\ s = p \o a
      BY <1>0, <1>2, <3>1
    <3>3. /\ p \o a \in Seq(Char) /\ Len(p \o a) = Len(p) + Len(a)
          /\ \A i \in 1..(Len(p) + Len(a)) :
               (p \o a)[i] = IF i <= Len(p) THEN p[i] ELSE a[i - Len(p)]
      BY <1>0, <3>2, ConcatProperties
    <3> QED BY <3>1, <3>2, <3>3
  <2>3. 1 \in 1..(2 + Len(a)) /\ 2 \in 1..(2 + Len(a)) /\ Len(s) = Len(a) + 2
    BY <1>0, <2>2
  <2>4. ASSUME NEW i \in 1..Len(a)
        PROVE  s[i + 2] = a[i]
    <3>1. i + 2 \in 1..(2 + Len(a)) /\ ~(i + 2 <= 2) /\ (i + 2) - 2 = i
      BY <1>0
    <3> QED BY <2>2, <3>1
  <2> QED BY <1>0, <2>2, <2>3, <2>4
<1>4. name = b \o s
  <2>1. (b \o Separator) \o a = b \o (Separator \o a)
    BY <1>0, ConcatAssociative
  <2> QED BY <1>2, <2>1 DEF FullyQualifiedName
<1>5. /\ name \in Seq(Char) /\ Len(name) = Len(b) + Len(s) /\ DOMAIN name = 1..Len(name)
      /\ \A i \in 1..Len(b) : name[i] = b[i]
      /\ \A i \in 1..Len(s) : name[Len(b) + i] = s[i]
  <2>1. /\ b \o s \in Seq(Char) /\ Len(b \o s) = Len(b) + Len(s)
        /\ \A i \in 1..(Len(b) + Len(s)) :
             (b \o s)[i] = IF i <= Len(b) THEN b[i] ELSE s[i - Len(b)]
    BY <1>1, <1>3, ConcatProperties
  <2>2. Len(s) \in Nat
    BY <1>3, LenProperties
  <2>3. DOMAIN (b \o s) = 1..Len(b \o s)
    BY <2>1, LenProperties
  <2>4. \A i \in 1..Len(b) : (b \o s)[i] = b[i]
    BY <1>1, <2>1, <2>2
  <2>5. \A i \in 1..Len(s) : (b \o s)[Len(b) + i] = s[i]
    BY <1>1, <2>1, <2>2
  <2> QED BY <1>4, <2>1, <2>3, <2>4, <2>5
<1>6. n \in at /\ \A j \in at : n <= j
  <2>1. /\ 1 \in 1..Len(s) /\ 2 \in 1..Len(s) /\ n = Len(b) + 1 /\ n + 1 = Len(b) + 2
        /\ n \in 1..Len(name) /\ n + 1 \in 1..Len(name)
    BY <1>0, <1>1, <1>3, <1>5
  <2>2. name[n] = ":" /\ name[n + 1] = ":"
    BY <1>3, <1>5, <2>1
  <2>3. ASSUME NEW j \in at, j < n
        PROVE  FALSE
    <3>1. j \in 1..Len(b) /\ name[j] = ":" /\ name[j + 1] = ":"
      BY <1>1, <1>5, <2>1, <2>3 DEF Separators
    <3>2. CASE j = Len(b)
      BY <1>1, <1>5, <3>1, <3>2
    <3>3. CASE j # Len(b)
      <4>1. j + 1 \in 1..Len(b)
        <5>1. Len(b) \in Nat /\ j \in 1..Len(b) /\ j # Len(b)
          BY <1>1, <3>1, <3>3
        <5> QED BY <5>1
      <4>2. j \in Separators(b)
        BY <1>1, <1>5, <3>1, <4>1 DEF Separators
      <4> QED BY <1>1, <4>2
    <3> QED BY <3>2, <3>3
  <2>4. n \in at
    BY <1>5, <2>1, <2>2 DEF Separators
  <2>5. \A j \in at : j \in Int
    BY <1>5 DEF Separators
  <2> QED BY <2>1, <2>3, <2>4, <2>5
<1>7. (CHOOSE i \in at : \A j \in at : i <= j) = n
  <2>1. \A i, j \in at : i <= j /\ j <= i => i = j
    BY <1>5 DEF Separators
  <2> QED BY <1>6, <2>1
<1>8. SubSeq(name, 1, n - 1) = b
  BY <1>1, <1>3, <1>4, SubSeqOfConcat1, SubSeqFull, LenProperties
<1>9. SubSeq(name, n + 2, Len(name)) = a
  <2>1. /\ Len(a) \in Nat /\ a \in [1..Len(a) -> Char] /\ Len(name) = Len(b) + Len(a) + 2
        /\ \A i \in 1..Len(a) : name[n + 1 + i] = a[i]
    <3>1. Len(a) \in Nat /\ a \in [1..Len(a) -> Char]
      BY <1>0, LenProperties
    <3>2. \A i \in 1..Len(a) : i + 2 \in 1..Len(s) /\ Len(b) + (i + 2) = n + 1 + i
      BY <1>1, <1>3, <3>1
    <3> QED BY <1>1, <1>3, <1>5, <3>1, <3>2
  <2>2. PICK t : t = SubSeq(name, n + 2, Len(name))
    OBVIOUS
  <2>3. t \in Seq(Char) /\ Len(t) = Len(a) /\ \A i \in 1..Len(a) : t[i] = a[i]
    <3>1. \A i \in (n + 2)..Len(name) : name[i] \in Char
      BY <1>1, <1>5, <2>1, ElementOfSeq
    <3>2. n + 2 \in Int /\ Len(name) \in Int /\ Len(name) - (n + 2) + 1 = Len(a)
      BY <1>1, <2>1
    <3>3. /\ SubSeq(name, n + 2, Len(name)) \in Seq(Char)
          /\ Len(SubSeq(name, n + 2, Len(name))) = Len(a)
          /\ \A i \in 1..Len(a) : SubSeq(name, n + 2, Len(name))[i] = name[n + 2 + i - 1]
      BY <1>1, <2>1, <3>1, <3>2, SubSeqProperties
    <3>4. \A i \in 1..Len(a) : n + 2 + i - 1 = n + 1 + i
      BY <1>1, <2>1
    <3> QED BY <2>1, <2>2, <3>3, <3>4
  <2>4. t \in [1..Len(a) -> Char]
    BY <2>3, LenProperties
  <2> QED BY <2>1, <2>2, <2>3, <2>4
<1>10. at # {} /\ n > 1
  BY <1>1, <1>6
<1> HIDE DEF n
<1> QED BY <1>7, <1>8, <1>9, <1>10 DEF GetOperation

(***************************************************************************)
(* The inductive invariant.                                                *)
(***************************************************************************)

\* A native operation, and it is in the registry under the name it was made with.
IsKept(v) ==
  \E b, a : BucketName(b) /\ a \in Seq(STRING) /\ Find(b, a) /\ v = Native(b, a)

\* So is all that the program can call, wherever it has put it.
NativesAreKept ==
  /\ \A n \in Bound : store[n] # Other => IsKept(store[n])
  /\ \A v \in hand : IsKept(v)

LibrariesAreKept ==
  \A lib \in loaded :
    /\ lib \in DOMAIN Library /\ Usable(lib)
    /\ \A i \in DOMAIN Library[lib].loaders : Find(Library[lib].bucket, Library[lib].loaders[i])

\* A library being loaded has registered the loaders that are not left.
LoadIsUnderWay ==
  loading # Idle =>
    /\ loading.lib \in DOMAIN Library /\ Usable(loading.lib)
    /\ Library[loading.lib].bucket \in DOMAIN buckets
    /\ \E k \in 1..(Len(Loaders) + 1) :
         /\ loading = [lib |-> loading.lib, left |-> Rest(Loaders, k)]
         /\ \A i \in 1..(k - 1) : Find(Library[loading.lib].bucket, Loaders[i])

Inv == NativesAreKept /\ LibrariesAreKept /\ LoadIsUnderWay

\* Nothing is stored and nothing loaded at first.
THEOREM InitInv == Init => Inv
BY DEF Init, Inv, NativesAreKept, LibrariesAreKept, LoadIsUnderWay, Bound

\* No bucket and no operation ever goes away.
Grows(known) ==
  /\ DOMAIN buckets \subseteq DOMAIN known
  /\ \A b \in DOMAIN buckets : buckets[b] \subseteq known[b]

LEMMA CreateGrows ==
  ASSUME NEW b
  PROVE  Grows(Create(b)) /\ b \in DOMAIN Create(b)
BY DEF Grows, Create, With

\* A larger registry knows what a smaller one knew.
LEMMA GrowingKeeps ==
  ASSUME Inv, Grows(buckets')
  PROVE  /\ \A b, a : Find(b, a) => Find(b, a)'
         /\ \A v : IsKept(v) => IsKept(v)'
         /\ UNCHANGED <<store, hand>> => NativesAreKept'
         /\ UNCHANGED loaded => LibrariesAreKept'
<1>1. \A b, a : Find(b, a) => Find(b, a)'
  BY DEF Grows, Find
<1>2. \A v : IsKept(v) => IsKept(v)'
  BY <1>1 DEF IsKept
<1> QED BY <1>1, <1>2 DEF Inv, NativesAreKept, LibrariesAreKept, Bound

LEMMA NewOperationKeeps ==
  ASSUME Inv, NEW known, NEW b, NEW a \in Seq(STRING), Grows(known), BucketName(b),
         b \in DOMAIN known, NewOperation(known, b, a), UNCHANGED hand
  PROVE  /\ Grows(buckets') /\ b \in DOMAIN buckets' /\ NativesAreKept'
         /\ a # NoOperation => Find(b, a)'
         /\ \A n \in Bound : n \in DOMAIN store' /\ store'[n] = store[n]
<1>1. /\ Grows(buckets') /\ b \in DOMAIN buckets'
      /\ a # NoOperation => Find(b, a)'
  BY DEF NewOperation, Grows, Find
<1>2. \A v : IsKept(v) => IsKept(v)'
  BY <1>1, GrowingKeeps
<1>3. CASE ~Registers(b, a)
  <2>1. store' = store
    BY <1>3 DEF NewOperation
  <2> QED BY <1>1, <2>1, GrowingKeeps DEF Bound
<1>4. CASE Registers(b, a)
  <2>1. /\ a # NoOperation /\ FullyQualifiedName(b, a) \notin Bound
        /\ DOMAIN store' = Bound \cup {FullyQualifiedName(b, a)}
        /\ store'[FullyQualifiedName(b, a)] = Native(b, a)
        /\ \A n \in Bound : store'[n] = store[n]
    BY <1>4 DEF Registers, NewOperation, With, Bound
  <2>2. ASSUME NEW n \in DOMAIN store', NEW v, v = store'[n], v # Other
        PROVE  IsKept(v)'
    <3>1. CASE n \in Bound
      BY <1>2, <2>1, <2>2, <3>1 DEF Inv, NativesAreKept
    <3>2. CASE n \notin Bound
      BY <1>1, <2>1, <2>2, <3>2 DEF IsKept
    <3> QED BY <3>1, <3>2
  <2>3. NativesAreKept'
    BY <1>2, <2>2 DEF Inv, NativesAreKept, Bound
  <2> QED BY <1>1, <2>1, <2>3
<1> QED BY <1>3, <1>4

(***************************************************************************)
(* Each action keeps the invariant.                                        *)
(***************************************************************************)

LEMMA AllIsLeft ==
  ASSUME NEW lib \in DOMAIN Library, Usable(lib)
  PROVE  /\ Library[lib].loaders \in Seq(Seq(STRING)) /\ Len(Library[lib].loaders) \in Nat
         /\ DOMAIN Library[lib].loaders = 1..Len(Library[lib].loaders)
         /\ Rest(Library[lib].loaders, 1) = Library[lib].loaders
         /\ BucketName(Library[lib].bucket)
<1>1. Library[lib].loaders \in Seq(Seq(STRING)) /\ BucketName(Library[lib].bucket)
  BY NamesAssumption
<1> QED BY <1>1, LenProperties, SubSeqFull DEF Rest

\* What is left of a sequence behind its head.
LEMMA RestOfRest ==
  ASSUME NEW S, NEW s \in Seq(S), NEW k \in 1..(Len(s) + 1)
  PROVE  /\ Rest(s, k) = <<>> <=> k = Len(s) + 1
         /\ k \in 1..Len(s) =>
              Head(Rest(s, k)) = s[k] /\ s[k] \in S /\ Tail(Rest(s, k)) = Rest(s, k + 1)
<1>1. Len(s) \in Nat /\ \A i \in 1..Len(s) : s[i] \in S
  BY LenProperties, ElementOfSeq
<1>2. Rest(s, k) \in Seq(S) /\ Len(Rest(s, k)) = Len(s) - k + 1
  <2>1. \A i \in k..Len(s) : s[i] \in S
    BY <1>1
  <2>2. k \in Int /\ Len(s) \in Int /\ (k <= Len(s) \/ k = Len(s) + 1)
    BY <1>1
  <2>3. Rest(s, k) \in Seq(S) /\ Len(Rest(s, k)) = IF k <= Len(s) THEN Len(s) - k + 1 ELSE 0
    BY <2>1, <2>2, SubSeqProperties DEF Rest
  <2> QED BY <1>1, <2>2, <2>3
<1>3. Rest(s, k) = <<>> <=> k = Len(s) + 1
  BY <1>1, <1>2, EmptySeq
<1>4. ASSUME k \in 1..Len(s)
      PROVE  Head(Rest(s, k)) = s[k] /\ s[k] \in S /\ Tail(Rest(s, k)) = Rest(s, k + 1)
  BY <1>1, <1>4, HeadTailOfSubSeq DEF Rest
<1> QED BY <1>3, <1>4

LEMMA BeginLoadKeeps ==
  ASSUME Inv, NEW lib \in DOMAIN Library, BeginLoad(lib)
  PROVE  Inv'
<1>1. /\ UNCHANGED <<store, hand, loaded>> /\ Grows(buckets') /\ Usable(lib)
      /\ Library[lib].bucket \in DOMAIN buckets'
      /\ loading' = [lib |-> lib, left |-> Library[lib].loaders]
  BY CreateGrows DEF BeginLoad
<1>2. NativesAreKept' /\ LibrariesAreKept'
  BY <1>1, GrowingKeeps
<1>3. /\ loading' = [lib |-> loading'.lib, left |-> Rest(Loaders', 1)]
      /\ 1 \in 1..(Len(Loaders') + 1)
      /\ \A i \in 1..(1 - 1) : Find(Library[lib].bucket, Loaders[i])'
  BY <1>1, AllIsLeft DEF Loaders
<1>4. LoadIsUnderWay'
  BY <1>1, <1>3 DEF LoadIsUnderWay, Rest, Loaders
<1> QED BY <1>2, <1>4 DEF Inv

\* The loader that is next, and what is left after it.
LEMMA NextLoader ==
  ASSUME Inv, loading # Idle, loading.left # <<>>
  PROVE  \E k \in 1..Len(Loaders) :
           /\ Head(loading.left) = Loaders[k] /\ Loaders[k] \in Seq(STRING)
           /\ Tail(loading.left) = Rest(Loaders, k + 1)
           /\ \A i \in 1..(k - 1) : Find(Library[loading.lib].bucket, Loaders[i])
           /\ k + 1 \in 1..(Len(Loaders) + 1)
<1>1. PICK k \in 1..(Len(Loaders) + 1) :
        /\ loading = [lib |-> loading.lib, left |-> Rest(Loaders, k)]
        /\ \A i \in 1..(k - 1) : Find(Library[loading.lib].bucket, Loaders[i])
  BY DEF Inv, LoadIsUnderWay
<1>2. Loaders \in Seq(Seq(STRING)) /\ Len(Loaders) \in Nat
  BY AllIsLeft DEF Inv, LoadIsUnderWay, Loaders
<1>3. loading.left = Rest(Loaders, k)
  BY <1>1
<1>4. k # Len(Loaders) + 1
  BY <1>2, <1>3, RestOfRest
<1>5. k \in 1..Len(Loaders)
  BY <1>2, <1>4
<1>6. Head(loading.left) = Loaders[k] /\ Loaders[k] \in Seq(STRING)
      /\ Tail(loading.left) = Rest(Loaders, k + 1)
  BY <1>2, <1>3, <1>5, RestOfRest
<1>7. k + 1 \in 1..(Len(Loaders) + 1)
  BY <1>2, <1>5
<1>8. \A i \in 1..(k - 1) : Find(Library[loading.lib].bucket, Loaders[i])
  BY <1>1
<1> QED BY <1>5, <1>6, <1>7, <1>8

LEMMA GrowsItself == Grows(buckets)
BY DEF Grows

LEMMA RegisterNextKeeps ==
  ASSUME Inv, RegisterNext
  PROVE  /\ Inv' /\ \A n \in Bound : n \in DOMAIN store' /\ store'[n] = store[n]
<1>1. PICK lib, all, bucket, a : /\ lib = loading.lib /\ all = Library[lib].loaders
                                 /\ bucket = Library[lib].bucket /\ a = Head(loading.left)
  OBVIOUS
<1>2. /\ loading # Idle /\ loading.left # <<>> /\ UNCHANGED <<hand, loaded>>
      /\ NewOperation(buckets, bucket, a)
      /\ \/ Registers(bucket, a) /\ loading' = [loading EXCEPT !.left = Tail(@)]
         \/ loading' = Idle
  BY <1>1 DEF RegisterNext
<1>3. PICK k \in 1..Len(all) :
        /\ a = all[k] /\ a \in Seq(STRING) /\ Tail(loading.left) = Rest(all, k + 1)
        /\ \A i \in 1..(k - 1) : Find(bucket, all[i])
        /\ k + 1 \in 1..(Len(all) + 1)
  BY <1>1, <1>2, NextLoader DEF Loaders
<1>4. /\ lib \in DOMAIN Library /\ Usable(lib) /\ bucket \in DOMAIN buckets
      /\ BucketName(bucket)
      /\ loading = [lib |-> lib, left |-> loading.left]
  <2>1. lib \in DOMAIN Library /\ Usable(lib) /\ bucket \in DOMAIN buckets
    BY <1>1, <1>2 DEF Inv, LoadIsUnderWay
  <2>2. loading = [lib |-> lib, left |-> loading.left]
    BY <1>1, <1>2 DEF Inv, LoadIsUnderWay
  <2> QED BY <1>1, <2>1, <2>2, NamesAssumption
<1>5. /\ Grows(buckets') /\ bucket \in DOMAIN buckets' /\ NativesAreKept'
      /\ a # NoOperation => Find(bucket, a)'
      /\ \A n \in Bound : n \in DOMAIN store' /\ store'[n] = store[n]
  BY <1>2, <1>3, <1>4, GrowsItself, NewOperationKeeps
<1>6. LibrariesAreKept' /\ \A b, c : Find(b, c) => Find(b, c)'
  BY <1>2, <1>5, GrowingKeeps
<1>7. CASE Registers(bucket, a) /\ loading' = [loading EXCEPT !.left = Tail(@)]
  <2>1. loading' = [lib |-> lib, left |-> Rest(all, k + 1)]
    <3>1. PICK rest : rest = Rest(all, k + 1)
      OBVIOUS
    <3>2. loading' = [loading EXCEPT !.left = rest]
      BY <1>3, <1>7, <3>1
    <3>3. loading' = [lib |-> lib, left |-> rest]
      BY <1>4, <3>2
    <3> QED BY <3>1, <3>3
  <2>2. Find(bucket, a)'
    BY <1>5, <1>7 DEF Registers
  <2>3. k \in Nat
    BY <1>3
  <2>4. \A i \in 1..((k + 1) - 1) : Find(bucket, all[i])'
    <3>1. ASSUME NEW i \in 1..((k + 1) - 1)
          PROVE  Find(bucket, all[i])'
      <4>1. i \in 1..(k - 1) \/ i = k
        BY <2>3
      <4> QED BY <1>3, <1>6, <2>2, <4>1
    <3> QED BY <3>1
  <2>5. loading'.lib = lib /\ Loaders' = all
    BY <1>1, <2>1 DEF Loaders
  <2>6. LoadIsUnderWay'
    <3>1. /\ loading'.lib \in DOMAIN Library /\ Usable(loading'.lib)
          /\ Library[loading'.lib].bucket \in DOMAIN buckets'
      BY <1>1, <1>4, <1>5, <2>5
    <3>2. /\ loading' = [lib |-> loading'.lib, left |-> Rest(Loaders', k + 1)]
          /\ k + 1 \in 1..(Len(Loaders') + 1)
      BY <1>3, <2>1, <2>5
    <3>3. Library[loading'.lib].bucket = bucket
      BY <1>1, <2>5
    <3>4. \A i \in 1..((k + 1) - 1) : Find(Library[loading.lib].bucket, Loaders[i])'
      BY <2>4, <2>5, <3>3 DEF Find
    <3> QED BY <3>1, <3>2, <3>4 DEF LoadIsUnderWay, Rest
  <2> QED BY <1>5, <1>6, <2>6 DEF Inv
<1>8. CASE loading' = Idle
  BY <1>5, <1>6, <1>8 DEF Inv, LoadIsUnderWay
<1> QED BY <1>2, <1>5, <1>7, <1>8

LEMMA EndLoadKeeps ==
  ASSUME Inv, EndLoad
  PROVE  Inv'
<1>1. /\ loading # Idle /\ loading.left = <<>> /\ loaded' = loaded \cup {loading.lib}
      /\ loading' = Idle /\ UNCHANGED <<store, hand, buckets>>
  BY DEF EndLoad
<1>2. /\ loading.lib \in DOMAIN Library /\ Usable(loading.lib)
      /\ \E k \in 1..(Len(Loaders) + 1) :
           /\ loading = [lib |-> loading.lib, left |-> Rest(Loaders, k)]
           /\ \A i \in 1..(k - 1) : Find(Library[loading.lib].bucket, Loaders[i])
  BY <1>1 DEF Inv, LoadIsUnderWay
<1>3. /\ Loaders \in Seq(Seq(STRING)) /\ Len(Loaders) \in Nat
      /\ DOMAIN Loaders = 1..Len(Loaders)
  BY <1>2, AllIsLeft DEF Loaders
<1>4. PICK k \in 1..(Len(Loaders) + 1) :
        /\ loading.left = Rest(Loaders, k)
        /\ \A i \in 1..(k - 1) : Find(Library[loading.lib].bucket, Loaders[i])
  BY <1>2
<1>5. k = Len(Loaders) + 1
  BY <1>1, <1>3, <1>4, RestOfRest
<1>6. \A i \in DOMAIN Library[loading.lib].loaders :
        Find(Library[loading.lib].bucket, Library[loading.lib].loaders[i])
  BY <1>3, <1>4, <1>5 DEF Loaders
<1>7. LibrariesAreKept'
  BY <1>1, <1>2, <1>6 DEF Inv, LibrariesAreKept, Find
<1>8. NativesAreKept' /\ LoadIsUnderWay'
  BY <1>1 DEF Inv, NativesAreKept, IsKept, LoadIsUnderWay, Bound, Find
<1> QED BY <1>7, <1>8 DEF Inv

LEMMA RegisterSeparatelyKeeps ==
  ASSUME Inv, NEW p \in Separate, RegisterSeparately(p[1], p[2])
  PROVE  Inv' /\ \A n \in Bound : n \in DOMAIN store' /\ store'[n] = store[n]
<1>1. /\ loading = Idle /\ UNCHANGED <<hand, loaded, loading>>
      /\ NewOperation(Create(p[1]), p[1], p[2])
      /\ BucketName(p[1]) /\ p[2] \in Seq(STRING)
  BY NamesAssumption DEF RegisterSeparately
<1>2. /\ Grows(buckets') /\ NativesAreKept'
      /\ \A n \in Bound : n \in DOMAIN store' /\ store'[n] = store[n]
  BY <1>1, CreateGrows, NewOperationKeeps
<1>3. LibrariesAreKept' /\ LoadIsUnderWay'
  BY <1>1, <1>2, GrowingKeeps DEF LoadIsUnderWay
<1> QED BY <1>2, <1>3 DEF Inv

\* What leaves the registry and the libraries alone keeps what is said of those.
LEMMA OtherStepsKeep ==
  ASSUME Inv, UNCHANGED <<buckets, loaded, loading>>
  PROVE  /\ \A v : IsKept(v) => IsKept(v)'
         /\ LibrariesAreKept' /\ LoadIsUnderWay'
<1>1. \A v : IsKept(v) => IsKept(v)'
  BY DEF IsKept, Find
<1>2. LibrariesAreKept' /\ LoadIsUnderWay'
  BY DEF Inv, LibrariesAreKept, LoadIsUnderWay, Find, Loaders, Rest
<1> QED BY <1>1, <1>2

\* A native the program has loaded may be stored under any name that is free.
LEMMA StoreNameKeeps ==
  ASSUME Inv, NEW n, NEW v \in hand \cup {Other}, StoreName(n, v)
  PROVE  Inv' /\ \A m \in Bound : m \in DOMAIN store' /\ store'[m] = store[m]
<1>1. /\ UNCHANGED <<hand, buckets, loaded, loading>> /\ n \notin Bound
      /\ DOMAIN store' = Bound \cup {n} /\ store'[n] = v
      /\ \A m \in Bound : store'[m] = store[m]
  BY DEF StoreName, With, Bound
<1>2. NativesAreKept'
  BY <1>1, OtherStepsKeep DEF Inv, NativesAreKept, Bound
<1> QED BY <1>1, <1>2, OtherStepsKeep DEF Inv

LEMMA LoadNameKeeps ==
  ASSUME Inv, NEW n, LoadName(n)
  PROVE  Inv' /\ store' = store
<1>1. /\ UNCHANGED <<store, buckets, loaded, loading>>
      /\ n \in Bound /\ store[n] # Other /\ hand' = hand \cup {store[n]}
  BY DEF LoadName
<1>2. NativesAreKept'
  BY <1>1, OtherStepsKeep DEF Inv, NativesAreKept, Bound
<1> QED BY <1>1, <1>2, OtherStepsKeep DEF Inv

LEMMA ForgetKeeps ==
  ASSUME Inv, NEW v, Forget(v)
  PROVE  Inv' /\ store' = store
<1>1. UNCHANGED <<store, buckets, loaded, loading>> /\ hand' \subseteq hand
  BY DEF Forget
<1>2. NativesAreKept'
  BY <1>1, OtherStepsKeep DEF Inv, NativesAreKept, Bound
<1> QED BY <1>1, <1>2, OtherStepsKeep DEF Inv

LEMMA ClearNameKeeps ==
  ASSUME Inv, NEW n, ClearName(n)
  PROVE  Inv' /\ \A m \in DOMAIN store' : m \in Bound /\ store'[m] = store[m]
<1>1. /\ UNCHANGED <<hand, buckets, loaded, loading>>
      /\ \A m \in DOMAIN store' : m \in Bound /\ store'[m] = store[m]
  BY DEF ClearName, Bound
<1>2. NativesAreKept'
  BY <1>1, OtherStepsKeep DEF Inv, NativesAreKept, Bound
<1> QED BY <1>1, <1>2, OtherStepsKeep DEF Inv

LEMMA NothingElseKeeps ==
  ASSUME Inv, UNCHANGED <<store, hand, buckets, loaded, loading>>
  PROVE  Inv'
BY OtherStepsKeep DEF Inv, NativesAreKept, Bound

\* Every step keeps the invariant, and what stays bound stays bound to the same value.
THEOREM StepInv ==
  ASSUME Inv, [Next]_vars
  PROVE  Inv' /\ \A n \in Bound \cap DOMAIN store' : store'[n] = store[n]
<1>1. ASSUME NEW lib \in DOMAIN Library, LoadAgain(lib) \/ Refuse(lib)
      PROVE  Inv' /\ store' = store
  BY <1>1, NothingElseKeeps DEF LoadAgain, Refuse
<1>2. ASSUME NEW lib \in DOMAIN Library, BeginLoad(lib)
      PROVE  Inv' /\ store' = store
  BY <1>2, BeginLoadKeeps DEF BeginLoad
<1>3. CASE RegisterNext
  BY <1>3, RegisterNextKeeps
<1>4. CASE EndLoad
  BY <1>4, EndLoadKeeps DEF EndLoad
<1>5. ASSUME NEW p \in Separate, RegisterSeparately(p[1], p[2])
      PROVE  Inv' /\ \A n \in Bound : store'[n] = store[n]
  BY <1>5, RegisterSeparatelyKeeps
<1>6. ASSUME NEW n \in OwnNames, NEW v \in hand \cup {Other}, StoreName(n, v)
      PROVE  Inv' /\ \A m \in Bound : store'[m] = store[m]
  BY <1>6, StoreNameKeeps
<1>7. ASSUME NEW n \in Bound, ClearName(n)
      PROVE  Inv' /\ \A m \in DOMAIN store' : store'[m] = store[m]
  BY <1>7, ClearNameKeeps
<1>8. CASE UNCHANGED vars
  BY <1>8, NothingElseKeeps DEF vars
<1>9. ASSUME NEW n \in Bound, LoadName(n)
      PROVE  Inv' /\ store' = store
  BY <1>9, LoadNameKeeps
<1>10. ASSUME NEW v \in hand, Forget(v)
       PROVE  Inv' /\ store' = store
  BY <1>10, ForgetKeeps
<1> QED BY <1>1, <1>2, <1>3, <1>4, <1>5, <1>6, <1>7, <1>8, <1>9, <1>10 DEF Next

\* The registry, the store, the natives in hand and a load under way always agree.
THEOREM InvariantHolds == Spec => []Inv
<1>1. Init => Inv
  BY InitInv
<1>2. Inv /\ [Next]_vars => Inv'
  BY StepInv
<1> QED BY <1>1, <1>2, PTL DEF Spec

\* The shape of the state, and of a load under way.
THEOREM TypesAreKept == Spec => []TypeOK
<1>1. ASSUME Inv
      PROVE  TypeOK
  <2>1. loaded \subseteq {lib \in DOMAIN Library : Usable(lib)}
    BY <1>1 DEF Inv, LibrariesAreKept
  <2>2. \A n \in Bound : store[n] = Other \/ store[n][1] = "native"
    BY <1>1 DEF Inv, NativesAreKept, IsKept, Native
  <2>3. \A v \in hand : v[1] = "native"
    BY <1>1 DEF Inv, NativesAreKept, IsKept, Native
  <2>4. loading = Idle \/ /\ loading.lib \in DOMAIN Library /\ Usable(loading.lib)
                          /\ Library[loading.lib].bucket \in DOMAIN buckets
                          /\ \E k \in 1..(Len(Loaders) + 1) : loading.left = Rest(Loaders, k)
    BY <1>1 DEF Inv, LoadIsUnderWay
  <2> QED BY <2>1, <2>2, <2>3, <2>4 DEF TypeOK
<1> QED BY <1>1, InvariantHolds, PTL

(***************************************************************************)
(* The properties the runs check.                                          *)
(***************************************************************************)

\* A native operation that the program can call, under whatever name or from wherever
\* else, is found in the registry under the name it was made with.
THEOREM NativesAreKnown == Spec => []StoredNativesAreKnown
<1>1. ASSUME Inv, NEW v \in NativesHeld
      PROVE  GetOperation(FullyQualifiedName(v[2], v[3]))
  <2>1. PICK b, a : BucketName(b) /\ a \in Seq(STRING) /\ Find(b, a) /\ v = Native(b, a)
    BY <1>1 DEF Inv, NativesAreKept, NativesHeld, IsKept
  <2>2. v[2] = b /\ v[3] = a
    BY <2>1 DEF Native
  <2>3. GetOperation(FullyQualifiedName(b, a))
    BY <2>1, NameIsFound
  <2> QED BY <2>1, <2>2, <2>3
<1>2. Inv => StoredNativesAreKnown
  BY <1>1 DEF StoredNativesAreKnown
<1> QED BY <1>2, InvariantHolds, PTL

\* Every operation of a loaded library is found in the registry.
THEOREM LibrariesAreKnown == Spec => []LoadedLibrariesAreKnown
<1>1. ASSUME Inv, NEW lib \in loaded, NEW i \in DOMAIN Library[lib].loaders
      PROVE  GetOperation(FullyQualifiedName(Library[lib].bucket, Library[lib].loaders[i]))
  <2>1. /\ lib \in DOMAIN Library /\ Usable(lib)
        /\ Find(Library[lib].bucket, Library[lib].loaders[i])
    BY <1>1 DEF Inv, LibrariesAreKept
  <2>2. Library[lib].loaders[i] \in Seq(STRING) /\ BucketName(Library[lib].bucket)
    BY <2>1, AllIsLeft, ElementOfSeq
  <2> QED BY <2>1, <2>2, NameIsFound
<1>2. Inv => LoadedLibrariesAreKnown
  BY <1>1 DEF LoadedLibrariesAreKnown
<1> QED BY <1>2, InvariantHolds, PTL

\* No load and no registration replaces what a program has under a name.
THEOREM NamesAreSafe == Spec => NothingIsReplaced
<1>1. Inv /\ [Next]_vars => [\A n \in Bound \cap DOMAIN store' : store'[n] = store[n]]_vars
  BY StepInv
<1> QED BY <1>1, InvariantHolds, PTL DEF Spec, NothingIsReplaced

\* A library that opens fails for an operation it does not make, or for a name that is taken.
THEOREM FailuresAreExplained == Spec => FailuresHaveACause
<1>. DEFINE Cause ==
       loading # Idle /\ loading' = Idle /\ ~answer'.ok =>
         \E i \in DOMAIN Library[loading.lib].loaders :
           LET name == Library[loading.lib].loaders[i] IN
           name = NoOperation \/ FullyQualifiedName(Library[loading.lib].bucket, name) \in Bound
<1>1. ASSUME Inv, RegisterNext, loading' = Idle
      PROVE  Cause
  <2>1. /\ loading # Idle /\ loading.left # <<>>
        /\ \/ loading' = [loading EXCEPT !.left = Tail(@)]
           \/ ~Registers(Library[loading.lib].bucket, Head(loading.left))
    BY <1>1 DEF RegisterNext
  <2>2. PICK k \in 1..Len(Loaders) : Head(loading.left) = Loaders[k]
    BY <1>1, <2>1, NextLoader
  <2>3. loading.lib \in DOMAIN Library /\ Usable(loading.lib)
        /\ loading = [lib |-> loading.lib, left |-> loading.left]
    BY <1>1, <2>1 DEF Inv, LoadIsUnderWay
  <2>4. loading' # [loading EXCEPT !.left = Tail(@)]
    <3>1. loading'.lib \notin DOMAIN Library
      BY <1>1, LibraryAssumption
    <3>2. [loading EXCEPT !.left = Tail(@)].lib = loading.lib
      BY <2>3
    <3> QED BY <2>3, <3>1, <3>2
  <2>5. k \in DOMAIN Library[loading.lib].loaders
    BY <2>3, AllIsLeft DEF Loaders
  <2> QED BY <2>1, <2>2, <2>4, <2>5 DEF Registers, Loaders
<1>2. ASSUME EndLoad
      PROVE  answer'.ok
  BY <1>2 DEF EndLoad, Answer
<1>3. ASSUME Inv, [Next]_vars, loading # Idle, loading' = Idle
      PROVE  RegisterNext \/ EndLoad
  BY <1>3 DEF Next, vars, LoadAgain, Refuse, BeginLoad, RegisterSeparately, StoreName,
         LoadName, Forget, ClearName
<1>4. Inv /\ [Next]_vars => [Cause]_vars
  BY <1>1, <1>2, <1>3
<1> QED BY <1>4, InvariantHolds, PTL DEF Spec, FailuresHaveACause

=============================================================================
