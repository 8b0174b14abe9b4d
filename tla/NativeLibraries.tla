---------------------------- MODULE NativeLibraries ----------------------------
(***************************************************************************)
(* The registry of native operations (src/native/native_operations.cpp):   *)
(* buckets of operations, libraries that fill them, and the value store    *)
(* through which programs reach them under their qualified names.          *)
(*                                                                         *)
(* A name is a sequence of characters: what getOperation makes of one      *)
(* depends on where two colons stand in it.  Two operations a creator      *)
(* makes are equal (Native::equals), and one stands for both.              *)
(***************************************************************************)
EXTENDS Integers, Sequences, FiniteSets

CONSTANTS
  Library,    \* what dlopen and krakatau_load make of the name of a library
  Separate,   \* buckets and operations that the embedding program registers
  OwnNames,   \* names the program stores values under
  MaxHand     \* a bound on the natives it holds outside its store

VARIABLES
  store,     \* the value store
  hand,      \* the natives the program has loaded from its store, and still holds
  buckets,   \* mLoaderNamespaces: the mOperations of every bucket
  loaded,    \* mNativeLibraries
  loading,   \* the library that is being loaded and the loaders that are left of it
  answer     \* what the last call returned, and the error it pushed

vars == <<store, hand, buckets, loaded, loading, answer>>

\* A library that cannot be loaded: "slash", "absent", "no_entry", "declines".
Unusable == {"slash", "absent", "no_entry", "declines"}
Kind(lib)  == Library[lib].kind
Usable(lib) == Kind(lib) = "library"

\* A creator that makes nothing.
NoOperation == <<>>
Idle        == [lib |-> "", left |-> <<>>]
Separator   == <<":", ":">>

\* The places where a name has a separator.
Separators(name) ==
  {i \in DOMAIN name : i + 1 \in DOMAIN name /\ name[i] = ":" /\ name[i + 1] = ":"}

\* getOperation finds a bucket whose name has a character, no separator and no colon at
\* its end; that of an operation may have any.
BucketName(b) == /\ b \in Seq(STRING) /\ b # <<>>
                 /\ Separators(b) = {} /\ b[Len(b)] # ":"

ASSUME LibraryAssumption ==
  /\ \A lib \in DOMAIN Library : Usable(lib) \/ Kind(lib) \in Unusable
  /\ Idle.lib \notin DOMAIN Library
ASSUME NamesAssumption ==
  /\ \A lib \in DOMAIN Library : Usable(lib) =>
       BucketName(Library[lib].bucket) /\ Library[lib].loaders \in Seq(Seq(STRING))
  /\ \A p \in Separate : BucketName(p[1]) /\ p[2] \in Seq(STRING)

FullyQualifiedName(bucket, name) == bucket \o Separator \o name
Native(bucket, name) == <<"native", bucket, name>>
Other == <<"other">>

Answer(ok, error) == [ok |-> ok, error |-> error]
Bound == DOMAIN store
With(f, x, v) == [y \in DOMAIN f \cup {x} |-> IF y = x THEN v ELSE f[y]]

Init ==
  /\ store = [n \in {} |-> Other]
  /\ hand = {}
  /\ buckets = [b \in {} |-> {}]
  /\ loaded = {}
  /\ loading = Idle
  /\ answer = Answer(TRUE, "")

-----------------------------------------------------------------------------
(***************************************************************************)
(* Looking names up.                                                       *)
(***************************************************************************)
\* Mutant: a bucket that is there is made anew.
MutantCreate(bucket) == With(buckets, bucket, {})
Create(bucket) == IF bucket \in DOMAIN buckets THEN buckets ELSE With(buckets, bucket, {})

Find(bucket, name) == bucket \in DOMAIN buckets /\ name \in buckets[bucket]

\* Without a separator, npos counts as the place of one: the whole name is the bucket
\* and all but its first character the operation.
GetOperation(name) ==
  LET at == Separators(name) IN
  IF at = {} THEN name # <<>> /\ Find(name, Tail(name))
  ELSE LET i == CHOOSE i \in at : \A j \in at : i <= j
       IN  i > 1 /\ Find(SubSeq(name, 1, i - 1), SubSeq(name, i + 2, Len(name)))

-----------------------------------------------------------------------------
(***************************************************************************)
(* Bucket::newOperation: the bucket keeps what it has, and so does the     *)
(* store.                                                                  *)
(***************************************************************************)
\* Mutant: the bucket decides whether the operation is new.
MutantRegisters(bucket, name) == name # NoOperation /\ ~Find(bucket, name)
Registers(bucket, name) == name # NoOperation /\ FullyQualifiedName(bucket, name) \notin Bound

NewOperation(known, bucket, name) ==
  /\ buckets' = IF name = NoOperation THEN known ELSE [known EXCEPT ![bucket] = @ \cup {name}]
  /\ store' = IF ~Registers(bucket, name) THEN store
              ELSE With(store, FullyQualifiedName(bucket, name), Native(bucket, name))

(***************************************************************************)
(* NativeOperations::loadNativeLibrary, called by loadnative; each turn of *)
(* the loop over the loaders is a step.                                    *)
(***************************************************************************)
LoadAgain(lib) ==
  /\ loading = Idle /\ lib \in loaded
  /\ answer' = Answer(TRUE, "")
  /\ UNCHANGED <<store, hand, buckets, loaded, loading>>

ErrorOf(kind) == CASE kind = "slash"    -> "SYNTAX_ERROR"
                   [] kind = "absent"   -> "NOT_FOUND"
                   [] kind = "no_entry" -> "NOT_IMPLEMENTED"
                   [] kind = "declines" -> "UNEXPECTED_RESULT"

Refuse(lib) ==
  /\ loading = Idle /\ lib \notin loaded /\ ~Usable(lib)
  /\ answer' = Answer(FALSE, ErrorOf(Kind(lib)))
  /\ UNCHANGED <<store, hand, buckets, loaded, loading>>

BeginLoad(lib) ==
  /\ loading = Idle /\ lib \notin loaded /\ Usable(lib)
  /\ buckets' = Create(Library[lib].bucket)
  /\ loading' = [lib |-> lib, left |-> Library[lib].loaders]
  /\ UNCHANGED <<store, hand, loaded, answer>>

RegisterNext ==
  /\ loading # Idle /\ loading.left # <<>>
  /\ LET bucket == Library[loading.lib].bucket
         name   == Head(loading.left)
     IN  /\ NewOperation(buckets, bucket, name)
         /\ \/ /\ Registers(bucket, name)
               /\ loading' = [loading EXCEPT !.left = Tail(@)]
               /\ UNCHANGED answer
            \/ /\ ~Registers(bucket, name)
               /\ loading' = Idle
               /\ answer' = Answer(FALSE, "UNEXPECTED_RESULT")
  /\ UNCHANGED <<hand, loaded>>

EndLoad ==
  /\ loading # Idle /\ loading.left = <<>>
  /\ loaded' = loaded \cup {loading.lib}
  /\ loading' = Idle
  /\ answer' = Answer(TRUE, "")
  /\ UNCHANGED <<store, hand, buckets>>

(***************************************************************************)
(* What else happens between loads: the embedding program registers        *)
(* operations one by one, and the running one loads, stores and clears     *)
(* names; what it loaded it may store under any other.                     *)
(***************************************************************************)
RegisterSeparately(bucket, name) ==
  /\ loading = Idle
  /\ NewOperation(Create(bucket), bucket, name)
  /\ UNCHANGED <<hand, loaded, loading, answer>>

LoadName(name) ==
  /\ loading = Idle /\ name \in Bound /\ store[name] # Other
  /\ hand' = hand \cup {store[name]}
  /\ Cardinality(hand') <= MaxHand
  /\ UNCHANGED <<store, buckets, loaded, loading, answer>>

\* The program drops the last pointer it had to it.
Forget(native) ==
  /\ loading = Idle
  /\ hand' = hand \ {native}
  /\ UNCHANGED <<store, buckets, loaded, loading, answer>>

StoreName(name, v) ==
  /\ loading = Idle /\ name \notin Bound
  /\ store' = With(store, name, v)
  /\ UNCHANGED <<hand, buckets, loaded, loading, answer>>

ClearName(name) ==
  /\ loading = Idle /\ name \in Bound
  /\ store' = [n \in Bound \ {name} |-> store[n]]
  /\ UNCHANGED <<hand, buckets, loaded, loading, answer>>

Next ==
  \/ \E lib \in DOMAIN Library : LoadAgain(lib) \/ Refuse(lib) \/ BeginLoad(lib)
  \/ RegisterNext \/ EndLoad
  \/ \E p \in Separate : RegisterSeparately(p[1], p[2])
  \/ \E n \in OwnNames : \E v \in hand \cup {Other} : StoreName(n, v)
  \/ \E n \in Bound : LoadName(n) \/ ClearName(n)
  \/ \E v \in hand : Forget(v)

Spec == Init /\ [][Next]_vars

-----------------------------------------------------------------------------
(***************************************************************************)
(* Properties.                                                             *)
(***************************************************************************)
Rest(s, k) == SubSeq(s, k, Len(s))
Loaders    == Library[loading.lib].loaders

TypeOK ==
  /\ loaded \subseteq {lib \in DOMAIN Library : Usable(lib)}
  /\ \A n \in Bound : store[n] = Other \/ store[n][1] = "native"
  /\ \A v \in hand : v[1] = "native"
  /\ loading = Idle \/ /\ loading.lib \in DOMAIN Library /\ Usable(loading.lib)
                       /\ Library[loading.lib].bucket \in DOMAIN buckets
                       /\ \E k \in 1..(Len(Loaders) + 1) : loading.left = Rest(Loaders, k)

\* A native operation that the program can call, under whatever name it has stored it or
\* wherever else it holds it, is one the registry finds under the name it was made with,
\* whatever was cleared and loaded again, and whichever libraries share its bucket.
NativesHeld == hand \cup ({store[n] : n \in Bound} \ {Other})
StoredNativesAreKnown ==
  \A v \in NativesHeld : GetOperation(FullyQualifiedName(v[2], v[3]))

\* Every operation of a library that counts as loaded can be found in the registry.
LoadedLibrariesAreKnown ==
  \A lib \in loaded : \A i \in DOMAIN Library[lib].loaders :
    GetOperation(FullyQualifiedName(Library[lib].bucket, Library[lib].loaders[i]))

\* A library that opens fails to load only when it makes an operation less than it
\* promised, or when a name it asks for is taken: what an earlier failure of it left in
\* its bucket is no reason, once the program has cleared the names.
FailuresHaveACause ==
  [][loading # Idle /\ loading' = Idle /\ ~answer'.ok =>
       \E i \in DOMAIN Library[loading.lib].loaders :
         LET name == Library[loading.lib].loaders[i] IN
         name = NoOperation \/ FullyQualifiedName(Library[loading.lib].bucket, name) \in Bound]_vars

\* Loading replaces nothing a program already has under a name.
NothingIsReplaced ==
  [][\A n \in Bound \cap DOMAIN store' : store'[n] = store[n]]_vars

=============================================================================
