------------------------------- MODULE Arguments -------------------------------
(***************************************************************************)
(* ArgumentParser (src/args/args.cpp): the words of a command line, sorted *)
(* into options, values of arguments and free inputs, one turn of the loop *)
(* of parse at a time.  A word is a string, "" the empty one or the null   *)
(* pointer that ends argv.                                                 *)
(***************************************************************************)
EXTENDS Naturals, Sequences, FiniteSets

(***************************************************************************)
(* A parser: what is declared, and what parse has found so far.  An option *)
(* or an argument is a number that all its spellings lead to.              *)
(***************************************************************************)
NewParser(dashes) ==
  [dashes |-> dashes, options |-> <<>>, arguments |-> <<>>, allowed |-> <<>>,
   goOn |-> [excess |-> FALSE, noValue |-> FALSE],
   enabled |-> {}, values |-> <<>>, free |-> <<>>, reports |-> <<>>,
   argv |-> <<>>, at |-> 1, inDashes |-> FALSE]

\* emplace leaves a spelling that is taken to its first owner.
Emplace(f, words, id) == [w \in DOMAIN f \cup words |-> IF w \in DOMAIN f THEN f[w] ELSE id]

AddOption(p, words) ==
  [p EXCEPT !.options = Emplace(@, words, Cardinality(DOMAIN @) + 1)]

AddArgument(p, words, n) ==
  [p EXCEPT !.arguments = Emplace(@, words, Len(p.allowed) + 1),
            !.allowed = Append(@, n), !.values = Append(@, <<>>)]

\* What the handlers answer: whether parse goes on after it reported a problem.
Handle(p, excess, noValue) == [p EXCEPT !.goOn = [excess |-> excess, noValue |-> noValue]]

IsOptionSet(p, word) == word \in DOMAIN p.options /\ p.options[word] \in p.enabled
GetArgument(p, word) == IF word \in DOMAIN p.arguments THEN p.values[p.arguments[word]] ELSE <<>>

(***************************************************************************)
(* parse.  "at" is the word the next turn looks at, counted after the name *)
(* of the program; a turn that leaves the loop sets it to 0.               *)
(***************************************************************************)
StartParse(p, argv) == [p EXCEPT !.argv = argv]

AllRead(p) == p.at = 0 \/ p.at > Len(p.argv)
Leave(p)   == [p EXCEPT !.at = 0]
Skip(p)    == [p EXCEPT !.at = @ + 1]

IsEmpty(p, i) == i > Len(p.argv) \/ p.argv[i] = ""

Full(p, id) == p.allowed[id] # 0 /\ p.allowed[id] = Len(p.values[id])

Report(p, kind, word) == [p EXCEPT !.reports = Append(@, <<kind, word>>)]

TakeValue(p, id, i) == [p EXCEPT !.values[id] = Append(@, p.argv[i])]

\* Mutant: the value of an argument is read again as a word of its own.
MutantArgumentTurn(p) ==
  LET q == Skip(p)
  IN  IF IsEmpty(p, q.at) THEN Leave(Report(q, "noValue", p.argv[p.at]))
      ELSE TakeValue(q, p.arguments[p.argv[p.at]], q.at)

\* The word of an argument and the value behind it.
ArgumentTurn(p) ==
  LET word     == p.argv[p.at]
      id       == p.arguments[word]
      q        == Skip(p)
      noValue  == Report(q, "noValue", word)
      excess   == Report(q, "excess", word)
  IN  IF IsEmpty(p, q.at)  THEN IF p.goOn.noValue THEN Skip(noValue) ELSE Leave(noValue)
      ELSE IF Full(p, id)  THEN IF p.goOn.excess THEN Skip(TakeValue(excess, id, q.at))
                                ELSE Leave(excess)
      ELSE Skip(TakeValue(q, id, q.at))

Turn(p) ==
  LET word == p.argv[p.at] IN
  IF IsEmpty(p, p.at)                  THEN Leave(p)
  ELSE IF p.inDashes                   THEN Skip([p EXCEPT !.free = Append(@, word)])
  ELSE IF p.dashes /\ word = "--"      THEN Skip([p EXCEPT !.inDashes = TRUE])
  ELSE IF word \in DOMAIN p.options    THEN Skip([p EXCEPT !.enabled = @ \cup {p.options[word]}])
  ELSE IF word \in DOMAIN p.arguments  THEN ArgumentTurn(p)
  ELSE Skip([p EXCEPT !.free = Append(@, word)])

-----------------------------------------------------------------------------
(***************************************************************************)
(* What a command line means, by the places of its words and without       *)
(* reading them one after the other.  Its words end at the first empty one. *)
(***************************************************************************)
Words(p) == {i \in DOMAIN p.argv : \A j \in 1..i : p.argv[j] # ""}

ArgumentWords(p) == DOMAIN p.arguments \ DOMAIN p.options

\* A word is a value when the run of argument words in front of it is odd.
ValueAt(p, i) ==
  LET runs == {k \in 0..(i - 1) : \A j \in (i - k)..(i - 1) : p.argv[j] \in ArgumentWords(p)}
  IN  (CHOOSE k \in runs : \A l \in runs : l <= k) % 2 = 1

\* The place of the dashes, or one behind the last word.
Dashes(p) ==
  LET d == {i \in Words(p) : p.dashes /\ p.argv[i] = "--" /\ ~ValueAt(p, i)}
             \cup {Len(p.argv) + 1}
  IN  CHOOSE i \in d : \A j \in d : i <= j

\* The words that are looked up: those in front of the dashes that are no values.
Looked(p) == {i \in Words(p) : i < Dashes(p) /\ ~ValueAt(p, i)}

OptionsAt(p)     == {i \in Looked(p) : p.argv[i] \in DOMAIN p.options}
ValuesAt(p, id)  == {i \in Words(p) : /\ i < Dashes(p) /\ ValueAt(p, i)
                                      /\ p.arguments[p.argv[i - 1]] = id}
FreeAt(p)        == {i \in Looked(p) : p.argv[i] \notin DOMAIN p.arguments \cup DOMAIN p.options}
                      \cup {i \in Words(p) : i > Dashes(p)}

\* Every argument has its value, and no more than it may have.
WellFormed(p) ==
  /\ \A i \in Looked(p) : p.argv[i] \in ArgumentWords(p) => i + 1 \in Words(p)
  /\ \A id \in DOMAIN p.allowed :
       p.allowed[id] # 0 => Cardinality(ValuesAt(p, id)) <= p.allowed[id]

WordsAt(p, places) ==
  LET upTo[n \in 0..Len(p.argv)] ==
        IF n = 0 THEN <<>> ELSE upTo[n - 1] \o (IF n \in places THEN <<p.argv[n]>> ELSE <<>>)
  IN  upTo[Len(p.argv)]

Sorted(p) ==
  /\ p.free = WordsAt(p, FreeAt(p))
  /\ \A w \in DOMAIN p.options :
       IsOptionSet(p, w) <=> \E i \in OptionsAt(p) : p.options[p.argv[i]] = p.options[w]
  /\ \A id \in DOMAIN p.values : p.values[id] = WordsAt(p, ValuesAt(p, id))

=============================================================================
