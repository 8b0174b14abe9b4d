--------------------------------- MODULE Wire ---------------------------------
(***************************************************************************)
(* What a Serializer writes (src/stream/serializer.cpp), a ByteStream      *)
(* reads: the items of a script are written one after the other, the file  *)
(* may be cut anywhere (the assembler does not look whether its write went *)
(* well), and the script is read back with the matching calls, stopping at *)
(* the first one that returns nothing, as the loaders do.  An empty script *)
(* stands for a reader that makes whatever calls it likes, of any file.    *)
(***************************************************************************)
EXTENDS ByteStream, SequencesExt

Code == INSTANCE Encoding

CONSTANTS
  Items,      \* the items the program writes
  Scripts,    \* sequences of items to write
  OpenFiles   \* the files read by whatever calls

ASSUME OpenAssumption == OpenFiles \subseteq Files

VARIABLES script, answers

wireVars == <<script, answers, vars>>

Written(item) ==
  CASE item.kind = "number"     -> Code!WriteNumber(item.value, item.width)
    [] item.kind = "identifier" -> Code!WriteIdentifier(item.value, item.marker)
    [] item.kind = "data"       -> Code!WriteData(item.value)
    [] item.kind = "boolean"    -> Code!WriteBoolean(item.value)

File(items) == FlattenSeq([i \in DOMAIN items |-> Written(items[i])])

\* What may be left of a file; nothing at all makes no stream.
Cuts(file) == {SubSeq(file, 1, n) : n \in 1..Len(file)}

\* What can be written so that it can be read: a number in a width there is, a name without
\* its marker, data whose length fits the number in front of it.
IsItem(item) ==
  \/ item.kind = "number" /\ item.value \in Nat /\ item.width \in Widths
  \/ item.kind = "identifier" /\ item.marker \in Bytes /\ item.value \in Seq(Bytes \ {item.marker})
  \/ item.kind = "data" /\ item.value \in Seq(Bytes) /\ Len(item.value) < Radix ^ NumberBytes
  \/ item.kind = "boolean" /\ item.value \in BOOLEAN

\* A boolean is a number of one byte, which tells 0 from 1, and a length has a width there is.
ASSUME ItemAssumption ==
  /\ Radix > 1 /\ {1, NumberBytes} \subseteq Widths
  /\ \A item \in Items : IsItem(item)
  /\ Scripts \subseteq Seq(Items)
  /\ \A s \in Scripts : Cuts(File(s)) \subseteq Files

\* What ^ means, of which the provers know nothing.
ASSUME PowerAssumption ==
  /\ Radix ^ 0 = 1
  /\ \A w \in Widths : \A n \in 0..(w - 1) : Radix ^ (n + 1) = Radix * Radix ^ n

-----------------------------------------------------------------------------
WireInit ==
  /\ script \in Scripts
  /\ answers = <<>>
  /\ data \in IF script = <<>> THEN OpenFiles ELSE Cuts(File(script))
  /\ Opened

NextItem == script[Len(answers) + 1]

Ask ==
  /\ call = "none" /\ Len(answers) < Len(script)
  /\ \A k \in DOMAIN answers : answers[k] # Nothing
  /\ LET item == NextItem IN
     \/ item.kind = "number"     /\ ReadNumber(item.width)
     \/ item.kind = "identifier" /\ ReadIdentifier(item.marker)
     \/ item.kind = "data"       /\ ReadData
     \/ item.kind = "boolean"    /\ ReadBoolean

\* A call of the stream ends in the step that makes call "none" again.
Record == answers' = IF call' = "none" THEN Append(answers, result') ELSE answers

WireNext ==
  /\ \/ script # <<>> /\ (Ask \/ Progress) /\ Record
     \/ script = <<>> /\ Next /\ UNCHANGED answers
  /\ UNCHANGED script

\* The loops run on one thread, which nothing stops, and so does a script's reader.
WireSpec ==
  /\ WireInit
  /\ [][WireNext]_wireVars
  /\ WF_vars(Progress)
  /\ WF_wireVars(script # <<>> /\ WireNext)

-----------------------------------------------------------------------------
Expected(item) ==
  CASE item.kind = "number" -> Some("number", item.value % Radix ^ item.width)
    [] item.kind = "boolean" -> Some("boolean", item.value)
    [] OTHER -> Some("bytes", item.value)

EndOf(k) == Len(File(SubSeq(script, 1, k)))

\* What was written is read, item by item; the first item a cut file does not hold
\* to its last byte, and only that one, reads as nothing.
ReadsWhatWasWritten ==
  \A k \in DOMAIN answers :
    answers[k] = IF EndOf(k) <= Size THEN Expected(script[k]) ELSE Nothing

\* A whole file is read to its end: no item stops the reader half way.
ReadsWholeFile ==
  script # <<>> /\ Size = EndOf(Len(script)) ~> Len(answers) = Len(script)

=============================================================================
