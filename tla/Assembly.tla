------------------------------- MODULE Assembly -------------------------------
(***************************************************************************)
(* A program on its way from text to a machine that can run it.  The       *)
(* assembler (assembler/main.cpp) reads its command line, parses the files *)
(* it names into one machine, a named value at a time, and writes an image *)
(* of it; the write may fail half way, nobody asks.  The runner            *)
(* (runner/main.cpp) loads the image into a machine of its own, again a    *)
(* named value at a time, and executes main.                               *)
(***************************************************************************)
EXTENDS Syntax, Image, CommandLine

CONSTANTS
  Inputs,    \* what the assembler is run on: the words of its command line, the files on
             \* disk, the values they stand for if the files are whole, a bound on the
             \* bytes a failed write loses, and what a byte of the image may be changed to
  Version    \* FORMAT_VERSION

Lex == INSTANCE Lexer

VARIABLES
  inputs,    \* what this run is on: one of Inputs, once a file is opened
  phase,     \* "arguments", "parse", "write", "open", "load", "execute", how
             \* that ended ("started", "refused" or "crashed"), "hung", or "thrown"
             \* when an exception left main
  parser,    \* the parser of the file that is being read
  errors,    \* the errors each file's parser reported
  store,     \* the assembler's value store
  output,    \* the file the image goes to
  file,      \* the image
  reader,    \* the runner's byte stream
  count,     \* how many values the runner loaded
  loaded     \* the runner's value store

textVars  == <<inputs, lineVars, parser, errors>>
imageVars == <<output, file, reader, count, loaded>>
vars      == <<phase, store, textVars, imageVars>>

NoEntries == [x \in {} |-> Null]
Stream(f) == [file |-> f, at |-> 0, v |-> Nothing]

\* ValueStore::store, which never overwrites here.
StoreValue(f, name, v) ==
  IF name \in DOMAIN f THEN f ELSE [x \in DOMAIN f \cup {name} |-> IF x = name THEN v ELSE f[x]]

\* A file that cannot be opened reads as an empty text.
ReadEntireFile(disk, name) == IF name \in DOMAIN disk THEN disk[name] ELSE <<>>

\* What the assembler takes: one file to write to.
AssemblerArguments == AddArgument(NewParser(TRUE), {"-o", "--output"}, 1)

IsAssembler(p) ==
  \A f \in {"dashes", "options", "arguments", "allowed", "goOn"} : p[f] = AssemblerArguments[f]

Init ==
  /\ LineInit
  /\ inputs = <<>>
  /\ phase = "arguments"
  /\ parser = Parsing(<<>>)
  /\ errors = <<>>
  /\ store = NoEntries
  /\ output = "" /\ file = <<>> /\ reader = Stream(<<>>) /\ count = 0
  /\ loaded = NoEntries

(***************************************************************************)
(* The command line, of any program; the assembler goes on from there.     *)
(* What parse returns is not looked at.                                    *)
(***************************************************************************)
TakeArguments ==
  /\ phase = "arguments" /\ LineNext
  /\ UNCHANGED <<phase, store, inputs, parser, errors, imageVars>>

\* The next file, or the image when there is none.
NextFile(disk, f) ==
  IF Len(f) < Len(command.free)
  THEN /\ phase' = "parse"
       /\ parser' = Parsing(Lex!Tokens(ReadEntireFile(disk, command.free[Len(f) + 1])))
  ELSE phase' = "write" /\ UNCHANGED parser

OpenFirst ==
  /\ phase = "arguments" /\ stage = "parse" /\ AllRead(command) /\ IsAssembler(command)
  /\ inputs' \in {i \in Inputs : i.argv = command.argv}
  /\ NextFile(inputs'.disk, errors)
  /\ UNCHANGED <<store, lineVars, errors, imageVars>>

(***************************************************************************)
(* MachineState::load from a parser: one turn of its loop.                      *)
(***************************************************************************)
LoadText ==
  /\ phase = "parse"
  /\ \E r \in {NamedValueFromParser(parser)} :
     /\ Succeeded(r)
     /\ parser' = r
     /\ store' = StoreValue(store, r.v[2], r.v[3])
  /\ UNCHANGED <<phase, inputs, lineVars, errors, imageVars>>

\* The loop stops at the first value that is not there; the assembler goes on with
\* the next file, whatever the errors of this one.
StopText ==
  /\ phase = "parse"
  /\ \E r \in {NamedValueFromParser(parser)} :
     /\ r.v = Null
     /\ errors' = Append(errors, r.errors)
  /\ NextFile(inputs.disk, errors')
  /\ UNCHANGED <<inputs, lineVars, store, imageVars>>

\* A text that the assembler never gets through.
DieOfText ==
  /\ phase = "parse"
  /\ \/ NamedValueFromParser(parser).v = Forever /\ phase' = "hung"
     \/ NamedValueFromParser(parser).v = Thrown /\ phase' = "thrown"
  /\ UNCHANGED <<store, textVars, imageVars>>

(***************************************************************************)
(* MachineState::serialize, in the order of the hash table.                *)
(***************************************************************************)
ImageOf(f, order) ==
  WriteByte(Version) \o Each(LAMBDA n : WriteName(n) \o WriteValue(f[n]), order)

\* The value of -o, if it has exactly one.
OutputFile ==
  LET o == GetArgument(command, "--output") IN IF Len(o) = 1 THEN o[1] ELSE "a.out"

\* What the runner may find of an image: some of it, or all with a byte changed.
Received(f) ==
  {SubSeq(f, 1, n) : n \in {k \in DOMAIN f : k + inputs.maxLost >= Len(f)}} \cup
  {[f EXCEPT ![i] = b] : i \in DOMAIN f, b \in inputs.changes}

WriteImage ==
  /\ phase = "write"
  /\ output' = OutputFile
  /\ \E order \in SE!SetToSeqs(DOMAIN store) : file' \in Received(ImageOf(store, order))
  /\ phase' = "open"
  /\ UNCHANGED <<store, textVars, reader, count, loaded>>

(***************************************************************************)
(* MachineState::load from a byte stream.                                        *)
(***************************************************************************)
OpenImage ==
  /\ phase = "open"
  /\ reader' = ReadByte(Stream(file))
  /\ phase' = IF reader'.v = Some("number", Version) THEN "load" ELSE "execute"
  /\ UNCHANGED <<store, textVars, output, file, count, loaded>>

NamedValueFrom(s) ==
  Then(ReadName(s), LAMBDA n : Then(ValueFrom(n), LAMBDA r :
    Make(r, <<"named", n.v[2], r.v>>)))

LoadValue ==
  /\ phase = "load"
  /\ reader' = NamedValueFrom(reader)
  /\ \/ Failed(reader') /\ phase' = "execute" /\ UNCHANGED <<count, loaded>>
     \/ Threw(reader') /\ phase' = "thrown" /\ UNCHANGED <<count, loaded>>
     \/ /\ ~Failed(reader') /\ ~Threw(reader')
        /\ count' = count + 1
        /\ loaded' = StoreValue(loaded, reader'.v[2], reader'.v[3])
        /\ UNCHANGED phase
  /\ UNCHANGED <<store, textVars, output, file>>

\* MachineState::execute: the class of main is asked for whatever retrieve returns.
\* What main does once it is started is module Machine's.
ExecuteMain ==
  /\ phase = "execute"
  /\ phase' = IF "main" \notin DOMAIN loaded THEN "crashed"
              ELSE IF IsA(loaded["main"], "operation") THEN "started" ELSE "refused"
  /\ UNCHANGED <<store, textVars, imageVars>>

Next == \/ TakeArguments \/ OpenFirst \/ LoadText \/ StopText \/ DieOfText
        \/ WriteImage \/ OpenImage \/ LoadValue \/ ExecuteMain

Spec == Init /\ [][Next]_vars

-----------------------------------------------------------------------------
(***************************************************************************)
(* Properties.                                                             *)
(***************************************************************************)
RECURSIVE Lacks(_), OperationLacks(_), FailsInSilence(_)

\* A null pointer where a value or an operation belongs.
Lacks(v) ==
  \/ v = Null
  \/ IsA(v, "tuple") /\ \E i \in DOMAIN v[2] : Lacks(v[2][i])
  \/ IsA(v, "set") /\ \E x \in v[2] : Lacks(x)
  \/ IsA(v, "table") /\ \E k \in DOMAIN v[2] : Lacks(k) \/ Lacks(v[2][k])
  \/ IsA(v, "operation") /\ OperationLacks(v[2])

OperationLacks(o) ==
  \/ o = Null
  \/ o[1] = "bind" /\ (Lacks(o[2]) \/ OperationLacks(o[3]))
  \/ o[1] = "push" /\ Lacks(o[2])
  \/ o[1] = "iftrue" /\ OperationLacks(o[2])
  \/ o[1] = "call" /\ Lacks(Tuple(o[3]))
  \/ o[1] = "select" /\ (Lacks(<<"table", o[2]>>) \/ (o[3] # Null /\ Lacks(o[3])))
  \/ o[1] = "block" /\ \E i \in DOMAIN o[4] : OperationLacks(o[4][i])

Unchanged == inputs.changes = {}
Whole     == Unchanged /\ Len(file) = Len(ImageOf(store, SE!SetToSeq(DOMAIN store)))
Complete  == phase \in {"execute", "started", "refused", "crashed"} /\ Whole

\* The value of --output, if there is just one.
OutputNamed(p) ==
  LET places == IF "--output" \in DOMAIN p.arguments
                THEN ValuesAt(p, p.arguments["--output"]) ELSE {}
  IN  IF Cardinality(places) = 1 THEN p.argv[CHOOSE i \in places : TRUE] ELSE "a.out"

\* The values the parsers are left with, whatever texts they came from and in
\* whatever order a hash table writes them, are the values the runner loads from a
\* whole image, and it counts each of them once; the image is where the command line
\* says, if it gives every argument its value and no more.  (Not so when the path of a
\* loadnative has a quote in it: the run quoted_path.)
ImageHoldsTheStore ==
  Complete =>
    /\ loaded = store /\ count = Cardinality(DOMAIN store)
    /\ WellFormed(command) => output = OutputNamed(command)

\* From whole texts the runner gets the program they stand for, no error is reported
\* on the way, and its main is started if the texts make main an operation.
RunnerGetsTheProgram ==
  Complete /\ inputs.whole =>
    /\ loaded = inputs.means
    /\ \A i \in DOMAIN errors : errors[i] = <<>>
    /\ phase = "started" => IsA(inputs.means["main"], "operation")
    /\ phase = "refused" => ~IsA(inputs.means["main"], "operation")
    /\ phase = "crashed" => "main" \notin DOMAIN inputs.means

\* A cut image gives some of the values, each as it was saved, or with a bind in it
\* that lacks a part: nothing else is ever made up from what is left, and wherever the
\* cut falls, in the middle of a character too, it makes no exception.
CutLoadsPart ==
  output # "" /\ Unchanged =>
    /\ phase # "thrown"
    /\ \A n \in DOMAIN loaded :
         n \in DOMAIN store /\ (loaded[n] = store[n] \/ (~Whole /\ Lacks(loaded[n])))

\* A value that fails without an error begins at s: one of an unknown type, a block whose
\* list of slots goes on to the end of the text, or a bind with such a part or with a
\* second part that is no operation.
FailsInSilence(s) ==
  LET word   == NextToken(s)[2]
      inside == ConsumeToken(s)
  IN
  /\ PeekIf(s, "IDENTIFIER")
  /\ \/ word \notin TypeWords
     \/ /\ word = "block" /\ PeekIf(inside, "KW_SLOTS")
        /\ \A i \in (inside.at + 2)..Len(s.text) : s.text[i][1] \in {"IDENTIFIER", "COMMA"}
     \/ /\ word = "bind"
        /\ \/ FailsInSilence(inside)
           \/ \E first \in {ValueFromParser(inside)} :
                /\ Succeeded(first)
                /\ \/ FailsInSilence(first)
                   \/ \E second \in {ValueFromParser(first)} :
                        Succeeded(second) /\ ~IsA(second.v, "operation")

\* A string literal that from_bytes throws on.
NotUtf8(token) == token[1] = "STRING" /\ FromString(token[2]) = Thrown

\* Loading a text stops before its end only with an error, but for the value itself that
\* fails in silence; and it ends the assembler just where it comes to a string that is
\* not UTF-8, which is read over nowhere but in the path of a loadnative.
StopsAreReported ==
  phase = "parse" => \A r \in {NamedValueFromParser(parser)} :
    /\ r.v = Null /\ ~AtEnd(parser) =>
         r.errors # <<>> \/ FailsInSilence([parser EXCEPT !.at = @ + 2])
    /\ r.v = Thrown => /\ NotUtf8(r.text[r.at])
                       /\ r.text[r.at - 1] = <<"IDENTIFIER", "string">>
    /\ \A i \in (parser.at + 1)..r.at : NotUtf8(r.text[i]) =>
         r.text[i - 1] = <<"IDENTIFIER", "loadnative">> \/ (i = r.at /\ r.v = Thrown)

\* The parser hangs at a token, not at the end of the text, and only at one that does
\* not belong in the list of slots it stands in.
SlotsBegin(r) ==
  {i \in 1..r.at : /\ r.text[i][1] = "KW_SLOTS"
                  /\ \A j \in (i + 1)..r.at : r.text[j][1] \in {"IDENTIFIER", "COMMA"}}
HangsInSlots ==
  phase = "hung" => \A r \in {NamedValueFromParser(parser)} :
    /\ SlotsBegin(r) # {} /\ ~AtEnd(r)
    /\ NextToken(r)[1] \notin {"IDENTIFIER", "COMMA", "OPEN_BLOCK"}

\* The errors of a file all come from the place where reading it stopped, and each
\* shows the last four tokens that were read there: what went well before left none,
\* and nothing is read after the first.
ErrorsPointAtTheStop ==
  phase = "parse" => \A r \in {NamedValueFromParser(parser)} :
    /\ parser.errors = <<>>
    /\ r.v # Null => r.errors = <<>>
    /\ \A i \in DOMAIN r.errors :
         /\ Len(r.errors[i]) = IF r.at < 4 THEN r.at ELSE 4
         /\ SE!IsSuffix(r.errors[i], SubSeq(r.text, 1, r.at))

=============================================================================
