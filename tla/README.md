# Krakatau: a verification project

Krakatau is a stack language: a program is a store of named values, a value may
be an operation, and an operation may be a block of other operations. An
assembler turns text into an image, a runner loads an image and executes `main`.
These modules model the language's machine and the road a program takes to it.
They are checked with TLC on small instances, and the machine, the stack operations, the
listeners, the byte stream, the command line, the shared files and the native libraries are
proved about with TLAPS for every instance.

Paths below are relative to the repository (`src/` and `include/` are its
library, `runner/` and `assembler/` its programs).

## 1. The system

| Component | State it keeps | Operations | What makes it correct |
|---|---|---|---|
| Stack (`src/stack`) | a stack of shared values | push, peek, pop, reset, hasAtLeast | a pop from an empty stack is a null that every caller must expect |
| Stack operations (`src/operation`: arithmetic, logic, eq, typecast, at, find, append, pack, ...) | none | one `doExecute` each, behind a precondition on the height of the stack | a failure puts back what it popped and says why; nothing below the arguments changes |
| Blocks, calls, loops (`block`, `exec`, `iftrue`, `call`, `select`, `bind`, `map`, `filter`, `reduce`, `native`) | the C++ stack; every `Block`'s slot tables | `doExecute`, which executes other operations | jumps stay in their block, every way out unwinds, loops stay in step with their items |
| Values (`src/value`) | numbers, strings, tuples, sets, tables, operations, ... | equals, hash, clone, find, append, iterate, typecast, serialize, parse | no set or table holds an entry twice; equal values hash alike |
| Machine state, value store (`src/machine/state.cpp`, `value_store.cpp`) | stack, names and their values, slots, listeners | execute, load, serialize, store, retrieve, clear | a name keeps its value while it is bound; an image holds the store |
| Listeners: slots handler, tracer (`slots_handler.cpp`, `tracer.cpp`, the list in `state.cpp`) | the list; the machine's stack of slot tables; the tracer's records | appendListener, removeListener; called back on entering and leaving a block and before each operation | one slot table and one record per block in progress, whoever else comes and goes |
| Native libraries (`src/native`, `loadnative`) | buckets of operations, libraries loaded | create, newOperation, getOperation, loadNativeLibrary | registry and value store agree; loading replaces nothing |
| Byte stream, serializer (`src/stream`) | a mapped file and an offset | peek, next, and reads of numbers, names, data, booleans; the writes that match | no read past the end; what was written is read; every loop ends |
| Parser, lexer (`src/parser`, `include/parser/header.l`) | the tokens left, the errors so far with their context | tokenize, peekIf, nextIf, parseValue; a `fromParser` in every class | what it reads is what the text says, and a stop is reported where it happened |
| Loaders (`op_loader.cpp`, `value_loader.cpp`) | constant tables from markers, numbers and words to classes | fromByteStream, fromParser | writer and reader choose the same class |
| Argument parser (`src/args`) | options and arguments declared, enabled, collected; free inputs | addOption, addArgument, parse, the handlers | every word is taken as it says, or complained about |
| Shared file (`src/stream/shared_file.cpp`) | a FILE, whether it is owned, and whoever made it | owned, unowned, copies, assignment, release; the parser's buffer | an owned file is closed once, with its last holder; an unowned one never |
| Indenting stream (`src/stream/indenting_stream.cpp`), `describe` | a text and a depth of indentation | append, indent, unindent | a block in a block is indented by its depth |
| Error codes, rtti, uniq | constants; nothing; a table of unique values | - | - |
| Assembler, runner (`assembler/main.cpp`, `runner/main.cpp`) | one machine each | texts to image; image to a run of `main` | the runner runs the program the texts say |

**How they interact.** There are no threads. The components meet in five ways:
the C++ recursion of `Operation::execute` (a block runs operations, which run
operations); the listeners, called back in the middle of it
(`onEnteringBlock`, `onExecutingOperation`, `onLeavingBlock`), through which
`SlotsHandler` moves values from the stack to a slot table; the value store,
which programs, `call`, libraries and both loaders write to; shared pointers, with which
a value, a listener or a file belongs to several of them; and the image, the only
thing that passes from the assembler's process to the runner's.

**What is hard in it.**

* A block has five ways out and one way to stay, and each may have to travel
  through pending `map`, `filter` and `reduce` loops, which turn it into an error.
* A `Block` object may be entered while it is in progress. Its slot tables sit in
  two places, one of which is never cleaned up.
* Operations pop before they check, so every error path has to restore what the
  checks took, from variables, in the right order.
* Nulls. An empty stack pops a null, an optional part reads as one, and `equals`,
  `hash` and `clone` follow what is inside a value without asking.
* The equality of tables is not symmetric, that of what holds them is not either, and
  sets and tables look their entries up with it.
* The conversion between UTF-8 and characters throws, and nobody catches.
* Writer and reader of every class are two functions that have to agree byte by
  byte, and an image may have lost its tail: nobody looks at what `fwrite` returns.
* Lengths and offsets are `size_t`, added without a look at overflow.
* Parsing fails by returning null all the way up, and loops look at one token
  until they like it.
* The order of a hash table is in every image and every iteration.
* Values are immutable and shared, but containers are filled in place: whoever fills
  one has to be its only owner.
* The list of listeners is walked by position while a listener may change it, and
  `removeListener` moves elements without shortening the list.
* The deleter of a shared FILE asks an object that may have been assigned, released
  or destroyed since.
* A native library that fails half way has registered some of its operations.

`PROJECT.json` lists each of these as a hazard, at its line, with the properties
that would show it going wrong.

## 2. The modules

### The machine

* `Value`: the values as tagged tuples; containers; conversion. A null pointer is the value
  `Null`. What has to walk a value to any depth (`Compare`, `HashAlike`, `Hashed`, `Intact`,
  `Encodable`, `Describe`, `Parsed`, and `Machine`'s `Whole`) is an operator constant, so
  that these modules and those above them hold no recursion and can be proved about.
* `DeepValue`: those operators for the checked instances: `equals` with its three
  outcomes (equal, different, a dereferenced null), hashing as "would have the same
  hash", `Hashed` (no null where `hash` goes), `Intact` (none where `clone` or `describe` go,
  which look into operations too), `Whole` (none anywhere, reached by them or not) and
  `Encodable` (no character that UTF-8 has no bytes for).
* `Description`: `describe` of every value and operation, through the buffer and the
  indentation of `IndentingStream`; what a typecast to string returns. The runs that
  look at no text take a simpler `Describe`.
* `Operations`: one action per `doExecute` that sees only the stack.
  `RejectArguments` is the precondition of `BaseOperation::execute`,
  `EndProcess` the operands that are used unchecked: a null is dereferenced, or a text
  cannot be converted and an exception leaves `main`.
* `Machine`: everything else that executes. The C++ stack becomes data: `acts`
  holds one activation per `Block::doExecute` in progress, with the index of its
  loop and the `map`, `filter` and `reduce` loops running in it. `mode` says where
  the C++ code is: `execute` when an operation has just been called, a
  result (`SUCCESS`, `AGAIN`, `HALT`, ...) when one has just come back, `fetch` and
  `iterate` at the heads of loops, `idle` between calls of
  `MachineState::execute`, and `undefined` once a null was dereferenced or an exception thrown.

  | Code | Model |
  |---|---|
  | `MachineState::execute` | `Execute`, `Finish` |
  | `Block::doExecute` with `onEnteringBlock`, `newSlot`, `pushSlot`, `loadSlots`, the tracer | `EnterBlock` |
  | the head of its loop, its switch, its `out:` | `FetchOperation`, `BlockResult`, `EndOfBlock`, `LeaveBlock` |
  | `exec`, `iftrue`, `call`, `select`, `bind`, native operations | `Exec`, `IfTrue`, `Call`, `Select`, `PartialBind`, `Native` |
  | `load`, `store`, `clear`, `loadslot`, `storeslot` | `Load`, `Store`, `Clear`, `LoadSlot`, `StoreSlot` |
  | `map`, `filter`, `reduce` up to their loop; a turn of it; its end; what the callback returned | `Map`, `Filter`, `Reduce`; `NextItem`; `EndLoop`; `CallbackResult` |
  | `MachineState::mSlots`, `Block::mSlots`, the tables themselves | `slots`, `owned`, `tables` |
  | `MachineTracer::mRecords` | `records` |

* `CallStack`: the abstract specification of a run as a listener sees it: blocks
  are entered and left in stack order, and once a halt or an error has come back
  nothing is entered again and nothing becomes a success.
* `Boxes`: the values once more, as the code keeps them: objects on the heap that
  stacks, containers and operations share. It has the operations that move, take apart
  or grow a value, `append` turn by turn (`AppendItem`), and `clone` where the code
  clones. `Operations` is its abstract specification: `Denotes` maps a reference to the
  value it stands for.
* `Listeners`: the list of listeners as the vector it is, with its capacity:
  `AppendListener`, `RemoveListener` (what `std::remove` leaves behind the elements it
  keeps), an event told to one listener after the other (`Deliver`), and listeners
  that add or remove others while they are called. `Machine` has the same
  `SlotsHandler` and `MachineTracer` with an unchanging list.
* `MCMachine`, `MCOperations`, `MCBoxes`, `MCListeners`: the programs, native operations,
  stacks and tracers of the runs.
* `OperationsProofs`, `MachineProofs`, `ListenersProofs`: the theorems of section 5.
  `DataLemmas`: induction over the natural numbers in a form the provers can
  use.

### From text to a running program

* `Encoding`: the bytes of a number, a name, a block of data, a boolean, and what
  reading them from a given place in a file gives: functions, no state.
* `ByteStream`: the stream as the code has it, `mOffset` and a step for each turn of
  a loop; sums wrap at `Word`.
* `Cursor`: the abstract specification of the stream: a file, a position, and a step
  per call that does what `Encoding` says. `ByteStream` is checked and proved to implement it.
* `Wire`: `Encoding` writes a script of items, the file is cut, `ByteStream` reads
  it back with the matching calls. `IsItem` says what can be written so that it can be read:
  no marker in a name, no more data than its length can say. With an empty script the reader
  makes whatever calls it likes of any file, so that `MCByteStream` is one run of both.
* `ByteStreamProofs`: the theorems about the stream, `Cursor` among them.
* `Arguments`: `ArgumentParser` as a record and a function from it to what it is after
  one more turn of the loop in `parse`; and what a command line means, by the places of its
  words (`Looked`, `OptionsAt`, `ValuesAt`, `FreeAt`), without reading them one after the other.
* `CommandLine`: a parser in a program's hands: options, arguments and handlers are declared
  in any order (`DeclareOption`, `DeclareArgument`, `DeclareHandlers`), then a command line is
  parsed (`Parse`, `ReadArgument`). `CommandLineProofs`: the theorem about it.
* `Lexer`: from bytes to tokens: one rule per first byte, longest match, and what
  becomes of bytes no rule matches.
* `Utf8`: bytes to characters and back, and the exception for bytes that stand for none.
* `Image`: `serialize` and `fromByteStream` of every value and operation, over
  `Encoding`. `Syntax`: `fromParser` of every value and operation over tokens, with the
  errors each reports and the context the parser has by then.
* `Assembly`: composes these. It extends `CommandLine`: any program takes its command line
  (`TakeArguments`), and one that declared what the assembler does goes on: its loop
  over the files it names (`OpenFirst`, `LoadText`, `StopText`), the value store, the
  write that may lose its tail (`WriteImage`, in any order of the store), the
  runner's version check and its loop (`OpenImage`, `LoadValue`), and the start of
  `main` (`ExecuteMain`). `DieOfText` is a parser that never returns, or one that comes to a
  string that is not UTF-8.
* `SharedFile`: the variables of type `SharedFile` that a host has, the `shared_ptr`s they
  hold, and the buffers of parsers. Each statement (make, copy, assign, renew, release,
  the end of a scope) is an action; a deleter it sets off is one of its own (`Delete`,
  or `Dangle` when the maker it would ask is gone), before the next statement.
* `SharedFileProofs`: the theorems about it.
* `NativeLibraries`: the registry, the value store around it, and
  `loadNativeLibrary` as one step per operation registered, so that a failure half
  way is a state; in between, the program stores and clears names, loads natives from
  them (`LoadName`, `Forget`) and stores those under other names, and the embedding
  program registers operations of its own.
* `NativeLibrariesProofs`: the theorems about it.

### Choices a reader should know

* *Undefined behaviour.* A dereferenced null moves the machine to `undefined` and
  the model says nothing of what follows; so does an exception nobody catches. A lookup
  hashes its key, so a null in a key, where `hash` goes, is a fault even in an empty
  container. A lookup that could come to an entry it cannot compare is taken to come to it.
* *Lookups* ask the key whether it equals an entry of its hash, as libstdc++ does
  (`key.equals(entry)`); with equality as it is, a library that asks the entry would find
  others. Of several entries that match any may be found, so an operation that looks up is
  nondeterministic there; a comparison of two tables takes one of them, always the same.
  `clone` adds the entries of a set or table to a new one, in any order, and may lose some;
  what is inside an entry is taken to be copied whole, and `Boxes` copies in one order.
* *Identity.* A clone of a block shares the identity of the original; this only
  shows in `Block::mSlots`, which no lookup reads after a clone. `NewBlock` stands
  for the blocks made by a typecast or a loader.
* *Order.* Iterating over a set or a table sees its items in any order. Inside an
  image one order is taken for sets and tables; the store's own order is free.
* *Hashes.* Accidental collisions are left out: the equater would reject them.
* *Tracer.* One `MachineTracer` is attached from the start; without it `records`
  would only be missing.
* *Native operations* push some values and return some result; a constant lists the
  effects each may have. What `dlopen` and `krakatau_load` make of a library's
  name is a constant, too (`Library`). Two operations of one creator are
  `Native::equals`, and one stands for both.
* *Names and text.* Names are strings, spelled in bytes by the constant `Spelling`;
  what nobody spells reads as `"?"`. `MCAssembly` spells texts out in bytes, and a text
  that is damaged loses, repeats or changes a token, or has one byte replaced. Digits
  that `strtoull` would not read whole get a value of their own (`Malformed`). Strings are
  characters in the machine and UTF-8 in texts and images. The library rejects codes
  that are too long, too large or of a surrogate; libstdc++ drops a last character that is cut
  (`DropsTail`), others throw. `Encodable` asks only for the upper bound, since libraries
  differ on surrogates, and no sample holds one; `Boxes` has no text that UTF-8 cannot hold.
  In `NativeLibraries` a name is a sequence of characters, and `::` two of them.
* *Files.* `SharedFile` opens each file once and gives it to one `SharedFile`; `Destroy`,
  `Assign` and `Renew` are the compiler's own members, as the class declares none. That
  the `FileBuffer` of a parser outlives it is the code's: `~Parser` calls `release()` on
  the `unique_ptr` that holds it (`src/parser/parser.cpp:80`), where `reset()` would
  delete it.
* *A maker that is gone* is undefined behaviour only when a deleter asks it;
  `undefined` records that, and no statement follows.
* *Mutants.* Operators called `Mutant...` are not part of any specification. Each is
  a definition of the model with a plausible bug in it, put next to the original;
  with it in the original's place TLC finds the property named in `PROJECT.json`
  violated.

## 3. What is checked

`tlc -config <run>.cfg <module>.tla` for each line; together they take several
minutes, most of it in `boxes` and `assembly`. These runs do without deadlock checking,
because in each of these systems the process may stop: the embedding program makes no
further call, a file has been read, or a null was dereferenced.

| Run | Module | Instance | States | Shows |
|---|---|---|---|---|
| `machine_control` | MCMachine | a block that calls itself; two nested blocks whose natives return every result there is; programs that store, clear, load, call, bind and select; bare operations; up to 3 calls of `execute` | 71,135 | `TypeOK`, `SlotsFollowActivations`, `SlotTablesDistinct`, `OnlyCurrentSlotChanges`, `BlocksContainJumps`, `BindingsAreImmutable` |
| `machine_loops` | MCMachine | map, filter, reduce over six containers with ten callbacks, and breaks out of two levels; fair | 28,804 | `LoopsKeepCount`, `ErrorsAreExplained`, `NullsHaveACause`, `ImplementsCallStack`, `Returns` |
| `operations` | MCOperations | every stack operation on every stack of up to two of the sample values, some of three; two operations of which one equals the other and not the other way round, together in sets and tables; descriptions of nested blocks | 89,801 | `EntriesAreDistinct`, `FailureRestoresOperands`, `RestIsUntouched`, `TextsAreIndented` |
| `boxes` | MCBoxes | thirteen programs over a few constants, each with one kind of container to share and grow or one kind of operation that holds a value | 814,436 | `BoxesAreImmutable`, `ImplementsValues` |
| `listeners` | MCListeners | the slots handler, two tracers, a block that enters itself; fair | 261,482 | `SlotsFollowTheBlocks`, `TracersSeeTheirBlocks`, `NullsAreFatal` |
| `byte_stream` | MCByteStream | bytes 0..2, sizes modulo 27; every call on short files and on longer ones whose lengths are right, too large, or wrap; scripts of up to two items, cut anywhere; fair | 30,889 | `TypeOK`, `NoReadPastEnd`, `ReadsWhatWasWritten`, `ImplementsCursor`, `CallsReturn`, `ReadsWholeFile` |
| `assembly` | MCAssembly | programs with every class of value and every form of operation, every order of the store, every tail lost; their texts with one token lost, doubled, changed, the rest cut off, or a byte spoilt; an image with a byte changed; short command lines, of the assembler and of programs that declare other options, arguments and handlers | 286,788 | `ImageHoldsTheStore`, `RunnerGetsTheProgram`, `CutLoadsPart`, `StopsAreReported`, `HangsInSlots`, `ErrorsPointAtTheStop`, `CommandLineIsTaken` |
| `shared_file` | MCSharedFile | three variables, two files, one parser | 81,842 | `OpenWhileHeld`, `FilesCloseAsOwned`, `ParserFilesAreSafe` |
| `native_libraries` | MCNativeLibraries | eight libraries that share a bucket, clash, repeat or lack an operation, or cannot be opened; two names of the program's own, one native in its hand | 979,072 | `StoredNativesAreKnown`, `LoadedLibrariesAreKnown`, `FailuresHaveACause`, `NothingIsReplaced` |

What the properties say is in the comment before each of them. The ones worth
knowing:

* `SlotsFollowActivations`: on every way out of a block, through any number of
  loops, the slots and the tracer's records are unwound with the activation.
* `OnlyCurrentSlotChanges`: although `Block::mSlots` is never popped and
  `Block::currentSlot` is the callee's table after a recursive call has returned, a
  step changes no table but the innermost activation's.
* `ImplementsCallStack`: a run whose fate is a halt or an error enters no block
  again. It is why `map` turns a callback's halt into an error instead of going on.
* `NullsHaveACause`: there are four holes through which a null reaches a machine that has
  none: a callback of `map` or `reduce` that leaves the stack empty, a missing name, a
  `select` on an empty stack, a slot asked for outside every block. There is no fifth.
  Without a null one thing more ends the process: a typecast to string, or a parse, of a
  text with a character past the last of Unicode (the program `Untold` of `MCMachine`).
  A machine has none when there is none in anything a program can get at (`NoNulls`),
  at whatever depth: a null that nothing looks at in a table's value, where a typecast of a
  pair may put one, is out again with the next `at` (the program `Hidden` of `MCMachine`).
* `BoxesAreImmutable`: whatever object anything but the operation in progress can
  reach is the same object for ever, although containers are filled in place; `append`
  would break it, did it not copy first. `ImplementsValues` says that
  nothing could tell the difference: the machine over references is the machine over values.
* `TracersSeeTheirBlocks`: a tracer that was appended in the middle of a run knows the
  blocks entered since, and stays right even when it is moved in the list while others
  are told. `NullsAreFatal`: what `removeListener` leaves behind ends the process at the
  next event.
* `FailureRestoresOperands`, `RestIsUntouched`: for all the operations at once.
  They concern the operations in `Operations`; `map`, `filter` and `reduce` also
  fail in the middle, above whatever the callback left, and for them
  `ErrorsAreExplained` holds.
* `ImageHoldsTheStore` and `RunnerGetsTheProgram`: the first compares the runner's
  store with the assembler's, whatever texts it came from, and says which file the image is
  in; the second compares it with what the texts mean.
* `CutLoadsPart`: a cut image gives nothing that was not saved, but for a
  bind that lacks a part, which `PartialBind::fromByteStream` hands out; and no cut makes
  an exception, because a string is read with its length or not at all.
* `StopsAreReported`, `HangsInSlots`: loading a text stops early only with an error. There
  are three exceptions, and `FailsInSilence` says of the value the loader stopped at that it
  is one of them: a word that is no type, a list of slots up to the end of the text, and a
  bind with such a part or with a second part that is no operation. A string literal that is
  not UTF-8 ends the assembler, just where it comes to it; none is passed over but
  in the path of a `loadnative`, which is not converted. A parser hangs in one loop only,
  over the slot names of a block. `ErrorsPointAtTheStop` ties the errors to what was being read.
* `CommandLineIsTaken`: what an `ArgumentParser` made of a command line, compared with a
  definition that says what each word means by its place, in either style of dashes, up to
  the first empty word; or a value is missing or too many, and it has reported that.
* `FilesCloseAsOwned`: the flag the deleter reads is another object's, and right all
  the same as long as that object was not assigned. `ParserFilesAreSafe`: the `Parser`
  constructor takes its `SharedFile` by value, so the maker is gone at once; the leak
  of the parser's buffer is what keeps the deleter from asking for it.
* `EntriesAreDistinct`: no two entries of a set or a table are each found by a lookup of the
  other. One of them may be: `operation push table [1 -> empty]` is found where `operation
  push table [2 -> 5]` is stored and not the other way round, so a set takes both in one
  order, and in the other only one.
* `StoredNativesAreKnown`: whatever native operation a program holds, under its own name
  or another or in its hand, the registry finds it under the name it was made with.
* `FailuresHaveACause`: a load that failed half way can be repeated once its names
  are free again, although the bucket still has the operations.

**Bounds.** `MaxStack`, `MaxDepth`, `MaxTables` and `MaxRuns` cap the machine's
stack, activations, slot tables and calls; they are guards of the actions, so a
behaviour that would exceed one stops short of it. Two activations of one block
already share what can be shared and three levels pass through a recursive return
with a caller left below; four are allowed. Eight slot tables allow a program
three calls of `execute` or several rounds of a restarted block. Containers of two
items have a first, a middle (one item handed out, one not) and a last step.
Numbers have 2 or 3 bits, which is enough to wrap and to have a sign.

The stream's `Radix` 3 has a marker and two other bytes; `Word` 27 puts the wrap
within reach of a three-byte length, for the sum `offset + n` and for the value of
a number alike. The files hold a length, data and a byte after them, or a script of two
items, so that a read begins where another ended. `assembly` reads and writes
real bytes (`Radix` 256), but numbers take two bytes and a `Value_Number` has 16 bits;
what a failed write loses is bounded by more than every image has, and damaged texts lose
nothing on the way to the image, since the two failures meet nowhere. One image is read with
each of its bytes changed to one of two values, one of which no UTF-8 text has.

For the command line two declarations (`MaxDeclared`) can already take each other's spellings,
in either order: an argument behind an option that has its spelling is never looked up.
Three words hold an argument whose value is another argument's spelling, and a word behind
that; the longer lines have three values for one argument, an empty word in the place of a
value, and the dashes twice.

In `native_libraries` the program holds one native outside its store (`MaxHand`), which is
enough to move one from its own name to another while that is cleared and registered
again; one operation's name begins with a colon, so that three stand behind its bucket's.

In `boxes` a program may have two to four objects beside its constants (`MaxBoxes`), and
the stack two references: a container that is on the stack twice, or once on the
stack and once in another, and a copy of it. In `listeners` the list has up to four
places (`MaxListed`): the slots handler, a tracer that is listed twice and another; or two
that are removed, and their nulls. Its capacity then takes the values 1, 2 and 4, so that
an append while an event is told moves the array, or does not. `MaxDepth` 2 and `MaxIndex`
1 give a tracer a block entered before it came and one after. `shared_file` has three
variables, so that a file's maker, its holder and the one that is being assigned differ,
and two files, so that a maker can hold another than it made; variables are
interchangeable, and so are files, hence the symmetry (no liveness is checked there). In
`operations` the `Buffer` of 100 bytes holds some of the nested descriptions whole and
cuts others; a text that a cut left unbalanced is no concern of `TextsAreIndented`.

**Fairness.** Everything runs on one thread, and nothing the code calls blocks. So
within a call the next step is eventually taken: `WF(Step)` in `Machine`,
`WF(Progress)` in `ByteStream`, in `Wire` also `WF(WireNext)` while a script is being
read, which both reads and asks, and `WF(Deliver)` in `Listeners`: the loop that tells an
event goes on to the next listener.
Nothing is fair between calls: no one has to call `execute`, or the stream, again.
`Returns` is checked for programs without a cycle only; a program that restarts a
block or calls itself may run for ever. Its bounds, `MaxStack` 16 and
`MaxTables` 12, are never reached by these programs. If they were, a run would stop in the
middle and `Returns` would fail. The other modules are stated without fairness, and only
safety is checked of them.

## 4. Where code and documentation disagree

Three runs end in a counterexample, each for one property.

* `missing_main`, `MissingNameIsReported`. `runner/main.cpp:46` prints "main not
  found or not a block" when `execute` returns nothing, but `MachineState::execute`
  (`src/machine/state.cpp:116`) asks the pointer `retrieve` returned for its class
  without checking it. A program without `main` dereferences a null.
* `equal_values_hash`, `EqualValuesHashAlike`. `test/value/hash.cpp:37-38` expects
  equal values to have equal hashes. `Value_Table::equals`
  (`src/value/table.cpp:103`) looks a key the other table lacks up with an empty
  value as the default, so `[1 -> empty]` equals `[2 -> empty]`, and their hashes differ.
  (The run's table maps 2 to a null, which `valueAt` shows as an empty value. The cited test
  speaks of values that are identical; what equal ones of unequal hash do to sets and tables
  keyed by them, nothing in the repository says.)
* `quoted_path`, `RunnerGetsTheProgram`. `README.md:106-107` says the runner runs
  the program the assembler was given. `loadnative` writes its path, which may be any
  string, between the markers of a name (`src/operation/loadnative.cpp:57`); a path
  with a quote in it ends there, and the image cannot be read from that value on.

## 5. What is proved

`tlapm` checks the theorems of eight modules:

| Module | Obligations | Theorems |
|---|---|---|
| `OperationsProofs` | 1875 | `ValuesStayValues`, `OperandsAreRestored`, `RestStaysUntouched`, `EntriesStayDistinct` |
| `MachineProofs` | 3305 | `InvariantHolds`, `TypeCorrect`, `SlotsUnwound`, `SlotsReentrant`, `JumpsAreContained`, `OtherSlotsAreSafe`, `BindingsStay`, `CallStackIsImplemented`; of the values it holds `MachineHoldsValues`, `LoopsCount`, `ErrorsExplained`, `NullsAreExplained` |
| `ListenersProofs` | 1269 | `TypeCorrect`, `SlotsFollow`, `TracersSee` |
| `ByteStreamProofs` | 4238 | `InvariantHolds`, `TypeCorrect`, `StaysInside`, `LoopsKeepTheirPromise`, `StreamIsACursor`, `WhatIsWrittenIsRead`, `LoadersUseTheStream` |
| `CommandLineProofs` | 1520 | `WordsAreTaken` |
| `SharedFileProofs` | 909 | `InvariantHolds`, `HeldFilesAreOpen`, `OwnedFilesAreClosed`, `ParametersAreNotAsked`, `TypesAreKept` |
| `NativeLibrariesProofs` | 617 | `InvariantHolds`, `NativesAreKnown`, `LibrariesAreKnown`, `NamesAreSafe`, `FailuresAreExplained`, `TypesAreKept` |
| `DataLemmas` | 33 | lemmas only |

**Assumptions.** On the constants, evaluated by TLC on every run:
`BoundsAssumption` (the bounds are natural numbers), `NativesAssumption` (a native operation
returns one of the results), `BlocksAssumption`, `Value`'s `WidthAssumption` (a number has
bits, and so many values; the provers know nothing of powers), for the stream
`StreamAssumption` (sizes are natural, numbers have bytes, and no file is empty or longer than
a `size_t` can say) and `WidthAssumption` (a number that is asked for fits into the word, and
behind every file there is room for one, so that `mOffset + n` wraps for a length that was
read but not for a width that was asked for), for what is written on it `ItemAssumption`
(scripts are made of items that `IsItem` allows, and what is left of one's file is a file) and
`PowerAssumption` (what `^` means for the widths), for the listeners `ListenersAssumption` (they
are distinct objects and none is null), for the command line `LinesAssumption` (counts are
natural numbers, and words are strings), for the shared files `HandlesAssumption` (the words
for makers that are no variables are none), and for the libraries `LibraryAssumption` (each
can be opened or cannot for a known reason) and `NamesAssumption` (names are strings of
characters, and that of a bucket has one, no `::` and no colon at its end, without which
`getOperation` could not find the operations in it). `Utf8` says in `CodesAreRead` that the
first and the last character of every length are read as they were written.

The operator constants of `Value` and `Machine` are arbitrary but for what a theorem states
as its hypothesis. The hypotheses quantify over all values, which TLC cannot;
`SamplesAssumption` in `MCOperations` evaluates `TextsAreText`, `WholeIsIntact` and
`WholeValuesCompare` on the samples of the run. What is a value depends on whether a null is
one: where a hypothesis has a parameter, `nulls`, it is `{Null}` or empty.

| Hypothesis | Says | Needed by |
|---|---|---|
| `TextsAreText` | the description of a value that can be described is a string | `OperationsProofs`, `MachineProofs` |
| `ParserMakesValues` | what the parser makes of a string is a value | `OperationsProofs`, `MachineProofs` |
| `ProgramsAreValues` | what a program binds names to are values | `MachineHoldsValues` and what rests on it |
| `NativesPushValues` | a native operation pushes values (for `NullsAreExplained` without a null, as those for the parser) | `MachineHoldsValues` and what rests on it |
| `WholeMeans` | `Whole` is being a value without nulls | `NullsAreExplained` |
| `WholeIsIntact`, `WholeValuesCompare` | `clone`, `hash` and `equals` find no null in values without | `NullsAreExplained` |
| `NativesExplain` | a native operation that returns an error pushes one last | `ErrorsExplained` |

`NativesPushValues` is what the types in `src/native` say. `NativesExplain` is a convention
that nothing enforces and that the machine's own operations keep to.

**The stack operations.** All three properties of the run `operations`, for every stack of
values, of any height and depth. What a value is, with nulls in it or without, comes without
recursion: `Shaped` says what its own tag promises (a tuple is a sequence, the members of a set
are finitely many and apart), `Parts` what it holds, and `IsValue` that it is in some set that
holds the parts of its members and only shaped ones. A value's parts are values, and what is
shaped and has values for parts is one (`ValueHas`, `ValueFrom`); the lemmas about `append`,
typecasts, `pack`, bind and the parser rest on these two. Every operation then has one of three
outcomes (`Crashes`, `Fails`, `Succeeds`), a lemma for each group of operations: it stops at a
null with the stack as it was, it pushes an error on the stack as it was, or it replaces at most
what it takes by values. `ValuesStayValues` is the induction, `OperandsAreRestored` and
`RestStaysUntouched` read the outcomes, and `EntriesStayDistinct` reads the shape of sets and
tables: `append` asks for the key before it adds one, a clone loses what it finds, and a
typecast adds items one by one. Of equality and hash it assumes nothing, not that they are
symmetric either.

**The machine.** `InvariantHolds` proves `Spec => []Inv`, for every set of
programs and native operations and every bound, where
`Inv == TypeOK /\ SlotsFollowActivations`. Neither half is inductive. That
`slots` holds existing tables survives `StoreSlot` only by `TypeOK`; but that
leaving a block leaves an activation on `acts`, and that `FetchOperation` has a
record to write its index to, follows only from the correspondence. The
correspondence in turn needs the types to speak of the ends of sequences. Most steps are
alike to an observer (`QuietStep`: same activations up to their loops, same slots,
records and runs), and `QuietSteps` proves that of all of them at once; what is
left is `Execute`, `Finish`, `EnterBlock`, `FetchOperation`, `LeaveBlock` and
`ContinueAt`, a lemma each. `TypeCorrect` and `SlotsUnwound` are its two halves.

`SlotsReentrant` proves `SlotTablesDistinct`: two activations in progress never
share a slot table, however a program recurses. It needs no more than the same
invariant: a table entered upon is a new one, and no table in use is beyond the
end of `tables`.

**What the machine holds.** `MachineHoldsValues` proves `ValueInv`: stack, value store, slot
tables, the bodies of blocks and what loops hold off the stack are values. `IsLoop` adds
where a loop is: `next` is within its items or just behind, and it has taken one item more than
it has dealt with if its callback is running and none if it is `iterate` that comes next
(`Dealt`). Only the innermost activation's innermost loop can be in the second state; every
other one waits, whatever is on top of it (`AreLoops`, `ActsInv`), and this
is why a callback with loops of its own cannot disturb the count. For a loop over a tuple
`Counted` follows: `map` has a result per item dealt with, `filter` no more. `LoopsCount` reads
`LoopsKeepCount` from it. `ErrorsExplained` (`ErrorsAreExplained`) is inductive with `Inv` and
`ValueInv`: when an error comes out of a block nothing is pushed above it, a loop that fails
pushes back its operands and then the reason, and to say that the reason is on top one has to
know that the stack, the operands and what natives push are sequences. `ValueInv` quantifies
over sets of values, so TLC cannot evaluate it; what TLC checks are the two properties.

**Null pointers.** `NullsAreExplained` proves `NullsHaveACause`. The theory of values has
the set of nulls for a parameter, and so have the lemmas about operations and steps: one
proof says that `ValueInv({Null})` is an invariant, where null is a value like others, and
that `ValueInv({})` survives every step but the two in which a loop takes a result from a
stack that has none (`Emptied`). `NoNullsMeans` says that `NoNulls`, which TLC evaluates, is
`ValueInv({})` in a state that has `ValueInv({Null})`. The other half of the property needs
to know which steps end in `undefined`: of the stack operations only `select` does where
there is no null or a text that is not `Encodable` (`OnlySelectFaults`), for the rest the
machine's actions are gone through. A first form of `NoNulls` asked for no null where
`clone` and `hash` go (`Intact`). It was not inductive, and TLC then found it false: what
they do not look at, others take out and use.

**Steps of the machine.** Four properties of steps follow, from the same invariant
in the state before the step. `JumpsAreContained` (`BlocksContainJumps`): only
`LeaveBlock` makes the C++ stack lower, and every way to it ends in a success, a halt or an
error. `OtherSlotsAreSafe` (`OnlyCurrentSlotChanges`): a new table goes to the end of
`tables` and `StoreSlot` writes to the innermost one. `BindingsStay`
(`BindingsAreImmutable`): only the store operations add a binding, and they ask
whether the name is free. `CallStackIsImplemented` (`ImplementsCallStack`) is the refinement:
`ObservedStep` maps every step of the machine to a step of `CallStack` or none. The
observer's calls are the blocks in `records`, so that it is
`SlotsFollowActivations` that lets a `LeaveBlock` of the machine be a `Leave`. `CallStack` knows
nothing of slot tables: those are the other theorems'.

**The byte stream.** `InvariantHolds` proves `TypeOK` and that a byte a call returned
is a byte, for every file, radix and word. `TypeOK` says that `mOffset` is never past
the file by more than the step `next` takes to find its end. `StaysInside` proves
`NoReadPastEnd` from it: `CanPeek` asks `hasAtLeast(1)`, whose sum cannot wrap where
the offset is in the file, and what the loops collect was looked at only after `next` found
it there, so a wrapped sum in `hasAtLeast(n)` for a large `n` lets a loop begin but not
leave the file.

**The stream is a cursor.** `StreamIsACursor` proves `Spec => ImplementsCursor`, step by step.
A call of `Cursor` is one step and of `ByteStream` as many as it reads bytes, so the cursor
stays where the call began until the call returns, and `LoopInv` (`LoopsKeepTheirPromise`) says
what the loop has done by then: the bytes it has are those behind its beginning and `val`
is the number they spell, or it has not met the byte it looks for. The functions of `Encoding`
are recursive functions or choose a first place; what they give is found by induction over
the number of bytes (`BigEndian`) or places. The library's induction theorems take an operator;
`Induction` in `DataLemmas` says the same of a set of numbers, which the provers can use.
That a sum wraps matters in one place: a length just read may carry `mOffset + n` past
`Word`, `hasAtLeast` lets the loop begin, and it ends at the end of the file, as `Cursor` says.

**What is written is read.** `WhatIsWrittenIsRead` proves `ReadsWhatWasWritten` for every
script, whatever its items, and every cut, and `LoadersUseTheStream` that a reader's steps
are steps of the stream. The property only looks back. The invariant says where the reader
is: between calls it stands behind the last item read, unless that was cut, and then it is
done; a call in progress began there and is the one the next item asks for (`ReaderInv`);
the loop in it keeps `LoopInv`. Each item then has its lemma, that the call for it ends with
what was written, and behind it, or with nothing when the file ends inside it. That reading
a number undoes writing it is induction over its digits, with `PowerAssumption` for the only
facts about powers.

**The command line.** `WordsAreTaken` proves `CommandLineIsTaken` for any options and arguments,
with any spellings in common, any handlers and any line. Neither the loop nor the meaning is
told in terms of the other: the loop goes from word to word and skips one behind an
argument, while the meaning counts the argument words in front of a place (`ValueAt`) and takes
the dashes at the first place that is no value. `ValueBehindArgument` is the bridge: a
word is a value when the one in front of it is an argument's and no value itself. The
invariant (`Sorting`) is that a line about which something was reported is not well
formed, and that of any other the loop stands at a place (`Reading`) in front of which all is
found as the places say (`FoundBefore`), and which is no value (`ReadBefore`); it is known by
then whether the dashes were met, and every argument passed has its value behind it. That a
count is not exceeded is the length of what was collected against the cardinality of its
places. What is collected is proved by induction over the words (`CollectedExists`); `Sorting`
chooses a function on the way and is not for TLC, which checks the property.

**Listeners.** `TypeCorrect`, `SlotsFollow` (`SlotsFollowTheBlocks`) and `TracersSee`
(`TracersSeeTheirBlocks`), for any tracers, listed and removed at any time, in the middle of an
event too. `Removed` is the loop of `std::remove`, and what it leaves is proved by induction
over the places it has passed (`PassedIsSwept`): nothing appears that was not there, what was
listed once and was not removed stays listed once, the first element stays first, and a list
that changed has a null in it. The properties speak of a moment when no event is told. The
invariant has to speak of the middle of one: a listener before the place that is called next
knows of the event, one from there to the end of the range does not yet, and one behind the
range was appended in the meantime and knows nothing (`TracerInv`). A tracer may be moved over
that boundary by a removal; then there is a null in the list, and what it knows matters no more,
because the process ends at that null.

**Shared files.** `InvariantHolds` proves `Spec => []Inv` for any number of variables,
parsers and files, any sequence of statements, and so for the deleters that set off
deleters. The properties are not inductive: that an owned file *is* closed when nothing
holds it any more fails in the middle of a statement. `Inv` therefore speaks of a
`shared_ptr` as pending until its deleter has run, and says that a pending one's file is open
(`FilesAreOpen`), that a faithful maker still has the flag the deleter will read
(`MakersKeep`), and what has become of the file after (`ClosedAsOwned`). The seven
statements that give one variable a new value are one lemma (`VariableStep`), the two that
make a parser another (`ParserStep`); in `Releasing` the three cases of a maker's `release()`
have this in common: nothing is taken up, and what is let go becomes pending. From `Inv`
follow `HeldFilesAreOpen`, `OwnedFilesAreClosed`, `ParametersAreNotAsked` and, in
`TypesAreKept`, that no file is closed twice.

**Native libraries.** `InvariantHolds` proves `Spec => []Inv` for every set of libraries,
whatever buckets and names they share, with any number of operations. The properties speak
of `getOperation` and of the end of a load; `Inv` speaks of the registry and of every step
of a load: what the store holds, under any name, and the program in its hand, is in its
bucket (`NativesAreKept`), what a loaded library made is in its bucket (`LibrariesAreKept`),
and a load under way has registered what is not left (`LoadIsUnderWay`). All three survive
because the registry only grows (`Grows`), whatever is cleared from the store. `NameIsFound`
is the lemma about the characters: the first separator of a qualified name is the one behind
its bucket, even where the operation's name has one too, or begins with a colon.
`NativesAreKnown`, `LibrariesAreKnown`, `NamesAreSafe` and `FailuresAreExplained` follow,
and `TypesAreKept`.

**Only model-checked.** Liveness (`Returns`, `CallsReturn`, `ReadsWholeFile`,
`NullsAreFatal`): the prover does not handle fairness and `ENABLED`. What depends on the
recursion of deep equality, descriptions, the codecs, the lexer or the parser (`TextsAreIndented`,
`EqualValuesHashAlike`, the runs `boxes` and `assembly`): their modules declare recursive
operators, about which the provers cannot reason. The invariants
of `assembly` and `boxes` are therefore checked only, as is all that `DeepValue`,
`Description`, `Image`, `Syntax` and `Lexer` compute: the hypotheses above are what the
theorems ask of them.

## 6. What is not modelled

* The text of traces and of most messages: wording and layout. The description of a value
  is modelled, as `typecast` makes a value of it.
* What flex does with bytes no rule matches beyond skipping them (it echoes them to the
  terminal), opening and mapping files, printing: I/O.
* Where else `std::wstring_convert` may throw: for names, paths and atoms of an image
  that are not UTF-8, when a typecast makes a text of them, and for a text that the buffer of
  the indenting stream cuts inside a character. What the runner prints at its end.
* `uniq`: no other part uses it. RTTI casts are the tags of values.
* Listeners that the host destroys while they are listed: the list shares them.
* Hazards that the models have but no property covers, with the reason in `PROJECT.json`:
  `Block::mSlots` grows with every activation and is never read below its top
  (`slots_handler.cpp:23`), a leak that no state shows; and `getOperation` on a name without a
  separator (`native_operations.cpp:75`), which no part of the program calls (for an empty
  one, which it throws on, `GetOperation` finds nothing).

## 7. Plan

The order was: the machine and its slots; the loops and `CallStack`; the stack
operations; the byte stream and `Cursor`; the codecs, the parser and `Assembly`;
the native libraries; then the lexer, the command line and the start of `main` in
`Assembly`, `Description`, `Listeners`, `SharedFile`, `Boxes`; the proofs of the machine's
slots, steps, values, loops and nulls, of the stack operations, of the stream's bounds, that it
is a cursor and gives back what was written, of the command line, of the listeners, of the
shared files and of the libraries. These are done. What could follow:

1. `Machine` with the list of `Listeners` in place of its two: an operation cannot reach the
   list, so only the host would change it, between two calls of `execute`.
