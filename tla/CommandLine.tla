------------------------------ MODULE CommandLine ------------------------------
(***************************************************************************)
(* An ArgumentParser in the hands of a program: options, arguments and     *)
(* handlers are declared in any order, then a command line is parsed, a    *)
(* turn of the loop at a time.  Module Assembly goes on from there.        *)
(***************************************************************************)
EXTENDS Arguments

CONSTANTS
  Spellings,     \* the spellings an option or an argument may be given, a set each
  Counts,        \* how many values an argument may be allowed, 0 for any number
  CommandLines,  \* what follows the program's name in argv
  MaxDeclared    \* bound on what is declared: spellings of options, and arguments

ASSUME LinesAssumption ==
  /\ Counts \subseteq Nat
  /\ \A line \in CommandLines : line \in Seq(STRING)

VARIABLES
  stage,    \* "declare" or "parse"
  command   \* the ArgumentParser

lineVars == <<stage, command>>

LineInit == stage = "declare" /\ \E dashes \in BOOLEAN : command = NewParser(dashes)

-----------------------------------------------------------------------------
Room == Cardinality(DOMAIN command.options) + Len(command.allowed) < MaxDeclared

DeclareOption ==
  /\ stage = "declare" /\ Room
  /\ \E words \in Spellings : command' = AddOption(command, words)
  /\ UNCHANGED stage

DeclareArgument ==
  /\ stage = "declare" /\ Room
  /\ \E words \in Spellings, n \in Counts : command' = AddArgument(command, words, n)
  /\ UNCHANGED stage

DeclareHandlers ==
  /\ stage = "declare"
  /\ \E excess, noValue \in BOOLEAN : command' = Handle(command, excess, noValue)
  /\ UNCHANGED stage

Parse ==
  /\ stage = "declare"
  /\ \E line \in CommandLines : command' = StartParse(command, line)
  /\ stage' = "parse"

ReadArgument ==
  /\ stage = "parse" /\ ~AllRead(command)
  /\ command' = Turn(command)
  /\ UNCHANGED stage

LineNext == DeclareOption \/ DeclareArgument \/ DeclareHandlers \/ Parse \/ ReadArgument

LineSpec == LineInit /\ [][LineNext]_lineVars

-----------------------------------------------------------------------------
\* Whatever was declared, a command line that gives every argument its value, and no more
\* than it may have, is taken as the places of its words say, without a complaint; any
\* other is complained about.  What a word is depends on all the words in front of it.
CommandLineIsTaken ==
  stage = "parse" /\ AllRead(command) =>
    IF WellFormed(command)
    THEN Sorted(command) /\ command.reports = <<>>
    ELSE command.reports # <<>>

=============================================================================
