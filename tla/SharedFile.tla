------------------------------ MODULE SharedFile ------------------------------
(***************************************************************************)
(* SharedFile (src/stream/shared_file.cpp) and the parser's FileBuffer.    *)
(*                                                                         *)
(* A SharedFile is a flag mOwned and a shared_ptr to a FILE.  The deleter  *)
(* that runs when the last shared_ptr to a file lets go of it belongs to   *)
(* the SharedFile that was made for the file, its maker: it reads the      *)
(* maker's flag as it is by then, closes the file, and releases the maker. *)
(* The maker may have been assigned another file, or be gone.              *)
(*                                                                         *)
(* A statement of the host that lets go of a last shared_ptr is one step   *)
(* up to there, and every deleter it sets off is a step of its own before  *)
(* the next statement.                                                     *)
(***************************************************************************)
EXTENDS Integers, Sequences

CONSTANTS
  Handles,   \* the variables of type SharedFile
  Parsers,   \* the variables of type Parser
  Files      \* the files opened, each given to one SharedFile

VARIABLES
  handles,   \* of each variable: does it exist, mOwned, the shared_ptr it holds (a number
             \* into "made", or 0), and whether its pointer is not null
  made,      \* the shared_ptrs made: the file, its maker, mOwned then, and whether the
             \* maker was assigned since
  parsers,   \* of each parser: "none", "open", or "gone"
  buffers,   \* the shared_ptr in each parser's buffer, or 0
  closed,    \* how often each file was closed
  deleting,  \* the deleter that is to run
  undefined  \* it ran through a maker that is gone

vars == <<handles, made, parsers, buffers, closed, deleting, undefined>>

\* The makers of a file that are not variables.
Temporary == "temporary"
Parameter == "parameter"
Gone      == "gone"

ASSUME HandlesAssumption == Handles \cap {Temporary, Parameter, Gone, "none"} = {}

NoHandle   == [live |-> FALSE, owned |-> FALSE, holds |-> 0, shows |-> FALSE]
Handle(owned, b) == [live |-> TRUE, owned |-> owned, holds |-> b, shows |-> b # 0]

\* A deleter: its shared_ptr, and of the statement it belongs to the variable that is
\* being assigned, and the shared_ptr whose maker is the statement's temporary.
Deleter(b, into, fresh) == [block |-> b, into |-> into, fresh |-> fresh]
None == Deleter(0, "none", 0)
Idle == deleting = None /\ ~undefined

Held(hs, bs, b) == (\E h \in Handles : hs[h].holds = b) \/ (\E p \in Parsers : bs[p] = b)

\* The deleter that letting go of b sets off, if nothing else holds it.
LetGo(hs, bs, b, into, fresh) ==
  IF b = 0 \/ Held(hs, bs, b) THEN None ELSE Deleter(b, into, fresh)

NewBlock   == Len(made) + 1
Unopened(f) == \A b \in DOMAIN made : made[b].file # f
Block(f, maker, owned) == [file |-> f, maker |-> maker, owned |-> owned, assigned |-> FALSE]

\* h, which may be the maker of some, is assigned or goes.
Assigned(h) == [b \in DOMAIN made |-> [made[b] EXCEPT !.assigned = @ \/ made[b].maker = h]]
Orphaned(h, hs) == [b \in DOMAIN made |->
  IF made[b].maker = h /\ Held(hs, buffers, b) THEN [made[b] EXCEPT !.maker = Gone] ELSE made[b]]

Init ==
  /\ handles = [h \in Handles |-> NoHandle]
  /\ made = <<>>
  /\ parsers = [p \in Parsers |-> "none"] /\ buffers = [p \in Parsers |-> 0]
  /\ closed = [f \in Files |-> 0]
  /\ deleting = None /\ undefined = FALSE

-----------------------------------------------------------------------------
(***************************************************************************)
(* Statements of the host.                                                 *)
(***************************************************************************)
\* SharedFile h;
Default(h) ==
  /\ Idle /\ ~handles[h].live
  /\ handles' = [handles EXCEPT ![h] = Handle(FALSE, 0)]
  /\ UNCHANGED <<made, parsers, buffers, closed, deleting, undefined>>

\* SharedFile h = SharedFile::owned(f), or unowned(f): h is the maker.
Make(h, f, owned) ==
  /\ Idle /\ ~handles[h].live /\ Unopened(f)
  /\ made' = Append(made, Block(f, h, owned))
  /\ handles' = [handles EXCEPT ![h] = Handle(owned, NewBlock)]
  /\ UNCHANGED <<parsers, buffers, closed, deleting, undefined>>

\* h = SharedFile::owned(f): the maker is a temporary that lives to the end of the
\* statement, and h has its new file before the old one is let go.
Renew(h, f, owned) ==
  /\ Idle /\ handles[h].live /\ Unopened(f)
  /\ made' = Append(Assigned(h), Block(f, Temporary, owned))
  /\ handles' = [handles EXCEPT ![h] = Handle(owned, NewBlock)]
  /\ deleting' = LetGo(handles', buffers, handles[h].holds, "none", NewBlock)
  /\ UNCHANGED <<parsers, buffers, closed, undefined>>

\* SharedFile h = g;
Copy(h, g) ==
  /\ Idle /\ ~handles[h].live /\ handles[g].live
  /\ handles' = [handles EXCEPT ![h] = handles[g]]
  /\ UNCHANGED <<made, parsers, buffers, closed, deleting, undefined>>

\* h = g: the flag, then the pointer, then the count; the old file is let go in between.
Assign(h, g) ==
  /\ Idle /\ h # g /\ handles[h].live /\ handles[g].live
  /\ handles' = [handles EXCEPT ![h] = handles[g]]
  /\ made' = Assigned(h)
  /\ deleting' = LetGo(handles', buffers, handles[h].holds, h, 0)
  /\ UNCHANGED <<parsers, buffers, closed, undefined>>

\* Mutant: the flag is reset with the pointer.
MutantRelease(h) ==
  /\ Idle /\ handles[h].live
  /\ handles' = [handles EXCEPT ![h] = Handle(FALSE, 0)]
  /\ deleting' = LetGo(handles', buffers, handles[h].holds, "none", 0)
  /\ UNCHANGED <<made, parsers, buffers, closed, undefined>>
\* h.release();
Release(h) ==
  /\ Idle /\ handles[h].live
  /\ handles' = [handles EXCEPT ![h] = Handle(handles[h].owned, 0)]
  /\ deleting' = LetGo(handles', buffers, handles[h].holds, "none", 0)
  /\ UNCHANGED <<made, parsers, buffers, closed, undefined>>

\* The end of the scope of h, whose flag is there until its last deleter has run.
Destroy(h) ==
  /\ Idle /\ handles[h].live
  /\ handles' = [handles EXCEPT ![h] = [NoHandle EXCEPT !.owned = handles[h].owned]]
  /\ made' = Orphaned(h, handles')
  /\ deleting' = LetGo(handles', buffers, handles[h].holds, "none", 0)
  /\ UNCHANGED <<parsers, buffers, closed, undefined>>

\* Mutant: the buffer keeps the FILE, not the SharedFile.
MutantOpenParser(p, h) ==
  /\ Idle /\ parsers[p] = "none" /\ handles[h].shows
  /\ parsers' = [parsers EXCEPT ![p] = "open"]
  /\ UNCHANGED <<handles, made, buffers, closed, deleting, undefined>>
\* Parser p(h), once h has a file: the buffer holds it, the parameter lets it go again.
OpenParser(p, h) ==
  /\ Idle /\ parsers[p] = "none" /\ handles[h].shows
  /\ parsers' = [parsers EXCEPT ![p] = "open"]
  /\ buffers' = [buffers EXCEPT ![p] = handles[h].holds]
  /\ UNCHANGED <<handles, made, closed, deleting, undefined>>

\* Parser p(SharedFile::owned(f)): the maker is the parameter.
OpenParserOn(p, f, owned) ==
  /\ Idle /\ parsers[p] = "none" /\ Unopened(f)
  /\ made' = Append(made, Block(f, Parameter, owned))
  /\ parsers' = [parsers EXCEPT ![p] = "open"]
  /\ buffers' = [buffers EXCEPT ![p] = NewBlock]
  /\ UNCHANGED <<handles, closed, deleting, undefined>>

\* Mutant: the buffer is deleted.
MutantDestroyParser(p) ==
  /\ Idle /\ parsers[p] = "open"
  /\ parsers' = [parsers EXCEPT ![p] = "gone"]
  /\ buffers' = [buffers EXCEPT ![p] = 0]
  /\ deleting' = LetGo(handles, buffers', buffers[p], "none", 0)
  /\ UNCHANGED <<handles, made, closed, undefined>>
\* The end of the scope of p: its unique_ptr gives the buffer up without deleting it.
DestroyParser(p) ==
  /\ Idle /\ parsers[p] = "open"
  /\ parsers' = [parsers EXCEPT ![p] = "gone"]
  /\ UNCHANGED <<handles, made, buffers, closed, deleting, undefined>>

-----------------------------------------------------------------------------
(***************************************************************************)
(* The deleter of the shared_ptr b.                                        *)
(***************************************************************************)
MakerIsThere(b) == made[b].maker \in Handles \/ b = deleting.fresh

MakerOwns(b) == IF made[b].maker \in Handles THEN handles[made[b].maker].owned ELSE made[b].owned

CloseFile(b) == closed' = IF MakerOwns(b) THEN [closed EXCEPT ![made[b].file] = @ + 1] ELSE closed

\* release() of a maker that holds nothing, or only what is being deleted, does nothing;
\* of one that is being assigned it clears the pointer, but the count is set after it; of
\* any other it lets go of the file it holds by now.
ReleaseMaker(m) ==
  CASE m \notin Handles -> deleting' = None /\ UNCHANGED handles
    [] m \in Handles /\ m = deleting.into ->
         /\ handles' = [handles EXCEPT ![m].shows = FALSE]
         /\ deleting' = None
    [] m \in Handles /\ m # deleting.into ->
         /\ handles' = [handles EXCEPT ![m].holds = 0, ![m].shows = FALSE]
         /\ deleting' = LetGo(handles', buffers, handles[m].holds, deleting.into, deleting.fresh)

Delete ==
  /\ deleting # None /\ ~undefined
  /\ MakerIsThere(deleting.block)
  /\ CloseFile(deleting.block)
  /\ ReleaseMaker(made[deleting.block].maker)
  /\ UNCHANGED <<made, parsers, buffers, undefined>>

Dangle ==
  /\ deleting # None /\ ~undefined
  /\ ~MakerIsThere(deleting.block)
  /\ undefined' = TRUE
  /\ UNCHANGED <<handles, made, parsers, buffers, closed, deleting>>

Next ==
  \/ \E h \in Handles : Default(h) \/ Release(h) \/ Destroy(h)
  \/ \E h, g \in Handles : Copy(h, g) \/ Assign(h, g)
  \/ \E h \in Handles, f \in Files, owned \in BOOLEAN : Make(h, f, owned) \/ Renew(h, f, owned)
  \/ \E p \in Parsers, h \in Handles : OpenParser(p, h)
  \/ \E p \in Parsers, f \in Files, owned \in BOOLEAN : OpenParserOn(p, f, owned)
  \/ \E p \in Parsers : DestroyParser(p)
  \/ Delete \/ Dangle

Spec == Init /\ [][Next]_vars

-----------------------------------------------------------------------------
(***************************************************************************)
(* Properties.                                                             *)
(***************************************************************************)
Variable(held) == [live : BOOLEAN, owned : BOOLEAN, holds : held, shows : BOOLEAN]
SharedPtr      == [file : Files, maker : Handles \cup {Temporary, Parameter, Gone},
                   owned : BOOLEAN, assigned : BOOLEAN]

TypeOK ==
  /\ handles \in [Handles -> Variable(0..Len(made))]
  /\ made \in Seq(SharedPtr)
  /\ parsers \in [Parsers -> {"none", "open", "gone"}]
  /\ buffers \in [Parsers -> 0..Len(made)]
  /\ closed \in [Files -> 0..1]
  /\ deleting \in [block : 0..Len(made), into : Handles \cup {"none"}, fresh : 0..Len(made)]
  /\ undefined \in BOOLEAN

\* The maker is as it was when it was given the file.
Faithful(b) == made[b].maker \in Handles /\ ~made[b].assigned

\* Whatever the makers go through, a file some variable or some parser has is open.
OpenWhileHeld ==
  /\ \A b \in DOMAIN made : Held(handles, buffers, b) => closed[made[b].file] = 0
  /\ \A p \in Parsers : parsers[p] = "open" => buffers[p] # 0

\* An owned file is closed when the last variable lets go of it, in whatever order they
\* do, and an unowned one never, as long as the maker was not assigned.
FilesCloseAsOwned ==
  \A b \in DOMAIN made :
    Faithful(b) => /\ ~made[b].owned => closed[made[b].file] = 0
                   /\ Idle /\ made[b].owned /\ ~Held(handles, buffers, b) => closed[made[b].file] = 1

\* A parser is safe with the file it was given alone: the SharedFile that made it is
\* gone before the parser has read a token, but no deleter asks for it, for the buffer
\* that holds the file outlives the parser.
ParserFilesAreSafe ==
  undefined => made[deleting.block].maker \in {Temporary, Gone}

=============================================================================
