--------------------------- MODULE SharedFileProofs ---------------------------
(***************************************************************************)
(* Proofs about SharedFile, for any number of variables, parsers and files *)
(* and any sequence of statements.                                         *)
(***************************************************************************)
EXTENDS SharedFile, SequenceTheorems, TLAPS

(***************************************************************************)
(* The inductive invariant.  A shared_ptr is pending while something holds *)
(* it, and from the moment nothing does until its deleter has run.         *)
(***************************************************************************)
IsHeld(b)  == Held(handles, buffers, b)
Pending(b) == IsHeld(b) \/ deleting.block = b
File(b)    == made[b].file

\* Variables that are not there hold nothing.
VariablesHold ==
  \A h \in Handles : /\ ~handles[h].live => handles[h].holds = 0
                     /\ handles[h].shows => handles[h].holds # 0

\* A parser's buffer keeps its file, and with it a maker that was the parameter.
BuffersKeep ==
  /\ \A p \in Parsers : parsers[p] = "none" <=> buffers[p] = 0
  /\ \A b \in DOMAIN made : made[b].maker = Parameter => \E p \in Parsers : buffers[p] = b

\* Each file has one shared_ptr, and is open as long as that is pending.
FilesAreOpen ==
  /\ \A b, c \in DOMAIN made : File(b) = File(c) => b = c
  /\ \A f \in Files : Unopened(f) => closed[f] = 0
  /\ deleting # None => deleting.block \in DOMAIN made /\ ~IsHeld(deleting.block)
  /\ \A b \in DOMAIN made : Pending(b) => closed[File(b)] = 0

\* The flag a deleter will read is the one its maker had, if that is as it was.
MakersKeep ==
  /\ \A b \in DOMAIN made :
       IsHeld(b) /\ made[b].maker \in Handles => handles[made[b].maker].live
  /\ \A b \in DOMAIN made :
       Faithful(b) /\ Pending(b) => handles[made[b].maker].owned = made[b].owned

ClosedAsOwned ==
  \A b \in DOMAIN made :
    Faithful(b) => /\ ~made[b].owned => closed[File(b)] = 0
                   /\ made[b].owned /\ ~Pending(b) => closed[File(b)] = 1

\* The deleter that went wrong asked a maker that was gone.
DanglesAt == undefined => deleting # None /\ ~MakerIsThere(deleting.block)

Inv == /\ TypeOK /\ VariablesHold /\ BuffersKeep
       /\ FilesAreOpen /\ MakersKeep /\ ClosedAsOwned /\ DanglesAt

\* No variable is there yet.
THEOREM InitInv == Init => Inv
<1>. SUFFICES ASSUME Init PROVE Inv
  OBVIOUS
<1>1. TypeOK
  <2>1. made \in Seq(SharedPtr) /\ Len(made) = 0
    BY DEF Init
  <2>2. NoHandle \in Variable(0..0)
    BY DEF NoHandle, Variable
  <2>3. None \in [block : 0..0, into : Handles \cup {"none"}, fresh : 0..0]
    BY DEF None, Deleter
  <2>4. handles \in [Handles -> Variable(0..0)] /\ closed \in [Files -> 0..1]
    BY <2>2 DEF Init
  <2>5. parsers \in [Parsers -> {"none", "open", "gone"}] /\ buffers \in [Parsers -> 0..0]
    BY DEF Init
  <2> QED BY <2>1, <2>3, <2>4, <2>5 DEF Init, TypeOK
<1>2. DOMAIN made = {} /\ deleting = None /\ ~undefined
  BY DEF Init
<1>3. FilesAreOpen /\ MakersKeep /\ ClosedAsOwned /\ DanglesAt
  BY <1>2 DEF FilesAreOpen, MakersKeep, ClosedAsOwned, DanglesAt, Init, Unopened
<1>4. VariablesHold /\ BuffersKeep
  BY <1>2 DEF VariablesHold, BuffersKeep, Init, NoHandle
<1> QED BY <1>1, <1>3, <1>4 DEF Inv

(***************************************************************************)
(* Holding and letting go.                                                 *)
(***************************************************************************)

\* The facts about lengths and domains that every step uses.
LEMMA Lengths ==
  ASSUME Inv
  PROVE  /\ Len(made) \in Nat /\ DOMAIN made = 1..Len(made) /\ NewBlock = Len(made) + 1
         /\ \A b \in DOMAIN made : made[b] \in SharedPtr
         /\ \A h \in Handles : handles[h] \in Variable(0..Len(made))
         /\ \A h \in Handles : h \notin {Temporary, Parameter, Gone, "none"}
<1>1. made \in Seq(SharedPtr)
  BY DEF Inv, TypeOK
<1> QED BY <1>1, ElementOfSeq, LenProperties, HandlesAssumption DEF Inv, TypeOK, NewBlock

\* While no deleter runs, a shared_ptr is pending if and only if something holds it.
LEMMA IdlePending ==
  ASSUME Inv, Idle, NEW b \in DOMAIN made
  PROVE  Pending(b) <=> IsHeld(b)
BY Lengths DEF Idle, None, Deleter, Pending

\* What a step may do to the shared_ptrs there are: nothing takes one up that nothing
\* held, and one that nothing holds any longer is deleted next.
OnlyLapses ==
  /\ \A b \in DOMAIN made : IsHeld(b)' => IsHeld(b)
  /\ \A b \in DOMAIN made : IsHeld(b) /\ ~IsHeld(b)' => deleting'.block = b
  /\ deleting' # None => /\ deleting'.block \in DOMAIN made
                         /\ IsHeld(deleting'.block) /\ ~Held(handles', buffers', deleting'.block)

\* One variable lets go of what it had, and has nothing, or something new, or what
\* another has.
LEMMA LettingGo ==
  ASSUME Inv, NEW h \in Handles, NEW into, NEW fresh,
         handles' \in [Handles -> Variable(Nat)],
         \A g \in Handles : g # h => handles'[g].holds = handles[g].holds,
         handles'[h].holds \in DOMAIN made => IsHeld(handles'[h].holds),
         buffers' = buffers,
         deleting' = LetGo(handles', buffers, handles[h].holds, into, fresh)
  PROVE  OnlyLapses
<1>1. PICK old \in 0..Len(made) : old = handles[h].holds
  BY Lengths DEF Variable
<1>2. \A b \in DOMAIN made : IsHeld(b)' => IsHeld(b)
  BY DEF IsHeld, Held
<1>3. \A b \in DOMAIN made : IsHeld(b) /\ ~IsHeld(b)' => b = old
  BY <1>1 DEF IsHeld, Held
<1>4. CASE old = 0 \/ IsHeld(old)'
  <2>1. deleting' = None
    BY <1>1, <1>4 DEF LetGo, IsHeld
  <2> QED BY <1>2, <1>3, <1>4, <2>1, Lengths DEF OnlyLapses
<1>5. CASE old # 0 /\ ~IsHeld(old)'
  <2>1. deleting' = Deleter(old, into, fresh)
    BY <1>1, <1>5 DEF LetGo, IsHeld
  <2>2. /\ deleting'.block = old /\ old \in DOMAIN made
        /\ IsHeld(old) /\ ~Held(handles', buffers', old)
    BY <1>1, <1>5, <2>1, Lengths DEF Deleter, IsHeld, Held
  <2> QED BY <1>2, <1>3, <1>5, <2>2 DEF OnlyLapses
<1> QED BY <1>4, <1>5

\* Nothing is let go.
LEMMA NothingLapses ==
  ASSUME Inv, deleting' = None, \A b \in DOMAIN made : IsHeld(b)' <=> IsHeld(b)
  PROVE  OnlyLapses
BY DEF OnlyLapses

(***************************************************************************)
(* The statements of the host.                                             *)
(***************************************************************************)

\* The shared_ptrs there are in a sequence that follows "made": a maker can be assigned
\* or go, nothing else changes.
Follows(new) ==
  /\ new \in Seq(SharedPtr) /\ DOMAIN made \subseteq DOMAIN new
  /\ \A b \in DOMAIN made : /\ new[b].file = made[b].file /\ new[b].owned = made[b].owned
                            /\ new[b].maker \in {made[b].maker, Gone}
                            /\ made[b].assigned => new[b].assigned

\* A function on 1..n is a sequence.
LEMMA SeqOf ==
  ASSUME NEW S, NEW n \in Nat, NEW f \in [1..n -> S]
  PROVE  f \in Seq(S) /\ Len(f) = n /\ DOMAIN f = 1..n
<1>1. f \in Seq(S)
  BY SeqDef
<1> QED BY <1>1, LenProperties

\* Assigning h, letting it go, giving a file to a new maker, or none of these.
LEMMA AssignedFollows ==
  ASSUME Inv, NEW h \in Handles
  PROVE  /\ Follows(Assigned(h)) /\ Len(Assigned(h)) = Len(made)
         /\ \A b \in DOMAIN made : /\ Assigned(h)[b].maker = made[b].maker
                                   /\ made[b].maker = h => Assigned(h)[b].assigned
<1>1. \A b \in DOMAIN made : [made[b] EXCEPT !.assigned = @ \/ made[b].maker = h] \in SharedPtr
  BY Lengths DEF SharedPtr
<1>2. Assigned(h) \in [1..Len(made) -> SharedPtr]
  BY <1>1, Lengths DEF Assigned
<1>3. Assigned(h) \in Seq(SharedPtr) /\ Len(Assigned(h)) = Len(made)
  BY <1>2, Lengths, SeqOf
<1>4. \A b \in DOMAIN made :
        Assigned(h)[b] = [made[b] EXCEPT !.assigned = @ \/ made[b].maker = h]
  BY DEF Assigned
<1>5. DOMAIN Assigned(h) = DOMAIN made
  BY DEF Assigned
<1> QED BY <1>3, <1>4, <1>5, Lengths DEF Follows, SharedPtr

LEMMA OrphanedFollows ==
  ASSUME Inv, NEW h \in Handles, NEW hs
  PROVE  /\ Follows(Orphaned(h, hs)) /\ Len(Orphaned(h, hs)) = Len(made)
         /\ \A b \in DOMAIN made :
              Held(hs, buffers, b) => Orphaned(h, hs)[b].maker # h
<1>1. \A b \in DOMAIN made : [made[b] EXCEPT !.maker = Gone] \in SharedPtr
  BY Lengths DEF SharedPtr
<1>2. Orphaned(h, hs) \in [1..Len(made) -> SharedPtr]
  BY <1>1, Lengths DEF Orphaned
<1>3. Orphaned(h, hs) \in Seq(SharedPtr) /\ Len(Orphaned(h, hs)) = Len(made)
  BY <1>2, Lengths, SeqOf
<1>4. \A b \in DOMAIN made :
        Orphaned(h, hs)[b] = IF made[b].maker = h /\ Held(hs, buffers, b)
                             THEN [made[b] EXCEPT !.maker = Gone] ELSE made[b]
  BY DEF Orphaned
<1>5. DOMAIN Orphaned(h, hs) = DOMAIN made
  BY DEF Orphaned
<1> QED BY <1>3, <1>4, <1>5, Lengths DEF Follows, SharedPtr

LEMMA AppendFollows ==
  ASSUME Inv, NEW old, Follows(old), Len(old) = Len(made), NEW f \in Files,
         NEW m \in Handles \cup {Temporary, Parameter, Gone}, NEW owned \in BOOLEAN
  PROVE  /\ Follows(Append(old, Block(f, m, owned)))
         /\ Len(Append(old, Block(f, m, owned))) = NewBlock
         /\ DOMAIN Append(old, Block(f, m, owned)) = DOMAIN made \cup {NewBlock}
         /\ Append(old, Block(f, m, owned))[NewBlock] = Block(f, m, owned)
         /\ \A b \in DOMAIN made : Append(old, Block(f, m, owned))[b] = old[b]
<1>1. Block(f, m, owned) \in SharedPtr
  BY DEF Block, SharedPtr
<1>2. /\ Append(old, Block(f, m, owned)) \in Seq(SharedPtr)
      /\ Len(Append(old, Block(f, m, owned))) = Len(old) + 1
      /\ \A i \in 1..Len(old) : Append(old, Block(f, m, owned))[i] = old[i]
      /\ Append(old, Block(f, m, owned))[Len(old) + 1] = Block(f, m, owned)
  BY <1>1, AppendProperties DEF Follows
<1>3. DOMAIN Append(old, Block(f, m, owned)) = 1..(Len(old) + 1)
  BY <1>2, LenProperties
<1> QED BY <1>2, <1>3, Lengths DEF Follows

\* A statement that touches no maker.
LEMMA SameFollows ==
  ASSUME Inv
  PROVE  Follows(made)
BY DEF Follows, Inv, TypeOK

\* What every statement of the host does: a shared_ptr it makes is for a file that had
\* none, and is held.
Statement ==
  /\ Idle /\ UNCHANGED <<closed, undefined>>
  /\ Follows(made') /\ OnlyLapses
  /\ \A b \in DOMAIN made' : b \notin DOMAIN made =>
       b = NewBlock /\ Unopened(made'[b].file) /\ IsHeld(b)'

\* ... and what it does to the makers: one that is there stays until nothing of its own
\* is held, and its flag as it was until it is assigned.
MakersLast ==
  /\ \A b \in DOMAIN made' : b \notin DOMAIN made /\ made'[b].maker \in Handles =>
       /\ handles'[made'[b].maker].live
       /\ handles'[made'[b].maker].owned = made'[b].owned
  /\ \A b \in DOMAIN made, h \in Handles :
       made'[b].maker = h /\ handles[h].live =>
         /\ IsHeld(b)' => handles'[h].live
         /\ ~made'[b].assigned => handles'[h].owned = handles[h].owned

\* A file can only get a shared_ptr, or lose its last holder and with it become pending.
LEMMA StatementFiles ==
  ASSUME Inv, TypeOK', Statement
  PROVE  FilesAreOpen' /\ ClosedAsOwned' /\ DanglesAt'
<1>. USE DEF Statement
<1>1. Len(made') \in Nat /\ \A b \in DOMAIN made' : made'[b] \in SharedPtr
  <2>1. made' \in Seq(SharedPtr)
    BY DEF Follows
  <2> QED BY <2>1, ElementOfSeq, LenProperties
<1>2. \A b \in DOMAIN made : Pending(b) <=> IsHeld(b)
  BY IdlePending
<1>3. \A b \in DOMAIN made : Pending(b)' => Pending(b)
  <2>1. \A b \in DOMAIN made : deleting'.block = b => deleting' # None
    BY Lengths DEF None, Deleter
  <2> QED BY <1>2, <2>1 DEF Pending, OnlyLapses
<1>4. \A b \in DOMAIN made : Pending(b) => Pending(b)'
  BY <1>2 DEF Pending, OnlyLapses
<1>5. \A b \in DOMAIN made : File(b)' = File(b) /\ made'[b].owned = made[b].owned
  BY DEF Follows, File
<1>6. \A f \in Files : Unopened(f)' => Unopened(f)
  BY <1>5 DEF Unopened, File, Follows
<1>7. \A b \in DOMAIN made' : b \in DOMAIN made \/ closed[File(b)'] = 0
  <2>1. ASSUME NEW b \in DOMAIN made', b \notin DOMAIN made
        PROVE  closed[made'[b].file] = 0
    BY <1>1, <2>1 DEF Inv, FilesAreOpen, SharedPtr
  <2> QED BY <2>1 DEF File
<1>8. FilesAreOpen'
  <2>1. \A b, c \in DOMAIN made' : made'[b].file = made'[c].file => b = c
    <3>1. \A b, c \in DOMAIN made : made'[b].file = made'[c].file => b = c
      BY <1>5 DEF Inv, FilesAreOpen, File
    <3>2. ASSUME NEW b \in DOMAIN made, NEW c \in DOMAIN made', c \notin DOMAIN made
          PROVE  made'[b].file # made'[c].file
      BY <3>2, <1>5 DEF Unopened, File
    <3> QED BY <3>1, <3>2
  <2>2. \A f \in Files : Unopened(f)' => closed'[f] = 0
    BY <1>6 DEF Inv, FilesAreOpen
  <2>3. deleting' # None => deleting'.block \in DOMAIN made' /\ ~Held(handles', buffers', deleting'.block)
    BY DEF OnlyLapses, Follows
  <2>4. ASSUME NEW b \in DOMAIN made', Pending(b)'
        PROVE  closed'[made'[b].file] = 0
    BY <1>3, <1>5, <1>7, <2>4 DEF Inv, FilesAreOpen, File
  <2> QED BY <2>1, <2>2, <2>3, <2>4 DEF FilesAreOpen, File, IsHeld
<1>9. ClosedAsOwned'
  <2>1. ASSUME NEW b \in DOMAIN made, Faithful(b)'
        PROVE  Faithful(b)
    BY <2>1, Lengths DEF Faithful, Follows, Inv, TypeOK
  <2>2. ASSUME NEW b \in DOMAIN made', Faithful(b)'
        PROVE  /\ ~made'[b].owned => closed'[made'[b].file] = 0
               /\ made'[b].owned /\ ~Pending(b)' => closed'[made'[b].file] = 1
    <3>1. CASE b \in DOMAIN made
      BY <1>4, <1>5, <2>1, <2>2, <3>1 DEF Inv, ClosedAsOwned, File
    <3>2. CASE b \notin DOMAIN made
      BY <1>7, <3>2 DEF File, Pending
    <3> QED BY <3>1, <3>2
  <2> QED BY <2>2 DEF ClosedAsOwned, File
<1>10. DanglesAt'
  BY DEF DanglesAt, Idle
<1> QED BY <1>8, <1>9, <1>10

\* The maker of a held file is there, and has its flag unless it was assigned.
LEMMA StatementMakers ==
  ASSUME Inv, TypeOK', Statement, MakersLast
  PROVE  MakersKeep'
<1>. USE DEF Statement
<1>1. ASSUME NEW b \in DOMAIN made', IsHeld(b)', made'[b].maker \in Handles
      PROVE  handles'[made'[b].maker].live
  <2>1. CASE b \in DOMAIN made
    <3>1. made'[b].maker = made[b].maker /\ IsHeld(b)
      BY <1>1, <2>1, Lengths DEF Follows, OnlyLapses
    <3> QED BY <1>1, <2>1, <3>1 DEF MakersLast, Inv, MakersKeep
  <2> QED BY <1>1, <2>1 DEF MakersLast
<1>2. ASSUME NEW b \in DOMAIN made', Faithful(b)', Pending(b)'
      PROVE  handles'[made'[b].maker].owned = made'[b].owned
  <2>1. CASE b \in DOMAIN made
    <3>1. made'[b].maker = made[b].maker /\ made[b].maker \in Handles /\ ~made'[b].assigned
      BY <1>2, <2>1, Lengths DEF Follows, Faithful
    <3>2. Faithful(b)
      BY <2>1, <3>1, Lengths DEF Follows, Faithful, SharedPtr
    <3>3. IsHeld(b) /\ Pending(b)
      <4>1. deleting'.block = b => deleting' # None
        BY <2>1, Lengths DEF None, Deleter
      <4> QED BY <1>2, <2>1, <4>1 DEF OnlyLapses, Pending
    <3> QED BY <2>1, <3>1, <3>2, <3>3 DEF MakersLast, Inv, MakersKeep, Follows
  <2>2. CASE b \notin DOMAIN made
    BY <1>2, <2>2 DEF MakersLast, Faithful
  <2> QED BY <2>1, <2>2
<1> QED BY <1>1, <1>2 DEF MakersKeep

\* A statement that makes no parser.
LEMMA StatementBuffers ==
  ASSUME Inv, Statement, UNCHANGED buffers,
         \A p \in Parsers : parsers'[p] = "none" <=> parsers[p] = "none",
         \A b \in DOMAIN made' : b \notin DOMAIN made => made'[b].maker # Parameter
  PROVE  BuffersKeep'
<1>1. \A b \in DOMAIN made : made'[b].maker = Parameter => made[b].maker = Parameter
  BY DEF Statement, Follows, Parameter, Gone
<1> QED BY <1>1 DEF BuffersKeep, Inv

\* A statement that makes no parser gives one variable a new value, v: nothing, a copy of
\* another, or a new file of which it, or a temporary, is the maker.
Gives(h, v, into, fresh) ==
  /\ Idle /\ UNCHANGED <<parsers, buffers, closed, undefined>>
  /\ v \in Variable(0..Len(made'))
  /\ into \in Handles \cup {"none"} /\ fresh \in 0..Len(made')
  /\ handles' = [handles EXCEPT ![h] = v]
  /\ deleting' = LetGo(handles', buffers, handles[h].holds, into, fresh)
  /\ ~v.live => v.holds = 0
  /\ v.shows => v.holds # 0
  /\ v.holds \in DOMAIN made => IsHeld(v.holds)
  /\ Follows(made')
  /\ \A b \in DOMAIN made' : b \notin DOMAIN made =>
       /\ b = NewBlock /\ v.holds = b /\ Unopened(made'[b].file)
       /\ \/ made'[b].maker = h /\ v.live /\ v.owned = made'[b].owned
          \/ made'[b].maker = Temporary
  /\ \A b \in DOMAIN made : made'[b].maker = h /\ handles[h].live =>
       /\ IsHeld(b)' => v.live
       /\ ~made'[b].assigned => v.owned = handles[h].owned

\* Such a statement preserves the invariant.
LEMMA VariableStep ==
  ASSUME Inv, NEW h \in Handles, NEW v, NEW into, NEW fresh, Gives(h, v, into, fresh)
  PROVE  Inv'
<1>. USE DEF Gives
<1>1. /\ Len(made') \in Nat /\ Len(made) <= Len(made')
      /\ \A g \in Handles : handles'[g] = IF g = h THEN v ELSE handles[g]
  <2>1. made' \in Seq(SharedPtr) /\ DOMAIN made \subseteq DOMAIN made'
    BY DEF Follows
  <2>2. Len(made') \in Nat /\ DOMAIN made' = 1..Len(made')
    BY <2>1, LenProperties
  <2>3. Len(made) <= Len(made')
    BY <2>1, <2>2, Lengths
  <2> QED BY <2>2, <2>3 DEF Inv, TypeOK
<1>2. handles' \in [Handles -> Variable(0..Len(made'))]
  BY <1>1, Lengths DEF Inv, TypeOK, Variable
<1>3. OnlyLapses
  <2>1. handles' \in [Handles -> Variable(Nat)]
    BY <1>1, <1>2 DEF Variable
  <2> QED BY <1>1, <2>1, LettingGo
<1>4. TypeOK'
  <2>1. deleting' \in [block : 0..Len(made'), into : Handles \cup {"none"}, fresh : 0..Len(made')]
    BY <1>1, Lengths DEF LetGo, None, Deleter, Variable
  <2>2. buffers' \in [Parsers -> 0..Len(made')]
    BY <1>1, Lengths DEF Inv, TypeOK
  <2> QED BY <1>2, <2>1, <2>2 DEF Inv, TypeOK, Follows
<1>5. Statement
  <2>1. \A b \in DOMAIN made' : b \notin DOMAIN made => IsHeld(b)'
    BY <1>1 DEF IsHeld, Held
  <2> QED BY <1>3, <2>1 DEF Statement
<1>6. MakersLast
  BY <1>1, Lengths DEF MakersLast
<1>7. VariablesHold'
  BY <1>1 DEF VariablesHold, Inv
<1>8. BuffersKeep'
  <2>1. \A b \in DOMAIN made' : b \notin DOMAIN made => made'[b].maker # Parameter
    BY Lengths DEF Temporary, Parameter
  <2> QED BY <1>5, <2>1, StatementBuffers
<1> QED BY <1>4, <1>5, <1>6, <1>7, <1>8, StatementFiles, StatementMakers DEF Inv

\* A variable that is not there has nothing to let go of.
LEMMA NewVariable ==
  ASSUME Inv, Idle, NEW h \in Handles, ~handles[h].live, UNCHANGED deleting
  PROVE  deleting' = LetGo(handles', buffers, handles[h].holds, "none", 0)
BY DEF Inv, VariablesHold, Idle, LetGo

\* Each statement on its own, with the value it gives its variable.
LEMMA DefaultInv ==
  ASSUME Inv, NEW h \in Handles, Default(h)
  PROVE  Inv'
<1>1. PICK v : v = Handle(FALSE, 0)
  OBVIOUS
<1>2. v \in Variable(0..Len(made')) /\ v.live /\ v.holds = 0 /\ ~v.shows
  BY <1>1, Lengths DEF Default, Handle, Variable
<1>3. /\ Follows(made') /\ DOMAIN made' = DOMAIN made
      /\ deleting' = LetGo(handles', buffers, handles[h].holds, "none", 0)
  BY SameFollows, NewVariable DEF Default
<1>4. Gives(h, v, "none", 0)
  <2>1. Idle /\ UNCHANGED <<parsers, buffers, closed, undefined>>
    BY DEF Default
  <2>2. "none" \in Handles \cup {"none"} /\ 0 \in 0..Len(made')
    BY Lengths DEF Default
  <2>3. handles' = [handles EXCEPT ![h] = v]
    BY <1>1 DEF Default
  <2>4. v.holds \notin DOMAIN made
    BY <1>2, Lengths
  <2>5. ~handles[h].live
    BY DEF Default
  <2> QED BY <1>2, <1>3, <2>1, <2>2, <2>3, <2>4, <2>5 DEF Gives
<1> QED BY <1>4, VariableStep

LEMMA ReleaseInv ==
  ASSUME Inv, NEW h \in Handles, Release(h)
  PROVE  Inv'
<1>1. PICK v : v = Handle(handles[h].owned, 0)
  OBVIOUS
<1>2. Idle /\ UNCHANGED <<made, parsers, buffers, closed, undefined>>
  BY DEF Release
<1>3. v \in Variable(0..Len(made')) /\ v.live /\ v.holds = 0 /\ ~v.shows
  <2>1. handles[h].owned \in BOOLEAN /\ 0 \in 0..Len(made')
    BY <1>2, Lengths DEF Variable
  <2> QED BY <1>1, <2>1 DEF Handle, Variable
<1>4. v.owned = handles[h].owned
  BY <1>1 DEF Handle
<1>5. Gives(h, v, "none", 0)
  <2>1. "none" \in Handles \cup {"none"} /\ 0 \in 0..Len(made')
    BY <1>2, Lengths
  <2>2. handles' = [handles EXCEPT ![h] = v]
    BY <1>1 DEF Release
  <2>3. v.holds \notin DOMAIN made
    BY <1>3, Lengths
  <2>4. deleting' = LetGo(handles', buffers, handles[h].holds, "none", 0)
    BY DEF Release
  <2> QED BY <1>2, <1>3, <1>4, <2>1, <2>2, <2>3, <2>4, SameFollows DEF Gives
<1> QED BY <1>5, VariableStep

LEMMA DestroyInv ==
  ASSUME Inv, NEW h \in Handles, Destroy(h)
  PROVE  Inv'
<1>1. PICK v : v = [NoHandle EXCEPT !.owned = handles[h].owned]
  OBVIOUS
<1>2. /\ Idle /\ UNCHANGED <<parsers, buffers, closed, undefined>>
      /\ made' = Orphaned(h, handles')
  BY DEF Destroy
<1>3. /\ Follows(made') /\ Len(made') = Len(made) /\ DOMAIN made' = DOMAIN made
      /\ \A b \in DOMAIN made : IsHeld(b)' => made'[b].maker # h
  <2>1. \A b \in DOMAIN made : Held(handles', buffers, b) => made'[b].maker # h
    BY <1>2, OrphanedFollows
  <2>2. DOMAIN made' = DOMAIN made
    BY <1>2 DEF Orphaned
  <2> QED BY <1>2, <2>1, <2>2, OrphanedFollows DEF IsHeld
<1>4. v \in Variable(0..Len(made')) /\ ~v.live /\ v.holds = 0 /\ ~v.shows
  <2>1. handles[h].owned \in BOOLEAN /\ 0 \in 0..Len(made')
    BY <1>3, Lengths DEF Variable
  <2> QED BY <1>1, <2>1 DEF NoHandle, Variable
<1>5. v.owned = handles[h].owned
  BY <1>1 DEF NoHandle
<1>6. Gives(h, v, "none", 0)
  <2>1. "none" \in Handles \cup {"none"} /\ 0 \in 0..Len(made')
    BY <1>3, Lengths
  <2>2. handles' = [handles EXCEPT ![h] = v]
    BY <1>1 DEF Destroy
  <2>3. v.holds \notin DOMAIN made
    BY <1>4, Lengths
  <2>4. deleting' = LetGo(handles', buffers, handles[h].holds, "none", 0)
    BY DEF Destroy
  <2> QED BY <1>2, <1>3, <1>4, <1>5, <2>1, <2>2, <2>3, <2>4 DEF Gives
<1> QED BY <1>6, VariableStep

LEMMA CopyInv ==
  ASSUME Inv, NEW h \in Handles, NEW g \in Handles, Copy(h, g)
  PROVE  Inv'
<1>1. PICK v : v = handles[g]
  OBVIOUS
<1>2. /\ Idle /\ UNCHANGED <<made, parsers, buffers, closed, undefined, deleting>>
      /\ ~handles[h].live /\ handles[g].live
      /\ handles' = [handles EXCEPT ![h] = v]
  BY <1>1 DEF Copy
<1>3. v \in Variable(0..Len(made')) /\ v.live /\ (v.shows => v.holds # 0)
  BY <1>1, <1>2, Lengths DEF Inv, VariablesHold
<1>4. Gives(h, v, "none", 0)
  <2>1. "none" \in Handles \cup {"none"} /\ 0 \in 0..Len(made')
    BY <1>2, Lengths
  <2>2. IsHeld(v.holds)
    BY <1>1 DEF IsHeld, Held
  <2>3. deleting' = LetGo(handles', buffers, handles[h].holds, "none", 0)
    BY <1>2, NewVariable
  <2> QED BY <1>2, <1>3, <2>1, <2>2, <2>3, SameFollows DEF Gives
<1> QED BY <1>4, VariableStep

LEMMA AssignInv ==
  ASSUME Inv, NEW h \in Handles, NEW g \in Handles, Assign(h, g)
  PROVE  Inv'
<1>1. PICK v : v = handles[g]
  OBVIOUS
<1>2. /\ Idle /\ UNCHANGED <<parsers, buffers, closed, undefined>>
      /\ made' = Assigned(h) /\ handles[g].live
      /\ handles' = [handles EXCEPT ![h] = v]
      /\ deleting' = LetGo(handles', buffers, handles[h].holds, h, 0)
  BY <1>1 DEF Assign
<1>3. /\ Follows(made') /\ Len(made') = Len(made) /\ DOMAIN made' = DOMAIN made
      /\ \A b \in DOMAIN made : made'[b].maker = h => made'[b].assigned
  <2>1. DOMAIN made' = DOMAIN made
    BY <1>2 DEF Assigned
  <2> QED BY <1>2, <2>1, AssignedFollows
<1>4. v \in Variable(0..Len(made')) /\ v.live /\ (v.shows => v.holds # 0)
  BY <1>1, <1>2, <1>3, Lengths DEF Inv, VariablesHold
<1>5. Gives(h, v, h, 0)
  <2>1. 0 \in 0..Len(made')
    BY <1>3, Lengths
  <2>2. IsHeld(v.holds)
    BY <1>1 DEF IsHeld, Held
  <2> QED BY <1>2, <1>3, <1>4, <2>1, <2>2 DEF Gives
<1> QED BY <1>5, VariableStep

LEMMA MakeInv ==
  ASSUME Inv, NEW h \in Handles, NEW f \in Files, NEW owned \in BOOLEAN, Make(h, f, owned)
  PROVE  Inv'
<1>1. PICK v : v = Handle(owned, NewBlock)
  OBVIOUS
<1>2. /\ Idle /\ UNCHANGED <<parsers, buffers, closed, undefined, deleting>>
      /\ made' = Append(made, Block(f, h, owned)) /\ Unopened(f)
      /\ ~handles[h].live /\ handles' = [handles EXCEPT ![h] = v]
  BY <1>1 DEF Make
<1>3. /\ Follows(made') /\ Len(made') = NewBlock /\ DOMAIN made' = DOMAIN made \cup {NewBlock}
      /\ made'[NewBlock] = Block(f, h, owned)
  BY <1>2, SameFollows, AppendFollows
<1>4. /\ v \in Variable(0..Len(made')) /\ v.live /\ v.holds = NewBlock
      /\ (v.shows => v.holds # 0) /\ v.owned = owned
  BY <1>1, <1>3, Lengths DEF Handle, Variable
<1>5. Gives(h, v, "none", 0)
  <2>1. "none" \in Handles \cup {"none"} /\ 0 \in 0..Len(made')
    BY <1>3, Lengths
  <2>2. v.holds \notin DOMAIN made
    BY <1>4, Lengths
  <2>3. deleting' = LetGo(handles', buffers, handles[h].holds, "none", 0)
    BY <1>2, NewVariable
  <2>4. \A b \in DOMAIN made' : b \notin DOMAIN made =>
          /\ b = NewBlock /\ v.holds = b /\ Unopened(made'[b].file)
          /\ made'[b].maker = h /\ v.live /\ v.owned = made'[b].owned
    BY <1>2, <1>3, <1>4 DEF Block
  <2> QED BY <1>2, <1>3, <1>4, <2>1, <2>2, <2>3, <2>4 DEF Gives
<1> QED BY <1>5, VariableStep

LEMMA RenewInv ==
  ASSUME Inv, NEW h \in Handles, NEW f \in Files, NEW owned \in BOOLEAN, Renew(h, f, owned)
  PROVE  Inv'
<1>1. PICK v : v = Handle(owned, NewBlock)
  OBVIOUS
<1>2. /\ Idle /\ UNCHANGED <<parsers, buffers, closed, undefined>>
      /\ made' = Append(Assigned(h), Block(f, Temporary, owned)) /\ Unopened(f)
      /\ handles' = [handles EXCEPT ![h] = v]
      /\ deleting' = LetGo(handles', buffers, handles[h].holds, "none", NewBlock)
  BY <1>1 DEF Renew
<1>3. /\ Follows(made') /\ Len(made') = NewBlock /\ DOMAIN made' = DOMAIN made \cup {NewBlock}
      /\ made'[NewBlock] = Block(f, Temporary, owned)
      /\ \A b \in DOMAIN made : made'[b] = Assigned(h)[b]
  <2>1. PICK old : old = Assigned(h)
    OBVIOUS
  <2>2. Follows(old) /\ Len(old) = Len(made)
    BY <2>1, AssignedFollows
  <2>3. Temporary \in Handles \cup {Temporary, Parameter, Gone}
    OBVIOUS
  <2>4. made' = Append(old, Block(f, Temporary, owned))
    BY <1>2, <2>1
  <2> QED BY <2>1, <2>2, <2>3, <2>4, AppendFollows
<1>4. \A b \in DOMAIN made : made'[b].maker = h => made'[b].assigned
  BY <1>3, AssignedFollows
<1>5. /\ v \in Variable(0..Len(made')) /\ v.live /\ v.holds = NewBlock
      /\ (v.shows => v.holds # 0)
  BY <1>1, <1>3, Lengths DEF Handle, Variable
<1>6. Gives(h, v, "none", NewBlock)
  <2>1. "none" \in Handles \cup {"none"} /\ NewBlock \in 0..Len(made')
    BY <1>3, Lengths
  <2>2. v.holds \notin DOMAIN made
    BY <1>5, Lengths
  <2>3. \A b \in DOMAIN made' : b \notin DOMAIN made =>
          /\ b = NewBlock /\ v.holds = b /\ Unopened(made'[b].file)
          /\ made'[b].maker = Temporary
    BY <1>2, <1>3, <1>5 DEF Block
  <2> QED BY <1>2, <1>3, <1>4, <1>5, <2>1, <2>2, <2>3 DEF Gives
<1> QED BY <1>6, VariableStep

(***************************************************************************)
(* Parsers.                                                                *)
(***************************************************************************)

\* The buffer of a new parser is given b, which a variable holds or the parameter made.
LEMMA ParserStep ==
  ASSUME Inv, Idle, NEW p \in Parsers, NEW b \in DOMAIN made', parsers[p] = "none",
         parsers' = [parsers EXCEPT ![p] = "open"],
         buffers' = [buffers EXCEPT ![p] = b],
         UNCHANGED <<handles, closed, deleting, undefined>>,
         Follows(made'),
         b \in DOMAIN made => IsHeld(b),
         \A c \in DOMAIN made' : c \notin DOMAIN made =>
           c = NewBlock /\ c = b /\ Unopened(made'[c].file) /\ made'[c].maker = Parameter
  PROVE  Inv'
<1>1. made' \in Seq(SharedPtr) /\ Len(made') \in Nat /\ Len(made) <= Len(made')
      /\ DOMAIN made' = 1..Len(made')
  <2>1. made' \in Seq(SharedPtr) /\ DOMAIN made \subseteq DOMAIN made'
    BY DEF Follows
  <2>2. Len(made') \in Nat /\ DOMAIN made' = 1..Len(made')
    BY <2>1, LenProperties
  <2> QED BY <2>1, <2>2, Lengths
<1>2. TypeOK'
  <2>1. handles \in [Handles -> Variable(0..Len(made'))]
    BY <1>1, Lengths DEF Inv, TypeOK, Variable
  <2>2. buffers' \in [Parsers -> 0..Len(made')]
    BY <1>1, Lengths DEF Inv, TypeOK
  <2>3. parsers' \in [Parsers -> {"none", "open", "gone"}]
    BY DEF Inv, TypeOK
  <2>4. deleting \in [block : 0..Len(made'), into : Handles \cup {"none"}, fresh : 0..Len(made')]
    BY <1>1, Lengths DEF Idle, None, Deleter
  <2> QED BY <1>1, <2>1, <2>2, <2>3, <2>4 DEF Inv, TypeOK
<1>3. buffers[p] = 0 /\ \A q \in Parsers : buffers'[q] = IF q = p THEN b ELSE buffers[q]
  BY DEF Inv, BuffersKeep, TypeOK
<1>4. Statement
  <2>1. \A c \in DOMAIN made : IsHeld(c)' <=> IsHeld(c)
    BY <1>3, Lengths DEF IsHeld, Held
  <2>2. OnlyLapses
    BY <2>1, NothingLapses, deleting' = None DEF Idle
  <2>3. \A c \in DOMAIN made' : c \notin DOMAIN made => IsHeld(c)'
    BY <1>3 DEF IsHeld, Held
  <2> QED BY <2>2, <2>3 DEF Statement
<1>5. MakersLast
  <2>1. \A c \in DOMAIN made' : c \notin DOMAIN made => made'[c].maker \notin Handles
    BY Lengths
  <2> QED BY <2>1 DEF MakersLast
<1>6. VariablesHold'
  BY DEF VariablesHold, Inv
<1>7. BuffersKeep'
  <2>1. \A q \in Parsers : parsers'[q] = "none" <=> buffers'[q] = 0
    BY <1>1, <1>3 DEF Inv, TypeOK, BuffersKeep
  <2>2. ASSUME NEW c \in DOMAIN made', made'[c].maker = Parameter
        PROVE  \E q \in Parsers : buffers'[q] = c
    <3>1. CASE c \in DOMAIN made
      <4>1. made[c].maker = Parameter /\ c # 0
        BY <2>2, <3>1, Lengths DEF Follows, Parameter, Gone
      <4> QED BY <1>3, <3>1, <4>1 DEF Inv, BuffersKeep
    <3> QED BY <1>3, <3>1
  <2> QED BY <2>1, <2>2 DEF BuffersKeep
<1> QED BY <1>2, <1>4, <1>5, <1>6, <1>7, StatementFiles, StatementMakers DEF Inv

\* The three statements about parsers.
LEMMA OpenParserInv ==
  ASSUME Inv, NEW p \in Parsers, NEW h \in Handles, OpenParser(p, h)
  PROVE  Inv'
<1>1. PICK b : b = handles[h].holds
  OBVIOUS
<1>2. b \in DOMAIN made /\ IsHeld(b)
  BY <1>1, Lengths DEF OpenParser, Inv, VariablesHold, Variable, IsHeld, Held
<1> QED BY <1>1, <1>2, ParserStep, SameFollows DEF OpenParser

\* A file given to a parser alone.
LEMMA ParameterFollows ==
  ASSUME Inv, NEW f \in Files, NEW owned \in BOOLEAN
  PROVE  /\ Follows(Append(made, Block(f, Parameter, owned)))
         /\ DOMAIN Append(made, Block(f, Parameter, owned)) = DOMAIN made \cup {NewBlock}
         /\ Append(made, Block(f, Parameter, owned))[NewBlock] = Block(f, Parameter, owned)
<1>1. Follows(made)
  BY SameFollows
<1>2. Follows(Append(made, Block(f, Parameter, owned)))
  BY <1>1, AppendFollows
<1>3. Append(made, Block(f, Parameter, owned))[NewBlock] = Block(f, Parameter, owned)
  <2>1. Parameter \in Handles \cup {Temporary, Parameter, Gone}
    OBVIOUS
  <2>2. \A old, m : Follows(old) /\ Len(old) = Len(made)
          /\ m \in Handles \cup {Temporary, Parameter, Gone}
          => Append(old, Block(f, m, owned))[NewBlock] = Block(f, m, owned)
    BY AppendFollows
  <2> QED BY <1>1, <2>1, <2>2
<1>4. DOMAIN Append(made, Block(f, Parameter, owned)) = DOMAIN made \cup {NewBlock}
  BY <1>1, AppendFollows
<1> QED BY <1>2, <1>3, <1>4

LEMMA OpenParserOnInv ==
  ASSUME Inv, NEW p \in Parsers, NEW f \in Files, NEW owned \in BOOLEAN,
         OpenParserOn(p, f, owned)
  PROVE  Inv'
<1>1. /\ Follows(made') /\ DOMAIN made' = DOMAIN made \cup {NewBlock}
      /\ made'[NewBlock] = Block(f, Parameter, owned)
  BY ParameterFollows DEF OpenParserOn
<1>2. NewBlock \in DOMAIN made' /\ NewBlock \notin DOMAIN made
  BY <1>1, Lengths
<1>3. \A c \in DOMAIN made' : c \notin DOMAIN made =>
        c = NewBlock /\ Unopened(made'[c].file) /\ made'[c].maker = Parameter
  BY <1>1 DEF Block, OpenParserOn
<1> QED BY <1>1, <1>2, <1>3, ParserStep DEF OpenParserOn

LEMMA DestroyParserInv ==
  ASSUME Inv, NEW p \in Parsers, DestroyParser(p)
  PROVE  Inv'
<1>1. /\ Idle /\ UNCHANGED <<handles, made, buffers, closed, deleting, undefined>>
      /\ parsers' = [parsers EXCEPT ![p] = "gone"] /\ parsers[p] = "open"
  BY DEF DestroyParser
<1>2. TypeOK'
  BY <1>1 DEF Inv, TypeOK
<1>3. BuffersKeep'
  BY <1>1 DEF Inv, TypeOK, BuffersKeep
<1>4. \A b \in DOMAIN made : Pending(b)' <=> Pending(b)
  BY <1>1 DEF Pending, IsHeld
<1>5. FilesAreOpen' /\ MakersKeep' /\ ClosedAsOwned'
  BY <1>1, <1>4 DEF Inv, FilesAreOpen, MakersKeep, ClosedAsOwned, IsHeld, File, Faithful, Unopened
<1>6. VariablesHold' /\ DanglesAt'
  BY <1>1 DEF Inv, VariablesHold, DanglesAt, Idle
<1> QED BY <1>2, <1>3, <1>5, <1>6 DEF Inv

(***************************************************************************)
(* Deleters.                                                               *)
(***************************************************************************)

\* Releasing a maker takes the file of one variable, or none.
LEMMA Releasing ==
  ASSUME Inv, NEW m, ReleaseMaker(m), UNCHANGED <<made, buffers>>
  PROVE  /\ OnlyLapses
         /\ handles' \in [Handles -> Variable(0..Len(made))]
         /\ \A h \in Handles : /\ handles'[h].live = handles[h].live
                               /\ handles'[h].owned = handles[h].owned
                               /\ handles'[h].holds \in {0, handles[h].holds}
                               /\ handles'[h].shows => handles'[h].holds # 0
         /\ deleting' \in [block : 0..Len(made), into : Handles \cup {"none"}, fresh : 0..Len(made)]
<1>1. None \in [block : 0..Len(made), into : Handles \cup {"none"}, fresh : 0..Len(made)]
  BY Lengths DEF None, Deleter
<1>2. CASE m \notin Handles
  <2>1. deleting' = None /\ UNCHANGED handles
    BY <1>2 DEF ReleaseMaker
  <2>2. OnlyLapses
    BY <2>1, NothingLapses DEF IsHeld
  <2> QED BY <1>1, <2>1, <2>2 DEF Inv, TypeOK, VariablesHold
<1>3. CASE m \in Handles /\ m = deleting.into
  <2>1. deleting' = None /\ handles' = [handles EXCEPT ![m].shows = FALSE]
    BY <1>3 DEF ReleaseMaker
  <2>2. \A h \in Handles : handles'[h] = IF h = m THEN [handles[h] EXCEPT !.shows = FALSE]
                                         ELSE handles[h]
    BY <1>3, <2>1 DEF Inv, TypeOK
  <2>3. [handles[m] EXCEPT !.shows = FALSE] \in Variable(0..Len(made))
    BY <1>3, Lengths DEF Variable
  <2>4. \A h \in Handles : /\ handles'[h].live = handles[h].live
                           /\ handles'[h].owned = handles[h].owned
                           /\ handles'[h].holds = handles[h].holds
                           /\ handles'[h].shows => handles'[h].holds # 0
    BY <2>2, Lengths DEF Inv, VariablesHold, Variable
  <2>5. OnlyLapses
    BY <2>1, <2>4, NothingLapses DEF IsHeld, Held
  <2>6. handles' \in [Handles -> Variable(0..Len(made))]
    BY <2>1, <2>3 DEF Inv, TypeOK
  <2> QED BY <1>1, <2>1, <2>4, <2>5, <2>6
<1>4. CASE m \in Handles /\ m # deleting.into
  <2>1. /\ handles' = [handles EXCEPT ![m].holds = 0, ![m].shows = FALSE]
        /\ deleting' = LetGo(handles', buffers, handles[m].holds, deleting.into, deleting.fresh)
    BY <1>4 DEF ReleaseMaker
  <2>2. \A h \in Handles :
          handles'[h] = IF h = m THEN [handles[h] EXCEPT !.holds = 0, !.shows = FALSE]
                        ELSE handles[h]
    BY <1>4, <2>1 DEF Inv, TypeOK
  <2>3. [handles[m] EXCEPT !.holds = 0, !.shows = FALSE] \in Variable(0..Len(made))
    <3>1. handles[m] \in Variable(0..Len(made)) /\ 0 \in 0..Len(made)
      BY <1>4, Lengths
    <3> QED BY <3>1 DEF Variable
  <2>4. \A h \in Handles : /\ handles'[h].live = handles[h].live
                           /\ handles'[h].owned = handles[h].owned
                           /\ handles'[h].holds = IF h = m THEN 0 ELSE handles[h].holds
                           /\ handles'[h].shows => handles'[h].holds # 0
    BY <2>2, Lengths DEF Inv, VariablesHold, Variable
  <2>5. handles' \in [Handles -> Variable(0..Len(made))]
    BY <2>2, <2>3, <2>1 DEF Inv, TypeOK
  <2>6. OnlyLapses
    <3>1. handles' \in [Handles -> Variable(Nat)]
      BY <2>5, Lengths DEF Variable
    <3>2. handles'[m].holds \notin DOMAIN made
      BY <1>4, <2>4, Lengths
    <3>3. \A g \in Handles : g # m => handles'[g].holds = handles[g].holds
      BY <2>4
    <3>4. PICK into, fresh : into = deleting.into /\ fresh = deleting.fresh
      OBVIOUS
    <3>5. deleting' = LetGo(handles', buffers, handles[m].holds, into, fresh)
      BY <2>1, <3>4
    <3> QED BY <1>4, <3>1, <3>2, <3>3, <3>5, LettingGo
  <2>7. deleting' \in [block : 0..Len(made), into : Handles \cup {"none"}, fresh : 0..Len(made)]
    <3>1. deleting.into \in Handles \cup {"none"} /\ deleting.fresh \in 0..Len(made)
      BY DEF Inv, TypeOK
    <3>2. handles[m].holds \in 0..Len(made)
      BY <1>4, Lengths DEF Variable
    <3>3. deleting' = None \/ deleting' = Deleter(handles[m].holds, deleting.into, deleting.fresh)
      BY <2>1 DEF LetGo
    <3> QED BY <1>1, <3>1, <3>2, <3>3 DEF Deleter
  <2> QED BY <2>4, <2>5, <2>6, <2>7
<1> QED BY <1>2, <1>3, <1>4

\* The deleter closes the file of its shared_ptr, which nothing holds, as the flag of
\* the maker says; then another shared_ptr may be pending, and its file is another.
LEMMA DeleteInv ==
  ASSUME Inv, Delete
  PROVE  Inv'
<1>1. PICK b : b = deleting.block
  OBVIOUS
<1>2. /\ b \in DOMAIN made /\ ~IsHeld(b) /\ Pending(b) /\ closed[File(b)] = 0
      /\ File(b) \in Files /\ MakerIsThere(b) /\ CloseFile(b)
  BY <1>1, Lengths DEF Delete, Inv, FilesAreOpen, Pending, File, SharedPtr
<1>3. /\ UNCHANGED <<made, parsers, buffers, undefined>> /\ ~undefined
      /\ ReleaseMaker(made[b].maker)
  BY <1>1 DEF Delete
<1>4. /\ OnlyLapses
      /\ handles' \in [Handles -> Variable(0..Len(made))]
      /\ \A h \in Handles : /\ handles'[h].live = handles[h].live
                            /\ handles'[h].owned = handles[h].owned
                            /\ handles'[h].holds \in {0, handles[h].holds}
                            /\ handles'[h].shows => handles'[h].holds # 0
      /\ deleting' \in [block : 0..Len(made), into : Handles \cup {"none"}, fresh : 0..Len(made)]
  BY <1>3, Releasing
<1>5. /\ \A f \in Files : f # File(b) => closed'[f] = closed[f]
      /\ closed' \in [Files -> 0..1]
      /\ closed'[File(b)] = IF MakerOwns(b) THEN 1 ELSE 0
  BY <1>2 DEF CloseFile, File, Inv, TypeOK
<1>6. \A c \in DOMAIN made : Pending(c)' => IsHeld(c)
  <2>1. \A c \in DOMAIN made : deleting'.block = c => deleting' # None
    BY Lengths DEF None, Deleter
  <2> QED BY <1>4, <2>1 DEF Pending, IsHeld, OnlyLapses
<1>7. \A c \in DOMAIN made : c # b => File(c) \in Files /\ File(c) # File(b)
  BY <1>2, Lengths DEF Inv, FilesAreOpen, File, SharedPtr
<1>8. TypeOK'
  BY <1>3, <1>4, <1>5 DEF Inv, TypeOK
<1>9. VariablesHold' /\ BuffersKeep'
  BY <1>3, <1>4 DEF Inv, VariablesHold, BuffersKeep
<1>10. FilesAreOpen'
  <2>1. \A f \in Files : Unopened(f) => closed'[f] = 0
    BY <1>2, <1>5 DEF Inv, FilesAreOpen, Unopened, File
  <2>2. \A c \in DOMAIN made : Pending(c)' => closed'[File(c)] = 0
    <3>1. ASSUME NEW c \in DOMAIN made, Pending(c)'
          PROVE  closed'[File(c)] = 0
      <4>1. IsHeld(c) /\ c # b
        BY <1>2, <1>6, <3>1
      <4>2. closed[File(c)] = 0
        BY <4>1 DEF Inv, FilesAreOpen, Pending
      <4> QED BY <1>5, <1>7, <4>1, <4>2
    <3> QED BY <3>1
  <2>3. deleting' # None => deleting'.block \in DOMAIN made
                            /\ ~Held(handles', buffers', deleting'.block)
    BY <1>4 DEF OnlyLapses
  <2> QED BY <1>3, <2>1, <2>2, <2>3 DEF Inv, FilesAreOpen, File, Unopened, IsHeld
<1>11. MakersKeep'
  <2>1. \A c \in DOMAIN made : IsHeld(c)' => IsHeld(c)
    BY <1>4 DEF OnlyLapses
  <2> QED BY <1>3, <1>4, <1>6, <2>1 DEF Inv, MakersKeep, Faithful, Pending
<1>12. ClosedAsOwned'
  <2>1. ASSUME NEW c \in DOMAIN made, Faithful(c)
        PROVE  /\ ~made[c].owned => closed'[File(c)] = 0
               /\ made[c].owned /\ ~Pending(c)' => closed'[File(c)] = 1
    <3>1. CASE c = b
      <4>1. MakerOwns(b) <=> made[b].owned
        <5>1. made[b].maker \in Handles /\ handles[made[b].maker].owned = made[b].owned
          BY <1>2, <2>1, <3>1 DEF Faithful, Inv, MakersKeep
        <5> QED BY <5>1 DEF MakerOwns
      <4> QED BY <1>5, <3>1, <4>1
    <3>2. CASE c # b
      <4>1. closed'[File(c)] = closed[File(c)]
        BY <1>5, <1>7, <3>2
      <4>2. ~Pending(c)' => ~Pending(c)
        BY <1>1, <1>4, <3>2 DEF Pending, OnlyLapses
      <4> QED BY <2>1, <4>1, <4>2 DEF Inv, ClosedAsOwned
    <3> QED BY <3>1, <3>2
  <2> QED BY <1>3, <2>1 DEF ClosedAsOwned, Faithful, File
<1>13. DanglesAt'
  BY <1>3 DEF DanglesAt
<1> QED BY <1>8, <1>9, <1>10, <1>11, <1>12, <1>13 DEF Inv

\* The deleter of a maker that is gone changes nothing else.
LEMMA DangleInv ==
  ASSUME Inv, Dangle
  PROVE  Inv'
<1>1. /\ UNCHANGED <<handles, made, parsers, buffers, closed, deleting>> /\ undefined'
      /\ deleting # None /\ ~MakerIsThere(deleting.block)
  BY DEF Dangle
<1>2. \A b \in DOMAIN made : (Pending(b)' <=> Pending(b)) /\ (IsHeld(b)' <=> IsHeld(b))
  BY <1>1 DEF Pending, IsHeld
<1>3. TypeOK'
  BY <1>1 DEF Inv, TypeOK, Dangle
<1>4. FilesAreOpen' /\ MakersKeep' /\ ClosedAsOwned'
  BY <1>1, <1>2 DEF Inv, FilesAreOpen, MakersKeep, ClosedAsOwned, IsHeld, File, Faithful, Unopened
<1>5. VariablesHold' /\ BuffersKeep' /\ DanglesAt'
  BY <1>1 DEF Inv, VariablesHold, BuffersKeep, DanglesAt, MakerIsThere
<1> QED BY <1>3, <1>4, <1>5 DEF Inv

\* A step of something else.
LEMMA StutterInv ==
  ASSUME Inv, UNCHANGED vars
  PROVE  Inv'
BY DEF vars, Inv, TypeOK, VariablesHold, BuffersKeep, FilesAreOpen, MakersKeep, ClosedAsOwned,
       DanglesAt, IsHeld, Pending, File, Faithful, Unopened, MakerIsThere

\* Every statement and every deleter preserves the invariant.
THEOREM StepInv == Inv /\ [Next]_vars => Inv'
<1>. SUFFICES ASSUME Inv, [Next]_vars PROVE Inv'
  OBVIOUS
<1>1. ASSUME NEW h \in Handles, Default(h) \/ Release(h) \/ Destroy(h)
      PROVE  Inv'
  BY <1>1, DefaultInv, ReleaseInv, DestroyInv
<1>2. ASSUME NEW h \in Handles, NEW g \in Handles, Copy(h, g) \/ Assign(h, g)
      PROVE  Inv'
  BY <1>2, CopyInv, AssignInv
<1>3. ASSUME NEW h \in Handles, NEW f \in Files, NEW owned \in BOOLEAN,
             Make(h, f, owned) \/ Renew(h, f, owned)
      PROVE  Inv'
  BY <1>3, MakeInv, RenewInv
<1>4. ASSUME NEW p \in Parsers, NEW h \in Handles, OpenParser(p, h)
      PROVE  Inv'
  BY <1>4, OpenParserInv
<1>5. ASSUME NEW p \in Parsers, NEW f \in Files, NEW owned \in BOOLEAN,
             OpenParserOn(p, f, owned)
      PROVE  Inv'
  BY <1>5, OpenParserOnInv
<1>6. ASSUME NEW p \in Parsers, DestroyParser(p)
      PROVE  Inv'
  BY <1>6, DestroyParserInv
<1>7. Delete \/ Dangle \/ UNCHANGED vars => Inv'
  BY DeleteInv, DangleInv, StutterInv
<1> QED BY <1>1, <1>2, <1>3, <1>4, <1>5, <1>6, <1>7 DEF Next

\* The invariant holds in every reachable state, whatever the host does with its variables.
THEOREM InvariantHolds == Spec => []Inv
BY InitInv, StepInv, PTL DEF Spec

(***************************************************************************)
(* The properties.                                                         *)
(***************************************************************************)

\* Whatever the makers of the files go through, a file some variable or some parser has
\* is open.
THEOREM HeldFilesAreOpen == Spec => []OpenWhileHeld
<1>1. Inv => OpenWhileHeld
  BY DEF Inv, FilesAreOpen, BuffersKeep, OpenWhileHeld, Pending, IsHeld, File
<1> QED BY <1>1, InvariantHolds, PTL

\* Of a maker that was not assigned, an owned file is closed once, when the last variable
\* lets go of it, and an unowned one never.
THEOREM OwnedFilesAreClosed == Spec => []FilesCloseAsOwned
<1>1. ASSUME Inv, NEW b \in DOMAIN made, Faithful(b)
      PROVE  /\ ~made[b].owned => closed[made[b].file] = 0
             /\ Idle /\ made[b].owned /\ ~Held(handles, buffers, b) => closed[made[b].file] = 1
  BY <1>1, IdlePending DEF Inv, ClosedAsOwned, File, IsHeld
<1>2. Inv => FilesCloseAsOwned
  BY <1>1 DEF FilesCloseAsOwned
<1> QED BY <1>2, InvariantHolds, PTL

\* The deleter that asks a maker that is gone was never made by a parser's parameter: the
\* parser's buffer holds that file for good.
THEOREM ParametersAreNotAsked == Spec => []ParserFilesAreSafe
<1>1. ASSUME Inv, undefined
      PROVE  made[deleting.block].maker \in {Temporary, Gone}
  <2>1. PICK b : b = deleting.block
    OBVIOUS
  <2>2. b \in DOMAIN made /\ ~IsHeld(b) /\ ~MakerIsThere(b)
    BY <1>1, <2>1 DEF Inv, DanglesAt, FilesAreOpen
  <2>3. made[b].maker # Parameter
    BY <1>1, <2>2 DEF Inv, BuffersKeep, IsHeld, Held
  <2>4. made[b].maker \notin Handles
    BY <2>2 DEF MakerIsThere
  <2> QED BY <1>1, <2>1, <2>2, <2>3, <2>4, Lengths DEF SharedPtr
<1>2. Inv => ParserFilesAreSafe
  BY <1>1 DEF ParserFilesAreSafe
<1> QED BY <1>2, InvariantHolds, PTL

\* The counts and the positions stay in their ranges: in particular no file is closed
\* twice.
THEOREM TypesAreKept == Spec => []TypeOK
<1>1. Inv => TypeOK
  BY DEF Inv
<1> QED BY <1>1, InvariantHolds, PTL

=============================================================================
