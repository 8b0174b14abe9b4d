------------------------------ MODULE DataLemmas ------------------------------
(***************************************************************************)
(* Induction over the natural numbers, with a set where the library's      *)
(* theorem has an operator: what is to be proved of every n is that n is   *)
(* in a set, {n \in Nat : ...}.                                            *)
(***************************************************************************)
EXTENDS Integers, Sequences, WellFoundedInduction, TLAPS

\* Induction, for a set of numbers: it holds of each n that n \in S when it does of 0 and
\* of n + 1 whenever of n.
LEMMA Induction ==
  ASSUME NEW S, 0 \in S, \A n \in Nat : n \in S => n + 1 \in S
  PROVE  \A n \in Nat : n \in S
<1> DEFINE T    == {n \in Nat : n \notin S}
           Less == {p \in Nat \X Nat : p[1] < p[2]}
<1> SUFFICES ASSUME T # {} PROVE FALSE
  OBVIOUS
<1>1. OpToRel(<, Nat) = Less
  BY Zenon DEF OpToRel
<1>2. IsWellFoundedOn(Less, Nat)
  BY <1>1, NatLessThanWellFounded, Zenon
<1>3. PICK x \in T : \A y \in T : <<y, x>> \notin Less
  <2>1. T \subseteq Nat
    OBVIOUS
  <2> HIDE DEF T, Less
  <2>2. QED BY <1>2, <2>1, WFMin, Zenon
<1>4. \A y \in T : ~(y < x)
  <2>1. \A y \in Nat : y < x => <<y, x>> \in Less
    BY x \in Nat, SMT
  <2>2. QED BY <1>3, <2>1, Zenon
<1>5. x \in Nat \ {0} /\ x - 1 \in Nat
  BY SMT
<1>6. x - 1 \in S
  BY <1>4, <1>5, SMT
<1>7. (x - 1) + 1 \in S
  BY <1>5, <1>6
<1>8. QED BY <1>5, <1>7, SMT
=============================================================================
