------------------------------- MODULE NatMin --------------------------------
(* The least and the greatest element of a set of numbers, and induction over a
   set.  The searches of the code for the first slot that fits are modelled with
   Min, its largest size of an argument with Max; the proofs about them need that
   they are what they say.  Its recursions over parameter packs are recursive
   functions; what these compute is proved with a set that holds 0 and with each
   number the next. *)
EXTENDS Integers, FiniteSetsExt, WellFoundedInduction, TLAPS

\* Min of a set of natural numbers that is not empty is in it and below all of
\* it: the first slot a search finds is one that fits.
LEMMA MinIsLeast ==
    ASSUME NEW S \in SUBSET Nat, S # {}
    PROVE  /\ Min(S) \in S
           /\ \A i \in S : Min(S) <= i
<1> DEFINE R == {ss \in Nat \X Nat : ss[1] < ss[2]}
<1>1. IsWellFoundedOn(R, Nat)
  BY NatLessThanWellFounded DEF OpToRel
<1>2. PICK x \in S : \A y \in S : <<y, x>> \notin R
  <2> HIDE DEF R
  <2> QED BY <1>1, WFMin, Zenon
<1>3. \A y \in S : x <= y
  <2> SUFFICES ASSUME NEW y \in S PROVE x <= y
    OBVIOUS
  <2>1. <<y, x>> \notin R
    BY <1>2
  <2>2. ~ (y < x)
    BY <2>1
  <2> QED BY <2>2
<1> QED BY <1>2, <1>3 DEF Min

\* A set that has 0 and, with n, n + 1 has every natural number: how a proof
\* follows a recursion of the code down to its base case.
LEMMA SetInduction ==
    ASSUME NEW S, 0 \in S, \A n \in Nat : n \in S => n + 1 \in S
    PROVE  Nat \subseteq S
<1> SUFFICES ASSUME Nat \ S # {} PROVE FALSE
  OBVIOUS
<1> DEFINE m == Min(Nat \ S)
<1>1. m \in Nat \ S /\ \A i \in Nat \ S : m <= i
  BY MinIsLeast
<1> HIDE DEF m
<1>2. m # 0 /\ m \in Nat
  BY <1>1
<1>3. m - 1 \in Nat /\ m - 1 \in S
  BY <1>1, <1>2
<1>4. (m - 1) + 1 \in S
  BY <1>3
<1> QED BY <1>1, <1>2, <1>4

\* Max of a set of numbers up to n that is not empty is in it and above all of
\* it: the room for the longest argument has room for every other.
LEMMA MaxIsGreatest ==
    ASSUME NEW n \in Nat, NEW S \in SUBSET (0 .. n), S # {}
    PROVE  /\ Max(S) \in S
           /\ \A i \in S : i <= Max(S)
<1> DEFINE below == {n - i : i \in S}
<1>1. below \in SUBSET Nat /\ below # {}
  <2>1. \A i \in S : i \in 0 .. n /\ n - i \in Nat
    OBVIOUS
  <2> QED BY <2>1
<1>2. PICK x \in S : n - x = Min(below)
  BY <1>1, MinIsLeast
<1>3. \A i \in S : n - x <= n - i
  BY <1>1, <1>2, MinIsLeast
<1>4. \A i \in S : i <= x
  BY <1>3
<1> QED BY <1>4 DEF Max

===============================================================================
