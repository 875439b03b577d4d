------------------------------- MODULE Extrema -------------------------------
(***************************************************************************)
(* Least and greatest elements: what the proofs use in place of an         *)
(* induction over the naturals.                                            *)
(***************************************************************************)
EXTENDS Integers, FiniteSetsExt, WellFoundedInduction, TLAPS

\* Every non-empty set of naturals has a least element.
LEMMA LeastElement ==
  ASSUME NEW S, S \subseteq Nat, S # {}
  PROVE  \E x \in S : \A y \in S : x <= y
<1> DEFINE Less == {ss \in Nat \X Nat : ss[1] < ss[2]}
<1>1. IsWellFoundedOn(Less, Nat)
  BY NatLessThanWellFounded, Zenon DEF OpToRel
<1> HIDE DEF Less
<1>2. PICK x \in S : \A y \in S : ~ (<<y, x>> \in Less)
  BY <1>1, WFMin
<1>3. ASSUME NEW y \in S, y < x PROVE FALSE
  <2>1. <<y, x>> \in Nat \X Nat OBVIOUS
  <2>2. <<y, x>>[1] < <<y, x>>[2] BY <1>3
  <2>3. <<y, x>> \in Less BY <2>1, <2>2, Zenon DEF Less
  <2> QED BY <2>3, <1>2
<1> QED BY <1>3, S \subseteq Nat

\* Min and Max are what they are meant to be on a set with bounds.
LEMMA MinIs ==
  ASSUME NEW lo \in Int, NEW S, S # {}, S \subseteq Int, \A x \in S : lo <= x
  PROVE  Min(S) \in S /\ \A x \in S : Min(S) <= x
<1> DEFINE T == {x - lo : x \in S}
<1>1. T \subseteq Nat /\ T # {}
  <2>1. \A x \in S : x - lo \in Nat OBVIOUS
  <2> QED BY <2>1
<1>2. PICK k \in T : \A y \in T : k <= y
  <2> HIDE DEF T
  <2> QED BY <1>1, LeastElement
<1>3. PICK m \in S : k = m - lo OBVIOUS
<1>4. ASSUME NEW x \in S PROVE m <= x
  <2>1. k <= x - lo BY <1>2
  <2> QED BY <1>3, <2>1
<1> QED BY <1>4 DEF Min

LEMMA MaxIs ==
  ASSUME NEW hi \in Int, NEW S, S # {}, S \subseteq Int, \A x \in S : x <= hi
  PROVE  Max(S) \in S /\ \A x \in S : x <= Max(S)
<1> DEFINE T == {hi - x : x \in S}
<1>1. T \subseteq Nat /\ T # {} OBVIOUS
<1>2. PICK k \in T : \A y \in T : k <= y
  <2> HIDE DEF T
  <2> QED BY <1>1, LeastElement
<1>3. PICK m \in S : k = hi - m OBVIOUS
<1>4. ASSUME NEW x \in S PROVE m >= x
  <2>1. k <= hi - x BY <1>2
  <2> QED BY <1>3, <2>1
<1> QED BY <1>4 DEF Max
=============================================================================
