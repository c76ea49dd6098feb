------------------------------ MODULE Extremes ------------------------------
(***************************************************************************)
(* The least and the greatest of a set of numbers: what the definitions of *)
(* the models choose exists.  The theorem about the order of the naturals  *)
(* is that of the library.                                                 *)
(***************************************************************************)
EXTENDS Naturals, FiniteSetTheorems, TLAPS

\* Every set of naturals that is not empty has a least element.
LEMMA LeastExists ==
  ASSUME NEW T \in SUBSET Nat, T # {}
  PROVE  \E x \in T : \A y \in T : x <= y
<1> DEFINE R == {pair \in Nat \X Nat : pair[1] < pair[2]}
<1>1. IsWellFoundedOn(R, Nat)
  BY NatLessThanWellFounded DEF OpToRel
<1>2. PICK x \in T : \A y \in T : <<y, x>> \notin R
  BY <1>1, WFMin
<1>3. ASSUME NEW y \in T
      PROVE  x <= y
  <2>1. <<y, x>> \in Nat \X Nat
    BY <1>2
  <2>2. ~ (y < x)
    BY <1>2, <2>1
  <2> HIDE DEF R
  <2> QED
    BY <1>2, <2>2
<1> QED
  BY <1>2, <1>3

\* And a greatest one if it is bounded.
LEMMA GreatestExists ==
  ASSUME NEW n \in Nat, NEW T \in SUBSET (0 .. n), T # {}
  PROVE  \E x \in T : \A y \in T : y <= x
<1> DEFINE U == {n - x : x \in T}
<1>1. U \in SUBSET Nat /\ U # {}
  <2>1. \A x \in T : n - x \in Nat
    OBVIOUS
  <2>2. \A u \in U : u \in Nat
    BY <2>1
  <2>3. PICK x \in T : TRUE
    OBVIOUS
  <2>4. n - x \in U
    BY <2>3
  <2> HIDE DEF U
  <2> QED
    BY <2>2, <2>4
<1> HIDE DEF U
<1>2. PICK u \in U : \A v \in U : u <= v
  BY <1>1, LeastExists
<1>3. PICK x \in T : u = n - x
  BY <1>2 DEF U
<1>4. \A y \in T : n - y \in U
  BY DEF U
<1>5. \A y \in T : n - x <= n - y
  BY <1>2, <1>3, <1>4
<1> QED
  BY <1>3, <1>5
=============================================================================
