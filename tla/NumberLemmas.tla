----------------------------- MODULE NumberLemmas -----------------------------
(***************************************************************************)
(* Facts about numbers that the proofs of several components rest on.      *)
(***************************************************************************)
EXTENDS Integers, WellFoundedInduction, TLAPS

(* Quotients and remainders.                                               *)
LEMMA DivMod ==
  ASSUME NEW c \in Nat \ {0}, NEW a \in Nat
  PROVE  a = (a \div c) * c + (a % c)
BY SMTT(60)

LEMMA ModRange ==
  ASSUME NEW c \in Nat \ {0}, NEW a \in Nat
  PROVE  /\ a % c \in 0 .. c - 1
         /\ a < c => a % c = a
         /\ c % c = 0
OBVIOUS

LEMMA NoMultipleBelow ==
  ASSUME NEW c \in Nat \ {0}, NEW k \in Int, 0 < k * c, k * c < c
  PROVE  FALSE
OBVIOUS

(* Numbers less than c apart have different remainders.                    *)
LEMMA Apart ==
  ASSUME NEW c \in Nat \ {0}, NEW a \in Nat, NEW b \in Nat, 0 < b - a, b - a < c
  PROVE  a % c # b % c
<1> SUFFICES ASSUME a % c = b % c PROVE FALSE
  OBVIOUS
<1> DEFINE p == a \div c
           q == b \div c
<1>1. p \in Int /\ q \in Int /\ a % c \in Int
  OBVIOUS
<1>2. a = p * c + (a % c)
  BY DivMod
<1>3. b = q * c + (a % c)
  BY DivMod
<1> HIDE DEF p, q
<1>4. b - a = q * c - p * c
  BY <1>1, <1>2, <1>3
<1>5. q * c - p * c = (q - p) * c
  BY <1>1
<1>6. q - p \in Int
  BY <1>1
<1> QED BY <1>4, <1>5, <1>6, NoMultipleBelow

LEMMA NextMultiple ==
  ASSUME NEW c \in Nat, NEW k \in Nat
  PROVE  (k + 1) * c = k * c + c /\ k * c \in Nat
OBVIOUS

(* Sets of numbers: least elements, and the highest below a bound.         *)
LEMMA LeastNumber ==
  ASSUME NEW S, S \subseteq Nat, S # {}
  PROVE  \E m \in S : \A k \in S : m <= k
<1>1. PICK m \in S : \A k \in S : ~ (<<k, m>> \in OpToRel(<, Nat))
  BY WFMin, NatLessThanWellFounded
<1>2. \A k \in S : ~ (k < m)
  <2> TAKE k \in S
  <2>1. k \in Nat /\ m \in Nat
    OBVIOUS
  <2> QED BY <1>1, <2>1 DEF OpToRel
<1> QED BY <1>2

LEMMA GreatestNumber ==
  ASSUME NEW S, S \subseteq Nat, S # {}, NEW b \in Nat, \A k \in S : k <= b
  PROVE  \E m \in S : \A k \in S : k <= m
<1> DEFINE T == {b - k : k \in S}
<1>1. T \subseteq Nat
  OBVIOUS
<1>2. T # {}
  OBVIOUS
<1>3. PICK t \in T : \A u \in T : t <= u
  BY <1>1, <1>2, LeastNumber
<1>4. PICK m \in S : t = b - m
  BY <1>3
<1>5. \A k \in S : b - m <= b - k
  BY <1>3, <1>4
<1> QED BY <1>5
=============================================================================
