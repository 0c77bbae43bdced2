---------------------------- MODULE NumberProofs ----------------------------
(***************************************************************************)
(* Facts about natural numbers that several proofs rest on.                *)
(***************************************************************************)
EXTENDS Integers, TLAPS, WellFoundedInduction

(* A set of numbers has a least one. *)
LEMMA LeastNat ==
  ASSUME NEW T \in SUBSET Nat, T # {}
  PROVE  \E x \in T : \A y \in T : x <= y
<1> DEFINE R == {p \in Nat \X Nat : p[1] < p[2]}
<1>1. IsWellFoundedOn(R, Nat)
  BY NatLessThanWellFounded, Zenon DEF OpToRel
<1>2. PICK x \in T : \A y \in T : ~(<<y, x>> \in R)
  <2> HIDE DEF R
  <2> QED BY <1>1, WFMin
<1>3. ASSUME NEW y \in T PROVE x <= y
  <2>1. x \in Nat /\ y \in Nat
    OBVIOUS
  <2>2. y < x => <<y, x>> \in R
    BY <2>1
  <2>3. ~(y < x)
    BY <1>2, <2>2
  <2> QED BY <2>1, <2>3
<1> QED BY <1>3

(* Dividing by the same number keeps the order. *)
LEMMA DivMonotone ==
  ASSUME NEW n \in Nat \ {0}, NEW a \in Nat, NEW b \in Nat, a <= b
  PROVE  a \div n \in Nat /\ b \div n \in Nat /\ a \div n <= b \div n
<1>1. a \div n \in Nat /\ b \div n \in Nat
  OBVIOUS
<1>2. n * (a \div n) <= a /\ b < n * (b \div n) + n
  OBVIOUS
<1> DEFINE p == a \div n
           q == b \div n
<1>3. p \in Nat /\ q \in Nat /\ n * p < n * q + n
  BY <1>1, <1>2
<1>4. p <= q
  <2> HIDE DEF p, q
  <2> SUFFICES ASSUME p > q PROVE FALSE
    BY <1>3
  <2>1. PICK d \in Nat : p = q + 1 + d
    <3>1. p - q - 1 \in Nat /\ p = q + 1 + (p - q - 1)
      BY <1>3
    <3> QED BY <3>1
  <2>2. n * p = n * q + n + n * d
    BY <1>3, <2>1
  <2>3. n * d >= 0
    BY <2>1
  <2> QED BY <1>3, <2>2, <2>3
<1> QED BY <1>1, <1>4

(* The sums s of the first terms of t. *)
Sums(s, t, m) ==
  /\ s \in [0 .. m -> Int] /\ s[0] = 0
  /\ \A k \in 1 .. m : s[k] = s[k - 1] + t[k - 1]

LEMMA SumsExist ==
  ASSUME NEW m \in Nat, NEW t \in [0 .. m - 1 -> Int]
  PROVE  \E s : Sums(s, t, m)
<1> DEFINE T == {x \in 0 .. m : ~ \E s : Sums(s, t, x)}
<1>0. T = {}
  <2> SUFFICES ASSUME T # {} PROVE FALSE
    OBVIOUS
  <2>1. PICK x \in T : \A y \in T : x <= y
    <3>1. T \in SUBSET Nat
      OBVIOUS
    <3> HIDE DEF T
    <3> QED BY <3>1, LeastNat
  <2>2. x # 0
    <3>1. Sums([k \in 0 .. 0 |-> 0], t, 0)
      BY DEF Sums
    <3> QED BY <3>1
  <2>3. x - 1 \in 0 .. m - 1 /\ x - 1 \in Nat /\ x - 1 \notin T /\ x - 1 \in 0 .. m
    BY <2>1, <2>2
  <2>4. PICK s : Sums(s, t, x - 1)
    BY <2>3
  <2> DEFINE e == [k \in 0 .. x |-> IF k = x THEN s[x - 1] + t[x - 1] ELSE s[k]]
  <2>5. s \in [0 .. x - 1 -> Int] /\ s[x - 1] + t[x - 1] \in Int
    <3>1. s \in [0 .. x - 1 -> Int] /\ x - 1 \in 0 .. x - 1
      BY <2>3, <2>4 DEF Sums
    <3>2. s[x - 1] \in Int /\ t[x - 1] \in Int
      BY <2>3, <3>1
    <3> QED BY <3>1, <3>2
  <2>6. \A k \in 0 .. x : k # x => k \in 0 .. x - 1
    OBVIOUS
  <2>7. e \in [0 .. x -> Int]
    BY <2>5, <2>6
  <2>8. e[0] = 0
    BY <2>2, <2>4 DEF Sums
  <2>9. ASSUME NEW k \in 1 .. x PROVE e[k] = e[k - 1] + t[k - 1]
    <3>1. k - 1 \in 0 .. x /\ k - 1 # x /\ k \in 0 .. x
      OBVIOUS
    <3>2. e[k - 1] = s[k - 1]
      BY <3>1
    <3>3. CASE k = x
      BY <3>2, <3>3
    <3>4. CASE k # x
      <4>1. k \in 1 .. x - 1
        BY <3>4
      <4> QED BY <2>4, <3>1, <3>2, <3>4, <4>1 DEF Sums
    <3> QED BY <3>3, <3>4
  <2>10. Sums(e, t, x)
    <3> HIDE DEF e
    <3> QED BY <2>7, <2>8, <2>9 DEF Sums
  <2> QED BY <2>10
<1>1. m \in 0 .. m
  OBVIOUS
<1> QED BY <1>0, <1>1

(* The sum of terms of which all but one are zero is that one. *)
LEMMA SumOfOne ==
  ASSUME NEW m \in Nat, NEW t \in [0 .. m - 1 -> Int], NEW s, Sums(s, t, m),
         NEW p \in 0 .. m - 1, \A k \in (0 .. m - 1) \ {p} : t[k] = 0
  PROVE  s[m] = t[p]
<1> DEFINE Right(x) == s[x] = IF x <= p THEN 0 ELSE t[p]
           T == {x \in 0 .. m : ~Right(x)}
<1>1. T = {}
  <2> SUFFICES ASSUME T # {} PROVE FALSE
    OBVIOUS
  <2>1. PICK x \in T : \A y \in T : x <= y
    <3>1. T \in SUBSET Nat
      OBVIOUS
    <3> HIDE DEF T
    <3> QED BY <3>1, LeastNat
  <2>2. x # 0
    BY DEF Sums
  <2>3. x \in 1 .. m /\ x - 1 \in 0 .. m /\ x - 1 \in 0 .. m - 1 /\ x - 1 \notin T
    BY <2>1, <2>2
  <2>4. Right(x - 1)
    BY <2>3
  <2>5. s[x] = s[x - 1] + t[x - 1] /\ t[p] \in Int /\ t[x - 1] \in Int
    BY <2>3 DEF Sums
  <2>6. x - 1 # p => t[x - 1] = 0
    BY <2>3
  <2> QED BY <2>3, <2>4, <2>5, <2>6
<1>2. m \in 0 .. m /\ ~(m <= p)
  OBVIOUS
<1> QED BY <1>1, <1>2
=============================================================================
