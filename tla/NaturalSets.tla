----------------------------- MODULE NaturalSets -----------------------------
(***************************************************************************)
(* Induction over the naturals, stated about sets and functions, which the *)
(* provers can instantiate, in place of predicates; and the powers of two. *)
(***************************************************************************)
EXTENDS PowersOfTwo, NaturalsInduction, WellFoundedInduction, TLAPS

(* A nonempty set of naturals has a least element. *)
LEMMA LeastNatural ==
  ASSUME NEW T \in SUBSET Nat, T # {}
  PROVE  \E x \in T : \A y \in T : x <= y
<1>1. PICK x \in T : \A y \in T : ~ (<<y, x>> \in OpToRel(<, Nat))
  BY NatLessThanWellFounded, WFMin, Zenon
<1>2. \A y \in T : ~ (y < x)
  BY <1>1, Zenon DEF OpToRel
<1>3. \A y \in T : x <= y
  BY <1>2
<1> QED BY <1>3

(* A nonempty set of positions has a last one. *)
LEMMA LastPosition ==
  ASSUME NEW n \in Nat, NEW T \in SUBSET (1 .. n), T # {}
  PROVE  \E x \in T : \A y \in T : y <= x
<1> DEFINE U == {m \in Nat : \E x \in T : m = n - x}
<1>1. \A x \in T : n - x \in U
  OBVIOUS
<1>2. U # {}
  BY <1>1
<1>3. PICK m \in U : \A k \in U : m <= k
  BY <1>2, LeastNatural
<1>4. PICK x \in T : m = n - x
  OBVIOUS
<1>5. \A y \in T : y <= x
  BY <1>1, <1>3, <1>4
<1> QED BY <1>5

(* A set that holds 0, and with every natural the next one, holds them all. *)
LEMMA EveryNatural ==
  ASSUME NEW T, 0 \in T, \A n \in Nat : n \in T => n + 1 \in T
  PROVE  \A n \in Nat : n \in T
<1> DEFINE U == Nat \ T
<1>1. SUFFICES ASSUME U # {} PROVE FALSE
  OBVIOUS
<1>2. PICK x \in U : \A y \in U : x <= y
  BY <1>1, LeastNatural
<1>3. x # 0 /\ x - 1 \in Nat /\ x - 1 \notin U
  BY <1>2
<1> QED BY <1>3

Steps(S) == [Nat -> [S -> S]]

Follows(f, base, next) ==
  f[0] = base /\ \A n \in Nat : f[n + 1] = next[n][f[n]]

(* A function on the naturals may be defined by its value at 0 and by each   *)
(* value from the one before it.                                             *)
LEMMA RecursiveFunction ==
  ASSUME NEW S, NEW base \in S, NEW next \in Steps(S)
  PROVE  \E f \in [Nat -> S] : Follows(f, base, next)
<1> USE DEF Steps, Follows
<1> DEFINE Starts(g, n) == /\ g \in [0 .. n -> S] /\ g[0] = base
                           /\ \A i \in 0 .. n - 1 : g[i + 1] = next[i][g[i]]
           T == {n \in Nat : \E g : Starts(g, n)}
           Agree == {n \in Nat : \A g, h, m, k : n <= m /\ n <= k /\ m \in Nat /\ k \in Nat
                                   /\ Starts(g, m) /\ Starts(h, k) => g[n] = h[n]}
<1>1. \A n \in Nat : n \in T
  <2>1. Starts([i \in 0 .. 0 |-> base], 0)
    OBVIOUS
  <2>2. ASSUME NEW n \in Nat, n \in T PROVE n + 1 \in T
    <3>1. PICK g : Starts(g, n)
      BY <2>2
    <3> DEFINE h == [i \in 0 .. n + 1 |-> IF i = n + 1 THEN next[n][g[n]] ELSE g[i]]
    <3>2. next[n][g[n]] \in S
      BY <3>1
    <3>3. h \in [0 .. n + 1 -> S] /\ h[0] = base
      BY <3>1, <3>2
    <3>4. ASSUME NEW i \in 0 .. n PROVE h[i + 1] = next[i][h[i]]
      BY <3>1, <3>4
    <3>5. Starts(h, n + 1)
      <4>1. (n + 1) - 1 = n
        OBVIOUS
      <4> HIDE DEF h
      <4> QED BY <3>3, <3>4, <4>1
    <3>6. n + 1 \in Nat /\ \E x : Starts(x, n + 1)
      <4> HIDE DEF Starts
      <4> QED BY <3>5
    <3> QED BY <3>6
  <2>3. 0 \in T
    BY <2>1
  <2> HIDE DEF T
  <2> QED BY <2>2, <2>3, EveryNatural
<1>2. \A n \in Nat : n \in Agree
  <2>1. 0 \in Agree
    OBVIOUS
  <2>2. ASSUME NEW n \in Nat, n \in Agree PROVE n + 1 \in Agree
    <3>1. SUFFICES ASSUME NEW g, NEW h, NEW m \in Nat, NEW k \in Nat, n + 1 <= m, n + 1 <= k,
                          Starts(g, m), Starts(h, k)
                   PROVE  g[n + 1] = h[n + 1]
      <4> HIDE DEF Starts
      <4> QED OBVIOUS
    <3>2. g[n] = h[n]
      <4>1. n <= m /\ n <= k
        BY <3>1
      <4> HIDE DEF Starts
      <4> QED BY <2>2, <3>1, <4>1
    <3>3. n \in 0 .. m - 1 /\ n \in 0 .. k - 1
      BY <3>1
    <3> QED BY <3>1, <3>2, <3>3
  <2> HIDE DEF Agree
  <2> QED BY <2>1, <2>2, EveryNatural
<1> DEFINE part == [n \in Nat |-> CHOOSE g : Starts(g, n)]
           f == [n \in Nat |-> part[n][n]]
<1>3. \A n \in Nat : Starts(part[n], n)
  <2> HIDE DEF Starts
  <2> QED BY <1>1
<1>4. f \in [Nat -> S]
  <2>1. ASSUME NEW n \in Nat PROVE part[n][n] \in S
    <3>1. Starts(part[n], n)
      <4> HIDE DEF Starts, part
      <4> QED BY <1>3
    <3>2. n \in 0 .. n
      OBVIOUS
    <3> HIDE DEF part
    <3> QED BY <3>1, <3>2
  <2> HIDE DEF part
  <2> QED BY <2>1
<1>5. f[0] = base
  <2>1. Starts(part[0], 0)
    BY <1>3
  <2> HIDE DEF part
  <2> QED BY <2>1
<1>6. ASSUME NEW n \in Nat PROVE f[n + 1] = next[n][f[n]]
  <2>1. part[n + 1][n] = part[n][n]
    <3>1. n <= n + 1 /\ n <= n /\ n + 1 \in Nat
      OBVIOUS
    <3> HIDE DEF Starts, part
    <3> QED BY <1>2, <1>3, <3>1
  <2>2. part[n + 1][n + 1] = next[n][part[n + 1][n]]
    <3>1. n \in 0 .. (n + 1) - 1 /\ n + 1 \in Nat
      OBVIOUS
    <3>2. Starts(part[n + 1], n + 1)
      <4> HIDE DEF Starts, part
      <4> QED BY <1>3, <3>1
    <3> HIDE DEF part
    <3> QED BY <3>1, <3>2
  <2> HIDE DEF part
  <2> QED BY <2>1, <2>2
<1> QED
  <2> HIDE DEF f
  <2> QED BY <1>4, <1>5, <1>6
-----------------------------------------------------------------------------
(***************************************************************************)
(* Powers of two.                                                          *)
(***************************************************************************)

(* TwoTo is the function that its equation describes. *)
LEMMA TwoToDefined ==
  /\ TwoTo \in [Nat -> Nat]
  /\ TwoTo[0] = 1
  /\ \A n \in Nat : TwoTo[n + 1] = 2 * TwoTo[n]
<1> DEFINE base == 1
           next == [n \in Nat |-> [x \in Nat |-> 2 * x]]
           Equation(f) == f = [n \in Nat |-> IF n = 0 THEN 1 ELSE 2 * f[n - 1]]
<1>1. next \in Steps(Nat) /\ base \in Nat
  BY DEF Steps
<1>2. PICK f \in [Nat -> Nat] : f[0] = base /\ \A n \in Nat : f[n + 1] = next[n][f[n]]
  <2> HIDE DEF next, base
  <2>1. PICK f \in [Nat -> Nat] : Follows(f, base, next)
    BY <1>1, RecursiveFunction
  <2> QED BY <2>1 DEF Follows
<1>3. \A n \in Nat : f[n] = IF n = 0 THEN 1 ELSE 2 * f[n - 1]
  <2> SUFFICES ASSUME NEW n \in Nat, n # 0 PROVE f[n] = 2 * f[n - 1]
    BY <1>2
  <2>1. n - 1 \in Nat /\ (n - 1) + 1 = n
    OBVIOUS
  <2> QED BY <1>2, <2>1
<1>4. Equation(f)
  BY <1>2, <1>3
<1>5. Equation(TwoTo)
  <2> HIDE DEF Equation
  <2>1. TwoTo = CHOOSE g : Equation(g)
    BY DEF TwoTo, Equation
  <2> QED BY <1>4, <2>1
<1>6. \A n \in Nat : TwoTo[n] = IF n = 0 THEN 1 ELSE 2 * TwoTo[n - 1]
  BY <1>5
<1>7. TwoTo[0] = 1 /\ \A n \in Nat : TwoTo[n + 1] = 2 * TwoTo[n]
  BY <1>6
<1>8. \A n \in Nat : TwoTo[n] \in Nat
  <2> DEFINE T == {n \in Nat : TwoTo[n] \in Nat}
  <2>1. 0 \in T
    BY <1>7
  <2>2. \A n \in Nat : n \in T => n + 1 \in T
    BY <1>7
  <2> HIDE DEF T
  <2>3. \A n \in Nat : n \in T
    BY <2>1, <2>2, EveryNatural
  <2> QED BY <2>3 DEF T
<1>9. TwoTo \in [Nat -> Nat]
  BY <1>5, <1>8
<1> QED BY <1>7, <1>9

LEMMA TwoToThree == TwoTo[3] = 8
<1>1. TwoTo[0 + 1] = 2 * TwoTo[0] /\ TwoTo[1 + 1] = 2 * TwoTo[1] /\ TwoTo[2 + 1] = 2 * TwoTo[2]
  BY TwoToDefined
<1> QED BY <1>1, TwoToDefined

LEMMA TwoToPositive == \A n \in Nat : TwoTo[n] \in Nat /\ TwoTo[n] >= 1
<1> DEFINE T == {n \in Nat : TwoTo[n] >= 1}
<1>1. 0 \in T
  BY TwoToDefined
<1>2. \A n \in Nat : n \in T => n + 1 \in T
  BY TwoToDefined
<1> HIDE DEF T
<1>3. \A n \in Nat : n \in T
  BY <1>1, <1>2, EveryNatural
<1> QED BY <1>3, TwoToDefined DEF T

(* Doubling k times. *)
LEMMA TwoToSum == \A j, k \in Nat : TwoTo[j + k] = TwoTo[j] * TwoTo[k]
<1> TAKE j \in Nat
<1> DEFINE T == {k \in Nat : TwoTo[j + k] = TwoTo[j] * TwoTo[k]}
<1>1. 0 \in T
  BY TwoToDefined
<1>2. ASSUME NEW k \in Nat, k \in T PROVE k + 1 \in T
  <2>1. j + (k + 1) = (j + k) + 1 /\ j + k \in Nat
    OBVIOUS
  <2>2. TwoTo[j + (k + 1)] = 2 * TwoTo[j + k]
    BY <2>1, TwoToDefined
  <2>3. TwoTo[j + k] = TwoTo[j] * TwoTo[k]
    BY <1>2
  <2>4. 2 * (TwoTo[j] * TwoTo[k]) = TwoTo[j] * (2 * TwoTo[k])
    BY TwoToPositive
  <2>5. TwoTo[k + 1] = 2 * TwoTo[k]
    BY TwoToDefined
  <2> QED BY <2>2, <2>3, <2>4, <2>5
<1> HIDE DEF T
<1>3. \A k \in Nat : k \in T
  BY <1>1, <1>2, EveryNatural
<1> QED BY <1>3 DEF T

LEMMA TwoToGrows == \A j, k \in Nat : j < k => 2 * TwoTo[j] <= TwoTo[k]
<1> TAKE j \in Nat
<1> DEFINE T == {d \in Nat : 2 * TwoTo[j] <= TwoTo[(j + 1) + d]}
<1>1. 0 \in T
  <2>1. (j + 1) + 0 = j + 1
    OBVIOUS
  <2> QED BY <2>1, TwoToDefined
<1>2. ASSUME NEW d \in Nat, d \in T PROVE d + 1 \in T
  <2>1. (j + 1) + (d + 1) = ((j + 1) + d) + 1 /\ (j + 1) + d \in Nat
    OBVIOUS
  <2>2. TwoTo[(j + 1) + (d + 1)] = 2 * TwoTo[(j + 1) + d]
    BY <2>1, TwoToDefined
  <2> QED BY <1>2, <2>1, <2>2, TwoToPositive
<1> HIDE DEF T
<1>3. \A d \in Nat : d \in T
  BY <1>1, <1>2, EveryNatural
<1>4. ASSUME NEW k \in Nat, j < k PROVE 2 * TwoTo[j] <= TwoTo[k]
  <2>1. k - (j + 1) \in Nat /\ (j + 1) + (k - (j + 1)) = k
    BY <1>4
  <2>2. k - (j + 1) \in T
    BY <1>3, <2>1
  <2> QED BY <2>1, <2>2 DEF T
<1> QED BY <1>4
=============================================================================
