------------------------------ MODULE Arithmetic ------------------------------
(* What the proofs about the models need of the natural numbers: least elements, *)
(* induction in a form that takes a set and no operator as its parameter, and    *)
(* division with remainder, with which ranks and samples are numbered.           *)
EXTENDS Integers, WellFoundedInduction, TLAPS

(* Every set of natural numbers that is not empty has a least element.          *)
LEMMA Least ==
  ASSUME NEW S \in SUBSET Nat, S # {}
  PROVE  \E x \in S : \A y \in S : x <= y
<1>. DEFINE R == OpToRel(<, Nat)
<1>1. IsWellFoundedOn(R, Nat)
  BY NatLessThanWellFounded
<1>2. \A x, y \in Nat : <<x, y>> \in R <=> x < y
  BY DEF OpToRel
<1>. HIDE DEF R
<1>3. PICK x \in S : \A y \in S : ~(<<y, x>> \in R)
  BY <1>1, WFMin
<1>4. ASSUME NEW y \in S PROVE x <= y
  <2>1. x \in Nat /\ y \in Nat
    OBVIOUS
  <2>2. ~(y < x)
    BY <1>2, <1>3, <2>1
  <2>. QED BY <2>1, <2>2
<1>. QED BY <1>4

(* A set of natural numbers with an upper bound has a greatest element.         *)
LEMMA Greatest ==
  ASSUME NEW n \in Nat, NEW S \in SUBSET (0 .. n), S # {}
  PROVE  \E x \in S : \A y \in S : y <= x
<1>. DEFINE T == {n - x : x \in S}
<1>1. T \in SUBSET Nat /\ T # {}
  <2>1. \A x \in S : n - x \in Nat
    OBVIOUS
  <2>. QED BY <2>1
<1>2. PICK t \in T : \A u \in T : t <= u
  <2>. HIDE DEF T
  <2>. QED BY <1>1, Least
<1>3. PICK x \in S : t = n - x
  BY <1>2
<1>4. ASSUME NEW y \in S PROVE y <= x
  <2>1. n - y \in T
    OBVIOUS
  <2>2. x \in Nat /\ y \in Nat
    OBVIOUS
  <2>3. n - x <= n - y
    <3>. HIDE DEF T
    <3>. QED BY <1>2, <1>3, <2>1
  <2>. QED BY <2>2, <2>3
<1>. QED BY <1>4

(* A set that holds zero and the successor of each of its numbers holds all.    *)
LEMMA Induct ==
  ASSUME NEW S, 0 \in S, \A n \in Nat : n \in S => n + 1 \in S
  PROVE  Nat \subseteq S
<1>1. SUFFICES ASSUME Nat \ S # {} PROVE FALSE
  OBVIOUS
<1>2. PICK x \in Nat \ S : \A y \in Nat \ S : x <= y
  BY <1>1, Least
<1>3. x - 1 \in Nat /\ x - 1 \in S
  BY <1>2
<1>. QED BY <1>2, <1>3

(* The same up to a bound.                                                      *)
LEMMA InductUpTo ==
  ASSUME NEW m \in Nat, NEW S, 0 \in S, \A n \in 0 .. m - 1 : n \in S => n + 1 \in S
  PROVE  0 .. m \subseteq S
<1>1. SUFFICES ASSUME (0 .. m) \ S # {} PROVE FALSE
  OBVIOUS
<1>2. (0 .. m) \ S \in SUBSET Nat
  OBVIOUS
<1>3. PICK x \in (0 .. m) \ S : \A y \in (0 .. m) \ S : x <= y
  BY <1>1, <1>2, Least
<1>4. x - 1 \in 0 .. m - 1 /\ x - 1 \in S
  BY <1>3
<1>. QED BY <1>3, <1>4

(* A function on 0 .. n can be defined by recursion: by its first value and a   *)
(* step G from each value to the next.                                          *)
StepsOf(n, T, G) == G \in [1 .. n -> [T -> T]]

RecursiveOn(f, n, T, t, G) ==
  f \in [0 .. n -> T] /\ f[0] = t /\ \A i \in 1 .. n : f[i] = G[i][f[i - 1]]

LEMMA Recursion ==
  ASSUME NEW n \in Nat, NEW T, NEW t \in T, NEW G, StepsOf(n, T, G)
  PROVE  \E f : RecursiveOn(f, n, T, t, G)
<1>. USE DEF StepsOf
<1>. DEFINE Made(f, m) == f[0] = t /\ \A i \in 1 .. m : f[i] = G[i][f[i - 1]]
            S == {m \in 0 .. n : \E f \in [0 .. m -> T] : Made(f, m)}
<1>1. 0 \in S
  <2>1. [i \in 0 .. 0 |-> t] \in [0 .. 0 -> T] /\ Made([i \in 0 .. 0 |-> t], 0)
    OBVIOUS
  <2>. HIDE DEF Made
  <2>. QED BY <2>1
<1>2. ASSUME NEW m \in 0 .. n - 1, m \in S PROVE m + 1 \in S
  <2>1. PICK f \in [0 .. m -> T] : Made(f, m)
    BY <1>2
  <2>. DEFINE g == [i \in 0 .. m + 1 |-> IF i \in 0 .. m THEN f[i] ELSE G[m + 1][f[m]]]
  <2>2. /\ m \in 0 .. m /\ f[m] \in T /\ G[m + 1][f[m]] \in T /\ m + 1 \in 1 .. n
        /\ m + 1 \notin 0 .. m /\ m + 1 \in 0 .. n
    OBVIOUS
  <2>3. g \in [0 .. m + 1 -> T]
    BY <2>2
  <2>4. /\ \A i \in 0 .. m : g[i] = f[i]
        /\ g[m + 1] = G[m + 1][f[m]]
    BY <2>2
  <2>. HIDE DEF g
  <2>5. ASSUME NEW i \in 1 .. m + 1 PROVE g[i] = G[i][g[i - 1]]
    <3>1. CASE i \in 1 .. m
      <4>1. i \in 0 .. m /\ i - 1 \in 0 .. m /\ f[i] = G[i][f[i - 1]]
        BY <2>1, <3>1
      <4>. QED BY <2>4, <4>1
    <3>2. CASE i = m + 1
      <4>1. i - 1 = m /\ m \in 0 .. m
        BY <3>2
      <4>. QED BY <2>4, <3>2, <4>1
    <3>. QED BY <3>1, <3>2
  <2>6. g[0] = t
    BY <2>1, <2>4
  <2>7. Made(g, m + 1)
    BY <2>5, <2>6
  <2>. HIDE DEF Made
  <2>. QED BY <2>2, <2>3, <2>7
<1>3. n \in S
  <2>1. 0 .. n \subseteq S
    <3>. HIDE DEF S
    <3>. QED BY <1>1, <1>2, InductUpTo
  <2>. QED BY <2>1
<1>. QED BY <1>3 DEF RecursiveOn

-------------------------------------------------------------------------------
(* Division                                                                      *)

(* Quotient and remainder.                                                       *)
LEMMA Division ==
  ASSUME NEW a \in Int, NEW b \in Nat \ {0}
  PROVE  /\ a \div b \in Int /\ a % b \in 0 .. b - 1
         /\ a = (a \div b) * b + (a % b)
OBVIOUS

LEMMA TimesMonotonic ==
  ASSUME NEW a \in Int, NEW b \in Int, NEW c \in Nat, a <= b
  PROVE  a * c <= b * c
OBVIOUS

LEMMA TimesPositive ==
  ASSUME NEW a \in Nat \ {0}, NEW b \in Nat \ {0}
  PROVE  a * b \in Nat \ {0}
OBVIOUS

LEMMA TimesCancel ==
  ASSUME NEW a \in Int, NEW b \in Int, NEW c \in Nat \ {0}, a * c < b * c
  PROVE  a < b
<1>1. SUFFICES ASSUME b <= a PROVE FALSE
  OBVIOUS
<1>2. b * c <= a * c
  BY <1>1, TimesMonotonic
<1>. QED BY <1>2

(* A number has one quotient and one remainder.                                  *)
LEMMA DivisionUnique ==
  ASSUME NEW q \in Int, NEW b \in Nat \ {0}, NEW x \in 0 .. b - 1
  PROVE  (q * b + x) \div b = q /\ (q * b + x) % b = x
<1>. DEFINE a == q * b + x
            p == a \div b
            y == a % b
<1>1. a \in Int /\ p \in Int /\ y \in 0 .. b - 1 /\ p * b + y = q * b + x
  BY Division
<1>. HIDE DEF a, p, y
<1>2. p * b < (q + 1) * b /\ q * b < (p + 1) * b
  <2>1. (q + 1) * b = q * b + b /\ (p + 1) * b = p * b + b
    BY <1>1
  <2>2. p * b \in Int /\ q * b \in Int
    BY <1>1
  <2>. QED BY <1>1, <2>1, <2>2
<1>3. p < q + 1 /\ q < p + 1
  BY <1>1, <1>2, TimesCancel
<1>4. p = q /\ y = x
  BY <1>1, <1>3
<1>. QED BY <1>4 DEF a, p, y

(* Quotients of numbers that are not negative.                                   *)
LEMMA QuotientBounds ==
  ASSUME NEW n \in Nat, NEW b \in Nat \ {0}, NEW a \in 0 .. n * b - 1
  PROVE  a \div b \in 0 .. n - 1
<1>1. a \in Int
  OBVIOUS
<1>2. /\ a \div b \in Int /\ a % b \in 0 .. b - 1 /\ a = (a \div b) * b + (a % b)
  BY <1>1, Division
<1>3. (a \div b) * b < n * b /\ (-1) * b < (a \div b) * b
  BY <1>2
<1>4. a \div b < n /\ -1 < a \div b
  BY <1>2, <1>3, TimesCancel
<1>. QED BY <1>2, <1>4

(* Multiples.                                                                    *)
LEMMA MultipleOf ==
  ASSUME NEW a \in Int, NEW b \in Nat \ {0}, a % b = 0
  PROVE  a = (a \div b) * b
BY Division

(* And only one.                                                                *)
UpTo(n, f) == [i \in 0 .. n |-> f[i]] = f
SameSteps(n, f, g) == f[0] = g[0] /\ \A i \in 1 .. n : f[i - 1] = g[i - 1] => f[i] = g[i]

LEMMA RecursionUnique ==
  ASSUME NEW n \in Nat, NEW f, NEW g, UpTo(n, f), UpTo(n, g), SameSteps(n, f, g)
  PROVE  f = g
<1>. DEFINE S == {i \in 0 .. n : f[i] = g[i]}
<1>1. 0 \in S
  BY DEF SameSteps
<1>2. ASSUME NEW i \in 0 .. n - 1, i \in S PROVE i + 1 \in S
  <2>1. i + 1 \in 1 .. n /\ (i + 1) - 1 = i /\ i + 1 \in 0 .. n
    OBVIOUS
  <2>. QED BY <1>2, <2>1 DEF SameSteps
<1>3. 0 .. n \subseteq S
  <2>. HIDE DEF S
  <2>. QED BY <1>1, <1>2, InductUpTo
<1>. QED BY <1>3 DEF UpTo
===============================================================================
