------------------------------ MODULE SumProofs ------------------------------
(***************************************************************************)
(* What the sum of an array does when one of its elements changes.         *)
(***************************************************************************)
EXTENDS Sums, NaturalsInduction, WellFoundedInduction, TLAPS

(* Every nonempty set of natural numbers has a least element. *)
LEMMA LeastNat ==
    ASSUME NEW S \in SUBSET Nat, S # {}
    PROVE  \E x \in S : \A y \in S : x <= y
<1> DEFINE Less == OpToRel(<, Nat)
<1>0. IsWellFoundedOn(Less, Nat)
    BY NatLessThanWellFounded, Zenon
<1>1. Less = {ss \in Nat \X Nat : ss[1] < ss[2]}
    BY Zenon DEF OpToRel
<1> HIDE DEF Less
<1>2. PICK x \in S : \A y \in S : ~(<<y, x>> \in Less)
  <2>1. S \subseteq Nat
      OBVIOUS
  <2> QED BY <1>0, <2>1, WFMin
<1>3. ASSUME NEW y \in S PROVE x <= y
  <2>1. x \in Nat /\ y \in Nat
      OBVIOUS
  <2>2. <<y, x>> \in Nat \X Nat /\ <<y, x>>[1] = y /\ <<y, x>>[2] = x
      BY <2>1
  <2>3. ~(y < x)
      BY <1>1, <1>2, <2>2, Zenon
  <2> QED BY <2>1, <2>3
<1> QED BY <1>3

(* A set of numbers that has 0 and, with each number below n, the next. *)
LEMMA UpTo ==
    ASSUME NEW n \in Nat, NEW G, 0 \in G, \A k \in 0 .. n - 1 : k \in G => k + 1 \in G
    PROVE  \A k \in 0 .. n : k \in G
<1> SUFFICES ASSUME NEW k \in 0 .. n, k \notin G PROVE FALSE
    OBVIOUS
<1> DEFINE B == {i \in 0 .. n : i \notin G}
<1>1. B \in SUBSET Nat /\ B # {}
    OBVIOUS
<1>2. PICK x \in B : \A y \in B : x <= y
    BY <1>1, LeastNat
<1>3. x \in 0 .. n /\ x # 0 /\ x \notin G
    OBVIOUS
<1>4. x - 1 \in 0 .. n - 1 /\ x - 1 \notin B
    BY <1>2, <1>3
<1>5. x - 1 \in G
    BY <1>4
<1> QED BY <1>3, <1>4, <1>5

(* The partial sums of an array exist. *)
Partial(g, n, s) == s = [k \in 0 .. n |-> IF k = 0 THEN 0 ELSE s[k - 1] + g[k - 1]]

LEMMA PartialExists ==
    ASSUME NEW n \in Nat, NEW g
    PROVE  \E s : Partial(g, n, s)
<1> DEFINE G == {k \in 0 .. n : \E s : Partial(g, k, s)}
<1>1. 0 \in G
  <2>1. Partial(g, 0, [k \in 0 .. 0 |-> 0])
      BY DEF Partial
  <2> QED BY <2>1
<1>2. ASSUME NEW k \in 0 .. n - 1, k \in G PROVE k + 1 \in G
  <2>1. PICK s : Partial(g, k, s)
      BY <1>2
  <2> DEFINE t == [i \in 0 .. k + 1 |-> IF i <= k THEN s[i] ELSE s[k] + g[k]]
  <2>2. Partial(g, k + 1, t)
    <3>1. ASSUME NEW i \in 0 .. k + 1
          PROVE  t[i] = IF i = 0 THEN 0 ELSE t[i - 1] + g[i - 1]
        BY <2>1 DEF Partial
    <3> QED BY <3>1 DEF Partial
  <2> QED BY <2>2
<1>3. \A k \in 0 .. n : k \in G
    BY <1>1, <1>2, UpTo
<1> QED BY <1>3

(* Sum() is the last of them. *)
LEMMA SumPartial ==
    ASSUME NEW n \in Nat, NEW g
    PROVE  \E s : Partial(g, n, s) /\ Sum(g, n) = s[n]
<1> DEFINE s == CHOOSE s : Partial(g, n, s)
<1>1. Partial(g, n, s)
    BY PartialExists
<1>2. Sum(g, n) = s[n]
    BY Zenon DEF Sum, Partial
<1> QED BY <1>1, <1>2

(* The sum of integers is an integer. *)
LEMMA PartialType ==
    ASSUME NEW n \in Nat, NEW g, \A k \in 0 .. n - 1 : g[k] \in Int,
           NEW s, Partial(g, n, s)
    PROVE  \A k \in 0 .. n : s[k] \in Int
<1> DEFINE G == {k \in 0 .. n : s[k] \in Int}
<1>1. 0 \in G
    BY DEF Partial
<1>2. ASSUME NEW k \in 0 .. n - 1, k \in G PROVE k + 1 \in G
    BY <1>2 DEF Partial
<1>3. \A k \in 0 .. n : k \in G
    BY <1>1, <1>2, UpTo
<1> QED BY <1>3

LEMMA SumType ==
    ASSUME NEW n \in Nat, NEW g, \A k \in 0 .. n - 1 : g[k] \in Int
    PROVE  Sum(g, n) \in Int
<1>1. PICK s : Partial(g, n, s) /\ Sum(g, n) = s[n]
    BY SumPartial
<1>2. \A k \in 0 .. n : s[k] \in Int
    BY <1>1, PartialType
<1> QED BY <1>1, <1>2

(* An array of zeros. *)
LEMMA SumZero ==
    ASSUME NEW n \in Nat, NEW g, \A k \in 0 .. n - 1 : g[k] = 0
    PROVE  Sum(g, n) = 0
<1>1. PICK s : Partial(g, n, s) /\ Sum(g, n) = s[n]
    BY SumPartial
<1> DEFINE G == {k \in 0 .. n : s[k] = 0}
<1>2. 0 \in G
    BY <1>1 DEF Partial
<1>3. ASSUME NEW k \in 0 .. n - 1, k \in G PROVE k + 1 \in G
    BY <1>1, <1>3 DEF Partial
<1>4. \A k \in 0 .. n : k \in G
    BY <1>2, <1>3, UpTo
<1> QED BY <1>1, <1>4

(* One element changes: the sum changes by as much. *)
LEMMA SumChange ==
    ASSUME NEW n \in Nat, NEW g, NEW h, NEW w \in 0 .. n - 1,
           \A k \in 0 .. n - 1 : g[k] \in Int /\ h[k] \in Int,
           \A k \in 0 .. n - 1 : k # w => h[k] = g[k]
    PROVE  Sum(h, n) = Sum(g, n) + (h[w] - g[w])
<1>1. PICK s : Partial(g, n, s) /\ Sum(g, n) = s[n]
    BY SumPartial
<1>2. PICK t : Partial(h, n, t) /\ Sum(h, n) = t[n]
    BY SumPartial
<1>3. \A k \in 0 .. n : s[k] \in Int /\ t[k] \in Int
    BY <1>1, <1>2, PartialType
<1> DEFINE G == {k \in 0 .. n : t[k] = s[k] + (IF k <= w THEN 0 ELSE h[w] - g[w])}
<1>4. 0 \in G
    BY <1>1, <1>2 DEF Partial
<1>5. ASSUME NEW k \in 0 .. n - 1, k \in G PROVE k + 1 \in G
  <2>1. s[k + 1] = s[k] + g[k] /\ t[k + 1] = t[k] + h[k]
      BY <1>1, <1>2 DEF Partial
  <2> QED BY <1>3, <1>5, <2>1
<1>6. \A k \in 0 .. n : k \in G
    BY <1>4, <1>5, UpTo
<1> QED BY <1>1, <1>2, <1>3, <1>6

(* Arrays that agree have the same sum. *)
LEMMA SumSame ==
    ASSUME NEW n \in Nat, NEW g, NEW h, \A k \in 0 .. n - 1 : h[k] = g[k]
    PROVE  Sum(h, n) = Sum(g, n)
<1>1. PICK s : Partial(g, n, s) /\ Sum(g, n) = s[n]
    BY SumPartial
<1>2. PICK t : Partial(h, n, t) /\ Sum(h, n) = t[n]
    BY SumPartial
<1> DEFINE G == {k \in 0 .. n : t[k] = s[k]}
<1>3. 0 \in G
    BY <1>1, <1>2 DEF Partial
<1>4. ASSUME NEW k \in 0 .. n - 1, k \in G PROVE k + 1 \in G
    BY <1>1, <1>2, <1>4 DEF Partial
<1>5. \A k \in 0 .. n : k \in G
    BY <1>3, <1>4, UpTo
<1> QED BY <1>1, <1>2, <1>5

(* The partial sums of a longer array begin with those of a shorter one. *)
LEMMA SumPrefix ==
    ASSUME NEW n \in Nat, NEW g, NEW s, Partial(g, n, s), NEW m \in 0 .. n
    PROVE  Sum(g, m) = s[m]
<1>1. m \in Nat
    OBVIOUS
<1>2. PICK t : Partial(g, m, t) /\ Sum(g, m) = t[m]
    BY <1>1, SumPartial
<1> DEFINE G == {k \in 0 .. m : t[k] = s[k]}
<1>3. 0 \in G
    BY <1>2 DEF Partial
<1>4. ASSUME NEW k \in 0 .. m - 1, k \in G PROVE k + 1 \in G
    BY <1>2, <1>4 DEF Partial
<1>5. \A k \in 0 .. m : k \in G
    BY <1>1, <1>3, <1>4, UpTo
<1> QED BY <1>2, <1>5

(* The next element is added. *)
LEMMA SumNext ==
    ASSUME NEW n \in Nat, NEW g
    PROVE  Sum(g, n + 1) = Sum(g, n) + g[n]
<1>1. n + 1 \in Nat /\ n \in 0 .. n + 1 /\ n + 1 \in 0 .. n + 1
    OBVIOUS
<1>2. PICK s : Partial(g, n + 1, s) /\ Sum(g, n + 1) = s[n + 1]
    BY <1>1, SumPartial
<1>3. Sum(g, n) = s[n]
    BY <1>1, <1>2, SumPrefix
<1>4. s[n + 1] = s[n] + g[n]
    BY <1>2 DEF Partial
<1> QED BY <1>2, <1>3, <1>4

(* Where no element falls, neither does what any part of the array adds. *)
LEMMA SumGrows ==
    ASSUME NEW n \in Nat, NEW g, NEW h, NEW m \in 0 .. n,
           \A k \in 0 .. n - 1 : g[k] \in Int /\ h[k] \in Int /\ g[k] <= h[k]
    PROVE  Sum(g, n) - Sum(g, m) <= Sum(h, n) - Sum(h, m)
<1>1. PICK s : Partial(g, n, s) /\ Sum(g, n) = s[n]
    BY SumPartial
<1>2. PICK t : Partial(h, n, t) /\ Sum(h, n) = t[n]
    BY SumPartial
<1>3. Sum(g, m) = s[m] /\ Sum(h, m) = t[m]
    BY <1>1, <1>2, SumPrefix
<1>4. \A k \in 0 .. n : s[k] \in Int /\ t[k] \in Int
    BY <1>1, <1>2, PartialType
<1> DEFINE G == {k \in 0 .. n : m <= k => s[k] - s[m] <= t[k] - t[m]}
<1>5. 0 \in G
    BY <1>4
<1>6. ASSUME NEW k \in 0 .. n - 1, k \in G PROVE k + 1 \in G
  <2>1. s[k + 1] = s[k] + g[k] /\ t[k + 1] = t[k] + h[k]
      BY <1>1, <1>2 DEF Partial
  <2>2. m <= k + 1 => m <= k \/ m = k + 1
      OBVIOUS
  <2> QED BY <1>4, <1>6, <2>1, <2>2
<1>7. \A k \in 0 .. n : k \in G
    BY <1>5, <1>6, UpTo
<1> QED BY <1>1, <1>2, <1>3, <1>7

(* The sum of counters is not negative and no less than any of them. *)
LEMMA SumBounds ==
    ASSUME NEW n \in Nat, NEW g, \A k \in 0 .. n - 1 : g[k] \in Nat
    PROVE  /\ Sum(g, n) \in Nat
           /\ \A k \in 0 .. n - 1 : g[k] <= Sum(g, n)
<1>1. PICK s : Partial(g, n, s) /\ Sum(g, n) = s[n]
    BY SumPartial
<1> DEFINE G == {k \in 0 .. n : s[k] \in Nat /\ \A i \in 0 .. k - 1 : g[i] <= s[k]}
<1>2. 0 \in G
    BY <1>1 DEF Partial
<1>3. ASSUME NEW k \in 0 .. n - 1, k \in G PROVE k + 1 \in G
  <2>1. s[k + 1] = s[k] + g[k]
      BY <1>1 DEF Partial
  <2>2. s[k] \in Nat /\ g[k] \in Nat
      BY <1>3
  <2>3. ASSUME NEW i \in 0 .. (k + 1) - 1 PROVE g[i] <= s[k + 1]
    <3>1. CASE i = k
        BY <2>1, <2>2, <3>1
    <3>2. CASE i # k
      <4>1. i \in 0 .. k - 1 /\ i \in 0 .. n - 1
          BY <3>2
      <4>2. g[i] <= s[k] /\ g[i] \in Nat
          BY <1>3, <4>1
      <4> QED BY <2>1, <2>2, <4>2
    <3> QED BY <3>1, <3>2
  <2> QED BY <2>1, <2>2, <2>3
<1>4. \A k \in 0 .. n : k \in G
    BY <1>2, <1>3, UpTo
<1> QED BY <1>1, <1>4

(* An array of equal elements. *)
LEMMA SumConst ==
    ASSUME NEW n \in Nat, NEW g, NEW c \in Int, \A k \in 0 .. n - 1 : g[k] = c
    PROVE  Sum(g, n) = n * c
<1>1. PICK s : Partial(g, n, s) /\ Sum(g, n) = s[n]
    BY SumPartial
<1> DEFINE G == {k \in 0 .. n : s[k] = k * c}
<1>2. 0 \in G
    BY <1>1 DEF Partial
<1>3. ASSUME NEW k \in 0 .. n - 1, k \in G PROVE k + 1 \in G
  <2>1. s[k + 1] = s[k] + c
      BY <1>1 DEF Partial
  <2>2. (k + 1) * c = k * c + c
      OBVIOUS
  <2> QED BY <1>3, <2>1, <2>2
<1>4. \A k \in 0 .. n : k \in G
    BY <1>2, <1>3, UpTo
<1> QED BY <1>1, <1>4
=============================================================================
