----------------------------- MODULE SumProofs ------------------------------
(***************************************************************************)
(* What the other proofs use of naturals and of sums: the models add up    *)
(* scores with a recursive function, one term after the other, like the    *)
(* loops of the code.  Here it is proved that there is such a function,    *)
(* and how its values compare when the terms do.                           *)
(***************************************************************************)
EXTENDS Integers, NaturalsInduction, WellFoundedInduction, TLAPS

\* Among some naturals there is a least.
LEMMA LeastNatural ==
    ASSUME NEW T, T \subseteq Nat, T # {}
    PROVE  \E x \in T : \A y \in T : x <= y
<1>1. PICK x \in T : \A y \in T : <<y, x>> \notin OpToRel(<, Nat)
  BY NatLessThanWellFounded, WFMin, Zenon
<1>2. \A y \in T : ~(y < x)
  BY <1>1 DEF OpToRel
<1> QED
  BY <1>2

\* Induction over a set of naturals: of those outside it there is no least.
LEMMA Induct ==
    ASSUME NEW S, 0 \in S, \A n \in Nat : n \in S => n + 1 \in S
    PROVE  \A n \in Nat : n \in S
<1> SUFFICES ASSUME Nat \ S # {} PROVE FALSE
  OBVIOUS
<1>1. PICK x \in Nat \ S : \A y \in Nat \ S : x <= y
  BY LeastNatural
<1>2. x - 1 \in Nat /\ x - 1 \in S
  BY <1>1
<1> QED
  BY <1>1, <1>2

\* Up to n, f holds the sums of the prefixes of the integers d.
SumsOf(f, d, n) ==
    /\ \A i \in 0 .. n : f[i] \in Int
    /\ f[0] = 0
    /\ \A i \in 1 .. n : f[i] = f[i-1] + d[i]

\* Every finite sequence of integers has such sums.
LEMMA SumsExist ==
    ASSUME NEW N \in Nat, NEW d \in [1 .. N -> Int]
    PROVE  \E f \in [0 .. N -> Int] : SumsOf(f, d, N)
<1> DEFINE S == {n \in Nat : n <= N =>
                    \E f \in [0 .. n -> Int] : SumsOf(f, d, n)}
<1>1. 0 \in S
  <2> DEFINE z == [i \in 0 .. 0 |-> 0]
  <2>1. z \in [0 .. 0 -> Int] /\ SumsOf(z, d, 0)
    BY DEF SumsOf
  <2> QED
    BY <2>1
<1>2. ASSUME NEW n \in S, n + 1 <= N
      PROVE  \E f \in [0 .. n + 1 -> Int] : SumsOf(f, d, n + 1)
  <2>1. n \in Nat /\ n <= N
    BY <1>2
  <2>2. PICK f \in [0 .. n -> Int] : SumsOf(f, d, n)
    BY <2>1
  <2>3. f[n] \in Int /\ d[n + 1] \in Int
    BY <1>2, <2>1, <2>2 DEF SumsOf
  <2> DEFINE g == [i \in 0 .. n + 1 |-> IF i = n + 1 THEN f[n] + d[n+1]
                                                     ELSE f[i]]
  <2>4. \A i \in 0 .. n : g[i] = f[i] /\ f[i] \in Int
    <3>1. \A i \in 0 .. n : i \in 0 .. n + 1 /\ i # n + 1
      BY <2>1
    <3>2. \A i \in 0 .. n : f[i] \in Int
      BY <2>2 DEF SumsOf
    <3> QED
      BY <3>1, <3>2
  <2>5. g[n + 1] = f[n] + d[n + 1] /\ g[n + 1] \in Int
    BY <2>1, <2>3
  <2>6. g \in [0 .. n + 1 -> Int]
    <3>1. \A i \in 0 .. n + 1 : i \in 0 .. n \/ i = n + 1
      BY <2>1
    <3>2. \A i \in 0 .. n + 1 : g[i] \in Int
      BY <2>4, <2>5, <3>1
    <3> QED
      BY <3>2
  <2> HIDE DEF g
  <2>7. g[0] = 0
    BY <2>1, <2>2, <2>4 DEF SumsOf
  <2>8. ASSUME NEW i \in 1 .. n + 1 PROVE g[i] = g[i-1] + d[i]
    <3>1. CASE i = n + 1
      BY <2>1, <2>4, <2>5, <3>1
    <3>2. CASE i # n + 1
      <4>1. i \in 1 .. n /\ i \in 0 .. n /\ i - 1 \in 0 .. n
        BY <2>1, <3>2
      <4> QED
        BY <4>1, <2>2, <2>4 DEF SumsOf
    <3> QED
      BY <3>1, <3>2
  <2> QED
    BY <2>6, <2>7, <2>8 DEF SumsOf
<1>3. \A n \in Nat : n \in S => n + 1 \in S
  <2>1. ASSUME NEW n \in Nat, n \in S PROVE n + 1 \in S
    BY <1>2, <2>1
  <2> QED
    BY <2>1
<1> HIDE DEF S
<1>4. N \in S
  BY <1>1, <1>3, Induct
<1> QED
  BY <1>4 DEF S

\* With the sums f and g, the n integers d are the last of the m integers e,
\* those after the first k.
Continues(f, d, n, g, e, m, k) ==
    /\ n \in Nat
    /\ k \in Nat
    /\ m = k + n
    /\ SumsOf(f, d, n)
    /\ SumsOf(g, e, m)
    /\ \A i \in 1 .. n : d[i] \in Int /\ d[i] = e[k + i]

\* Where two sequences agree, their sums differ by what the longer one had
\* before.
LEMMA SumsAgree ==
    ASSUME NEW f, NEW d, NEW n, NEW g, NEW e, NEW m, NEW k,
           Continues(f, d, n, g, e, m, k)
    PROVE  \A i \in 0 .. n : g[k + i] = g[k] + f[i]
<1> DEFINE S == {i \in Nat : i <= n => g[k + i] = g[k] + f[i]}
<1> USE DEF Continues
<1>k. k \in 0 .. k + n /\ g[k] \in Int
  BY DEF SumsOf
<1>1. 0 \in S
  BY <1>k DEF SumsOf
<1>2. ASSUME NEW i \in Nat, i \in S, i + 1 <= n
      PROVE  g[k + (i + 1)] = g[k] + f[i + 1]
  <2>1. /\ i <= n /\ i \in 0 .. n /\ i + 1 \in 1 .. n
        /\ k + (i + 1) \in 1 .. k + n /\ k + (i + 1) - 1 = k + i
        /\ i + 1 - 1 = i
    BY <1>2
  <2>2. g[k + i] = g[k] + f[i] /\ f[i] \in Int
    BY <1>2, <2>1 DEF SumsOf
  <2>3. f[i + 1] = f[i] + d[i + 1] /\ f[i + 1] \in Int
    BY <2>1 DEF SumsOf
  <2>4. g[k + (i + 1)] = g[k + i] + e[k + (i + 1)]
    BY <2>1 DEF SumsOf
  <2>5. d[i + 1] \in Int /\ d[i + 1] = e[k + (i + 1)]
    BY <2>1
  <2> QED
    BY <1>k, <2>2, <2>3, <2>4, <2>5
<1>3. \A i \in Nat : i \in S => i + 1 \in S
  BY <1>2
<1> HIDE DEF S
<1>4. \A i \in Nat : i \in S
  BY <1>1, <1>3, Induct
<1> QED
  BY <1>4 DEF S

\* Terms that are not smaller have sums that are not smaller.
LEMMA SumsOrdered ==
    ASSUME NEW n \in Nat, NEW d, NEW e, NEW f, NEW g,
           SumsOf(f, d, n), SumsOf(g, e, n),
           \A i \in 1 .. n : d[i] \in Int /\ e[i] \in Int /\ d[i] <= e[i]
    PROVE  f[n] <= g[n]
<1> DEFINE S == {i \in Nat : i <= n => f[i] <= g[i]}
<1>1. 0 \in S
  BY DEF SumsOf
<1>2. ASSUME NEW i \in Nat, i \in S, i + 1 <= n PROVE f[i + 1] <= g[i + 1]
  <2>1. i <= n /\ i \in 0 .. n /\ i + 1 \in 1 .. n /\ i + 1 - 1 = i
    BY <1>2
  <2>2. f[i] <= g[i] /\ f[i] \in Int /\ g[i] \in Int
    BY <1>2, <2>1 DEF SumsOf
  <2>3. /\ f[i + 1] = f[i] + d[i + 1]
        /\ g[i + 1] = g[i] + e[i + 1]
    BY <2>1 DEF SumsOf
  <2>4. d[i + 1] \in Int /\ e[i + 1] \in Int /\ d[i + 1] <= e[i + 1]
    BY <2>1
  <2> QED
    BY <2>2, <2>3, <2>4
<1>3. \A i \in Nat : i \in S => i + 1 \in S
  BY <1>2
<1> HIDE DEF S
<1>4. n \in S
  BY <1>1, <1>3, Induct
<1> QED
  BY <1>4 DEF S

\* A function of the sums has the form of a recursive definition ...
LEMMA SumsRecurse ==
    ASSUME NEW N \in Nat, NEW d, NEW f \in [0 .. N -> Int], SumsOf(f, d, N)
    PROVE  f = [n \in 0 .. N |-> IF n = 0 THEN 0 ELSE f[n-1] + d[n]]
  BY DEF SumsOf

\* ... and whatever has that form holds the sums.
LEMMA RecursionSums ==
    ASSUME NEW N \in Nat, NEW d \in [1 .. N -> Int], NEW f,
           f = [n \in 0 .. N |-> IF n = 0 THEN 0 ELSE f[n-1] + d[n]]
    PROVE  SumsOf(f, d, N)
<1> DEFINE S == {n \in Nat : n <= N => f[n] \in Int}
<1>1. f[0] = 0 /\ \A i \in 1 .. N : f[i] = f[i-1] + d[i]
  OBVIOUS
<1>2. ASSUME NEW n \in Nat, n \in S, n + 1 <= N PROVE f[n + 1] \in Int
  <2>1. n + 1 \in 1 .. N /\ n + 1 - 1 = n /\ f[n] \in Int
    BY <1>2
  <2> QED
    BY <1>1, <2>1
<1>3. 0 \in S /\ \A n \in Nat : n \in S => n + 1 \in S
  BY <1>1, <1>2
<1> HIDE DEF S
<1>4. \A n \in Nat : n \in S
  BY <1>3, Induct
<1>5. \A n \in 0 .. N : f[n] \in Int
  <2>1. \A n \in 0 .. N : n \in Nat /\ n <= N
    OBVIOUS
  <2> QED
    BY <1>4, <2>1 DEF S
<1> QED
  BY <1>1, <1>5 DEF SumsOf

=============================================================================
