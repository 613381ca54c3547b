------------------------------- MODULE Minima -------------------------------
(***************************************************************************)
(* What the proofs share about natural numbers and finite sets: the least  *)
(* element of a set (FiniteSetsExt's Min); induction, for a set in place   *)
(* of a predicate; functions defined by recursion, or that iterate an      *)
(* operator; that a growing chain of subsets of a finite set comes to a    *)
(* stop; and that a sequence longer than its range has something twice.    *)
(***************************************************************************)
EXTENDS Integers, FiniteSetsExt, FiniteSetTheorems, WellFoundedInduction, TLAPS

(* Every non-empty set of natural numbers has a least element. *)
LEMMA MinExists ==
  ASSUME NEW S \in SUBSET Nat, S # {}
  PROVE  \E m \in S : \A n \in S : m <= n
<1> DEFINE R == {p \in Nat \X Nat : p[1] < p[2]}
<1>1. IsWellFoundedOn(R, Nat)
  BY NatLessThanWellFounded, Zenon DEF OpToRel
<1>2. PICK m \in S : \A n \in S : ~(<<n, m>> \in R)
  BY <1>1, WFMin
<1>3. ASSUME NEW n \in S
      PROVE  m <= n
  <2>1. m \in Nat /\ n \in Nat
    OBVIOUS
  <2>2. ~(<<n, m>> \in R)
    BY <1>2
  <2>3. ~(n < m)
    BY <2>1, <2>2
  <2>4. QED
    BY <2>1, <2>3
<1>4. QED
  BY <1>3

(* The least element of a set of naturals is one of its elements. *)
LEMMA MinIsLeast ==
  ASSUME NEW S \in SUBSET Nat, S # {}
  PROVE  /\ Min(S) \in S
         /\ \A n \in S : Min(S) <= n
<1>1. \E m \in S : \A n \in S : m <= n
  BY MinExists
<1>2. QED
  BY <1>1 DEF Min
(* Induction, for a set: a set that has 0 and with a number the next one   *)
(* has all numbers up to a bound, or all.                                  *)
LEMMA UpTo ==
  ASSUME NEW N \in Nat, NEW S, 0 \in S, \A k \in 0 .. N - 1 : k \in S => k + 1 \in S
  PROVE  0 .. N \subseteq S
<1> SUFFICES ASSUME ~(0 .. N \subseteq S) PROVE FALSE
  OBVIOUS
<1> DEFINE R == (0 .. N) \ S
<1>1. R \in SUBSET Nat /\ R # {}
  OBVIOUS
<1> HIDE DEF R
<1>2. PICK m \in R : \A k \in R : m <= k
  BY <1>1, MinExists
<1>3. m \in 0 .. N /\ m \notin S /\ m # 0
  BY <1>2 DEF R
<1>4. m - 1 \in 0 .. N - 1 /\ m - 1 \notin R /\ (m - 1) + 1 = m
  BY <1>2, <1>3
<1> QED
  BY <1>3, <1>4 DEF R

LEMMA Induction ==
  ASSUME NEW S, 0 \in S, \A k \in Nat : k \in S => k + 1 \in S
  PROVE  \A k \in Nat : k \in S
<1> SUFFICES ASSUME NEW k \in Nat PROVE k \in S
  OBVIOUS
<1>1. 0 .. k \subseteq S
  BY UpTo
<1> QED
  BY <1>1

(* What is defined by a first value and a step from each value to the next *)
(* exists: the recursive functions of the models are such iterations.      *)
Iterates(f, N, V, first, step) ==
  /\ f \in [0 .. N -> V]
  /\ f[0] = first
  /\ \A k \in 1 .. N : f[k] = step[f[k - 1]]

LEMMA IterationExists ==
  ASSUME NEW N, N \in Nat, NEW V, NEW first, first \in V, NEW step, step \in [V -> V]
  PROVE  \E f : Iterates(f, N, V, first, step)
<1> DEFINE Reaches(k) == \E f \in [0 .. k -> V] :
                           f[0] = first /\ \A j \in 1 .. k : f[j] = step[f[j - 1]]
<1> DEFINE S == {k \in Nat : Reaches(k)}
<1>1. 0 \in S
  <2> DEFINE f == [j \in 0 .. 0 |-> first]
  <2>1. f \in [0 .. 0 -> V] /\ f[0] = first /\ \A j \in 1 .. 0 : f[j] = step[f[j - 1]]
    OBVIOUS
  <2> HIDE DEF f
  <2>2. Reaches(0)
    BY <2>1
  <2> QED
    BY <2>2
<1>2. ASSUME NEW k \in Nat, k \in S PROVE k + 1 \in S
  <2>1. PICK f \in [0 .. k -> V] :
          f[0] = first /\ \A j \in 1 .. k : f[j] = step[f[j - 1]]
    BY <1>2
  <2> DEFINE g == [j \in 0 .. k + 1 |-> IF j = k + 1 THEN step[f[k]] ELSE f[j]]
  <2>2. g \in [0 .. k + 1 -> V]
    BY <2>1
  <2>3. g[0] = first
    BY <2>1
  <2>4. ASSUME NEW j \in 1 .. k + 1 PROVE g[j] = step[g[j - 1]]
    <3>1. CASE j = k + 1
      BY <3>1
    <3>2. CASE j # k + 1
      <4>1. j \in 1 .. k /\ j - 1 \in 0 .. k
        BY <3>2
      <4>2. g[j] = f[j] /\ g[j - 1] = f[j - 1]
        BY <4>1
      <4> QED
        BY <2>1, <4>1, <4>2
    <3> QED
      BY <3>1, <3>2
  <2> HIDE DEF g
  <2> QED
    BY <2>2, <2>3, <2>4
<1> HIDE DEF S
<1>3. N \in S
  BY <1>1, <1>2, Induction
<1> QED
  BY <1>3 DEF S, Iterates

(* Growing sets that stand still once they have not grown, and have no     *)
(* more than N elements, stand still after N steps.                        *)
LEMMA Saturates ==
  ASSUME NEW N \in Nat, NEW S, IsFiniteSet(S), Cardinality(S) <= N,
         NEW X, \A k \in 0 .. N + 1 : X[k] \subseteq S,
         \A k \in 0 .. N : X[k] \subseteq X[k + 1],
         \A k \in 0 .. N - 1 : X[k] = X[k + 1] => X[k + 1] = X[k + 2]
  PROVE  X[N] = X[N + 1]
<1> SUFFICES ASSUME X[N] # X[N + 1] PROVE FALSE
  OBVIOUS
<1> DEFINE T == {j \in 0 .. N : X[N - j] # X[N - j + 1]}
<1>1. 0 .. N \subseteq T
  <2>1. 0 \in T
    <3>1. N - 0 = N
      OBVIOUS
    <3> QED
      BY <3>1
  <2>2. ASSUME NEW j \in 0 .. N - 1, j \in T PROVE j + 1 \in T
    <3> DEFINE k == N - j - 1
    <3>1. k \in 0 .. N - 1 /\ k + 1 = N - j /\ k + 2 = N - j + 1 /\ k = N - (j + 1)
          /\ j + 1 \in 0 .. N
      OBVIOUS
    <3>2. X[k + 1] # X[k + 2]
      BY <2>2, <3>1
    <3> HIDE DEF k
    <3>3. X[k] # X[k + 1]
      BY <3>1, <3>2
    <3> QED
      BY <3>1, <3>3
  <2> HIDE DEF T
  <2> QED
    BY <2>1, <2>2, UpTo
<1>2. \A k \in 0 .. N : X[k] # X[k + 1]
  <2> SUFFICES ASSUME NEW k \in 0 .. N PROVE X[k] # X[k + 1]
    OBVIOUS
  <2>1. N - k \in T
    BY <1>1
  <2>2. N - (N - k) = k
    OBVIOUS
  <2> QED
    BY <2>1, <2>2
<1>3. \A k \in 0 .. N + 1 : IsFiniteSet(X[k]) /\ Cardinality(X[k]) \in Nat
                            /\ Cardinality(X[k]) <= Cardinality(S)
  BY FS_Subset, FS_CardinalityType
<1> DEFINE C == {k \in 0 .. N + 1 : k <= Cardinality(X[k])}
<1>4. 0 .. N + 1 \subseteq C
  <2>1. 0 \in C
    BY <1>3
  <2>2. ASSUME NEW k \in 0 .. N, k \in C PROVE k + 1 \in C
    <3>1. X[k] \in SUBSET X[k + 1] /\ X[k] # X[k + 1] /\ k + 1 \in 0 .. N + 1
      BY <1>2
    <3>2. IsFiniteSet(X[k + 1])
      BY <1>3, <3>1
    <3>3. Cardinality(X[k]) <= Cardinality(X[k + 1]) /\ Cardinality(X[k]) # Cardinality(X[k + 1])
      BY <3>1, <3>2, FS_Subset
    <3>4. k <= Cardinality(X[k]) /\ Cardinality(X[k]) \in Nat /\ Cardinality(X[k + 1]) \in Nat
      BY <1>3, <2>2, <3>1
    <3> QED
      BY <3>1, <3>3, <3>4
  <2> HIDE DEF C
  <2>3. N + 1 \in Nat /\ (N + 1) - 1 = N
    OBVIOUS
  <2> QED
    BY <2>1, <2>2, <2>3, UpTo
<1>5. N + 1 <= Cardinality(X[N + 1]) /\ Cardinality(X[N + 1]) \in Nat
      /\ Cardinality(X[N + 1]) <= Cardinality(S)
  BY <1>3, <1>4
<1>6. Cardinality(S) \in Nat
  BY FS_CardinalityType
<1> QED
  BY <1>5, <1>6

(* What is defined by recursion down a bounded measure exists: F computes  *)
(* a value from those of smaller measure, so that a function F leaves as   *)
(* it is can be had by applying F once for each measure.                   *)
Recursive(F, S, V, N, m) ==
  /\ N \in Nat /\ m \in [S -> 0 .. N]
  /\ [S -> V] # {} /\ F \in [[S -> V] -> [S -> V]]
  /\ \A f, g \in [S -> V] : \A x \in S :
       (\A y \in S : m[y] < m[x] => f[y] = g[y]) => F[f][x] = F[g][x]

LEMMA RecursionExists ==
  ASSUME NEW S, NEW V, NEW N, NEW m, NEW F, Recursive(F, S, V, N, m)
  PROVE  \E f \in [S -> V] : F[f] = f
<1> USE DEF Recursive
<1>0. PICK start \in [S -> V] : TRUE
  OBVIOUS
<1> DEFINE T == {k \in 0 .. N + 1 : \E f \in [S -> V] : \A x \in S : m[x] < k => F[f][x] = f[x]}
<1>1. 0 \in T
  <2>1. \A x \in S : ~ (m[x] < 0)
    OBVIOUS
  <2> QED
    BY <1>0, <2>1
<1>2. ASSUME NEW k \in 0 .. N, k \in T PROVE k + 1 \in T
  <2>1. PICK f \in [S -> V] : \A x \in S : m[x] < k => F[f][x] = f[x]
    BY <1>2
  <2> DEFINE g == F[f]
  <2>2. g \in [S -> V]
    OBVIOUS
  <2>3. ASSUME NEW x \in S, m[x] < k + 1 PROVE F[g][x] = g[x]
    <3>1. \A y \in S : m[y] < m[x] => m[y] < k
      BY <2>3
    <3>2. \A y \in S : m[y] < m[x] => g[y] = f[y]
      BY <2>1, <3>1
    <3> HIDE DEF g
    <3>3. F[g][x] = F[f][x]
      BY <2>2, <3>2
    <3> QED
      BY <3>3 DEF g
  <2> HIDE DEF g
  <2>4. k + 1 \in 0 .. N + 1
    OBVIOUS
  <2> QED
    BY <2>2, <2>3, <2>4
<1>3. N + 1 \in T
  <2>1. N + 1 \in Nat /\ (N + 1) - 1 = N
    OBVIOUS
  <2> HIDE DEF T
  <2>2. 0 .. N + 1 \subseteq T
    BY <1>1, <1>2, <2>1, UpTo
  <2> QED
    BY <2>1, <2>2
<1>4. PICK f \in [S -> V] : \A x \in S : m[x] < N + 1 => F[f][x] = f[x]
  BY <1>3
<1>5. \A x \in S : m[x] < N + 1
  OBVIOUS
<1>6. F[f] \in [S -> V] /\ \A x \in S : F[f][x] = f[x]
  BY <1>4, <1>5
<1> QED
  BY <1>6

(* A list of more numbers up to N than there are has one of them twice. *)
LEMMA Twice ==
  ASSUME NEW N \in Nat, NEW p \in [1 .. N + 1 -> 1 .. N]
  PROVE  \E a, e \in 1 .. N + 1 : a < e /\ p[a] = p[e]
<1> DEFINE S == 1 .. N + 1
<1> DEFINE T == 1 .. N
<1>1. IsFiniteSet(T) /\ Cardinality(T) = N
  <2>1. 1 \in Int /\ N \in Int /\ (1 > N => N = 0) /\ (~(1 > N) => N - 1 + 1 = N)
    OBVIOUS
  <2> QED
    BY <2>1, FS_Interval
<1>2. IsFiniteSet(S) /\ Cardinality(S) = N + 1
  <2>1. 1 \in Int /\ N + 1 \in Int /\ ~(1 > N + 1) /\ (N + 1) - 1 + 1 = N + 1
    OBVIOUS
  <2> QED
    BY <2>1, FS_Interval
<1>3. Cardinality(T) < Cardinality(S)
  BY <1>1, <1>2
<1>4. p \in [S -> T]
  OBVIOUS
<1> HIDE DEF S, T
<1>5. PICK c, d \in S : c # d /\ p[c] = p[d]
  BY <1>1, <1>2, <1>3, <1>4, FS_PigeonHole
<1>6. c < d \/ d < c
  BY <1>5 DEF S
<1> QED
  BY <1>5, <1>6 DEF S
=============================================================================
