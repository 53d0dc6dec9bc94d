----------------------------- MODULE NumberLemmas -----------------------------
(***************************************************************************)
(* Facts about numbers that the proofs of several components cite: what a   *)
(* remainder is, and induction, in the form of a set of numbers.            *)
(***************************************************************************)
EXTENDS Integers, WellFoundedInduction, TLAPS

(* A remainder is what one multiple of m leaves of a number.                *)
LEMMA ModUnique ==
  ASSUME NEW m \in Nat, m > 0, NEW q \in Int, NEW n \in 0 .. m - 1
  PROVE  (m * q + n) % m = n
<1> DEFINE k == m * q + n
           p == k \div m
           r == k % m
<1>1. k \in Int /\ p \in Int /\ r \in 0 .. m - 1 /\ k = m * p + r
  OBVIOUS
<1>2. ASSUME NEW a \in Int, NEW b \in Int, a < b
      PROVE  m * a + m <= m * b
  <2> DEFINE d == b - a - 1
  <2>1. d \in Nat /\ b = a + 1 + d
    BY <1>2
  <2> HIDE DEF d
  <2>2. m * b = m * a + m + m * d /\ m * d >= 0
    BY <2>1
  <2> QED
    BY <2>1, <2>2
<1> HIDE DEF p, r
<1>3. p < q => m * p + m <= m * q
  BY <1>1, <1>2
<1>4. q < p => m * q + m <= m * p
  BY <1>1, <1>2
<1>5. p = q
  BY <1>1, <1>3, <1>4
<1> QED
  BY <1>1, <1>5 DEF r

(* Numbers that a multiple of m lies between have the same remainder.       *)
LEMMA ModSame ==
  ASSUME NEW m \in Nat, m > 0, NEW a \in Int, NEW q \in Int
  PROVE  (m * q + a) % m = a % m
<1> DEFINE p == a \div m
           r == a % m
<1>1. p \in Int /\ r \in 0 .. m - 1 /\ a = m * p + r
  OBVIOUS
<1> HIDE DEF p, r
<1>2. m * q + a = m * (q + p) + r /\ q + p \in Int
  BY <1>1
<1>3. (m * (q + p) + r) % m = r
  BY <1>1, <1>2, ModUnique
<1> QED
  BY <1>2, <1>3 DEF r

(* A number that is counted up and down within a width of m is the number   *)
(* counted without a width, within it.                                      *)
LEMMA ModCount ==
  ASSUME NEW m \in Nat, m > 0, NEW a \in Int, NEW b \in Int
  PROVE  ((a % m) + b) % m = (a + b) % m
<1> DEFINE p == a \div m
           r == a % m
<1>1. p \in Int /\ r \in Int /\ a = m * p + r
  OBVIOUS
<1> HIDE DEF p, r
<1>2. a + b = m * p + (r + b) /\ r + b \in Int
  BY <1>1
<1>3. (m * p + (r + b)) % m = (r + b) % m
  BY <1>1, <1>2, ModSame
<1> QED
  BY <1>2, <1>3 DEF r
-------------------------------------------------------------------------------
(* A set of numbers that is not empty has a least one.                      *)
LEMMA LeastNumber ==
  ASSUME NEW T \in SUBSET Nat, T # {}
  PROVE  \E n \in T : \A k \in T : n <= k
<1> DEFINE R == OpToRel(<, Nat)
<1>1. IsWellFoundedOn(R, Nat)
  BY NatLessThanWellFounded, Zenon
<1>2. \A a, b \in Nat : a < b => <<a, b>> \in R
  BY DEF OpToRel
<1> HIDE DEF R
<1>3. PICK n \in T : \A k \in T : ~ (<<k, n>> \in R)
  BY <1>1, WFMin
<1>4. ASSUME NEW k \in T PROVE n <= k
  <2>1. k \in Nat /\ n \in Nat /\ <<k, n>> \notin R
    BY <1>3
  <2>2. ~ (k < n)
    BY <1>2, <2>1
  <2> QED
    BY <2>1, <2>2
<1> QED
  BY <1>4

(* Induction: a set with 0 and the successor of each of its numbers has all. *)
LEMMA Induction ==
  ASSUME NEW T, 0 \in T, \A n \in Nat : n \in T => n + 1 \in T
  PROVE  \A n \in Nat : n \in T
<1> SUFFICES ASSUME Nat \ T # {} PROVE FALSE
  OBVIOUS
<1>1. PICK n \in Nat \ T : \A k \in Nat \ T : n <= k
  BY LeastNumber
<1>2. n # 0 /\ n - 1 \in Nat
  BY <1>1
<1>3. n - 1 \in T
  BY <1>1, <1>2
<1> QED
  BY <1>1, <1>2, <1>3

(* The runs of a loop that takes a state s of S to G[<<s, n>>] in round n:   *)
(* functions from the rounds to the states they end in.                     *)
LoopRuns(S, start, N, G) ==
  {f \in [0 .. N -> S] : f[0] = start /\ \A n \in 1 .. N : f[n] = G[<<f[n - 1], n>>]}

(* A loop has a run.                                                        *)
LEMMA LoopHasRun ==
  ASSUME NEW S, NEW start \in S, NEW N \in Nat, NEW G \in [S \X (1 .. N) -> S]
  PROVE  LoopRuns(S, start, N, G) # {}
<1> DEFINE Runs(k) == LoopRuns(S, start, k, G)
           T == {k \in Nat : k <= N => Runs(k) # {}}
<1>1. 0 \in T
  <2>1. [n \in 0 .. 0 |-> start] \in Runs(0)
    BY DEF LoopRuns
  <2> QED
    BY <2>1
<1>2. ASSUME NEW k \in Nat, k \in T PROVE k + 1 \in T
  <2> SUFFICES ASSUME k + 1 <= N PROVE Runs(k + 1) # {}
    OBVIOUS
  <2>1. PICK f : f \in Runs(k)
    BY <1>2
  <2>2. f \in [0 .. k -> S] /\ f[0] = start /\ \A n \in 1 .. k : f[n] = G[<<f[n - 1], n>>]
    BY <2>1 DEF LoopRuns
  <2> DEFINE g == [n \in 0 .. k + 1 |-> IF n = k + 1 THEN G[<<f[k], n>>] ELSE f[n]]
  <2>3. f[k] \in S /\ k + 1 \in 1 .. N
    BY <2>2
  <2>4. G[<<f[k], k + 1>>] \in S
    BY <2>3
  <2>5. g \in [0 .. k + 1 -> S] /\ g[0] = start
    BY <2>2, <2>4
  <2>6. ASSUME NEW n \in 1 .. k + 1 PROVE g[n] = G[<<g[n - 1], n>>]
    <3>1. n - 1 \in 0 .. k /\ g[n - 1] = f[n - 1]
      OBVIOUS
    <3>2. CASE n = k + 1
      BY <3>1, <3>2
    <3>3. CASE n \in 1 .. k
      BY <2>2, <3>1, <3>3
    <3> QED
      BY <3>2, <3>3
  <2> HIDE DEF g
  <2>7. g \in Runs(k + 1)
    BY <2>5, <2>6 DEF LoopRuns
  <2> QED
    BY <2>7
<1> HIDE DEF T
<1>3. N \in T
  BY <1>1, <1>2, Induction
<1> QED
  BY <1>3 DEF T
===============================================================================
