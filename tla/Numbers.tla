------------------------------- MODULE Numbers -------------------------------
(* What the proofs need of numbers: induction, least numbers, remainders.    *)
EXTENDS Integers, FiniteSetTheorems, TLAPS

\* A set of numbers that holds 0 and with each number the next holds them all:
\* otherwise stepping from the members to the next and staying elsewhere would
\* map 0 .. x one to one into 1 .. x.  The proofs about the loops of string.c
\* and about the places of pieces in a file induct with it.
LEMMA SetInduction ==
  ASSUME NEW P, 0 \in P, \A n \in Nat : n \in P => n + 1 \in P
  PROVE  Nat \subseteq P
<1> SUFFICES ASSUME NEW x \in Nat, x \notin P PROVE FALSE
  OBVIOUS
<1> DEFINE f == [k \in 0 .. x |-> IF k \in P THEN k + 1 ELSE k]
           S == 0 .. x
           T == 1 .. x
<1>1. f \in [S -> T] /\ \A a, b \in S : f[a] = f[b] => a = b
  OBVIOUS
<1>2. IsFiniteSet(S) /\ IsFiniteSet(T) /\ Cardinality(T) < Cardinality(S)
  <2>1. /\ IsFiniteSet(0 .. x) /\ Cardinality(0 .. x) = x + 1
        /\ IsFiniteSet(1 .. x) /\ Cardinality(1 .. x) = x
    BY FS_Interval
  <2> QED
    BY <2>1
<1> HIDE DEF f, S, T
<1>3. \E a, b \in S : a # b /\ f[a] = f[b]
  BY <1>1, <1>2, FS_PigeonHole, Zenon
<1> QED
  BY <1>1, <1>3

\* A set of numbers that has a member has a least one: the end of a string.
LEMMA LeastNat ==
  ASSUME NEW S, S \subseteq Nat, S # {}
  PROVE  \E m \in S : \A k \in S : m <= k
<1> SUFFICES ASSUME \A m \in S : \E k \in S : k < m PROVE FALSE
  OBVIOUS
<1> DEFINE P == {n \in Nat : \A k \in 0 .. n : k \notin S}
<1>1. 0 \in P /\ \A n \in Nat : n \in P => n + 1 \in P
  OBVIOUS
<1>2. Nat \subseteq P
  <2> HIDE DEF P
  <2> QED
    BY <1>1, SetInduction
<1>3. ASSUME NEW m \in S PROVE FALSE
  <2>1. m \in P /\ m \in 0 .. m
    BY <1>2
  <2> QED
    BY <2>1
<1> QED
  BY <1>3

\* Quotient and remainder.
LEMMA Division ==
  ASSUME NEW d \in Nat \ {0}, NEW x \in Int
  PROVE  /\ x \div d \in Int /\ x % d \in 0 .. d - 1
         /\ x = d * (x \div d) + (x % d)
  OBVIOUS

\* There is one remainder.
LEMMA OneRemainder ==
  ASSUME NEW d \in Nat \ {0}, NEW p \in Int, NEW q \in Int,
         NEW r \in 0 .. d - 1, NEW s \in 0 .. d - 1, d * q + r = d * p + s
  PROVE  r = s
<1>1. d * (q - p) = s - r
  OBVIOUS
<1>2. CASE q - p >= 1
  <2>1. d * (q - p) >= d
   BY <1>2
  <2> QED
    BY <2>1, <1>1
<1>3. CASE q - p <= -1
  <2>1. d * (q - p) <= -d
    BY <1>3
  <2> QED
    BY <2>1, <1>1
<1>4. CASE q = p
  BY <1>4
<1> QED
  BY <1>2, <1>3, <1>4

\* A memcpy over itself repeats what lies between its pointers.
LEMMA RemainderRepeats ==
  ASSUME NEW d \in Nat \ {0}, NEW x \in Nat, x >= d
  PROVE  (x - d) % d = x % d
<1> DEFINE q == x \div d
           r == x % d
           p == (x - d) \div d
           s == (x - d) % d
<1>1. /\ q \in Int /\ p \in Int /\ r \in 0 .. d - 1 /\ s \in 0 .. d - 1
      /\ x = d * q + r /\ x - d = d * p + s
  BY Division
<1> HIDE DEF q, r, p, s
<1>2. d * (q - 1) + r = d * p + s
  BY <1>1
<1>3. r = s
  BY <1>1, <1>2, OneRemainder
<1> QED
  BY <1>3 DEF r, s

\* Two different multiples of a word's size are a word apart.
LEMMA MultiplesApart ==
  ASSUME NEW w \in Nat \ {0}, NEW x \in Nat, NEW y \in Nat,
         x > y, x % w = 0, y % w = 0
  PROVE  x - y >= w
<1> DEFINE q == x \div w
           p == y \div w
<1>1. x = w * q /\ y = w * p /\ q \in Int /\ p \in Int
  BY Division
<1> HIDE DEF q, p
<1>2. w * (q - p) = x - y
  BY <1>1
<1>3. CASE q - p >= 1
  BY <1>1, <1>2, <1>3
<1>4. CASE q - p <= 0
  <2>1. w * (q - p) <= 0
    BY <1>1, <1>4
  <2> QED
    BY <1>2, <2>1
<1> QED
  BY <1>1, <1>3, <1>4
==============================================================================
