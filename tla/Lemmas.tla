------------------------------- MODULE Lemmas -------------------------------
(***************************************************************************)
(* Facts the proofs of more than one component need: about indices of      *)
(* rings, about lists, and about numbers.                                  *)
(***************************************************************************)
EXTENDS Integers, TLAPS, WellFoundedInduction, FiniteSetTheorems, SequenceTheorems

---------------------------------------------------------------------------
(* Indices of rings.  The notification queue in shared memory, its array   *)
(* lock and the ring of uGNI descriptors all step an index by              *)
(* (index + 1) % size; the facts about % that their proofs need, for a     *)
(* ring of any size n.                                                     *)

(* Quotient and remainder.                                                 *)
LEMMA DivMod ==
  ASSUME NEW n \in Nat \ {0}, NEW a \in Int
  PROVE  a \div n \in Int /\ a = n * (a \div n) + (a % n) /\ a % n \in 0 .. n - 1
OBVIOUS

(* A remainder is an index of the ring.                                    *)
LEMMA ModType ==
  ASSUME NEW n \in Nat \ {0}, NEW a \in Int
  PROVE  a % n \in 0 .. n - 1
OBVIOUS

(* An index within the ring is its own remainder.                          *)
LEMMA ModSmall ==
  ASSUME NEW n \in Nat \ {0}, NEW a \in 0 .. n - 1
  PROVE  a % n = a
OBVIOUS

(* A positive multiple of n is at least n.                                 *)
LEMMA MultipleBound ==
  ASSUME NEW n \in Nat \ {0}, NEW d \in Nat \ {0}
  PROVE  n * d >= n
<1>1. \A a, b \in Nat : a * b >= 0
  OBVIOUS
<1>2. n * (d - 1) >= 0
  BY <1>1
<1>3. n * (d - 1) = n * d - n
  OBVIOUS
<1>. QED  BY <1>2, <1>3

(* Numbers less than n apart with the same remainder are equal: two        *)
(* entries of a ring are different until the ring has been gone round.     *)
LEMMA ModDistinct ==
  ASSUME NEW n \in Nat \ {0}, NEW a \in Int, NEW b \in Int,
         a % n = b % n, b - a < n, a - b < n
  PROVE  a = b
<1>. DEFINE k == a \div n  j == b \div n  m == a % n
<1>1. k \in Int /\ a = n * k + m /\ j \in Int /\ b = n * j + m /\ m \in Int
  BY DivMod
<1>. HIDE DEF k, j, m
<1>2. n * k \in Int /\ n * j \in Int
  BY <1>1
<1>3. n * (k - j) = n * k - n * j /\ n * (j - k) = n * j - n * k
  BY <1>1
<1>4. n * (k - j) = a - b /\ n * (j - k) = b - a
  BY <1>1, <1>2, <1>3
<1>5. ~ (k > j)
  BY <1>1, <1>4, MultipleBound
<1>6. ~ (k < j)
  BY <1>1, <1>4, MultipleBound
<1>7. k = j
  BY <1>1, <1>5, <1>6
<1>. QED  BY <1>1, <1>2, <1>7

(* Of n entries no two are the same, counted back from one place or on.    *)
LEMMA ModBack ==
  ASSUME NEW n \in Nat \ {0}, NEW a \in Int, NEW i \in 1 .. n - 1
  PROVE  (a - (i + 1)) % n # (a - 1) % n
<1>1. a - (i + 1) \in Int /\ a - 1 \in Int /\ a - (i + 1) # a - 1
  OBVIOUS
<1>2. (a - (i + 1)) - (a - 1) < n /\ (a - 1) - (a - (i + 1)) < n
  OBVIOUS
<1>. QED  BY <1>1, <1>2, ModDistinct

(* Nor counted on from it by different numbers.                            *)
LEMMA ModOn ==
  ASSUME NEW n \in Nat \ {0}, NEW a \in Int, NEW i \in 0 .. n - 1, NEW j \in 0 .. n - 1, i # j
  PROVE  (a + i) % n # (a + j) % n
<1>1. a + i \in Int /\ a + j \in Int /\ a + i # a + j
  OBVIOUS
<1>2. (a + i) - (a + j) < n /\ (a + j) - (a + i) < n
  OBVIOUS
<1>. QED  BY <1>1, <1>2, ModDistinct

(* The remainder is the only number of the ring that differs from the      *)
(* dividend by a multiple.                                                 *)
LEMMA ModUnique ==
  ASSUME NEW n \in Nat \ {0}, NEW q \in Int, NEW r \in 0 .. n - 1
  PROVE  (n * q + r) % n = r
<1>. DEFINE a == n * q + r  k == a \div n  m == a % n
<1>1. n * q \in Int /\ a \in Int
  OBVIOUS
<1>. HIDE DEF a
<1>2. k \in Int /\ a = n * k + m /\ m \in 0 .. n - 1
  BY <1>1, DivMod
<1>. HIDE DEF k, m
<1>3. n * (q - k) = n * q - n * k /\ n * (k - q) = n * k - n * q /\ n * k \in Int
  BY <1>2
<1>4. n * (q - k) = m - r /\ n * (k - q) = r - m
  BY <1>1, <1>2, <1>3 DEF a
<1>5. ~ (q > k)
  BY <1>2, <1>4, MultipleBound
<1>6. ~ (q < k)
  BY <1>2, <1>4, MultipleBound
<1>7. q = k
  BY <1>2, <1>5, <1>6
<1>8. m = r
  BY <1>1, <1>2, <1>7 DEF a
<1>. QED  BY <1>8 DEF m, a

(* Stepping an index is stepping the number it stands for.                 *)
LEMMA ModShift ==
  ASSUME NEW n \in Nat \ {0}, NEW a \in Int, NEW d \in Int
  PROVE  ((a % n) + d) % n = (a + d) % n
<1>. DEFINE k == a \div n  m == a % n  b == m + d  j == b \div n  s == b % n
<1>1. k \in Int /\ a = n * k + m /\ m \in 0 .. n - 1
  BY DivMod
<1>. HIDE DEF k, m
<1>2. b \in Int
  BY <1>1
<1>. HIDE DEF b
<1>3. j \in Int /\ b = n * j + s /\ s \in 0 .. n - 1
  BY <1>2, DivMod
<1>. HIDE DEF j, s
<1>4. n * (k + j) = n * k + n * j /\ n * k \in Int /\ n * j \in Int
  BY <1>1, <1>3
<1>5. a + d = n * (k + j) + s
  BY <1>1, <1>3, <1>4 DEF b
<1>6. (n * (k + j) + s) % n = s
  BY <1>1, <1>3, ModUnique
<1>. QED  BY <1>5, <1>6 DEF s, b, m

(* The remainder of a count is no more than the count.                     *)
LEMMA ModAtMost ==
  ASSUME NEW n \in Nat \ {0}, NEW a \in Nat
  PROVE  a % n <= a
<1>. DEFINE q == a \div n  m == a % n
<1>1. q \in Int /\ a = n * q + m /\ m \in 0 .. n - 1
  BY DivMod
<1>. SUFFICES m <= a
  OBVIOUS
<1>. HIDE DEF q, m
<1>2. n * q \in Int /\ n * (-q) = -(n * q) /\ -q \in Int
  BY <1>1
<1>3. q >= 0
  <2>. SUFFICES ASSUME q < 0  PROVE FALSE
    BY <1>1
  <2>1. n * (-q) >= n
    BY <1>1, MultipleBound
  <2>. QED  BY <1>1, <1>2, <2>1
<1>4. n * q >= 0
  <2>1. CASE q = 0
    BY <2>1
  <2>2. CASE q > 0
    BY <1>1, <2>2, MultipleBound
  <2>. QED  BY <1>1, <1>3, <2>1, <2>2
<1>. QED  BY <1>1, <1>2, <1>4

(* A counter that is no more than one ahead of its remainder has not       *)
(* wrapped around.                                                         *)
LEMMA ModNotWrapped ==
  ASSUME NEW n \in Nat \ {0, 1}, NEW a \in Nat, a - 1 <= a % n
  PROVE  a <= a % n
<1>. DEFINE q == a \div n  m == a % n
<1>1. q \in Int /\ a = n * q + m /\ m \in Int
  BY DivMod
<1>. SUFFICES a <= m
  OBVIOUS
<1>2. n * q \in Int /\ a - 1 <= m
  BY <1>1
<1>. HIDE DEF q, m
<1>3. ~ (q >= 1)
  <2>. SUFFICES ASSUME q >= 1  PROVE FALSE
    OBVIOUS
  <2>1. n * q >= n
    BY <1>1, MultipleBound
  <2>. QED  BY <1>1, <1>2, <2>1
<1>4. n * q <= 0
  <2>1. q <= 0
    BY <1>1, <1>3
  <2>2. CASE q = 0
    BY <2>2
  <2>3. CASE q < 0
    <3>1. n * (-q) >= n /\ -q \in Int
      BY <1>1, <2>3, MultipleBound
    <3>2. n * (-q) = -(n * q)
      BY <1>1
    <3>. QED  BY <1>2, <3>1, <3>2
  <2>. QED  BY <1>1, <2>1, <2>2, <2>3
<1>. QED  BY <1>1, <1>2, <1>4

---------------------------------------------------------------------------
(* Numbers and walks.                                                      *)

(* Numbers, if there are any, have a least one.                            *)
LEMMA LeastElement ==
  ASSUME NEW T \in SUBSET Nat, T # {}
  PROVE  \E m \in T : \A k \in T : m <= k
<1>. DEFINE R == {ss \in Nat \X Nat : ss[1] < ss[2]}
<1>1. IsWellFoundedOn(R, Nat)
  BY NatLessThanWellFounded DEF OpToRel
<1>2. \E x \in T : \A y \in T : ~ (<<y, x>> \in R)
  <2>. HIDE DEF R
  <2>. QED BY <1>1, WFMin
<1>3. PICK x \in T : \A y \in T : ~ (<<y, x>> \in R)
  BY <1>2
<1>4. \A y \in T : ~ (y < x)
  BY <1>3
<1>. QED BY <1>4

(* What agrees at the start and goes on agreeing agrees everywhere.        *)
LEMMA AgreeAll ==
  ASSUME NEW C \in Nat, NEW F, NEW G,
         \A i \in 1 .. C : i = 1 \/ F[i - 1] = G[i - 1] => F[i] = G[i]
  PROVE  \A i \in 1 .. C : F[i] = G[i]
<1>. SUFFICES ASSUME NEW i \in 1 .. C, F[i] # G[i]  PROVE FALSE
  OBVIOUS
<1>. DEFINE T == {j \in 1 .. C : F[j] # G[j]}
<1>1. T \in SUBSET Nat /\ T # {}
  OBVIOUS
<1>2. \E m \in T : \A j \in T : m <= j
  <2>. HIDE DEF T
  <2>. QED BY <1>1, LeastElement
<1>3. PICK m \in T : \A j \in T : m <= j
  BY <1>2
<1>4. m \in 1 .. C /\ F[m] # G[m]
  BY <1>3
<1>5. m = 1 \/ m - 1 \in 1 .. C
  BY <1>4
<1>6. m - 1 \in 1 .. C => F[m - 1] = G[m - 1]
  BY <1>3, <1>4
<1>. QED BY <1>4, <1>5, <1>6

\* a walk of C places along link, if F[i] is where it is at the i-th
Along(C, start, link, F) == [i \in 1 .. C |-> IF i = 1 THEN start ELSE link[F[i - 1]]]

(* Where such a walk is at the i-th place is determined.                   *)
LEMMA WalkUnique ==
  ASSUME NEW C \in Nat, NEW start, NEW link, NEW F, NEW G,
         F = Along(C, start, link, F), G = Along(C, start, link, G)
  PROVE  F = G
<1>1. ASSUME NEW f, NEW g, NEW i \in 1 .. C, i = 1 \/ f[i - 1] = g[i - 1]
      PROVE  Along(C, start, link, f)[i] = Along(C, start, link, g)[i]
  BY <1>1 DEF Along
<1>2. \A i \in 1 .. C : i = 1 \/ F[i - 1] = G[i - 1] => F[i] = G[i]
  BY <1>1
<1>3. \A i \in 1 .. C : F[i] = G[i]
  BY <1>2, AgreeAll
<1>4. ASSUME NEW f, NEW g, \A i \in 1 .. C : Along(C, start, link, f)[i] = Along(C, start, link, g)[i]
      PROVE  Along(C, start, link, f) = Along(C, start, link, g)
  BY <1>4 DEF Along
<1>5. \A i \in 1 .. C : Along(C, start, link, F)[i] = Along(C, start, link, G)[i]
  BY <1>3
<1>6. Along(C, start, link, F) = Along(C, start, link, G)
  BY <1>4, <1>5
<1>. QED BY <1>6

---------------------------------------------------------------------------
(* Lists.                                                                  *)

(* The types of a list.                                                    *)
LEMMA Lengths ==
  ASSUME NEW S, NEW L \in Seq(S)
  PROVE  /\ Len(L) \in Nat /\ DOMAIN L = 1 .. Len(L) /\ L \in [1 .. Len(L) -> S]
         /\ L = << >> <=> Len(L) = 0
         /\ \A k \in 1 .. Len(L) : L[k] \in S
<1>1. Len(L) \in Nat /\ DOMAIN L = 1 .. Len(L) /\ L \in [1 .. Len(L) -> S]
  BY LenProperties
<1>. QED BY <1>1, EmptySeq

NoRepeats(L) == \A i, j \in DOMAIN L : L[i] = L[j] => i = j
Elements(L) == {L[i] : i \in DOMAIN L}

\* K is L without its k-th element
Without(L, k, K) ==
  /\ Len(K) = Len(L) - 1
  /\ \A i \in 1 .. k - 1 : K[i] = L[i]
  /\ \A i \in k .. Len(L) - 1 : K[i] = L[i + 1]

(* A list can do without its k-th element.                                 *)
LEMMA WithoutElement ==
  ASSUME NEW S, NEW L \in Seq(S), NoRepeats(L), NEW k \in 1 .. Len(L)
  PROVE  \E K \in Seq(S) :
           Without(L, k, K) /\ NoRepeats(K) /\ Elements(K) = Elements(L) \ {L[k]}
<1>. USE DEF NoRepeats, Elements, Without
<1>1. /\ Len(L) \in Nat /\ DOMAIN L = 1 .. Len(L) /\ k \in Nat /\ 1 <= k /\ k <= Len(L)
      /\ \A i \in 1 .. Len(L) : L[i] \in S
  BY Lengths
<1>. DEFINE pos(i) == IF i < k THEN i ELSE i + 1
<1>2. PICK K : K = [i \in 1 .. Len(L) - 1 |-> L[pos(i)]]
  OBVIOUS
<1>3. \A i \in 1 .. Len(L) - 1 : /\ pos(i) \in 1 .. Len(L) /\ pos(i) # k
                                 /\ \A j \in 1 .. Len(L) - 1 : pos(i) = pos(j) => i = j
  BY <1>1
<1>4. \A j \in 1 .. Len(L) : j # k => \E i \in 1 .. Len(L) - 1 : pos(i) = j
  <2>. SUFFICES ASSUME NEW j \in 1 .. Len(L), j # k PROVE \E i \in 1 .. Len(L) - 1 : pos(i) = j
    OBVIOUS
  <2>1. CASE j < k
    <3>1. j \in 1 .. Len(L) - 1 /\ pos(j) = j
      BY <1>1, <2>1
    <3>. QED BY <3>1
  <2>2. CASE j > k
    <3>1. j - 1 \in 1 .. Len(L) - 1 /\ pos(j - 1) = j
      BY <1>1, <2>2
    <3>. QED BY <3>1
  <2>. QED BY <1>1, <2>1, <2>2
<1>5. (\A i \in 1 .. k - 1 : pos(i) = i) /\ (\A i \in k .. Len(L) - 1 : pos(i) = i + 1)
  BY <1>1
<1>. HIDE DEF pos
<1>6. DOMAIN K = 1 .. Len(L) - 1 /\ \A i \in 1 .. Len(L) - 1 : K[i] = L[pos(i)]
  BY <1>2
<1>7. K \in [1 .. Len(L) - 1 -> S] /\ Len(L) - 1 \in Nat
  BY <1>1, <1>2, <1>3
<1>8. K \in Seq(S)
  BY <1>7, SeqDef
<1>9. Len(K) = Len(L) - 1
  BY <1>6, <1>7, <1>8, LenProperties
<1>10. /\ \A i \in 1 .. k - 1 : i \in 1 .. Len(L) - 1
       /\ \A i \in k .. Len(L) - 1 : i \in 1 .. Len(L) - 1
  BY <1>1
<1>11. \A i \in 1 .. k - 1 : K[i] = L[i]
  BY <1>5, <1>6, <1>10
<1>12. \A i \in k .. Len(L) - 1 : K[i] = L[i + 1]
  BY <1>5, <1>6, <1>10
<1>13. \A i, j \in DOMAIN K : K[i] = K[j] => i = j
  BY <1>1, <1>3, <1>6
<1>14. {K[i] : i \in DOMAIN K} = {L[i] : i \in DOMAIN L} \ {L[k]}
  <2>1. ASSUME NEW n \in {K[i] : i \in DOMAIN K} PROVE n \in {L[i] : i \in DOMAIN L} /\ n # L[k]
    BY <1>1, <1>3, <1>6
  <2>2. ASSUME NEW n \in {L[i] : i \in DOMAIN L}, n # L[k] PROVE n \in {K[i] : i \in DOMAIN K}
    <3>1. PICK j \in 1 .. Len(L) : n = L[j] /\ j # k
      BY <1>1, <2>2
    <3>2. PICK i \in 1 .. Len(L) - 1 : pos(i) = j
      BY <1>4, <3>1
    <3>. QED BY <1>6, <3>1, <3>2
  <2>. QED BY <2>1, <2>2
<1>. QED BY <1>8, <1>9, <1>11, <1>12, <1>13, <1>14
===========================================================================
