--------------------------- MODULE VerstableProofs ---------------------------
(***************************************************************************)
(* Proofs about verstable.h: on a platform whose displacement limit is     *)
(* above the number of keys, the table is well formed after any calls and  *)
(* implements the map of KeyedMap.                                         *)
(*                                                                         *)
(* The argument, in order: the quadratic probe meets every bucket of a     *)
(* table whose size is a power of two; what a set of buckets on chains is, *)
(* and how inserting into a chain and removing from it keep it one; what   *)
(* each helper of the code returns on such a table; the entries as a map;  *)
(* one lemma for each call.                                                *)
(***************************************************************************)
EXTENDS Verstable, TLAPS, FiniteSetTheorems, FunctionTheorems, WellFoundedInduction

-----------------------------------------------------------------------------
(* Arithmetic of the probes.                                               *)

Divides(n, a) == \E q \in Nat : a = n * q

(* n has no odd factor: what is used of a power of two.                    *)
Dyadic(n) ==
  /\ n \in Nat \ {0}
  /\ \A a, b \in Nat : Divides(n, (2 * a + 1) * b) => Divides(n, b)

(* A number is even or odd.                                                *)
LEMMA Parity ==
  ASSUME NEW a \in Nat
  PROVE  \E h \in Nat : a = 2 * h \/ a = 2 * h + 1
<1>1. a \div 2 \in Nat /\ (a = 2 * (a \div 2) \/ a = 2 * (a \div 2) + 1)
  OBVIOUS
<1> QED
  BY <1>1

(* One is dyadic.                                                          *)
LEMMA DyadicOne == Dyadic(1)
<1>1. ASSUME NEW b \in Nat PROVE Divides(1, b)
  BY DEF Divides
<1> QED
  BY <1>1 DEF Dyadic

(* So is the double of a dyadic number.                                    *)
LEMMA DyadicDouble ==
  ASSUME NEW n, Dyadic(n)
  PROVE  Dyadic(2 * n)
<1>1. n \in Nat \ {0}
  BY DEF Dyadic
<1>2. ASSUME NEW a \in Nat, NEW b \in Nat, Divides(2 * n, (2 * a + 1) * b)
      PROVE  Divides(2 * n, b)
  <2>1. PICK q \in Nat : (2 * a + 1) * b = (2 * n) * q
    BY <1>2 DEF Divides
  <2>2. (2 * a + 1) * b = n * (2 * q) /\ 2 * q \in Nat
    BY <1>1, <2>1
  <2>3. Divides(n, (2 * a + 1) * b)
    BY <2>2 DEF Divides
  <2>4. PICK r \in Nat : b = n * r
    BY <2>3 DEF Dyadic, Divides
  <2>5. n * ((2 * a + 1) * r) = n * (2 * q)
    BY <1>1, <2>2, <2>4
  <2>6. (2 * a + 1) * r = 2 * q
    BY <1>1, <2>5
  <2>7. PICK s \in Nat : r = 2 * s \/ r = 2 * s + 1
    BY Parity
  <2>8. CASE r = 2 * s
    <3>1. b = (2 * n) * s
      BY <1>1, <2>4, <2>8
    <3> QED
      BY <3>1 DEF Divides
  <2>9. CASE r = 2 * s + 1
    <3>1. (2 * a + 1) * (2 * s + 1) = 2 * (2 * (a * s) + a + s) + 1
      OBVIOUS
    <3> DEFINE m == 2 * (a * s) + a + s
    <3>2. m \in Nat /\ 2 * m + 1 = 2 * q
      BY <2>6, <2>9, <3>1
    <3> HIDE DEF m
    <3> QED
      BY <3>2
  <2> QED
    BY <2>7, <2>8, <2>9
<1>3. 2 * n \in Nat \ {0}
  BY <1>1
<1> QED
  BY <1>2, <1>3 DEF Dyadic

(* The smallest bucket count is.                                           *)
LEMMA DyadicMin == Dyadic(MinBuckets) /\ MinBuckets >= 2
<1>1. ASSUME NEW n, Dyadic(n), NEW m, m = 2 * n PROVE Dyadic(m)
  BY <1>1, DyadicDouble
<1>2. Dyadic(2)
  BY <1>1, DyadicOne
<1>3. Dyadic(4)
  BY <1>1, <1>2
<1>4. Dyadic(8)
  BY <1>1, <1>3
<1>5. Dyadic(16)
  BY <1>1, <1>4
<1> QED
  BY <1>2, <1>3, <1>4, <1>5, BucketsAssumption

(* Slot d of the probes from home bucket h among n buckets.                *)
Slot(n, h, d) == (h + Quadratic(d)) % n

(* Twice a quadratic displacement.                                         *)
LEMMA QuadraticTwice ==
  ASSUME NEW d \in Nat
  PROVE  Quadratic(d) \in Nat /\ 2 * Quadratic(d) = d * (d + 1)
<1>1. PICK e \in Nat : d = 2 * e \/ d = 2 * e + 1
  BY Parity
<1>2. CASE d = 2 * e
  <2>1. d * d + d = 2 * (e * (2 * e + 1)) /\ e * (2 * e + 1) \in Nat
    BY <1>2
  <2>2. Quadratic(d) = e * (2 * e + 1)
    BY <2>1 DEF Quadratic
  <2> QED
    BY <2>1, <2>2
<1>3. CASE d = 2 * e + 1
  <2>1. d * d + d = 2 * ((2 * e + 1) * (e + 1)) /\ (2 * e + 1) * (e + 1) \in Nat
    BY <1>3
  <2>2. Quadratic(d) = (2 * e + 1) * (e + 1)
    BY <2>1 DEF Quadratic
  <2> QED
    BY <2>1, <2>2
<1> QED
  BY <1>1, <1>2, <1>3

(* Two numbers with the same remainder.                                    *)
LEMMA SameRemainder ==
  ASSUME NEW n \in Nat \ {0}, NEW x \in Nat, NEW y \in Nat, x <= y, x % n = y % n
  PROVE  Divides(n, y - x)
<1> DEFINE p == x \div n
           q == y \div n
<1>1. p \in Nat /\ q \in Nat /\ x = n * p + (x % n) /\ y = n * q + (y % n)
      /\ x % n \in Nat /\ y % n \in Nat
  OBVIOUS
<1> HIDE DEF p, q
<1>2. y - x = n * (q - p)
  BY <1>1
<1>3. q - p >= 0
  BY <1>1, <1>2
<1>4. q - p \in Nat
  BY <1>1, <1>3
<1> QED
  BY <1>2, <1>4 DEF Divides

(* A divisor of a positive number is not greater.                          *)
LEMMA DivisorSmall ==
  ASSUME NEW n \in Nat, NEW a \in Nat \ {0}, Divides(n, a)
  PROVE  n <= a
<1>1. PICK q \in Nat : a = n * q
  BY DEF Divides
<1>2. q >= 1
  BY <1>1
<1>3. n * q >= n * 1
  BY <1>2
<1> QED
  BY <1>1, <1>3

(* The first n probes reach n different buckets.                           *)
LEMMA SlotsDiffer ==
  ASSUME NEW n, Dyadic(n), NEW h \in Nat, NEW i \in 0 .. n - 1, NEW j \in 0 .. n - 1,
         Slot(n, h, i) = Slot(n, h, j)
  PROVE  i = j
<1>0. n \in Nat \ {0}
  BY DEF Dyadic
<1>1. ASSUME NEW k \in 0 .. n - 1, NEW l \in 0 .. n - 1, k < l,
             Slot(n, h, k) = Slot(n, h, l)
      PROVE  FALSE
  <2> DEFINE p == Quadratic(k)
             q == Quadratic(l)
             a == l - k
             b == l + k + 1
  <2>1. /\ p \in Nat /\ q \in Nat /\ 2 * p = k * (k + 1) /\ 2 * q = l * (l + 1)
        /\ (h + p) % n = (h + q) % n
    BY <1>0, <1>1, QuadraticTwice DEF Slot
  <2>2. a \in Nat \ {0} /\ b \in Nat \ {0} /\ a < n /\ b < 2 * n
    BY <1>0, <1>1
  <2>3. 2 * (q - p) = a * b
    BY <1>0, <1>1, <2>1
  <2>4. a + b = 2 * l + 1
    BY <1>0, <1>1
  <2> HIDE DEF p, q, a, b
  <2>5. p <= q
    <3>1. a * b \in Nat
      BY <2>2
    <3> QED
      BY <2>1, <2>3, <3>1
  <2>6. PICK r \in Nat : (h + q) - (h + p) = n * r
    <3>1. h + p \in Nat /\ h + q \in Nat /\ h + p <= h + q
      BY <2>1, <2>5
    <3>2. Divides(n, (h + q) - (h + p))
      BY <1>0, <2>1, <3>1, SameRemainder
    <3> QED
      BY <3>2 DEF Divides
  <2>7. a * b = (2 * n) * r
    <3>1. q - p = n * r
      BY <2>1, <2>6
    <3>2. a * b = 2 * (n * r)
      BY <2>3, <3>1
    <3> QED
      BY <1>0, <3>2
  <2>8. Divides(2 * n, a * b) /\ Divides(2 * n, b * a)
    BY <2>2, <2>7 DEF Divides
  <2>9. Dyadic(2 * n)
    BY DyadicDouble
  <2>10. PICK e \in Nat : a = 2 * e \/ a = 2 * e + 1
    BY <2>2, Parity
  <2>11. CASE a = 2 * e + 1
    <3>1. Divides(2 * n, b)
      BY <2>2, <2>8, <2>9, <2>11 DEF Dyadic
    <3> QED
      BY <1>0, <2>2, <3>1, DivisorSmall
  <2>12. CASE a = 2 * e
    <3>1. PICK g \in Nat : b = 2 * g \/ b = 2 * g + 1
      BY <2>2, Parity
    <3>2. b = 2 * g + 1
      BY <1>1, <2>4, <2>12, <3>1
    <3>3. Divides(2 * n, a)
      BY <2>2, <2>8, <2>9, <3>2 DEF Dyadic
    <3> QED
      BY <1>0, <2>2, <3>3, DivisorSmall
  <2> QED
    BY <2>10, <2>11, <2>12
<1> QED
  BY <1>0, <1>1

-----------------------------------------------------------------------------
(* Least elements, induction and recursive functions.                      *)

(* A non-empty set of natural numbers has a least one.                     *)
LEMMA LeastOf ==
  ASSUME NEW S \in SUBSET Nat, S # {}
  PROVE  Min(S) \in S /\ \A y \in S : Min(S) <= y
<1>1. PICK x \in S : \A y \in S : <<y, x>> \notin OpToRel(<, Nat)
  BY NatLessThanWellFounded, WFMin, Zenon
<1>2. ASSUME NEW y \in S PROVE x <= y
  <2>1. <<y, x>> \in Nat \X Nat /\ <<y, x>>[1] = y /\ <<y, x>>[2] = x
    OBVIOUS
  <2>2. ~(y < x)
    BY <1>1, <2>1, Zenon DEF OpToRel
  <2> QED
    BY <2>2
<1>3. \E z \in S : \A y \in S : z <= y
  BY <1>2
<1> QED
  BY <1>3 DEF Min

(* Induction over an initial part of the natural numbers.                  *)
LEMMA UpTo ==
  ASSUME NEW N \in Nat, NEW S, 0 \in S, \A n \in 0 .. N - 1 : n \in S => n + 1 \in S
  PROVE  \A n \in 0 .. N : n \in S
<1> DEFINE B == {n \in 0 .. N : n \notin S}
<1> SUFFICES B = {}
  OBVIOUS
<1> SUFFICES ASSUME B # {} PROVE FALSE
  OBVIOUS
<1>1. B \in SUBSET Nat
  OBVIOUS
<1>2. Min(B) \in B /\ \A y \in B : Min(B) <= y
  BY <1>1, LeastOf
<1> DEFINE m == Min(B)
<1>3. m \in 0 .. N /\ m \notin S /\ m # 0
  BY <1>2
<1>4. m - 1 \in 0 .. N - 1 /\ m - 1 \in 0 .. N /\ (m - 1) + 1 = m
  BY <1>3
<1>5. m - 1 \in S
  BY <1>2, <1>4
<1> QED
  BY <1>3, <1>4, <1>5

(* f follows next from h.                                                  *)
Follows(f, N, h, next) == f = [i \in 0 .. N |-> IF i = 0 THEN h ELSE next[f[i - 1]]]

(* A chain of any length can be followed.                                  *)
LEMMA FollowExists ==
  ASSUME NEW N \in Nat, NEW h, NEW next
  PROVE  \E f : Follows(f, N, h, next)
<1> DEFINE S == {n \in Nat : \E f : f = [i \in 0 .. n |-> IF i = 0 THEN h ELSE next[f[i - 1]]]}
<1>1. 0 \in S
  <2> DEFINE f == [i \in 0 .. 0 |-> h]
  <2>1. f = [i \in 0 .. 0 |-> IF i = 0 THEN h ELSE next[f[i - 1]]]
    OBVIOUS
  <2> QED
    BY <2>1
<1>2. ASSUME NEW n \in 0 .. N - 1, n \in S PROVE n + 1 \in S
  <2>1. PICK f : f = [i \in 0 .. n |-> IF i = 0 THEN h ELSE next[f[i - 1]]]
    BY <1>2
  <2> DEFINE g == [i \in 0 .. n + 1 |-> IF i = n + 1 THEN next[f[n]] ELSE f[i]]
  <2>2. \A i \in 0 .. n : f[i] = IF i = 0 THEN h ELSE next[f[i - 1]]
    BY <2>1, Zenon
  <2>3. ASSUME NEW i \in 0 .. n + 1 PROVE g[i] = IF i = 0 THEN h ELSE next[g[i - 1]]
    <3>1. CASE i = n + 1
      BY <3>1
    <3>2. CASE i \in 0 .. n
      <4>1. g[i] = f[i] /\ (i # 0 => i - 1 \in 0 .. n /\ g[i - 1] = f[i - 1])
        BY <3>2
      <4> QED
        BY <2>2, <3>2, <4>1
    <3> QED
      BY <3>1, <3>2
  <2>4. g = [i \in 0 .. n + 1 |-> g[i]]
    OBVIOUS
  <2> HIDE DEF g
  <2>5. g = [i \in 0 .. n + 1 |-> IF i = 0 THEN h ELSE next[g[i - 1]]]
    BY <2>3, <2>4, Zenon
  <2> QED
    BY <2>5
<1> HIDE DEF S
<1>3. N \in S
  BY <1>1, <1>2, UpTo
<1> QED
  BY <1>3 DEF S, Follows

(* The bucket after b in the chain of h.                                   *)
After(t, h, b) == IF t.metadata[b].disp = Limit THEN b
                  ELSE Probe(t, h, t.metadata[b].disp)

(* So Chain() is what its definition says.                                 *)
LEMMA ChainIs ==
  ASSUME NEW t, t.mask \in Nat, NEW h \in Indices(t),
         \A b \in Indices(t) : After(t, h, b) \in Indices(t)
  PROVE  /\ Chain(t, h)[0] = h
         /\ DOMAIN Chain(t, h) = Indices(t)
         /\ \A i \in Indices(t) : Chain(t, h)[i] \in Indices(t)
         /\ \A i \in Indices(t) :
              i # 0 => Chain(t, h)[i] = After(t, h, Chain(t, h)[i - 1])
<1> DEFINE next == [b \in Indices(t) |-> IF t.metadata[b].disp = Limit THEN b
                                         ELSE Probe(t, h, t.metadata[b].disp)]
           c == CHOOSE f : f = [i \in Indices(t) |-> IF i = 0 THEN h ELSE next[f[i - 1]]]
<1>0. Indices(t) = 0 .. t.mask
  BY DEF Indices
<1>1. Chain(t, h) = c
  BY DEF Chain
<1>2. \A b \in Indices(t) : next[b] = After(t, h, b)
  BY DEF After
<1> HIDE DEF next
<1>3. \E f : Follows(f, t.mask, h, next)
  BY FollowExists
<1>4. c = [i \in 0 .. t.mask |-> IF i = 0 THEN h ELSE next[c[i - 1]]]
  BY <1>0, <1>3 DEF Follows
<1> HIDE DEF c
<1>5. DOMAIN c = 0 .. t.mask /\ c[0] = h
      /\ \A i \in 0 .. t.mask : i # 0 => c[i] = next[c[i - 1]]
  <2>1. \A i \in 0 .. t.mask : c[i] = IF i = 0 THEN h ELSE next[c[i - 1]]
    BY <1>4, Zenon
  <2>2. DOMAIN c = 0 .. t.mask
    BY <1>4, Zenon
  <2> QED
    BY <2>1, <2>2
<1> DEFINE S == {i \in 0 .. t.mask : c[i] \in Indices(t)}
<1>6. \A i \in 0 .. t.mask : i \in S
  <2>1. 0 \in S
    BY <1>5
  <2>2. ASSUME NEW n \in 0 .. t.mask - 1, n \in S PROVE n + 1 \in S
    <3>1. n + 1 \in 0 .. t.mask /\ n + 1 # 0 /\ (n + 1) - 1 = n
      OBVIOUS
    <3>2. c[n + 1] = next[c[n]]
      BY <1>5, <3>1
    <3> QED
      BY <1>2, <2>2, <3>1, <3>2
  <2> HIDE DEF S
  <2> QED
    BY <2>1, <2>2, UpTo
<1>7. \A i \in 0 .. t.mask : i # 0 => c[i] = After(t, h, c[i - 1])
  <2> SUFFICES ASSUME NEW i \in 0 .. t.mask, i # 0 PROVE c[i] = After(t, h, c[i - 1])
    OBVIOUS
  <2>1. i - 1 \in 0 .. t.mask
    OBVIOUS
  <2> QED
    BY <1>2, <1>5, <1>6, <2>1
<1> QED
  BY <1>0, <1>1, <1>5, <1>6, <1>7

-----------------------------------------------------------------------------
(* Chains in the abstract.  M is a set of buckets among n; hm[b] is the    *)
(* home bucket of the key in b, ps[b] its displacement from there and      *)
(* dp[b] that of the next key of the chain, or L at the end of it.         *)

Chained(n, L, M, hm, ps, dp) ==
  /\ \A b \in M :
       /\ b \in 0 .. n - 1 /\ hm[b] \in M /\ hm[hm[b]] = hm[b] /\ ps[hm[b]] = 0
       /\ ps[b] \in 0 .. n - 1 /\ ps[b] < L /\ Slot(n, hm[b], ps[b]) = b
       /\ dp[b] \in Nat /\ ps[b] < dp[b]
       /\ dp[b] = L \/ \E c \in M : hm[c] = hm[b] /\ ps[c] = dp[b]
  /\ \A b, c \in M : hm[b] = hm[c] => ps[c] <= ps[b] \/ dp[b] <= ps[c]

(* Two keys of a chain have different displacements.                       *)
LEMMA ChainDistinct ==
  ASSUME NEW n, NEW L, NEW M, NEW hm, NEW ps, NEW dp,
         Chained(n, L, M, hm, ps, dp),
         NEW b \in M, NEW c \in M, hm[b] = hm[c], ps[b] = ps[c]
  PROVE  b = c
<1>1. Slot(n, hm[b], ps[b]) = b /\ Slot(n, hm[c], ps[c]) = c
  BY DEF Chained
<1> QED
  BY <1>1

(* A set of keys of a chain has a last one.                                *)
LEMMA ChainGreatest ==
  ASSUME NEW n \in Nat, NEW L, NEW M, NEW hm, NEW ps, NEW dp,
         Chained(n, L, M, hm, ps, dp), NEW S \in SUBSET M, S # {}
  PROVE  \E b \in S : \A c \in S : ps[c] <= ps[b]
<1>1. \A b \in S : ps[b] \in 0 .. n - 1
  BY DEF Chained
<1> DEFINE D == {n - ps[b] : b \in S}
<1>2. D \in SUBSET Nat /\ D # {}
  BY <1>1
<1>3. Min(D) \in D /\ \A y \in D : Min(D) <= y
  BY <1>2, LeastOf
<1>4. PICK b \in S : Min(D) = n - ps[b]
  BY <1>3
<1>5. ASSUME NEW c \in S PROVE ps[c] <= ps[b]
  <2>1. n - ps[c] \in D
    OBVIOUS
  <2>2. n - ps[b] <= n - ps[c]
    BY <1>3, <1>4, <2>1
  <2> QED
    BY <1>1, <2>2
<1> QED
  BY <1>5

(* A key that is not in its home bucket has a predecessor, and one only.   *)
LEMMA ChainPrevious ==
  ASSUME NEW n \in Nat, NEW L \in Nat, NEW M, NEW hm, NEW ps, NEW dp,
         Chained(n, L, M, hm, ps, dp), NEW b \in M, b # hm[b]
  PROVE  /\ \E p \in M : hm[p] = hm[b] /\ dp[p] = ps[b]
         /\ \A p, q \in M : hm[p] = hm[b] /\ dp[p] = ps[b] /\ hm[q] = hm[b]
                            /\ dp[q] = ps[b] => p = q
<1>0. \A c \in M : ps[c] \in 0 .. n - 1 /\ dp[c] \in Nat /\ ps[c] < dp[c] /\ ps[c] < L
  BY DEF Chained
<1>1. ps[b] # 0
  <2>1. hm[b] \in M /\ ps[hm[b]] = 0 /\ hm[hm[b]] = hm[b]
    BY DEF Chained
  <2> QED
    BY <2>1, ChainDistinct
<1> DEFINE S == {c \in M : hm[c] = hm[b] /\ ps[c] < ps[b]}
<1>2. S \in SUBSET M /\ hm[b] \in S
  <2>1. hm[b] \in M /\ ps[hm[b]] = 0 /\ hm[hm[b]] = hm[b]
    BY DEF Chained
  <2> QED
    BY <1>0, <1>1, <2>1
<1>3. PICK p \in S : \A c \in S : ps[c] <= ps[p]
  <2>1. S # {}
    BY <1>2
  <2> HIDE DEF S
  <2> QED
    BY <1>2, <2>1, ChainGreatest
<1>4. dp[p] <= ps[b]
  <2>1. ps[b] <= ps[p] \/ dp[p] <= ps[b]
    BY DEF Chained
  <2> QED
    BY <1>0, <2>1
<1>5. dp[p] = ps[b]
  <2>1. dp[p] # L
    BY <1>0, <1>4
  <2>2. PICK c \in M : hm[c] = hm[p] /\ ps[c] = dp[p]
    BY <2>1 DEF Chained
  <2>3. c \notin S
    BY <1>0, <1>3, <2>2
  <2> QED
    BY <1>0, <1>4, <2>2, <2>3
<1>6. ASSUME NEW q \in M, NEW r \in M, hm[q] = hm[b], dp[q] = ps[b], hm[r] = hm[b],
             dp[r] = ps[b]
      PROVE  q = r
  <2>1. (ps[r] <= ps[q] \/ dp[q] <= ps[r]) /\ (ps[q] <= ps[r] \/ dp[r] <= ps[q])
    BY <1>6 DEF Chained
  <2>2. ps[q] = ps[r]
    BY <1>0, <1>6, <2>1
  <2> QED
    BY <1>6, <2>2, ChainDistinct
<1> QED
  BY <1>5, <1>6

(* Every chain ends.                                                       *)
LEMMA ChainLast ==
  ASSUME NEW n \in Nat, NEW L \in Nat, NEW M, NEW hm, NEW ps, NEW dp,
         Chained(n, L, M, hm, ps, dp), NEW h \in M, hm[h] = h
  PROVE  /\ \E b \in M : hm[b] = h /\ dp[b] = L
         /\ \A b, c \in M : hm[b] = h /\ dp[b] = L /\ hm[c] = h => ps[c] <= ps[b]
<1>0. \A c \in M : ps[c] \in 0 .. n - 1 /\ dp[c] \in Nat /\ ps[c] < dp[c] /\ ps[c] < L
  BY DEF Chained
<1> DEFINE S == {c \in M : hm[c] = h}
<1>1. S \in SUBSET M /\ h \in S
  OBVIOUS
<1>2. PICK b \in S : \A c \in S : ps[c] <= ps[b]
  BY <1>1, ChainGreatest
<1>3. dp[b] = L
  <2> SUFFICES ASSUME dp[b] # L PROVE FALSE
    OBVIOUS
  <2>1. PICK c \in M : hm[c] = hm[b] /\ ps[c] = dp[b]
    BY DEF Chained
  <2> QED
    BY <1>0, <1>2, <2>1
<1>4. ASSUME NEW c \in M, NEW e \in M, hm[c] = h, dp[c] = L, hm[e] = h
      PROVE  ps[e] <= ps[c]
  <2>1. ps[e] <= ps[c] \/ dp[c] <= ps[e]
    BY <1>4 DEF Chained
  <2> QED
    BY <1>0, <1>4, <2>1
<1> QED
  BY <1>3, <1>4

(* Two functions agree on the set S.                                       *)
Agree(S, f, g) == \A x \in S : g[x] = f[x]

(* A key joins a chain after p, in an empty bucket between p and the next. *)
LEMMA ChainInsert ==
  ASSUME NEW n \in Nat, NEW L \in Nat, NEW M, NEW hm, NEW ps, NEW dp,
         Chained(n, L, M, hm, ps, dp),
         NEW p \in M, NEW b \in 0 .. n - 1, b \notin M,
         NEW d \in 0 .. n - 1, d < L, Slot(n, hm[p], d) = b, ps[p] < d, d < dp[p],
         NEW hm2, NEW ps2, NEW dp2,
         Agree(M, hm, hm2), Agree(M, ps, ps2), Agree(M \ {p}, dp, dp2),
         hm2[b] = hm[p], ps2[b] = d, dp2[b] = dp[p], dp2[p] = d
  PROVE  Chained(n, L, M \cup {b}, hm2, ps2, dp2)
<1> USE DEF Agree
<1>0. \A c \in M : ps[c] \in 0 .. n - 1 /\ dp[c] \in Nat /\ ps[c] < dp[c] /\ ps[c] < L
  BY DEF Chained
<1>1. ASSUME NEW x \in M \cup {b}
      PROVE  /\ x \in 0 .. n - 1 /\ hm2[x] \in M \cup {b} /\ hm2[hm2[x]] = hm2[x]
             /\ ps2[hm2[x]] = 0 /\ ps2[x] \in 0 .. n - 1 /\ ps2[x] < L
             /\ Slot(n, hm2[x], ps2[x]) = x /\ dp2[x] \in Nat /\ ps2[x] < dp2[x]
  <2>1. CASE x \in M
    BY <2>1 DEF Chained
  <2>2. CASE x = b
    <3>1. hm[p] \in M /\ hm[hm[p]] = hm[p] /\ ps[hm[p]] = 0
      BY DEF Chained
    <3>2. hm2[hm[p]] = hm[p] /\ ps2[hm[p]] = 0
      BY <3>1
    <3>3. dp[p] \in Nat
      BY <1>0
    <3> QED
      BY <2>2, <3>1, <3>2, <3>3
  <2> QED
    BY <2>1, <2>2
<1>2. ASSUME NEW x \in M \cup {b}
      PROVE  dp2[x] = L \/ \E c \in M \cup {b} : hm2[c] = hm2[x] /\ ps2[c] = dp2[x]
  <2>1. ASSUME NEW y \in M, dp[y] # L PROVE \E c \in M : hm2[c] = hm[y] /\ ps2[c] = dp[y]
    BY <2>1 DEF Chained
  <2>2. CASE x = p
    BY <2>2
  <2>3. CASE x = b
    BY <2>1, <2>3
  <2>4. CASE x \in M /\ x # p
    BY <2>1, <2>4
  <2> QED
    BY <2>2, <2>3, <2>4
<1>3. ASSUME NEW x \in M \cup {b}, NEW y \in M \cup {b}, hm2[x] = hm2[y]
      PROVE  ps2[y] <= ps2[x] \/ dp2[x] <= ps2[y]
  <2>1. ASSUME NEW u \in M, NEW w \in M, hm[u] = hm[w]
        PROVE  ps[w] <= ps[u] \/ dp[u] <= ps[w]
    BY <2>1 DEF Chained
  <2>2. CASE x \in M /\ y \in M
    <3>1. ps[y] <= ps[x] \/ dp[x] <= ps[y]
      BY <1>3, <2>1, <2>2
    <3>2. CASE x # p
      BY <2>2, <3>1, <3>2
    <3>3. CASE x = p
      <4>1. d <= dp[p] /\ ps[y] \in Nat /\ dp[p] \in Nat
        BY <1>0, <2>2
      <4> QED
        BY <2>2, <3>1, <3>3, <4>1
    <3> QED
      BY <3>2, <3>3
  <2>3. CASE x = b /\ y \in M
    <3>1. ps[y] <= ps[p] \/ dp[p] <= ps[y]
      BY <1>3, <2>1, <2>3
    <3> QED
      BY <1>0, <2>3, <3>1
  <2>4. CASE x \in M /\ y = b
    <3>1. ps[p] <= ps[x] \/ dp[x] <= ps[p]
      BY <1>3, <2>1, <2>4
    <3>2. CASE x = p
      BY <2>4, <3>2
    <3>3. CASE x # p
      <4>1. dp2[x] = dp[x] /\ ps2[x] = ps[x] /\ ps2[y] = d
        BY <2>4, <3>3
      <4>2. CASE dp[x] <= ps[p]
        BY <1>0, <2>4, <4>1, <4>2
      <4>3. CASE ps[p] <= ps[x]
        <5>1. ps[p] # ps[x]
          BY <1>3, <2>4, <3>3, ChainDistinct
        <5>2. ps[x] <= ps[p] \/ dp[p] <= ps[x]
          BY <1>3, <2>1, <2>4
        <5> QED
          BY <1>0, <2>4, <4>1, <4>3, <5>1, <5>2
      <4> QED
        BY <3>1, <4>2, <4>3
    <3> QED
      BY <3>2, <3>3
  <2>5. CASE x = b /\ y = b
    BY <2>5
  <2> QED
    BY <2>2, <2>3, <2>4, <2>5
<1> QED
  BY <1>1, <1>2, <1>3 DEF Chained

(* A key that is not in its home bucket leaves its chain.                  *)
LEMMA ChainRemove ==
  ASSUME NEW n \in Nat, NEW L \in Nat, NEW M, NEW hm, NEW ps, NEW dp,
         Chained(n, L, M, hm, ps, dp),
         NEW b \in M, b # hm[b], NEW p \in M, hm[p] = hm[b], dp[p] = ps[b],
         NEW hm2, NEW dp2,
         Agree(M \ {b}, hm, hm2), Agree(M \ {b, p}, dp, dp2),
         dp2[p] = dp[b]
  PROVE  p # b /\ Chained(n, L, M \ {b}, hm2, ps, dp2)
<1> USE DEF Agree
<1>0. \A c \in M : ps[c] \in 0 .. n - 1 /\ dp[c] \in Nat /\ ps[c] < dp[c] /\ ps[c] < L
  BY DEF Chained
<1>1. p # b
  BY <1>0
<1>2. ASSUME NEW x \in M \ {b}
      PROVE  /\ x \in 0 .. n - 1 /\ hm2[x] \in M \ {b} /\ hm2[hm2[x]] = hm2[x]
             /\ ps[hm2[x]] = 0 /\ ps[x] \in 0 .. n - 1 /\ ps[x] < L
             /\ Slot(n, hm2[x], ps[x]) = x
  <2>1. hm[x] \in M /\ hm[hm[x]] = hm[x] /\ hm[x] # b /\ hm2[x] = hm[x]
    BY DEF Chained
  <2>2. hm2[hm[x]] = hm[x]
    BY <2>1
  <2> QED
    BY <2>1, <2>2 DEF Chained
<1>3. ASSUME NEW x \in M \ {b} PROVE dp2[x] \in Nat /\ ps[x] < dp2[x]
  <2>1. CASE x = p
    BY <1>0, <2>1
  <2>2. CASE x # p
    BY <1>0, <2>2
  <2> QED
    BY <2>1, <2>2
<1>4. ASSUME NEW x \in M \ {b}
      PROVE  dp2[x] = L \/ \E c \in M \ {b} : hm2[c] = hm2[x] /\ ps[c] = dp2[x]
  <2>1. ASSUME NEW y \in M, dp[y] # L PROVE \E c \in M : hm[c] = hm[y] /\ ps[c] = dp[y]
    BY <2>1 DEF Chained
  <2>2. CASE x = p
    <3>1. CASE dp[b] # L
      <4>1. PICK c \in M : hm[c] = hm[b] /\ ps[c] = dp[b]
        BY <2>1, <3>1
      <4>2. c # b
        BY <1>0, <4>1
      <4> QED
        BY <2>2, <4>1, <4>2
    <3> QED
      BY <2>2, <3>1
  <2>3. CASE x # p
    <3>1. CASE dp[x] # L
      <4>1. PICK c \in M : hm[c] = hm[x] /\ ps[c] = dp[x]
        BY <2>1, <3>1
      <4>2. c # b
        <5> SUFFICES ASSUME c = b PROVE FALSE
          OBVIOUS
        <5>1. hm[x] = hm[b] /\ dp[x] = ps[b]
          BY <4>1
        <5> QED
          BY <2>3, <5>1, ChainPrevious
      <4> QED
        BY <2>3, <4>1, <4>2
    <3> QED
      BY <2>3, <3>1
  <2> QED
    BY <2>2, <2>3
<1>5. ASSUME NEW x \in M \ {b}, NEW y \in M \ {b}, hm2[x] = hm2[y]
      PROVE  ps[y] <= ps[x] \/ dp2[x] <= ps[y]
  <2>1. ASSUME NEW u \in M, NEW w \in M, hm[u] = hm[w]
        PROVE  ps[w] <= ps[u] \/ dp[u] <= ps[w]
    BY <2>1 DEF Chained
  <2>2. hm[x] = hm[y] /\ x \in M /\ y \in M
    BY <1>5
  <2>3. ps[y] <= ps[x] \/ dp[x] <= ps[y]
    BY <2>1, <2>2
  <2>4. CASE x # p
    BY <2>3, <2>4
  <2>5. CASE x = p
    <3>1. ps[y] <= ps[b] \/ dp[b] <= ps[y]
      BY <2>1, <2>2, <2>5
    <3>2. ps[y] # ps[b]
      BY <2>2, <2>5, ChainDistinct
    <3> QED
      BY <1>0, <2>2, <2>3, <2>5, <3>1, <3>2
  <2> QED
    BY <2>4, <2>5
<1> QED
  BY <1>1, <1>2, <1>3, <1>4, <1>5 DEF Chained

(* A chain begins in an empty bucket.                                      *)
LEMMA ChainBegin ==
  ASSUME NEW n \in Nat, NEW L \in Nat \ {0}, NEW M, NEW hm, NEW ps, NEW dp,
         Chained(n, L, M, hm, ps, dp), NEW b \in 0 .. n - 1, b \notin M,
         NEW hm2, NEW ps2, NEW dp2,
         Agree(M, hm, hm2), Agree(M, ps, ps2), Agree(M, dp, dp2),
         hm2[b] = b, ps2[b] = 0, dp2[b] = L
  PROVE  Chained(n, L, M \cup {b}, hm2, ps2, dp2)
<1> USE DEF Agree
<1>0. Slot(n, b, 0) = b
  BY DEF Slot, Quadratic
<1>1. ASSUME NEW x \in M \cup {b}
      PROVE  /\ x \in 0 .. n - 1 /\ hm2[x] \in M \cup {b} /\ hm2[hm2[x]] = hm2[x]
             /\ ps2[hm2[x]] = 0 /\ ps2[x] \in 0 .. n - 1 /\ ps2[x] < L
             /\ Slot(n, hm2[x], ps2[x]) = x /\ dp2[x] \in Nat /\ ps2[x] < dp2[x]
             /\ dp2[x] = L \/ \E c \in M \cup {b} : hm2[c] = hm2[x] /\ ps2[c] = dp2[x]
  <2>1. CASE x \in M
    BY <2>1 DEF Chained
  <2>2. CASE x = b
    BY <1>0, <2>2 DEF Chained
  <2> QED
    BY <2>1, <2>2
<1>2. ASSUME NEW x \in M \cup {b}, NEW y \in M \cup {b}, hm2[x] = hm2[y]
      PROVE  ps2[y] <= ps2[x] \/ dp2[x] <= ps2[y]
  <2>1. \A u \in M : hm2[u] \in M
    BY DEF Chained
  <2>2. CASE x \in M
    <3>1. y \in M
      BY <1>2, <2>1, <2>2
    <3> QED
      BY <1>2, <2>2, <3>1 DEF Chained
  <2>3. CASE x = b
    <3>1. y = b
      BY <1>2, <2>1, <2>3
    <3> QED
      BY <2>3, <3>1
  <2> QED
    BY <2>2, <2>3
<1> QED
  BY <1>1, <1>2 DEF Chained

(* The only key of a chain leaves it.                                      *)
LEMMA ChainEmpty ==
  ASSUME NEW n \in Nat, NEW L \in Nat, NEW M, NEW hm, NEW ps, NEW dp,
         Chained(n, L, M, hm, ps, dp), NEW b \in M, hm[b] = b, dp[b] = L,
         NEW hm2, NEW dp2,
         Agree(M \ {b}, hm, hm2), Agree(M \ {b}, dp, dp2)
  PROVE  Chained(n, L, M \ {b}, hm2, ps, dp2)
<1> USE DEF Agree
<1>0. \A c \in M : ps[c] \in 0 .. n - 1
  BY DEF Chained
<1>1. ASSUME NEW x \in M \ {b} PROVE hm[x] # b
  <2> SUFFICES ASSUME hm[x] = b PROVE FALSE
    OBVIOUS
  <2>0. ps[b] = 0
    BY DEF Chained
  <2>1. ps[x] <= ps[b]
    BY ChainLast
  <2>2. ps[x] = ps[b]
    BY <1>0, <2>0, <2>1
  <2> QED
    BY <2>2, ChainDistinct
<1>2. ASSUME NEW x \in M \ {b}
      PROVE  /\ x \in 0 .. n - 1 /\ hm2[x] \in M \ {b} /\ hm2[hm2[x]] = hm2[x]
             /\ ps[hm2[x]] = 0 /\ ps[x] \in 0 .. n - 1 /\ ps[x] < L
             /\ Slot(n, hm2[x], ps[x]) = x /\ dp2[x] \in Nat /\ ps[x] < dp2[x]
  <2>1. hm[x] \in M /\ hm[hm[x]] = hm[x] /\ hm[x] # b /\ hm2[x] = hm[x]
    BY <1>1 DEF Chained
  <2>2. hm2[hm[x]] = hm[x]
    BY <2>1
  <2> QED
    BY <2>1, <2>2 DEF Chained
<1>3. ASSUME NEW x \in M \ {b}
      PROVE  dp2[x] = L \/ \E c \in M \ {b} : hm2[c] = hm2[x] /\ ps[c] = dp2[x]
  <2>1. dp[x] = L \/ \E c \in M : hm[c] = hm[x] /\ ps[c] = dp[x]
    BY DEF Chained
  <2> QED
    BY <1>1, <2>1
<1>4. ASSUME NEW x \in M \ {b}, NEW y \in M \ {b}, hm2[x] = hm2[y]
      PROVE  ps[y] <= ps[x] \/ dp2[x] <= ps[y]
  BY <1>4 DEF Chained
<1> QED
  BY <1>2, <1>3, <1>4 DEF Chained

(* c goes from h along dp.                                                 *)
Walks(c, n, L, h, dp) ==
  /\ c[0] = h
  /\ \A i \in 1 .. n - 1 : c[i] = IF dp[c[i - 1]] = L THEN c[i - 1]
                                   ELSE Slot(n, h, dp[c[i - 1]])

(* A walk along a chain meets its keys, all of them and in their order.    *)
LEMMA ChainWalk ==
  ASSUME NEW n \in Nat \ {0}, NEW L \in Nat, NEW M, NEW hm, NEW ps, NEW dp,
         Chained(n, L, M, hm, ps, dp), NEW h \in M, hm[h] = h, NEW c,
         Walks(c, n, L, h, dp)
  PROVE  /\ \A i \in 0 .. n - 1 : c[i] \in M /\ hm[c[i]] = h
         /\ \A x \in M : hm[x] = h => \E j \in 0 .. n - 1 : c[j] = x
         /\ \A i, j \in 0 .. n - 1 : i <= j => ps[c[i]] <= ps[c[j]]
<1>0. \A x \in M : /\ ps[x] \in 0 .. n - 1 /\ dp[x] \in Nat /\ ps[x] < dp[x] /\ ps[x] < L
                   /\ Slot(n, hm[x], ps[x]) = x
  BY DEF Chained
<1>1. ps[h] = 0 /\ c[0] = h
  BY DEF Chained, Walks
<1>2. ASSUME NEW i \in 0 .. (n - 1) - 1, c[i] \in M, hm[c[i]] = h
      PROVE  /\ i + 1 \in 0 .. n - 1 /\ c[i + 1] \in M /\ hm[c[i + 1]] = h
             /\ (dp[c[i]] = L /\ c[i + 1] = c[i]) \/ ps[c[i + 1]] = dp[c[i]]
  <2>1. i + 1 \in 1 .. n - 1 /\ (i + 1) - 1 = i
    OBVIOUS
  <2>2. c[i + 1] = IF dp[c[i]] = L THEN c[i] ELSE Slot(n, h, dp[c[i]])
    BY <2>1 DEF Walks
  <2>3. CASE dp[c[i]] = L
    BY <1>2, <2>1, <2>2, <2>3
  <2>4. CASE dp[c[i]] # L
    <3>1. PICK x \in M : hm[x] = h /\ ps[x] = dp[c[i]]
      BY <1>2, <2>4 DEF Chained
    <3>2. Slot(n, h, dp[c[i]]) = x
      BY <1>0, <3>1
    <3> QED
      BY <2>1, <2>2, <2>4, <3>1, <3>2
  <2> QED
    BY <2>3, <2>4
<1> DEFINE A == {i \in 0 .. n - 1 : /\ c[i] \in M /\ hm[c[i]] = h
                                    /\ dp[c[i]] = L \/ i <= ps[c[i]]}
<1>3. \A i \in 0 .. n - 1 : i \in A
  <2>1. 0 \in A
    BY <1>1
  <2>2. ASSUME NEW i \in 0 .. (n - 1) - 1, i \in A PROVE i + 1 \in A
    <3>1. c[i] \in M /\ hm[c[i]] = h /\ (dp[c[i]] = L \/ i <= ps[c[i]])
      BY <2>2
    <3>2. /\ i + 1 \in 0 .. n - 1 /\ c[i + 1] \in M /\ hm[c[i + 1]] = h
          /\ (dp[c[i]] = L /\ c[i + 1] = c[i]) \/ ps[c[i + 1]] = dp[c[i]]
      BY <1>2, <3>1
    <3>3. CASE dp[c[i]] = L /\ c[i + 1] = c[i]
      BY <3>2, <3>3
    <3>4. CASE ps[c[i + 1]] = dp[c[i]]
      <4>1. dp[c[i]] # L
        BY <1>0, <3>2, <3>4
      <4>2. i + 1 <= ps[c[i + 1]]
        BY <1>0, <3>1, <3>2, <3>4, <4>1
      <4> QED
        BY <3>2, <4>2
    <3> QED
      BY <3>2, <3>3, <3>4
  <2>3. n - 1 \in Nat
    OBVIOUS
  <2> HIDE DEF A
  <2> QED
    BY <2>1, <2>2, <2>3, UpTo
<1>4. \A i \in 0 .. n - 1 : c[i] \in M /\ hm[c[i]] = h
  BY <1>3
<1> DEFINE B == {i \in 0 .. n - 1 : \A x \in M :
                   hm[x] = h => ps[x] > ps[c[i]] \/ \E j \in 0 .. n - 1 : c[j] = x}
<1>5. \A i \in 0 .. n - 1 : i \in B
  <2>1. 0 \in B
    <3>1. ASSUME NEW x \in M, hm[x] = h, ~(ps[x] > ps[c[0]]) PROVE c[0] = x
      <4>1. ps[x] = ps[h]
        BY <1>0, <1>1, <3>1
      <4> QED
        BY <1>1, <3>1, <4>1, ChainDistinct
    <3> QED
      BY <3>1
  <2>2. ASSUME NEW i \in 0 .. (n - 1) - 1, i \in B PROVE i + 1 \in B
    <3>1. i \in 0 .. n - 1 /\ c[i] \in M /\ hm[c[i]] = h
      BY <1>4
    <3>2. /\ i + 1 \in 0 .. n - 1 /\ c[i + 1] \in M /\ hm[c[i + 1]] = h
          /\ (dp[c[i]] = L /\ c[i + 1] = c[i]) \/ ps[c[i + 1]] = dp[c[i]]
      BY <1>2, <3>1
    <3>3. ASSUME NEW x \in M, hm[x] = h
          PROVE  ps[x] > ps[c[i + 1]] \/ \E j \in 0 .. n - 1 : c[j] = x
      <4>1. CASE \E j \in 0 .. n - 1 : c[j] = x
        BY <4>1
      <4>2. CASE ps[x] > ps[c[i]]
        <5>1. CASE dp[c[i]] = L /\ c[i + 1] = c[i]
          BY <4>2, <5>1
        <5>2. CASE ps[c[i + 1]] = dp[c[i]]
          <6>1. ps[x] <= ps[c[i]] \/ dp[c[i]] <= ps[x]
            BY <3>1, <3>3 DEF Chained
          <6>2. ps[c[i + 1]] <= ps[x]
            BY <1>0, <3>1, <3>2, <4>2, <5>2, <6>1
          <6>3. ps[c[i + 1]] = ps[x] => c[i + 1] = x
            BY <3>2, <3>3, ChainDistinct
          <6> QED
            BY <1>0, <3>2, <6>2, <6>3
        <5> QED
          BY <3>2, <5>1, <5>2
      <4> QED
        BY <2>2, <3>3, <4>1, <4>2
    <3> QED
      BY <3>2, <3>3
  <2>3. n - 1 \in Nat
    OBVIOUS
  <2> HIDE DEF B
  <2> QED
    BY <2>1, <2>2, <2>3, UpTo
<1>6. ASSUME NEW x \in M, hm[x] = h PROVE \E j \in 0 .. n - 1 : c[j] = x
  <2>1. n - 1 \in 0 .. n - 1
    OBVIOUS
  <2> DEFINE e == c[n - 1]
  <2>2. n - 1 \in A /\ n - 1 \in B
    BY <1>3, <1>5, <2>1
  <2>3. e \in M /\ hm[e] = h /\ (dp[e] = L \/ n - 1 <= ps[e])
    BY <2>2
  <2>4. ps[x] > ps[e] \/ \E j \in 0 .. n - 1 : c[j] = x
    BY <1>6, <2>2
  <2> HIDE DEF e
  <2>5. dp[e] = L => ps[x] <= ps[e]
    BY <1>6, <2>3, ChainLast
  <2> QED
    BY <1>0, <2>3, <2>4, <2>5
<1> DEFINE C == {j \in 0 .. n - 1 : \A i \in 0 .. j : ps[c[i]] <= ps[c[j]]}
<1>7. \A j \in 0 .. n - 1 : j \in C
  <2>1. 0 \in C
    BY <1>1
  <2>2. ASSUME NEW j \in 0 .. (n - 1) - 1, j \in C PROVE j + 1 \in C
    <3>1. j \in 0 .. n - 1 /\ c[j] \in M /\ hm[c[j]] = h
      BY <1>4
    <3>2. /\ j + 1 \in 0 .. n - 1 /\ c[j + 1] \in M
          /\ (dp[c[j]] = L /\ c[j + 1] = c[j]) \/ ps[c[j + 1]] = dp[c[j]]
      BY <1>2, <3>1
    <3>3. ps[c[j]] <= ps[c[j + 1]]
      BY <1>0, <3>1, <3>2
    <3>4. ASSUME NEW i \in 0 .. j + 1 PROVE ps[c[i]] <= ps[c[j + 1]]
      <4>1. CASE i = j + 1
        BY <1>0, <3>2, <4>1
      <4>2. CASE i \in 0 .. j
        <5>1. ps[c[i]] <= ps[c[j]] /\ i \in 0 .. n - 1
          BY <2>2, <4>2
        <5>2. c[i] \in M
          BY <1>4, <5>1
        <5> QED
          BY <1>0, <3>1, <3>2, <3>3, <5>1, <5>2
      <4> QED
        BY <4>1, <4>2
    <3> QED
      BY <3>2, <3>4
  <2>3. n - 1 \in Nat
    OBVIOUS
  <2> HIDE DEF C
  <2> QED
    BY <2>1, <2>2, <2>3, UpTo
<1>8. ASSUME NEW i \in 0 .. n - 1, NEW j \in 0 .. n - 1, i <= j PROVE ps[c[i]] <= ps[c[j]]
  BY <1>7, <1>8
<1> QED
  BY <1>4, <1>6, <1>8

-----------------------------------------------------------------------------
(* The chains of a table.                                                  *)

Hm(t) == [b \in Indices(t) |-> HomeBucket(t, t.buckets[b].key)]
Dp(t) == [b \in Indices(t) |-> t.metadata[b].disp]

(* The buckets M of table t are chained.                                   *)
Laid(L, t, M, ps) == Chained(t.mask + 1, L, M, Hm(t), ps, Dp(t))

(* A structure with the fields of the table.                               *)
Record(t) == t = [x \in {"count", "mask", "metadata", "buckets"} |-> t[x]]

(* A table of the C type.                                                  *)
Shaped(t) ==
  /\ Record(t)
  /\ t.count \in Nat /\ t.mask \in Nat
  /\ t.metadata \in [Indices(t) -> Metadatum]
  /\ t.buckets \in [Indices(t) -> Bucket \cup {End}]

(* A probe ends in a bucket.                                               *)
LEMMA ProbeIn ==
  ASSUME NEW t, t.mask \in Nat, NEW h \in Nat, NEW d \in Nat
  PROVE  Probe(t, h, d) \in Indices(t) /\ Probe(t, h, d) = Slot(t.mask + 1, h, d)
<1>1. Quadratic(d) \in Nat
  BY QuadraticTwice
<1> QED
  BY <1>1 DEF Probe, Slot, Indices

(* Chain c meets the used buckets of home h, and no others, in their order. *)
Visits(t, M, ps, h, c) ==
  /\ DOMAIN c = Indices(t)
  /\ \A i \in Indices(t) : c[i] \in M /\ Hm(t)[c[i]] = h
  /\ \A x \in M : Hm(t)[x] = h => \E j \in Indices(t) : c[j] = x
  /\ \A i, j \in Indices(t) : i <= j => ps[c[i]] <= ps[c[j]]

(* What the chain of a home bucket meets.                                  *)
LEMMA ChainVisits ==
  ASSUME NEW t, Shaped(t), Limit \in Nat, NEW M, NEW ps, Laid(Limit, t, M, ps),
         NEW h \in M, Hm(t)[h] = h
  PROVE  Visits(t, M, ps, h, Chain(t, h))
<1> DEFINE n == t.mask + 1
           c == Chain(t, h)
           hm == Hm(t)
           dp == Dp(t)
<1>0. n \in Nat \ {0} /\ t.mask \in Nat /\ Indices(t) = 0 .. n - 1 /\ Indices(t) = 0 .. t.mask
  BY DEF Shaped, Indices
<1>1. \A b \in Indices(t) : t.metadata[b].disp \in Nat /\ dp[b] = t.metadata[b].disp
  BY DEF Shaped, Metadatum, Dp
<1>2. \A b \in M : b \in Indices(t)
  BY <1>0 DEF Laid, Chained
<1>3. h \in Nat
  BY <1>0, <1>2
<1>4. \A b \in Indices(t) : /\ After(t, h, b) \in Indices(t)
                            /\ After(t, h, b) = IF dp[b] = Limit THEN b ELSE Slot(n, h, dp[b])
  <2> SUFFICES ASSUME NEW b \in Indices(t)
               PROVE  /\ After(t, h, b) \in Indices(t)
                      /\ After(t, h, b) = IF dp[b] = Limit THEN b ELSE Slot(n, h, dp[b])
    OBVIOUS
  <2>1. t.metadata[b].disp \in Nat /\ dp[b] = t.metadata[b].disp
    BY <1>1
  <2>2. /\ Probe(t, h, t.metadata[b].disp) \in Indices(t)
        /\ Probe(t, h, t.metadata[b].disp) = Slot(n, h, t.metadata[b].disp)
    BY <1>0, <1>3, <2>1, ProbeIn
  <2> HIDE DEF dp, n
  <2> QED
    BY <2>1, <2>2 DEF After
<1>5. /\ c[0] = h /\ DOMAIN c = Indices(t) /\ \A i \in Indices(t) : c[i] \in Indices(t)
      /\ \A i \in Indices(t) : i # 0 => c[i] = After(t, h, c[i - 1])
  <2>1. t.mask \in Nat /\ h \in Indices(t) /\ \A b \in Indices(t) : After(t, h, b) \in Indices(t)
    BY <1>0, <1>2, <1>4
  <2> QED
    BY <2>1, ChainIs
<1>6. Chained(n, Limit, M, hm, ps, dp)
  BY DEF Laid
<1> HIDE DEF n, c, hm, dp
<1>7. Walks(c, n, Limit, h, dp)
  <2> SUFFICES ASSUME NEW i \in 1 .. n - 1
               PROVE  c[i] = IF dp[c[i - 1]] = Limit THEN c[i - 1]
                             ELSE Slot(n, h, dp[c[i - 1]])
    BY <1>5 DEF Walks
  <2>1. i \in Indices(t) /\ i - 1 \in Indices(t) /\ i # 0
    BY <1>0
  <2> QED
    BY <1>4, <1>5, <2>1
<1>8. hm[h] = h
  BY DEF hm
<1>9. /\ \A i \in 0 .. n - 1 : c[i] \in M /\ hm[c[i]] = h
      /\ \A x \in M : hm[x] = h => \E j \in 0 .. n - 1 : c[j] = x
      /\ \A i, j \in 0 .. n - 1 : i <= j => ps[c[i]] <= ps[c[j]]
  <2>1. n \in Nat \ {0}
    BY <1>0
  <2> QED
    BY <1>6, <1>7, <1>8, <2>1, ChainWalk
<1> QED
  BY <1>0, <1>5, <1>9 DEF Visits, hm, c

(* What FirstInChain finds.                                                *)
LEMMA FirstIs ==
  ASSUME NEW t, Shaped(t), Limit \in Nat, NEW M, NEW ps, Laid(Limit, t, M, ps),
         NEW h \in M, Hm(t)[h] = h, NEW S
  PROVE  \/ /\ FirstInChain(t, h, S) = End
            /\ \A x \in M : Hm(t)[x] = h => x \notin S
         \/ /\ FirstInChain(t, h, S) \in M /\ FirstInChain(t, h, S) \in S
            /\ Hm(t)[FirstInChain(t, h, S)] = h
            /\ \A x \in M : Hm(t)[x] = h /\ x \in S => ps[FirstInChain(t, h, S)] <= ps[x]
<1> DEFINE n == t.mask + 1
           c == Chain(t, h)
           hm == Hm(t)
<1>0. n \in Nat \ {0} /\ Indices(t) = 0 .. n - 1
  BY DEF Shaped, Indices
<1>1. Visits(t, M, ps, h, c)
  BY ChainVisits
<1> HIDE DEF n, c, hm
<1>2. /\ DOMAIN c = Indices(t)
      /\ \A i \in 0 .. n - 1 : c[i] \in M /\ hm[c[i]] = h
      /\ \A x \in M : hm[x] = h => \E j \in 0 .. n - 1 : c[j] = x
      /\ \A i, j \in 0 .. n - 1 : i <= j => ps[c[i]] <= ps[c[j]]
  BY <1>0, <1>1 DEF Visits, hm
<1> DEFINE found == {i \in DOMAIN c : c[i] \in S}
           f == FirstInChain(t, h, S)
<1>3. f = IF found = {} THEN End ELSE c[Min(found)]
  BY DEF FirstInChain, FirstOf, c
<1>4. CASE found = {}
  <2>1. \A x \in M : hm[x] = h => x \notin S
    BY <1>0, <1>2, <1>4
  <2> QED
    BY <1>3, <1>4, <2>1 DEF hm
<1>5. CASE found # {}
  <2>1. found \in SUBSET Nat
    BY <1>0, <1>2
  <2>2. Min(found) \in found /\ \A y \in found : Min(found) <= y
    BY <1>5, <2>1, LeastOf
  <2> DEFINE m == Min(found)
  <2>3. m \in 0 .. n - 1 /\ c[m] \in S /\ f = c[m]
    BY <1>0, <1>2, <1>3, <1>5, <2>2
  <2>4. ASSUME NEW x \in M, hm[x] = h, x \in S PROVE ps[f] <= ps[x]
    <3>1. PICK j \in 0 .. n - 1 : c[j] = x
      BY <1>2, <2>4
    <3>2. j \in found
      BY <1>0, <1>2, <2>4, <3>1
    <3>3. m <= j
      BY <2>2, <3>2
    <3> HIDE DEF m
    <3> QED
      BY <1>2, <2>3, <3>1, <3>3
  <2>5. f \in M /\ hm[f] = h /\ f \in S
    BY <1>2, <2>3
  <2> QED
    BY <2>4, <2>5 DEF hm
<1> QED
  BY <1>4, <1>5

Used(t) == {b \in Indices(t) : Occupied(t, b)}

(* The table's chained buckets M hold what they should.                    *)
Filled(t, M) ==
  /\ \A b \in M : /\ t.buckets[b] \in Bucket
                  /\ t.metadata[b].frag = HashFrag(t.buckets[b].key)
                  /\ t.metadata[b].home <=> b = Hm(t)[b]
  /\ \A b, c \in M : t.buckets[b].key = t.buckets[c].key => b = c

Sound(L, t, M) ==
  /\ Shaped(t) /\ Dyadic(t.mask + 1) /\ Filled(t, M)
  /\ \E ps : Laid(L, t, M, ps)

(* Facts about a member of M.                                              *)
LEMMA LaidMember ==
  ASSUME NEW t, Shaped(t), NEW L, NEW M, NEW ps, Laid(L, t, M, ps), NEW b \in M
  PROVE  /\ b \in Indices(t) /\ b \in Nat /\ Hm(t)[b] \in M /\ Hm(t)[Hm(t)[b]] = Hm(t)[b]
         /\ Hm(t)[b] \in Indices(t) /\ Hm(t)[b] \in Nat
         /\ Hm(t)[b] = HomeBucket(t, t.buckets[b].key)
         /\ ps[b] \in 0 .. t.mask /\ ps[b] < L /\ ps[Hm(t)[b]] = 0
         /\ Slot(t.mask + 1, Hm(t)[b], ps[b]) = b
         /\ Dp(t)[b] \in Nat /\ Dp(t)[b] = t.metadata[b].disp /\ ps[b] < Dp(t)[b]
         /\ Occupied(t, b) /\ b \in Used(t)
         /\ t.metadata[b] \in Metadatum
<1>0. t.mask \in Nat /\ Indices(t) = 0 .. t.mask /\ (t.mask + 1) - 1 = t.mask
  BY DEF Shaped, Indices
<1>1. /\ b \in 0 .. t.mask /\ Hm(t)[b] \in M /\ Hm(t)[Hm(t)[b]] = Hm(t)[b]
      /\ ps[b] \in 0 .. t.mask /\ ps[b] < L /\ ps[Hm(t)[b]] = 0
      /\ Slot(t.mask + 1, Hm(t)[b], ps[b]) = b
      /\ Dp(t)[b] \in Nat /\ ps[b] < Dp(t)[b]
  BY <1>0 DEF Laid, Chained
<1>2. Hm(t)[b] \in 0 .. t.mask
  BY <1>0, <1>1 DEF Laid, Chained
<1>3. Dp(t)[b] = t.metadata[b].disp /\ Hm(t)[b] = HomeBucket(t, t.buckets[b].key)
  BY <1>0, <1>1 DEF Dp, Hm
<1>4. t.metadata[b].disp # 0
  BY <1>0, <1>1, <1>3
<1>5. Occupied(t, b)
  BY <1>4 DEF Occupied, VT_EMPTY
<1>6. t.metadata[b] \in Metadatum
  BY <1>0, <1>1 DEF Shaped
<1> QED
  BY <1>0, <1>1, <1>2, <1>3, <1>5, <1>6 DEF Used

(* Previous() finds the predecessor.                                       *)
LEMMA PreviousIs ==
  ASSUME NEW t, Shaped(t), Limit \in Nat, NEW M, NEW ps, Laid(Limit, t, M, ps),
         NEW b \in M, b # Hm(t)[b]
  PROVE  LET p == Previous(t, Hm(t)[b], b)
         IN p \in M /\ Hm(t)[p] = Hm(t)[b] /\ Dp(t)[p] = ps[b] /\ p # b
<1> DEFINE h == Hm(t)[b]
           S == {q \in Indices(t) : Probe(t, h, t.metadata[q].disp) = b}
           p == Previous(t, h, b)
           n == t.mask + 1
<1>0. /\ h \in M /\ h \in Nat /\ Hm(t)[h] = h /\ n \in Nat /\ t.mask \in Nat
      /\ b \in Indices(t) /\ Slot(n, h, ps[b]) = b
  BY LaidMember DEF Shaped
<1>1. Chained(n, Limit, M, Hm(t), ps, Dp(t))
  BY DEF Laid
<1>2. p = FirstInChain(t, h, S)
  BY DEF Previous
<1>3. PICK q \in M : Hm(t)[q] = h /\ Dp(t)[q] = ps[b]
  BY <1>0, <1>1, ChainPrevious
<1>4. \A x \in M : /\ x \in Indices(t) /\ Dp(t)[x] \in Nat /\ Dp(t)[x] = t.metadata[x].disp
                   /\ ps[x] < Dp(t)[x] /\ ps[x] \in Nat
                   /\ Probe(t, h, t.metadata[x].disp) = Slot(n, h, Dp(t)[x])
  <2> SUFFICES ASSUME NEW x \in M
               PROVE  /\ x \in Indices(t) /\ Dp(t)[x] \in Nat
                      /\ Dp(t)[x] = t.metadata[x].disp
                      /\ ps[x] < Dp(t)[x] /\ ps[x] \in Nat
                      /\ Probe(t, h, t.metadata[x].disp) = Slot(n, h, Dp(t)[x])
    OBVIOUS
  <2>1. /\ x \in Indices(t) /\ Dp(t)[x] \in Nat /\ Dp(t)[x] = t.metadata[x].disp
        /\ ps[x] < Dp(t)[x] /\ ps[x] \in 0 .. t.mask
    BY LaidMember
  <2>2. Probe(t, h, Dp(t)[x]) = Slot(n, h, Dp(t)[x])
    BY <1>0, <2>1, ProbeIn
  <2> QED
    BY <1>0, <2>1, <2>2
<1>5. q \in S
  BY <1>0, <1>3, <1>4
<1> HIDE DEF h, n, p
<1>6. p \in M /\ p \in S /\ Hm(t)[p] = h /\ ps[p] <= ps[q]
  <2> HIDE DEF S
  <2> QED
    BY <1>0, <1>2, <1>3, <1>5, FirstIs
<1>7. Dp(t)[p] = ps[b]
  <2>1. CASE Dp(t)[p] = Limit
    <3>1. Hm(t)[b] = h
      BY DEF h
    <3>2. ps[b] <= ps[p]
      BY <1>0, <1>1, <1>6, <2>1, <3>1, ChainLast
    <3>3. ps[q] < ps[b] /\ ps[b] \in Nat
      BY <1>3, <1>4
    <3> QED
      BY <1>3, <1>4, <1>6, <3>2, <3>3
  <2>2. CASE Dp(t)[p] # Limit
    <3>1. PICK c \in M : Hm(t)[c] = Hm(t)[p] /\ ps[c] = Dp(t)[p]
      BY <1>1, <1>6, <2>2 DEF Chained
    <3>2. Slot(n, Hm(t)[c], ps[c]) = c
      BY <1>1 DEF Chained
    <3>3. c = b
      BY <1>4, <1>6, <3>1, <3>2
    <3> QED
      BY <3>1, <3>3
  <2> QED
    BY <2>1, <2>2
<1>8. p # b
  BY <1>4, <1>7
<1> QED
  BY <1>6, <1>7, <1>8 DEF p, h

(* LastInChain() finds the last key.                                       *)
LEMMA LastIs ==
  ASSUME NEW t, Shaped(t), Limit \in Nat, NEW M, NEW ps, Laid(Limit, t, M, ps),
         NEW h \in M, Hm(t)[h] = h
  PROVE  LET l == LastInChain(t, h) IN l \in M /\ Hm(t)[l] = h /\ Dp(t)[l] = Limit
<1> DEFINE S == {b \in Indices(t) : t.metadata[b].disp = Limit}
           l == LastInChain(t, h)
<1>0. t.mask + 1 \in Nat
  BY DEF Shaped
<1>1. Chained(t.mask + 1, Limit, M, Hm(t), ps, Dp(t))
  BY DEF Laid
<1>2. PICK b \in M : Hm(t)[b] = h /\ Dp(t)[b] = Limit
  BY <1>0, <1>1, ChainLast
<1>3. b \in S
  BY <1>2, LaidMember
<1>4. l = FirstInChain(t, h, S)
  BY DEF LastInChain
<1>5. l \in M /\ l \in S /\ Hm(t)[l] = h
  <2> HIDE DEF S, l
  <2> QED
    BY <1>2, <1>3, <1>4, FirstIs
<1>6. Dp(t)[l] = Limit
  <2> HIDE DEF l
  <2> QED
    BY <1>5, LaidMember
<1> QED
  BY <1>5, <1>6

(* The displacements a metadatum can hold.                                 *)
Reach == 1 .. Limit - 1

(* InsertLocation() finds where a displacement belongs.                    *)
LEMMA LocationIs ==
  ASSUME NEW t, Shaped(t), Limit \in Nat, NEW M, NEW ps, Laid(Limit, t, M, ps),
         NEW h \in M, Hm(t)[h] = h, NEW d \in Reach,
         Probe(t, h, d) \notin M
  PROVE  LET p == InsertLocation(t, h, d)
         IN p \in M /\ Hm(t)[p] = h /\ ps[p] < d /\ d < Dp(t)[p]
<1> DEFINE S == {b \in Indices(t) : t.metadata[b].disp > d}
           p == InsertLocation(t, h, d)
           n == t.mask + 1
<1>0. n \in Nat /\ t.mask \in Nat
  BY DEF Shaped
<1>1. Chained(n, Limit, M, Hm(t), ps, Dp(t))
  BY DEF Laid
<1>2. PICK l \in M : Hm(t)[l] = h /\ Dp(t)[l] = Limit
  BY <1>0, <1>1, ChainLast
<1>3. l \in S
  <2>1. l \in Indices(t) /\ Dp(t)[l] = t.metadata[l].disp
    BY LaidMember
  <2> QED
    BY <1>2, <2>1 DEF Reach
<1>4. p = FirstInChain(t, h, S)
  BY DEF InsertLocation
<1>5. /\ p \in M /\ p \in S /\ Hm(t)[p] = h
      /\ \A x \in M : Hm(t)[x] = h /\ x \in S => ps[p] <= ps[x]
  <2> HIDE DEF S, p
  <2> QED
    BY <1>2, <1>3, <1>4, FirstIs
<1> HIDE DEF p
<1>6. /\ ps[p] \in Nat /\ Dp(t)[p] \in Nat /\ Dp(t)[p] = t.metadata[p].disp
      /\ Slot(n, h, ps[p]) = p /\ ps[h] = 0
  BY <1>5, LaidMember
<1>7. d < Dp(t)[p]
  BY <1>5, <1>6 DEF Reach
<1>8. d \in Nat /\ d # 0
  BY DEF Reach
<1>9. ps[p] < d
  <2> SUFFICES ASSUME ps[p] >= d PROVE FALSE
    BY <1>6, <1>8
  <2>1. Probe(t, h, d) = Slot(n, h, d)
    BY <1>0, <1>8, LaidMember, ProbeIn
  <2>2. ps[p] # d
    BY <1>5, <1>6, <2>1
  <2>3. p # Hm(t)[p]
    BY <1>5, <1>6, <1>8
  <2>4. PICK q \in M : Hm(t)[q] = h /\ Dp(t)[q] = ps[p]
    <3>1. \E q \in M : Hm(t)[q] = Hm(t)[p] /\ Dp(t)[q] = ps[p]
      BY <1>0, <1>1, <1>5, <2>3, ChainPrevious
    <3> QED
      BY <1>5, <3>1
  <2>5. q \in Indices(t) /\ Dp(t)[q] = t.metadata[q].disp /\ ps[q] < Dp(t)[q] /\ ps[q] \in Nat
    BY LaidMember
  <2>6. q \in S
    BY <1>6, <1>8, <2>2, <2>4, <2>5
  <2>7. ps[p] <= ps[q]
    BY <1>5, <2>4, <2>6
  <2> QED
    BY <1>6, <2>4, <2>5, <2>7
<1> QED
  BY <1>5, <1>7, <1>9 DEF p

(* Lookup() finds the bucket of a key, or none.                            *)
LEMMA LookupIs ==
  ASSUME NEW t, Limit \in Nat, Sound(Limit, t, Used(t)), NEW k \in Keys
  PROVE  \/ /\ Lookup(t, k) = End
            /\ \A b \in Used(t) : t.buckets[b].key # k
         \/ Lookup(t, k) \in Used(t) /\ t.buckets[Lookup(t, k)].key = k
<1> DEFINE h == HomeBucket(t, k)
           M == Used(t)
           S == {b \in Indices(t) : /\ Occupied(t, b)
                                    /\ t.metadata[b].frag = HashFrag(k)
                                    /\ t.buckets[b].key = k}
<1>0. Shaped(t) /\ Filled(t, M) /\ t.mask \in Nat
  BY DEF Sound, Shaped
<1>1. PICK ps : Laid(Limit, t, M, ps)
  BY DEF Sound
<1>2. ASSUME NEW b \in M, t.buckets[b].key = k
      PROVE  h \in M /\ Hm(t)[b] = h /\ Hm(t)[h] = h /\ t.metadata[h].home
  <2>1. /\ Hm(t)[b] \in M /\ Hm(t)[Hm(t)[b]] = Hm(t)[b]
        /\ Hm(t)[b] = HomeBucket(t, t.buckets[b].key)
    BY <1>0, <1>1, LaidMember
  <2>2. Hm(t)[b] = h
    BY <1>2, <2>1
  <2>3. t.metadata[h].home <=> h = Hm(t)[h]
    BY <1>0, <2>1, <2>2 DEF Filled
  <2> QED
    BY <2>1, <2>2, <2>3
<1>3. CASE ~t.metadata[h].home
  <2>1. Lookup(t, k) = End
    BY <1>3 DEF Lookup
  <2> QED
    BY <1>2, <1>3, <2>1
<1>4. CASE t.metadata[h].home
  <2>1. h \in Indices(t)
    <3>1. Hash[k] \in Nat /\ t.mask + 1 \in Nat \ {0}
      BY <1>0, HashAssumption
    <3>2. Hash[k] % (t.mask + 1) \in 0 .. t.mask
      BY <1>0, <3>1
    <3> QED
      BY <3>2 DEF HomeBucket, Indices
  <2>2. h \in M
    BY <1>4, <2>1 DEF Used, Occupied, VT_EMPTY
  <2>3. Hm(t)[h] = h
    <3>1. t.metadata[h].home <=> h = Hm(t)[h]
      BY <1>0, <2>2 DEF Filled
    <3> QED
      BY <1>4, <3>1
  <2>4. Lookup(t, k) = FirstInChain(t, h, S)
    BY <1>4 DEF Lookup
  <2>5. \A x \in M : t.buckets[x].key = k => x \in S
    BY <1>0 DEF Filled, Used
  <2>6. S \subseteq M /\ \A x \in S : t.buckets[x].key = k
    BY DEF Used
  <2> DEFINE f == Lookup(t, k)
  <2> HIDE DEF S, h, M
  <2>7. \/ f = End /\ \A x \in M : Hm(t)[x] = h => x \notin S
        \/ f \in M /\ f \in S
    BY <1>0, <1>1, <2>2, <2>3, <2>4, FirstIs
  <2>8. \A x \in M : t.buckets[x].key = k => Hm(t)[x] = h
    BY <1>2
  <2>9. CASE f \in M /\ f \in S
    BY <2>6, <2>9 DEF M
  <2>10. CASE f = End /\ \A x \in M : Hm(t)[x] = h => x \notin S
    <3>1. \A b \in M : t.buckets[b].key # k
      BY <2>5, <2>8, <2>10
    <3> QED
      BY <2>10, <3>1 DEF M
  <2> QED
    BY <2>7, <2>9, <2>10
<1> QED
  BY <1>3, <1>4

-----------------------------------------------------------------------------
(* Chains as the operations change them.                                   *)

(* A home bucket is a bucket.                                              *)
LEMMA HomeIn ==
  ASSUME NEW t, t.mask \in Nat, NEW k \in Keys
  PROVE  HomeBucket(t, k) \in Indices(t)
<1>1. Hash[k] \in Nat /\ t.mask + 1 \in Nat \ {0}
  BY HashAssumption
<1>2. Hash[k] % (t.mask + 1) \in 0 .. t.mask
  BY <1>1
<1> QED
  BY <1>2 DEF HomeBucket, Indices

(* Tables with the same buckets and fields.                                *)
SameFrame(t, u) == u.count = t.count /\ u.mask = t.mask

(* What Unlink() changes.                                                  *)
LEMMA UnlinkFields ==
  ASSUME NEW t, Shaped(t), NEW p \in Indices(t), NEW b \in Indices(t)
  PROVE  LET u == Unlink(t, p, b)
         IN /\ Shaped(u) /\ SameFrame(t, u) /\ u.buckets = t.buckets
            /\ Indices(u) = Indices(t) /\ Hm(u) = Hm(t)
            /\ \A x \in Indices(t) : x # p => u.metadata[x] = t.metadata[x]
            /\ u.metadata[p].disp = t.metadata[b].disp
            /\ u.metadata[p].frag = t.metadata[p].frag
            /\ u.metadata[p].home = t.metadata[p].home
<1> DEFINE u == Unlink(t, p, b)
           md == [t.metadata EXCEPT ![p].disp = t.metadata[b].disp]
<1>1. /\ u.count = t.count /\ u.mask = t.mask /\ u.metadata = md
      /\ u.buckets = t.buckets /\ Record(u)
  <2>1. DOMAIN t = {"count", "mask", "metadata", "buckets"}
    BY DEF Shaped, Record
  <2> QED
    BY <2>1 DEF Unlink, Record
<1>2. t.metadata[p] \in Metadatum /\ t.metadata[b] \in Metadatum
      /\ t.metadata \in [Indices(t) -> Metadatum]
  BY DEF Shaped
<1>3. md[p] = [frag |-> t.metadata[p].frag, home |-> t.metadata[p].home,
               disp |-> t.metadata[b].disp]
  BY <1>2 DEF Metadatum
<1>4. md[p] \in Metadatum
  BY <1>2, <1>3 DEF Metadatum
<1>5. \A x \in Indices(t) : x # p => md[x] = t.metadata[x]
  BY <1>2
<1>6. md \in [Indices(t) -> Metadatum]
  BY <1>2, <1>4, <1>5
<1>7. md[p].disp = t.metadata[b].disp /\ md[p].frag = t.metadata[p].frag
      /\ md[p].home = t.metadata[p].home
  BY <1>3
<1> HIDE DEF md, u
<1>8. u.metadata = md /\ u.buckets = t.buckets /\ SameFrame(t, u) /\ Indices(u) = Indices(t)
      /\ u.count = t.count /\ u.mask = t.mask
  BY <1>1 DEF SameFrame, Indices
<1>9. Hm(u) = Hm(t)
  BY <1>8 DEF Hm, HomeBucket
<1>10. Shaped(u)
  BY <1>1, <1>6, <1>8 DEF Shaped
<1> QED
  BY <1>5, <1>7, <1>8, <1>9, <1>10 DEF u

(* A key that is not in its home bucket is unlinked.                       *)
LEMMA UnlinkSound ==
  ASSUME NEW t, Limit \in Nat, NEW M, Sound(Limit, t, M), NEW b \in M, b # Hm(t)[b]
  PROVE  LET u == Unlink(t, Previous(t, Hm(t)[b], b), b)
         IN /\ Sound(Limit, u, M \ {b}) /\ SameFrame(t, u) /\ u.buckets = t.buckets
            /\ Indices(u) = Indices(t) /\ Hm(u) = Hm(t)
            /\ \A x \in Indices(t) \ (M \ {b}) : u.metadata[x] = t.metadata[x]
<1> DEFINE p == Previous(t, Hm(t)[b], b)
           u == Unlink(t, p, b)
<1>0. Shaped(t) /\ Dyadic(t.mask + 1) /\ Filled(t, M) /\ t.mask + 1 \in Nat
  BY DEF Sound, Shaped
<1>1. PICK ps : Laid(Limit, t, M, ps)
  BY DEF Sound
<1>2. p \in M /\ Hm(t)[p] = Hm(t)[b] /\ Dp(t)[p] = ps[b] /\ p # b
  BY <1>0, <1>1, PreviousIs
<1>3. \A x \in M : x \in Indices(t) /\ Dp(t)[x] = t.metadata[x].disp
  BY <1>0, <1>1, LaidMember
<1> HIDE DEF p
<1>4. /\ Shaped(u) /\ SameFrame(t, u) /\ u.buckets = t.buckets
      /\ Indices(u) = Indices(t) /\ Hm(u) = Hm(t)
      /\ \A x \in Indices(t) : x # p => u.metadata[x] = t.metadata[x]
      /\ u.metadata[p].disp = t.metadata[b].disp
      /\ u.metadata[p].frag = t.metadata[p].frag
      /\ u.metadata[p].home = t.metadata[p].home
  BY <1>0, <1>2, <1>3, UnlinkFields
<1> HIDE DEF u
<1>5. /\ \A x \in M \ {b} : x # p => Dp(u)[x] = Dp(t)[x]
      /\ Dp(u)[p] = Dp(t)[b]
  BY <1>2, <1>3, <1>4 DEF Dp
<1>6. Chained(t.mask + 1, Limit, M \ {b}, Hm(u), ps, Dp(u))
  <2>1. Chained(t.mask + 1, Limit, M, Hm(t), ps, Dp(t))
    BY <1>1 DEF Laid
  <2>2. Agree(M \ {b}, Hm(t), Hm(u)) /\ Agree(M \ {b, p}, Dp(t), Dp(u))
    BY <1>4, <1>5 DEF Agree
  <2> QED
    BY <1>0, <1>2, <1>5, <2>1, <2>2, ChainRemove
<1>7. Laid(Limit, u, M \ {b}, ps)
  BY <1>4, <1>6 DEF Laid, SameFrame
<1>8. Filled(u, M \ {b})
  <2>1. ASSUME NEW x \in M \ {b}
        PROVE  /\ u.buckets[x] \in Bucket /\ u.metadata[x].frag = HashFrag(u.buckets[x].key)
               /\ u.metadata[x].home <=> x = Hm(u)[x]
    <3>1. u.metadata[x].frag = t.metadata[x].frag /\ u.metadata[x].home = t.metadata[x].home
      BY <1>3, <1>4
    <3> QED
      BY <1>0, <1>4, <3>1 DEF Filled
  <2> QED
    BY <1>0, <1>4, <2>1 DEF Filled
<1>9. Dyadic(u.mask + 1)
  BY <1>0, <1>4 DEF SameFrame
<1>10. Sound(Limit, u, M \ {b})
  BY <1>4, <1>7, <1>8, <1>9 DEF Sound
<1> QED
  BY <1>2, <1>4, <1>10 DEF u, p

(* A fragment is a number.                                                 *)
LEMMA FragIn ==
  ASSUME NEW k \in Keys
  PROVE  HashFrag(k) \in Nat
<1>1. Hash[k] \in Nat /\ FragUnit \in Nat \ {0}
  BY HashAssumption
<1>2. Hash[k] \div FragUnit \in Nat
  BY <1>1
<1> QED
  BY <1>2 DEF HashFrag

(* What LinkAfter() changes.                                               *)
Linked(t, u, p, b, d, e, f) ==
  /\ Shaped(u) /\ SameFrame(t, u) /\ Indices(u) = Indices(t)
  /\ u.buckets[b] = e
  /\ \A x \in Indices(t) : x # b => u.buckets[x] = t.buckets[x]
  /\ \A x \in Indices(t) : x # b /\ x # p => u.metadata[x] = t.metadata[x]
  /\ u.metadata[p].disp = d
  /\ u.metadata[p].frag = t.metadata[p].frag
  /\ u.metadata[p].home = t.metadata[p].home
  /\ u.metadata[b].disp = t.metadata[p].disp
  /\ u.metadata[b].frag = f
  /\ u.metadata[b].home = FALSE

(* LinkAfter() changes only the bucket and the one before it.              *)
LEMMA LinkFields ==
  ASSUME NEW t, Shaped(t), NEW p \in Indices(t), NEW b \in Indices(t), p # b,
         NEW d \in Nat, NEW e \in Bucket, NEW f \in Nat
  PROVE  Linked(t, LinkAfter(t, p, b, d, e, f), p, b, d, e, f)
<1> DEFINE u == LinkAfter(t, p, b, d, e, f)
           new == [frag |-> f, home |-> FALSE, disp |-> t.metadata[p].disp]
           md == [t.metadata EXCEPT ![b] = new, ![p].disp = d]
           bk == [t.buckets EXCEPT ![b] = e]
<1>1. /\ u.count = t.count /\ u.mask = t.mask /\ u.metadata = md
      /\ u.buckets = bk /\ Record(u)
  <2>1. DOMAIN t = {"count", "mask", "metadata", "buckets"}
    BY DEF Shaped, Record
  <2> QED
    BY <2>1 DEF LinkAfter, Record
<1>2. t.metadata[p] \in Metadatum /\ t.metadata \in [Indices(t) -> Metadatum]
      /\ t.buckets \in [Indices(t) -> Bucket \cup {End}]
  BY DEF Shaped
<1>3. md[p] = [frag |-> t.metadata[p].frag, home |-> t.metadata[p].home, disp |-> d]
  BY <1>2 DEF Metadatum
<1>4. md[b] = new
  BY <1>2
<1>5. md[p] \in Metadatum /\ md[b] \in Metadatum
  BY <1>2, <1>3, <1>4 DEF Metadatum
<1>6. \A x \in Indices(t) : x # p /\ x # b => md[x] = t.metadata[x]
  BY <1>2
<1>7. md \in [Indices(t) -> Metadatum]
  <2>1. \A x \in Indices(t) : md[x] \in Metadatum
    BY <1>2, <1>5, <1>6
  <2>2. md = [x \in Indices(t) |-> md[x]]
    BY <1>2
  <2> HIDE DEF md
  <2> QED
    BY <2>1, <2>2
<1>8. /\ bk[b] = e /\ bk \in [Indices(t) -> Bucket \cup {End}]
      /\ \A x \in Indices(t) : x # b => bk[x] = t.buckets[x]
  BY <1>2
<1>9. /\ md[p].disp = d /\ md[p].frag = t.metadata[p].frag /\ md[p].home = t.metadata[p].home
      /\ md[b].disp = t.metadata[p].disp /\ md[b].frag = f /\ md[b].home = FALSE
  BY <1>3, <1>4
<1> HIDE DEF md, u, bk, new
<1>10. u.metadata = md /\ u.buckets = bk /\ SameFrame(t, u) /\ Indices(u) = Indices(t)
      /\ u.count = t.count /\ u.mask = t.mask
  BY <1>1 DEF SameFrame, Indices
<1>11. Shaped(u)
  BY <1>1, <1>7, <1>8, <1>10 DEF Shaped
<1> QED
  BY <1>6, <1>8, <1>9, <1>10, <1>11 DEF u, Linked

(* The buckets M do not hold the key.                                      *)
Fresh(t, M, k) == \A x \in M : t.buckets[x].key # k

(* A function as it is needed with one more value.                         *)
LEMMA PutIs ==
  ASSUME NEW M, NEW b, b \notin M, NEW ps, NEW v
  PROVE  \E ps2 : Agree(M, ps, ps2) /\ ps2[b] = v
<1> DEFINE q == [x \in M \cup {b} |-> IF x = b THEN v ELSE ps[x]]
<1>1. q[b] = v /\ \A x \in M : q[x] = ps[x]
  OBVIOUS
<1> QED
  BY <1>1 DEF Agree

(* A key is linked into its chain.                                         *)
LEMMA LinkSound ==
  ASSUME NEW t, Limit \in Nat, NEW M, Sound(Limit, t, M), NEW h \in M, Hm(t)[h] = h,
         NEW d \in Reach, d <= t.mask, Probe(t, h, d) \notin M,
         NEW e \in Bucket, HomeBucket(t, e.key) = h, Fresh(t, M, e.key)
  PROVE  LET u == Link(t, h, d, e, HashFrag(e.key))
             b == Probe(t, h, d)
         IN /\ Sound(Limit, u, M \cup {b}) /\ SameFrame(t, u) /\ Indices(u) = Indices(t)
            /\ b \in Indices(t) /\ u.buckets[b] = e
            /\ \A x \in Indices(t) : x # b => u.buckets[x] = t.buckets[x]
            /\ \A x \in Indices(t) \ (M \cup {b}) : u.metadata[x] = t.metadata[x]
<1> DEFINE u == Link(t, h, d, e, HashFrag(e.key))
           b == Probe(t, h, d)
           p == InsertLocation(t, h, d)
           n == t.mask + 1
<1>0. Shaped(t) /\ Dyadic(n) /\ Filled(t, M) /\ n \in Nat /\ t.mask \in Nat
  BY DEF Sound, Shaped
<1>1. PICK ps : Laid(Limit, t, M, ps)
  BY DEF Sound
<1>2. d \in Nat /\ d < Limit /\ d \in 0 .. n - 1
  BY <1>0 DEF Reach
<1>3. p \in M /\ Hm(t)[p] = h /\ ps[p] < d /\ d < Dp(t)[p]
  BY <1>0, <1>1, LocationIs
<1>4. \A x \in M : x \in Indices(t) /\ Dp(t)[x] = t.metadata[x].disp
  BY <1>0, <1>1, LaidMember
<1>5. b \in Indices(t) /\ b = Slot(n, h, d) /\ b \in 0 .. n - 1
  <2>1. h \in Nat
    BY <1>0, <1>1, LaidMember
  <2> QED
    BY <1>0, <1>2, <2>1, ProbeIn DEF Indices
<1>6. e.key \in Keys /\ HashFrag(e.key) \in Nat
  BY FragIn DEF Bucket
<1>7. u = LinkAfter(t, p, b, d, e, HashFrag(e.key)) /\ b \notin M
  BY DEF Link
<1> HIDE DEF u, b, p, n
<1>8. /\ Shaped(u) /\ SameFrame(t, u) /\ Indices(u) = Indices(t)
      /\ u.buckets[b] = e
      /\ \A x \in Indices(t) : x # b => u.buckets[x] = t.buckets[x]
      /\ \A x \in Indices(t) : x # b /\ x # p => u.metadata[x] = t.metadata[x]
      /\ u.metadata[p].disp = d
      /\ u.metadata[p].frag = t.metadata[p].frag
      /\ u.metadata[p].home = t.metadata[p].home
      /\ u.metadata[b].disp = t.metadata[p].disp
      /\ u.metadata[b].frag = HashFrag(e.key)
      /\ u.metadata[b].home = FALSE
  <2>1. p \in Indices(t) /\ p # b
    BY <1>3, <1>4, <1>7
  <2>2. d \in Nat /\ b \in Indices(t) /\ Shaped(t)
    BY <1>0, <1>2, <1>5
  <2> QED
    <3> DEFINE f == HashFrag(e.key)
    <3>1. f \in Nat /\ u = LinkAfter(t, p, b, d, e, f)
      BY <1>6, <1>7
    <3> HIDE DEF f
    <3>2. Linked(t, u, p, b, d, e, f)
      BY <2>1, <2>2, <3>1, LinkFields
    <3> QED
      BY <3>2, Zenon DEF Linked, f
<1>9. /\ Agree(M, Hm(t), Hm(u)) /\ Hm(u)[b] = h
      /\ Agree(M \ {p}, Dp(t), Dp(u)) /\ Dp(u)[p] = d /\ Dp(u)[b] = Dp(t)[p]
  <2>1. \A x \in M : x # b
    BY <1>7
  <2>2. \A k : HomeBucket(u, k) = HomeBucket(t, k)
    BY <1>8 DEF HomeBucket, SameFrame
  <2>3. Agree(M, Hm(t), Hm(u)) /\ Hm(u)[b] = h
    BY <1>4, <1>5, <1>8, <2>1, <2>2 DEF Hm, Agree
  <2>4. Agree(M \ {p}, Dp(t), Dp(u)) /\ Dp(u)[p] = d /\ Dp(u)[b] = Dp(t)[p]
    BY <1>3, <1>4, <1>5, <1>8, <2>1 DEF Dp, Agree
  <2> QED
    BY <2>3, <2>4
<1>10. PICK ps2 : Agree(M, ps, ps2) /\ ps2[b] = d
  BY <1>7, PutIs
<1>11. Chained(n, Limit, M \cup {b}, Hm(u), ps2, Dp(u))
  <2>1. Chained(n, Limit, M, Hm(t), ps, Dp(t))
    BY <1>1 DEF Laid, n
  <2>2. Slot(n, Hm(t)[p], d) = b /\ Hm(u)[b] = Hm(t)[p]
    BY <1>3, <1>5, <1>9
  <2> QED
    BY <1>0, <1>2, <1>3, <1>5, <1>7, <1>9, <1>10, <2>1, <2>2, ChainInsert
<1>12. Laid(Limit, u, M \cup {b}, ps2)
  BY <1>8, <1>11 DEF Laid, SameFrame, n
<1>13. Filled(u, M \cup {b})
  <2>1. ASSUME NEW x \in M \cup {b}
        PROVE  /\ u.buckets[x] \in Bucket /\ u.metadata[x].frag = HashFrag(u.buckets[x].key)
               /\ u.metadata[x].home <=> x = Hm(u)[x]
    <3>1. CASE x = b
      <4>1. b # h
        BY <1>7
      <4> QED
        BY <1>8, <1>9, <3>1, <4>1
    <3>2. CASE x \in M
      <4>1. x # b /\ x \in Indices(t)
        BY <1>4, <1>7, <3>2
      <4>2. u.metadata[x].frag = t.metadata[x].frag /\ u.metadata[x].home = t.metadata[x].home
            /\ u.buckets[x] = t.buckets[x] /\ Hm(u)[x] = Hm(t)[x]
        BY <1>8, <1>9, <3>2, <4>1 DEF Agree
      <4> QED
        BY <1>0, <3>2, <4>2 DEF Filled
    <3> QED
      BY <3>1, <3>2
  <2>2. ASSUME NEW x \in M \cup {b}, NEW y \in M \cup {b}, u.buckets[x].key = u.buckets[y].key
        PROVE  x = y
    <3>1. \A z \in M : u.buckets[z] = t.buckets[z] /\ t.buckets[z].key # e.key
      BY <1>4, <1>7, <1>8 DEF Fresh
    <3> QED
      BY <1>0, <1>8, <2>2, <3>1 DEF Filled
  <2> QED
    BY <2>1, <2>2 DEF Filled
<1>14. Dyadic(u.mask + 1)
  BY <1>0, <1>8 DEF SameFrame, n
<1>15. Sound(Limit, u, M \cup {b})
  BY <1>8, <1>12, <1>13, <1>14 DEF Sound
<1>16. \A x \in Indices(t) \ (M \cup {b}) : u.metadata[x] = t.metadata[x]
  BY <1>3, <1>8
<1> QED
  BY <1>5, <1>8, <1>15, <1>16 DEF u, b

-----------------------------------------------------------------------------
(* There is always a bucket to go to.                                      *)

(* Two sets of buckets: a function without collisions.                     *)
LEMMA NoCollision ==
  ASSUME NEW S, IsFiniteSet(S), NEW T, IsFiniteSet(T), NEW f \in [S -> T],
         \A x, y \in S : f[x] = f[y] => x = y
  PROVE  Cardinality(S) <= Cardinality(T)
<1>1. Cardinality(S) \in Nat /\ Cardinality(T) \in Nat
  BY FS_CardinalityType
<1>2. ~(Cardinality(T) < Cardinality(S))
  BY FS_PigeonHole
<1> QED
  BY <1>1, <1>2

(* The used buckets are finitely many.                                     *)
LEMMA UsedFinite ==
  ASSUME NEW t, t.mask \in Nat
  PROVE  IsFiniteSet(Used(t)) /\ Cardinality(Used(t)) \in Nat
<1>1. IsFiniteSet(0 .. t.mask)
  BY FS_Interval
<1>2. Used(t) \in SUBSET (0 .. t.mask)
  BY DEF Used, Indices
<1>3. IsFiniteSet(Used(t))
  BY <1>1, <1>2, FS_Subset
<1> QED
  BY <1>3, FS_CardinalityType

(* There are no more used buckets than keys.                               *)
LEMMA UsedKeys ==
  ASSUME NEW t, Shaped(t), Filled(t, Used(t))
  PROVE  Cardinality(Used(t)) <= Cardinality(Keys)
<1> DEFINE f == [b \in Used(t) |-> t.buckets[b].key]
<1>1. f \in [Used(t) -> Keys] /\ \A x, y \in Used(t) : f[x] = f[y] => x = y
  BY DEF Filled, Bucket
<1>2. IsFiniteSet(Used(t)) /\ IsFiniteSet(Keys)
  BY UsedFinite, ClientAssumption DEF Shaped
<1> HIDE DEF f
<1> QED
  BY <1>1, <1>2, NoCollision

(* A platform whose chains hold any keys there are.                        *)
Roomy == Limit \in Nat /\ Cardinality(Keys) < Limit

(* An empty bucket is within reach of every home.                          *)
LEMMA PlaceExists ==
  ASSUME NEW t, Shaped(t), Dyadic(t.mask + 1), NEW h \in Used(t),
         Cardinality(Used(t)) <= t.mask, Cardinality(Used(t)) < Limit, Limit \in Nat
  PROVE  /\ EmptyWithin(t, h) # {} /\ Min(EmptyWithin(t, h)) \in EmptyWithin(t, h)
         /\ Min(EmptyWithin(t, h)) \in Reach /\ Min(EmptyWithin(t, h)) <= t.mask
         /\ Probe(t, h, Min(EmptyWithin(t, h))) \in Indices(t) \ Used(t)
<1> DEFINE m == Cardinality(Used(t))
           n == t.mask + 1
           E == EmptyWithin(t, h)
<1>0. t.mask \in Nat /\ m \in Nat /\ IsFiniteSet(Used(t)) /\ h \in Nat /\ h \in Indices(t)
  BY UsedFinite DEF Shaped, Used, Indices
<1>1. \E d \in 1 .. m : Probe(t, h, d) \notin Used(t)
  <2> SUFFICES ASSUME \A d \in 1 .. m : Probe(t, h, d) \in Used(t) PROVE FALSE
    OBVIOUS
  <2> DEFINE f == [d \in 0 .. m |-> Probe(t, h, d)]
  <2>1. \A d \in 0 .. m : Probe(t, h, d) = Slot(n, h, d)
    BY <1>0, ProbeIn
  <2>2. Probe(t, h, 0) = h
    BY <1>0 DEF Probe, Quadratic, Indices
  <2>3. f \in [0 .. m -> Used(t)]
    BY <1>0, <2>2
  <2>4. ASSUME NEW x \in 0 .. m, NEW y \in 0 .. m, f[x] = f[y] PROVE x = y
    <3>1. x \in 0 .. n - 1 /\ y \in 0 .. n - 1
      BY <1>0
    <3>2. Slot(n, h, x) = Slot(n, h, y)
      BY <2>1, <2>4
    <3> QED
      BY <1>0, <3>1, <3>2, SlotsDiffer
  <2>5. IsFiniteSet(0 .. m) /\ Cardinality(0 .. m) = m + 1
    BY <1>0, FS_Interval
  <2> HIDE DEF f
  <2>6. Cardinality(0 .. m) <= m
    BY <1>0, <2>3, <2>4, <2>5, NoCollision
  <2> QED
    BY <1>0, <2>5, <2>6
<1>2. PICK d \in 1 .. m : Probe(t, h, d) \notin Used(t)
  BY <1>1
<1>3. \A x \in Nat : Probe(t, h, x) \in Indices(t)
  BY <1>0, ProbeIn
<1>4. d \in 1 .. Limit - 1 /\ Probe(t, h, d) \in Indices(t)
  BY <1>0, <1>3
<1>5. d \in E
  BY <1>2, <1>4 DEF EmptyWithin, Used
<1>6. E \in SUBSET Nat
  BY DEF EmptyWithin
<1>7. Min(E) \in E /\ Min(E) <= d
  BY <1>5, <1>6, LeastOf
<1>8. Min(E) \in Nat
  BY <1>6, <1>7
<1>9. Min(E) \in Reach /\ ~Occupied(t, Probe(t, h, Min(E)))
  BY <1>7 DEF EmptyWithin, Reach
<1>10. Min(E) <= t.mask
  BY <1>0, <1>7, <1>8
<1>11. Probe(t, h, Min(E)) \in Indices(t) \ Used(t)
  BY <1>3, <1>8, <1>9 DEF Used
<1> QED
  BY <1>5, <1>7, <1>9, <1>10, <1>11

-----------------------------------------------------------------------------
(* Insertion.                                                              *)

(* A well-formed table: its used buckets are chained, the others have been *)
(* forgotten, and the count is right and within the load factor.           *)
Clean(t) == \A b \in Indices(t) \ Used(t) : t.buckets[b] = End
Counted(t) == t.count = Cardinality(Used(t)) /\ t.count * 10 <= BucketCount(t) * 9
WF(L, t) == Sound(L, t, Used(t)) /\ Clean(t) /\ Counted(t)

(* What the table holds.                                                   *)
Ent(t) == {t.buckets[b] : b \in Used(t)}

(* A key that takes its home bucket.                                       *)
AtHome(t, h, k, v) ==
  [t EXCEPT !.count = @ + 1, !.buckets[h] = [key |-> k, val |-> v],
            !.metadata[h] = [frag |-> HashFrag(k), home |-> TRUE, disp |-> Limit]]

Settled(t, u, h, e) ==
  /\ Shaped(u) /\ u.count = t.count + 1 /\ u.mask = t.mask /\ Indices(u) = Indices(t)
  /\ u.buckets[h] = e
  /\ \A x \in Indices(t) : x # h => u.buckets[x] = t.buckets[x]
  /\ \A x \in Indices(t) : x # h => u.metadata[x] = t.metadata[x]
  /\ u.metadata[h].disp = Limit
  /\ u.metadata[h].frag = HashFrag(e.key)
  /\ u.metadata[h].home = TRUE

(* What it changes.                                                        *)
LEMMA SettleFields ==
  ASSUME NEW t, Shaped(t), Limit \in Nat, NEW h \in Indices(t), NEW k \in Keys,
         NEW v \in Values
  PROVE  Settled(t, AtHome(t, h, k, v), h, [key |-> k, val |-> v])
<1> DEFINE e == [key |-> k, val |-> v]
           u == AtHome(t, h, k, v)
           new == [frag |-> HashFrag(k), home |-> TRUE, disp |-> Limit]
           md == [t.metadata EXCEPT ![h] = new]
           bk == [t.buckets EXCEPT ![h] = e]
<1>1. /\ u.count = t.count + 1 /\ u.mask = t.mask /\ u.metadata = md
      /\ u.buckets = bk /\ Record(u)
  <2>1. DOMAIN t = {"count", "mask", "metadata", "buckets"}
    BY DEF Shaped, Record
  <2> QED
    BY <2>1 DEF AtHome, Record
<1>2. t.metadata \in [Indices(t) -> Metadatum]
      /\ t.buckets \in [Indices(t) -> Bucket \cup {End}] /\ t.count \in Nat /\ t.mask \in Nat
  BY DEF Shaped
<1>3. new \in Metadatum /\ e \in Bucket
  BY FragIn DEF Metadatum, Bucket
<1>4. new.disp = Limit /\ new.frag = HashFrag(e.key) /\ new.home = TRUE
  OBVIOUS
<1> HIDE DEF new, e
<1>5. /\ bk[h] = e /\ bk \in [Indices(t) -> Bucket \cup {End}]
      /\ \A x \in Indices(t) : x # h => bk[x] = t.buckets[x]
  BY <1>2, <1>3
<1>6. /\ md[h] = new /\ md \in [Indices(t) -> Metadatum]
      /\ \A x \in Indices(t) : x # h => md[x] = t.metadata[x]
  BY <1>2, <1>3
<1> HIDE DEF md, bk, u
<1>7. Indices(u) = Indices(t)
  BY <1>1 DEF Indices
<1>8. Shaped(u)
  BY <1>1, <1>2, <1>5, <1>6, <1>7 DEF Shaped
<1>9. Settled(t, u, h, e)
  BY <1>1, <1>4, <1>5, <1>6, <1>7, <1>8 DEF Settled
<1> QED
  BY <1>9 DEF u, e

(* The chain that begins there.                                            *)
LEMMA HomeSound ==
  ASSUME NEW t, Limit \in Nat \ {0}, NEW M, Sound(Limit, t, M), NEW u, NEW h \in Indices(t),
         h \notin M, NEW e \in Bucket, Settled(t, u, h, e), HomeBucket(t, e.key) = h,
         Fresh(t, M, e.key)
  PROVE  Sound(Limit, u, M \cup {h})
<1> DEFINE n == t.mask + 1
<1>0. Shaped(t) /\ Dyadic(n) /\ Filled(t, M) /\ n \in Nat /\ t.mask \in Nat
      /\ Indices(t) = 0 .. n - 1
  BY DEF Sound, Shaped, Indices
<1>1. PICK ps : Laid(Limit, t, M, ps)
  BY DEF Sound
<1>2. \A x \in M : x \in Indices(t) /\ x # h
  BY <1>0, <1>1, LaidMember
<1>3. /\ Shaped(u) /\ u.mask = t.mask /\ Indices(u) = Indices(t)
      /\ u.buckets[h] = e
      /\ \A x \in Indices(t) : x # h => u.buckets[x] = t.buckets[x]
      /\ \A x \in Indices(t) : x # h => u.metadata[x] = t.metadata[x]
      /\ u.metadata[h].disp = Limit
      /\ u.metadata[h].frag = HashFrag(e.key)
      /\ u.metadata[h].home = TRUE
  BY Zenon DEF Settled
<1>4. \A k : HomeBucket(u, k) = HomeBucket(t, k)
  BY <1>3 DEF HomeBucket
<1>5. Agree(M, Hm(t), Hm(u)) /\ Hm(u)[h] = h
  BY <1>2, <1>3, <1>4 DEF Hm, Agree
<1>6. Agree(M, Dp(t), Dp(u)) /\ Dp(u)[h] = Limit
  BY <1>2, <1>3 DEF Dp, Agree
<1>7. PICK ps2 : Agree(M, ps, ps2) /\ ps2[h] = 0
  <2> DEFINE q == [x \in M \cup {h} |-> IF x = h THEN 0 ELSE ps[x]]
  <2>1. q[h] = 0 /\ Agree(M, ps, q)
    BY DEF Agree
  <2> HIDE DEF q
  <2> QED
    BY <2>1
<1>8. Chained(n, Limit, M \cup {h}, Hm(u), ps2, Dp(u))
  <2>1. Chained(n, Limit, M, Hm(t), ps, Dp(t))
    BY <1>1 DEF Laid
  <2>2. h \in 0 .. n - 1
    BY <1>0
  <2> HIDE DEF n
  <2> QED
    BY <1>0, <1>5, <1>6, <1>7, <2>1, <2>2, ChainBegin
<1>9. Laid(Limit, u, M \cup {h}, ps2)
  BY <1>3, <1>8 DEF Laid
<1>10. Filled(u, M \cup {h})
  <2>1. ASSUME NEW x \in M \cup {h}
        PROVE  /\ u.buckets[x] \in Bucket /\ u.metadata[x].frag = HashFrag(u.buckets[x].key)
               /\ u.metadata[x].home <=> x = Hm(u)[x]
    <3>1. CASE x = h
      BY <1>3, <1>5, <3>1
    <3>2. CASE x \in M
      <4>1. u.metadata[x] = t.metadata[x] /\ u.buckets[x] = t.buckets[x]
            /\ Hm(u)[x] = Hm(t)[x]
        BY <1>2, <1>3, <1>5, <3>2 DEF Agree
      <4> QED
        BY <1>0, <3>2, <4>1 DEF Filled
    <3> QED
      BY <3>1, <3>2
  <2>2. ASSUME NEW x \in M \cup {h}, NEW y \in M \cup {h}, u.buckets[x].key = u.buckets[y].key
        PROVE  x = y
    <3>1. \A z \in M : u.buckets[z] = t.buckets[z] /\ t.buckets[z].key # e.key
      BY <1>2, <1>3 DEF Fresh
    <3> QED
      BY <1>0, <1>3, <2>2, <3>1 DEF Filled
  <2> QED
    BY <2>1, <2>2 DEF Filled
<1>11. Dyadic(u.mask + 1)
  BY <1>0, <1>3
<1> QED
  BY <1>3, <1>9, <1>10, <1>11 DEF Sound

(* One more bucket is used.                                                *)
LEMMA AddBucket ==
  ASSUME NEW t, WF(Limit, t), HasRoom(t), NEW u, NEW c \in Indices(t) \ Used(t),
         Sound(Limit, u, Used(t) \cup {c}), u.mask = t.mask, u.count = t.count + 1,
         \A x \in Indices(t) \ (Used(t) \cup {c}) :
           u.metadata[x] = t.metadata[x] /\ u.buckets[x] = t.buckets[x]
  PROVE  Used(u) = Used(t) \cup {c} /\ WF(Limit, u)
<1> DEFINE M == Used(t) \cup {c}
<1>0. Shaped(t) /\ t.mask \in Nat /\ Indices(u) = Indices(t) /\ Clean(t)
      /\ t.count = Cardinality(Used(t)) /\ t.count \in Nat /\ Shaped(u)
  BY DEF WF, Sound, Shaped, Indices, Counted
<1>1. PICK ps : Laid(Limit, u, M, ps)
  BY DEF Sound
<1>2. \A x \in M : x \in Used(u)
  BY <1>0, <1>1, LaidMember
<1>3. \A x \in Used(u) : x \in M
  <2> SUFFICES ASSUME NEW x \in Indices(t), x \notin M PROVE x \notin Used(u)
    BY <1>0 DEF Used
  <2>1. u.metadata[x] = t.metadata[x] /\ x \notin Used(t)
    OBVIOUS
  <2> QED
    BY <2>1 DEF Used, Occupied
<1>4. Used(u) = M
  BY <1>2, <1>3
<1>5. Clean(u)
  <2> SUFFICES ASSUME NEW x \in Indices(t), x \notin M PROVE u.buckets[x] = End
    BY <1>0, <1>4 DEF Clean
  <2> QED
    BY <1>0 DEF Clean
<1>6. Counted(u)
  <2>1. IsFiniteSet(Used(t))
    BY <1>0, UsedFinite
  <2>2. Cardinality(M) = Cardinality(Used(t)) + 1
    BY <2>1, FS_AddElement
  <2>3. BucketCount(u) = BucketCount(t) /\ (t.count + 1) * 10 <= BucketCount(t) * 9
    BY DEF BucketCount, HasRoom
  <2> QED
    BY <1>0, <1>4, <2>2, <2>3 DEF Counted
<1> QED
  BY <1>4, <1>5, <1>6 DEF WF

(* A key that leaves its place.                                            *)
Evicted(t, u, b, c) ==
  /\ Sound(Limit, u, (Used(t) \ {b}) \cup {c}) /\ SameFrame(t, u)
  /\ Indices(u) = Indices(t) /\ u.buckets[c] = t.buckets[b]
  /\ \A x \in Indices(t) : x # c => u.buckets[x] = t.buckets[x]
  /\ \A x \in Indices(t) \ (Used(t) \cup {c}) : u.metadata[x] = t.metadata[x]

(* evict() finds another place for a key.                                  *)
LEMMA EvictIs ==
  ASSUME NEW t, WF(Limit, t), HasRoom(t), Roomy, NEW b \in Used(t), b # Hm(t)[b]
  PROVE  /\ Evict(t, b).ok
         /\ \E c \in Indices(t) \ Used(t) : Evicted(t, Evict(t, b).table, b, c)
<1> DEFINE h == Hm(t)[b]
           M == Used(t)
           w == Unlink(t, Previous(t, h, b), b)
           d == Min(EmptyWithin(w, h))
           e == t.buckets[b]
           c == Probe(w, h, d)
<1>0. /\ Shaped(t) /\ Dyadic(t.mask + 1) /\ Filled(t, M) /\ Limit \in Nat /\ t.mask \in Nat
      /\ t.count = Cardinality(M) /\ t.count \in Nat /\ Cardinality(Keys) < Limit
      /\ Sound(Limit, t, M)
  BY DEF WF, Sound, Roomy, Shaped, Counted
<1>1. PICK ps : Laid(Limit, t, M, ps)
  BY <1>0 DEF Sound
<1>2. h = HomeBucket(t, e.key) /\ h \in M /\ h # b /\ Hm(t)[h] = h
  BY <1>0, <1>1, LaidMember
<1>3. /\ Sound(Limit, w, M \ {b}) /\ SameFrame(t, w) /\ w.buckets = t.buckets
      /\ Indices(w) = Indices(t) /\ Hm(w) = Hm(t)
      /\ \A x \in Indices(t) \ (M \ {b}) : w.metadata[x] = t.metadata[x]
  <2>1. Limit \in Nat /\ Sound(Limit, t, M) /\ b \in M
    BY <1>0
  <2> HIDE DEF M
  <2> QED
    BY <2>1, UnlinkSound
<1>4. Evict(t, b) = Relinked(w, h, b)
  BY <1>2 DEF Evict
<1> HIDE DEF w, h
<1>5. Shaped(w) /\ w.mask = t.mask /\ Dyadic(w.mask + 1)
  BY <1>3 DEF Sound, SameFrame
<1>6. Used(w) = M
  <2>1. PICK qs : Laid(Limit, w, M \ {b}, qs)
    BY <1>3 DEF Sound
  <2>2. \A x \in M \ {b} : x \in Used(w)
    BY <1>5, <2>1, LaidMember
  <2>3. \A x \in Indices(t) \ (M \ {b}) : x \in Used(w) <=> x \in M
    BY <1>3 DEF Used, Occupied
  <2>4. M \subseteq Indices(t) /\ Used(w) \subseteq Indices(t)
    BY <1>3 DEF Used
  <2> HIDE DEF M
  <2> QED
    BY <2>2, <2>3, <2>4
<1>7. Cardinality(M) <= t.mask /\ Cardinality(M) < Limit
  <2>1. Cardinality(M) <= Cardinality(Keys)
    BY <1>0, UsedKeys
  <2>2. Cardinality(Keys) \in Nat
    BY FS_CardinalityType, ClientAssumption
  <2>3. (t.count + 1) * 10 <= BucketCount(t) * 9
    BY DEF HasRoom
  <2>4. BucketCount(t) = IF t.mask = 0 THEN 0 ELSE t.mask + 1
    BY DEF BucketCount
  <2>5. t.count <= t.mask
    BY <1>0, <2>3, <2>4
  <2> QED
    BY <1>0, <2>1, <2>2, <2>5
<1>8. /\ EmptyWithin(w, h) # {} /\ d \in Reach /\ d <= w.mask /\ c \in Indices(w) \ Used(w)
  BY <1>0, <1>2, <1>5, <1>6, <1>7, PlaceExists
<1> DEFINE u == Link(w, h, d, e, HashFrag(e.key))
<1>9. Evict(t, b).ok /\ Evict(t, b).table = u
  <2>1. w.buckets[b] = e
    BY <1>3
  <2>2. w.metadata[b].frag = HashFrag(e.key)
    <3>1. t.metadata[b].frag = HashFrag(e.key)
      BY <1>0 DEF Filled
    <3>2. b \in Indices(t)
      BY DEF Used
    <3>3. w.metadata[b] = t.metadata[b]
      BY <1>3, <3>2
    <3> QED
      BY <3>1, <3>3
  <2> QED
    BY <1>4, <1>8, <2>1, <2>2 DEF Relinked
<1>10. /\ e \in Bucket /\ HomeBucket(w, e.key) = h /\ Fresh(w, M \ {b}, e.key)
       /\ h \in M \ {b} /\ Hm(w)[h] = h
  <2>1. e \in Bucket /\ \A x \in M \ {b} : t.buckets[x].key # e.key
    BY <1>0 DEF Filled
  <2> QED
    BY <1>2, <1>3, <1>5, <2>1 DEF HomeBucket, Fresh
<1>11. c \notin M \ {b} /\ c \in Indices(t) \ Used(t)
  BY <1>3, <1>6, <1>8
<1> HIDE DEF d, e, M
<1>12. /\ Sound(Limit, u, (M \ {b}) \cup {c}) /\ SameFrame(w, u) /\ Indices(u) = Indices(w)
       /\ u.buckets[c] = e
       /\ \A x \in Indices(w) : x # c => u.buckets[x] = w.buckets[x]
       /\ \A x \in Indices(w) \ ((M \ {b}) \cup {c}) : u.metadata[x] = w.metadata[x]
  <2> DEFINE N == M \ {b}
  <2>1. /\ Limit \in Nat /\ Sound(Limit, w, N) /\ h \in N /\ Hm(w)[h] = h
        /\ d \in Reach /\ d <= w.mask /\ Probe(w, h, d) \notin N
        /\ e \in Bucket /\ HomeBucket(w, e.key) = h /\ Fresh(w, N, e.key)
    BY <1>0, <1>3, <1>8, <1>10, <1>11
  <2> HIDE DEF N
  <2>2. /\ Sound(Limit, u, N \cup {c}) /\ SameFrame(w, u) /\ Indices(u) = Indices(w)
        /\ u.buckets[c] = e
        /\ \A x \in Indices(w) : x # c => u.buckets[x] = w.buckets[x]
        /\ \A x \in Indices(w) \ (N \cup {c}) : u.metadata[x] = w.metadata[x]
    BY <2>1, LinkSound
  <2> QED
    BY <2>2 DEF N
<1> HIDE DEF u, c
<1>13. Evicted(t, u, b, c)
  <2>1. SameFrame(t, u) /\ Indices(u) = Indices(t)
    BY <1>3, <1>12 DEF SameFrame
  <2>2. u.buckets[c] = t.buckets[b] /\ \A x \in Indices(t) : x # c => u.buckets[x] = t.buckets[x]
    BY <1>3, <1>12 DEF e
  <2>3. \A x \in Indices(t) \ (M \cup {c}) : u.metadata[x] = t.metadata[x]
    BY <1>3, <1>12
  <2> QED
    BY <1>12, <2>1, <2>2, <2>3 DEF Evicted, M
<1> QED
  BY <1>9, <1>11, <1>13

(* A new entry e is in bucket at.                                          *)
Adds(t, u, at, e) ==
  /\ WF(Limit, u) /\ u.count = t.count + 1 /\ Ent(u) = Ent(t) \cup {e}
  /\ at \in Used(u) /\ u.buckets[at] = e

(* Where a key is, its home bucket begins a chain.                         *)
LEMMA KeyHome ==
  ASSUME NEW t, WF(Limit, t), NEW b \in Used(t)
  PROVE  LET h == HomeBucket(t, t.buckets[b].key)
         IN h \in Used(t) /\ Hm(t)[h] = h /\ t.metadata[h].home
<1> DEFINE h == HomeBucket(t, t.buckets[b].key)
<1>0. Shaped(t) /\ Filled(t, Used(t))
  BY DEF WF, Sound
<1>1. PICK ps : Laid(Limit, t, Used(t), ps)
  BY DEF WF, Sound
<1>2. h \in Used(t) /\ Hm(t)[h] = h
  BY <1>0, <1>1, LaidMember
<1>3. t.metadata[h].home <=> h = Hm(t)[h]
  BY <1>0, <1>2 DEF Filled
<1> QED
  BY <1>2, <1>3

(* insert_raw() for a key whose home bucket does not begin a chain.        *)
LEMMA InsertHomeIs ==
  ASSUME NEW t, WF(Limit, t), Roomy, Limit # 0, NEW k \in Keys, NEW v \in Values,
         ~t.metadata[HomeBucket(t, k)].home
  PROVE  /\ Fresh(t, Used(t), k)
         /\ \/ /\ InsertHome(t, k, v).at = End /\ InsertHome(t, k, v).table = t
               /\ ~HasRoom(t)
            \/ Adds(t, InsertHome(t, k, v).table, InsertHome(t, k, v).at,
                    [key |-> k, val |-> v])
<1> DEFINE h == HomeBucket(t, k)
           e == [key |-> k, val |-> v]
           M == Used(t)
           r == InsertHome(t, k, v)
<1>0. /\ Shaped(t) /\ Filled(t, M) /\ Limit \in Nat \ {0} /\ t.mask \in Nat
      /\ Sound(Limit, t, M) /\ h \in Indices(t)
  BY HomeIn DEF WF, Sound, Roomy, Shaped
<1>1. Fresh(t, M, k)
  BY KeyHome DEF Fresh
<1>2. CASE ~HasRoom(t)
  BY <1>1, <1>2 DEF InsertHome
<1>3. ASSUME HasRoom(t), NEW w, r = [at |-> h, table |-> AtHome(w, h, k, v)],
             NEW c \in Indices(t) \ M, NEW N, Sound(Limit, w, N), h \notin N,
             N \cup {h} = M \cup {c}, Fresh(w, N, k), SameFrame(t, w),
             Indices(w) = Indices(t),
             {w.buckets[x] : x \in N} = Ent(t),
             \A x \in Indices(t) \ (M \cup {c}) :
               w.metadata[x] = t.metadata[x] /\ w.buckets[x] = t.buckets[x]
      PROVE  Adds(t, r.table, r.at, e)
  <2> DEFINE u == AtHome(w, h, k, v)
  <2>1. r.table = u /\ r.at = h
    BY <1>3
  <2>2. e \in Bucket /\ e.key = k
    BY DEF Bucket
  <2>3. Shaped(w) /\ w.mask = t.mask /\ w.count = t.count
    BY <1>3 DEF Sound, SameFrame
  <2>4. Settled(w, u, h, e)
    BY <1>0, <1>3, <2>3, SettleFields
  <2>5. HomeBucket(w, e.key) = h
    BY <2>2, <2>3 DEF HomeBucket
  <2> HIDE DEF h, u, e, r
  <2>6. Sound(Limit, u, N \cup {h})
    BY <1>0, <1>3, <2>2, <2>4, <2>5, HomeSound
  <2>7. /\ Shaped(u) /\ u.count = t.count + 1 /\ u.mask = t.mask
        /\ u.buckets[h] = e
        /\ \A x \in Indices(t) : x # h => u.buckets[x] = w.buckets[x]
        /\ \A x \in Indices(t) : x # h => u.metadata[x] = w.metadata[x]
    BY <1>3, <2>3, <2>4 DEF Settled
  <2>8. \A x \in Indices(t) \ (M \cup {c}) :
          u.metadata[x] = t.metadata[x] /\ u.buckets[x] = t.buckets[x]
    BY <1>3, <2>7
  <2>9. Used(u) = M \cup {c} /\ WF(Limit, u)
    <3>1. Sound(Limit, u, M \cup {c})
      BY <1>3, <2>6
    <3> QED
      BY <1>3, <2>7, <2>8, <3>1, AddBucket
  <2>10. Ent(u) = Ent(t) \cup {e}
    <3>1. Used(u) = N \cup {h}
      BY <1>3, <2>9
    <3>2. N \subseteq Indices(t)
      <4>1. M \subseteq Indices(t)
        BY DEF Used
      <4> QED
        BY <1>3, <4>1
    <3>3. \A x \in N : u.buckets[x] = w.buckets[x]
      BY <1>3, <2>7, <3>2
    <3>4. Ent(u) = {u.buckets[x] : x \in N} \cup {u.buckets[h]}
      BY <3>1 DEF Ent
    <3>5. {u.buckets[x] : x \in N} = {w.buckets[x] : x \in N}
      BY <3>3
    <3> QED
      BY <1>3, <2>7, <3>4, <3>5
  <2> QED
    BY <1>3, <2>1, <2>7, <2>9, <2>10 DEF Adds
<1>4. CASE HasRoom(t) /\ h \notin M
  <2>1. r = [at |-> h, table |-> AtHome(t, h, k, v)]
    BY <1>0, <1>4 DEF InsertHome, SettleHome, AtHome, Used
  <2>2. h \in Indices(t) \ M /\ SameFrame(t, t) /\ {t.buckets[x] : x \in M} = Ent(t)
    BY <1>0, <1>4 DEF SameFrame, Ent
  <2> HIDE DEF h, r, M, e
  <2>3. Adds(t, r.table, r.at, e)
    BY <1>0, <1>1, <1>3, <1>4, <2>1, <2>2
  <2> QED
    BY <1>1, <2>3 DEF r, M, e
<1>5. CASE HasRoom(t) /\ h \in M
  <2>1. h # Hm(t)[h]
    BY <1>0, <1>5 DEF Filled
  <2>2. Evict(t, h).ok /\ \E c \in Indices(t) \ M : Evicted(t, Evict(t, h).table, h, c)
    BY <1>5, <2>1, EvictIs
  <2> DEFINE w == Evict(t, h).table
  <2>3. PICK c \in Indices(t) \ M : Evicted(t, w, h, c)
    BY <2>2
  <2>4. r = [at |-> h, table |-> AtHome(w, h, k, v)]
    BY <1>0, <1>5, <2>2 DEF InsertHome, SettleHome, AtHome, Used
  <2> DEFINE N == (M \ {h}) \cup {c}
  <2> HIDE DEF w, h, r, M, e
  <2>5. /\ Sound(Limit, w, N) /\ SameFrame(t, w) /\ Indices(w) = Indices(t)
        /\ w.buckets[c] = t.buckets[h]
        /\ \A x \in Indices(t) : x # c => w.buckets[x] = t.buckets[x]
        /\ \A x \in Indices(t) \ (M \cup {c}) : w.metadata[x] = t.metadata[x]
    BY <2>3 DEF Evicted, M
  <2>6. h \notin N /\ N \cup {h} = M \cup {c}
    BY <1>5
  <2>7. M \subseteq Indices(t)
    BY DEF M, Used
  <2>8. Fresh(w, N, k)
    BY <1>1, <1>5, <2>5, <2>7 DEF Fresh
  <2>9. {w.buckets[x] : x \in N} = Ent(t)
    <3>1. Ent(t) = {t.buckets[x] : x \in M}
      BY DEF Ent, M
    <3>2. \A x \in N : \E y \in M : w.buckets[x] = t.buckets[y]
      BY <1>5, <2>5, <2>7
    <3>3. \A y \in M : \E x \in N : w.buckets[x] = t.buckets[y]
      <4> SUFFICES ASSUME NEW y \in M PROVE \E x \in N : w.buckets[x] = t.buckets[y]
        OBVIOUS
      <4>1. CASE y = h
        BY <2>5, <4>1
      <4>2. CASE y # h
        <5>1. y \in N /\ y # c /\ y \in Indices(t)
          BY <2>7, <4>2
        <5> QED
          BY <2>5, <5>1
      <4> QED
        BY <4>1, <4>2
    <3> HIDE DEF N
    <3> QED
      BY <3>1, <3>2, <3>3
  <2> HIDE DEF N
  <2>10. Adds(t, r.table, r.at, e)
    BY <1>3, <1>5, <2>4, <2>5, <2>6, <2>8, <2>9
  <2> QED
    BY <1>1, <2>10 DEF r, M, e
<1> QED
  BY <1>2, <1>4, <1>5

(* The table with another count.                                           *)
Recount(t, u, m) ==
  /\ Record(u) /\ u.count = m /\ u.mask = t.mask /\ u.metadata = t.metadata
  /\ u.buckets = t.buckets

(* It has the same chains.                                                 *)
LEMMA RecountSound ==
  ASSUME NEW t, NEW M, Sound(Limit, t, M), NEW m \in Nat, NEW u, Recount(t, u, m)
  PROVE  /\ Sound(Limit, u, M) /\ Shaped(u) /\ Indices(u) = Indices(t)
         /\ Hm(u) = Hm(t) /\ Used(u) = Used(t)
<1>1. /\ Record(u) /\ u.count = m /\ u.mask = t.mask /\ u.metadata = t.metadata
      /\ u.buckets = t.buckets
  BY DEF Recount
<1>2. Indices(u) = Indices(t)
  BY <1>1 DEF Indices
<1>3. Hm(u) = Hm(t) /\ Dp(u) = Dp(t)
  BY <1>1, <1>2 DEF Hm, Dp, HomeBucket
<1>4. Shaped(u)
  BY <1>1, <1>2 DEF Sound, Shaped
<1>5. Filled(u, M)
  BY <1>1, <1>3 DEF Sound, Filled
<1>6. \E ps : Laid(Limit, u, M, ps)
  BY <1>1, <1>3 DEF Sound, Laid
<1>7. Dyadic(u.mask + 1)
  BY <1>1 DEF Sound
<1>8. Used(u) = Used(t)
  BY <1>1, <1>2 DEF Used, Occupied
<1> QED
  BY <1>2, <1>3, <1>4, <1>5, <1>6, <1>7, <1>8 DEF Sound

(* A table with room has fewer used buckets than buckets and reach.        *)
LEMMA RoomLeft ==
  ASSUME NEW t, WF(Limit, t), HasRoom(t), Roomy
  PROVE  Cardinality(Used(t)) <= t.mask /\ Cardinality(Used(t)) < Limit
<1>0. /\ Shaped(t) /\ Filled(t, Used(t)) /\ Limit \in Nat /\ t.mask \in Nat
      /\ t.count = Cardinality(Used(t)) /\ t.count \in Nat /\ Cardinality(Keys) < Limit
  BY DEF WF, Sound, Roomy, Shaped, Counted
<1>1. Cardinality(Used(t)) <= Cardinality(Keys)
  BY <1>0, UsedKeys
<1>2. Cardinality(Keys) \in Nat
  BY FS_CardinalityType, ClientAssumption
<1>3. (t.count + 1) * 10 <= BucketCount(t) * 9
  BY DEF HasRoom
<1>4. BucketCount(t) = IF t.mask = 0 THEN 0 ELSE t.mask + 1
  BY DEF BucketCount
<1>5. t.count <= t.mask
  BY <1>0, <1>3, <1>4
<1> QED
  BY <1>0, <1>1, <1>2, <1>5

(* insert_raw() for a key whose chain does not have it.                    *)
LEMMA InsertChainIs ==
  ASSUME NEW t, WF(Limit, t), Roomy, NEW k \in Keys, NEW v \in Values,
         t.metadata[HomeBucket(t, k)].home, Fresh(t, Used(t), k)
  PROVE  \/ /\ InsertChain(t, k, v).at = End /\ InsertChain(t, k, v).table = t
            /\ ~HasRoom(t)
         \/ Adds(t, InsertChain(t, k, v).table, InsertChain(t, k, v).at,
                 [key |-> k, val |-> v])
<1> DEFINE h == HomeBucket(t, k)
           e == [key |-> k, val |-> v]
           M == Used(t)
           d == Min(EmptyWithin(t, h))
           c == Probe(t, h, d)
           w == Link(t, h, d, e, HashFrag(k))
           u == [w EXCEPT !.count = @ + 1]
           r == InsertChain(t, k, v)
<1>0. /\ Shaped(t) /\ Filled(t, M) /\ Limit \in Nat /\ t.mask \in Nat
      /\ Sound(Limit, t, M) /\ h \in Indices(t) /\ Dyadic(t.mask + 1) /\ t.count \in Nat
  BY HomeIn DEF WF, Sound, Roomy, Shaped
<1>1. CASE ~HasRoom(t)
  BY <1>1 DEF InsertChain
<1>2. CASE HasRoom(t)
  <2>1. h \in M
    BY <1>0 DEF Used, Occupied, VT_EMPTY
  <2>2. Hm(t)[h] = h
    <3>1. t.metadata[h].home <=> h = Hm(t)[h]
      BY <1>0, <2>1 DEF Filled
    <3> QED
      BY <3>1
  <2>3. Cardinality(M) <= t.mask /\ Cardinality(M) < Limit
    BY <1>2, RoomLeft
  <2>4. EmptyWithin(t, h) # {} /\ d \in Reach /\ d <= t.mask /\ c \in Indices(t) \ M
    BY <1>0, <2>1, <2>3, PlaceExists
  <2>5. r.at = c /\ r.table = u
    BY <1>2, <2>4 DEF InsertChain
  <2>6. e \in Bucket /\ e.key = k
    BY DEF Bucket
  <2> DEFINE x == Link(t, h, d, e, HashFrag(e.key))
  <2>7. w = x
    BY <2>6
  <2>8. HomeBucket(t, e.key) = h /\ Fresh(t, M, e.key) /\ c \notin M
    BY <2>4, <2>6
  <2> HIDE DEF h, e, d, M, r
  <2>9. /\ Sound(Limit, x, M \cup {c}) /\ SameFrame(t, x) /\ Indices(x) = Indices(t)
        /\ x.buckets[c] = e
        /\ \A y \in Indices(t) : y # c => x.buckets[y] = t.buckets[y]
        /\ \A y \in Indices(t) \ (M \cup {c}) : x.metadata[y] = t.metadata[y]
    <3>1. Limit \in Nat /\ Sound(Limit, t, M)
      BY <1>0
    <3> QED
      BY <2>1, <2>2, <2>4, <2>6, <2>8, <3>1, LinkSound
  <2> HIDE DEF x, w, c
  <2>10. Recount(w, u, t.count + 1) /\ w.mask = t.mask
    <3>1. Shaped(w) /\ w.count = t.count /\ w.mask = t.mask
      BY <2>7, <2>9 DEF Sound, SameFrame
    <3>2. DOMAIN w = {"count", "mask", "metadata", "buckets"}
      BY <3>1 DEF Shaped, Record
    <3> QED
      BY <3>1, <3>2 DEF Recount, Record
  <2> HIDE DEF u
  <2>11. Sound(Limit, u, M \cup {c})
    <3>1. t.count + 1 \in Nat
      BY <1>0
    <3> QED
      BY <2>7, <2>9, <2>10, <3>1, RecountSound
  <2>12. /\ u.count = t.count + 1 /\ u.mask = t.mask /\ u.buckets[c] = e
         /\ \A y \in Indices(t) : y # c => u.buckets[y] = t.buckets[y]
         /\ \A y \in Indices(t) \ (M \cup {c}) :
              u.metadata[y] = t.metadata[y] /\ u.buckets[y] = t.buckets[y]
    BY <2>7, <2>9, <2>10 DEF Recount
  <2>13. Used(u) = M \cup {c} /\ WF(Limit, u)
    BY <1>2, <2>4, <2>11, <2>12, AddBucket DEF M
  <2>14. Ent(u) = Ent(t) \cup {e}
    <3>1. \A y \in M : y \in Indices(t) /\ y # c
      BY <2>4 DEF M, Used
    <3>2. \A y \in M : u.buckets[y] = t.buckets[y]
      BY <2>12, <3>1
    <3>3. Ent(u) = {u.buckets[y] : y \in M} \cup {u.buckets[c]}
      BY <2>13 DEF Ent
    <3>4. {u.buckets[y] : y \in M} = {t.buckets[y] : y \in M}
      BY <3>2
    <3> QED
      BY <2>12, <3>3, <3>4 DEF Ent, M
  <2>15. Adds(t, r.table, r.at, e)
    BY <2>5, <2>12, <2>13, <2>14 DEF Adds
  <2> QED
    BY <2>15 DEF r, e
<1> QED
  BY <1>1, <1>2

(* What the table holds when the value of the key in bucket b is replaced. *)
Replaced(t, u, b, e) ==
  /\ WF(Limit, u) /\ Used(u) = Used(t) /\ u.buckets[b] = e
  /\ Ent(u) = (Ent(t) \ {t.buckets[b]}) \cup {e}

(* insert() of a key that is there gives it its new value.                 *)
LEMMA ReplaceIs ==
  ASSUME NEW t, WF(Limit, t), NEW b \in Used(t), NEW e \in Bucket,
         e.key = t.buckets[b].key
  PROVE  Replaced(t, [t EXCEPT !.buckets[b] = e], b, e)
<1> DEFINE u == [t EXCEPT !.buckets[b] = e]
           M == Used(t)
<1>0. /\ Shaped(t) /\ Filled(t, M) /\ b \in Indices(t) /\ Dyadic(t.mask + 1)
      /\ t.buckets \in [Indices(t) -> Bucket \cup {End}] /\ Clean(t) /\ Counted(t)
  BY DEF WF, Sound, Shaped, Used
<1>1. PICK ps : Laid(Limit, t, M, ps)
  BY DEF WF, Sound
<1>2. /\ u.count = t.count /\ u.mask = t.mask /\ u.metadata = t.metadata
      /\ u.buckets = [t.buckets EXCEPT ![b] = e] /\ Record(u)
  <2>1. DOMAIN t = {"count", "mask", "metadata", "buckets"}
    BY <1>0 DEF Shaped, Record
  <2> QED
    BY <2>1 DEF Record
<1> HIDE DEF u
<1>3. /\ u.buckets[b] = e /\ u.buckets \in [Indices(t) -> Bucket \cup {End}]
      /\ \A x \in Indices(t) : x # b => u.buckets[x] = t.buckets[x]
      /\ \A x \in Indices(t) : u.buckets[x].key = t.buckets[x].key
  BY <1>0, <1>2
<1>4. Indices(u) = Indices(t)
  BY <1>2 DEF Indices
<1>5. Hm(u) = Hm(t) /\ Dp(u) = Dp(t)
  BY <1>2, <1>3, <1>4 DEF Hm, Dp, HomeBucket
<1>6. Used(u) = M
  BY <1>2, <1>4 DEF Used, Occupied
<1>7. \A x \in M : x \in Indices(t)
  BY DEF Used
<1>8. Filled(u, M)
  <2>1. \A x \in M : u.buckets[x] \in Bucket
    BY <1>0, <1>3, <1>7 DEF Filled
  <2>2. \A x \in M : u.buckets[x].key = t.buckets[x].key
    BY <1>3, <1>7
  <2> QED
    BY <1>0, <1>2, <1>5, <2>1, <2>2 DEF Filled
<1>9. Laid(Limit, u, M, ps)
  BY <1>1, <1>2, <1>5 DEF Laid
<1>10. Shaped(u)
  BY <1>0, <1>2, <1>3, <1>4 DEF Shaped
<1>11. Sound(Limit, u, M)
  BY <1>0, <1>2, <1>8, <1>9, <1>10 DEF Sound
<1>12. Clean(u)
  BY <1>0, <1>3, <1>4, <1>6 DEF Clean
<1>13. Counted(u)
  BY <1>0, <1>2, <1>6 DEF Counted, BucketCount
<1>14. WF(Limit, u)
  BY <1>6, <1>11, <1>12, <1>13 DEF WF
<1>15. Ent(u) = (Ent(t) \ {t.buckets[b]}) \cup {e}
  <2>1. Ent(u) = {u.buckets[x] : x \in M} /\ Ent(t) = {t.buckets[x] : x \in M}
    BY <1>6 DEF Ent
  <2>2. \A x \in M : x # b => t.buckets[x] # t.buckets[b] /\ u.buckets[x] = t.buckets[x]
    BY <1>0, <1>3, <1>7 DEF Filled
  <2> HIDE DEF M
  <2>3. b \in M
    BY DEF M
  <2>4. ASSUME NEW y \in Ent(u) PROVE y \in (Ent(t) \ {t.buckets[b]}) \cup {e}
    BY <1>3, <2>1, <2>2, <2>4
  <2>5. ASSUME NEW y \in (Ent(t) \ {t.buckets[b]}) \cup {e} PROVE y \in Ent(u)
    BY <1>3, <2>1, <2>2, <2>3, <2>5
  <2> QED
    BY <2>4, <2>5
<1> QED
  BY <1>3, <1>6, <1>14, <1>15 DEF Replaced, u

(* The table u has key k in bucket at, and else what t has.                *)
Stores(t, u, at, k, v, replace) ==
  /\ WF(Limit, u) /\ at \in Used(u)
  /\ \/ Fresh(t, Used(t), k) /\ Adds(t, u, at, [key |-> k, val |-> v])
     \/ \E b \in Used(t) :
          /\ t.buckets[b].key = k
          /\ replace => /\ u.buckets[at] = [key |-> k, val |-> v]
                        /\ Ent(u) = (Ent(t) \ {t.buckets[b]}) \cup {[key |-> k, val |-> v]}
          /\ ~replace => u.buckets[at] = t.buckets[b] /\ Ent(u) = Ent(t)

(* insert_raw() of a key that the table does not have.                     *)
LEMMA InsertNewIs ==
  ASSUME NEW t, WF(Limit, t), Roomy, Limit # 0, NEW k \in Keys, NEW v \in Values,
         Fresh(t, Used(t), k)
  PROVE  LET r == InsertRaw(t, k, v, TRUE, FALSE)
         IN \/ r.at = End /\ r.table = t
            \/ Adds(t, r.table, r.at, [key |-> k, val |-> v])
<1> DEFINE r == InsertRaw(t, k, v, TRUE, FALSE)
           e == [key |-> k, val |-> v]
<1>1. CASE ~t.metadata[HomeBucket(t, k)].home
  <2>1. r = InsertHome(t, k, v)
    BY <1>1 DEF InsertRaw
  <2> HIDE DEF r, e
  <2>2. \/ InsertHome(t, k, v).at = End /\ InsertHome(t, k, v).table = t
        \/ Adds(t, InsertHome(t, k, v).table, InsertHome(t, k, v).at, e)
    BY <1>1, InsertHomeIs DEF e
  <2> QED
    BY <2>1, <2>2 DEF r, e
<1>2. CASE t.metadata[HomeBucket(t, k)].home
  <2>1. r = InsertChain(t, k, v)
    BY <1>2 DEF InsertRaw, Placed
  <2> HIDE DEF r, e
  <2>2. \/ InsertChain(t, k, v).at = End /\ InsertChain(t, k, v).table = t
        \/ Adds(t, InsertChain(t, k, v).table, InsertChain(t, k, v).at, e)
    BY <1>2, InsertChainIs DEF e
  <2> QED
    BY <2>1, <2>2 DEF r, e
<1> QED
  BY <1>1, <1>2

(* insert_raw() of any key.                                                *)
RawIs(t, r, k, v, replace) ==
  \/ r.at = End /\ r.table = t
  \/ Stores(t, r.table, r.at, k, v, replace)

(* insert_raw(): the key has a place, or the table is as it was.           *)
LEMMA InsertRawIs ==
  ASSUME NEW t, WF(Limit, t), Roomy, Limit # 0, NEW k \in Keys, NEW v \in Values,
         NEW replace \in BOOLEAN
  PROVE  RawIs(t, InsertRaw(t, k, v, FALSE, replace), k, v, replace)
<1> DEFINE r == InsertRaw(t, k, v, FALSE, replace)
           e == [key |-> k, val |-> v]
<1>0. Limit \in Nat /\ Sound(Limit, t, Used(t)) /\ Filled(t, Used(t)) /\ Shaped(t)
  BY DEF Roomy, WF, Sound
<1>1. ASSUME Fresh(t, Used(t), k), Adds(t, r.table, r.at, e)
      PROVE  RawIs(t, r, k, v, replace)
  <2>1. WF(Limit, r.table) /\ r.at \in Used(r.table)
    BY <1>1 DEF Adds
  <2> HIDE DEF r
  <2> QED
    BY <1>1, <2>1 DEF RawIs, Stores
<1>2. CASE ~t.metadata[HomeBucket(t, k)].home
  <2>1. r = InsertHome(t, k, v)
    BY <1>2 DEF InsertRaw
  <2> HIDE DEF r, e
  <2>2. /\ Fresh(t, Used(t), k)
        /\ \/ r.at = End /\ r.table = t
           \/ Adds(t, r.table, r.at, e)
    BY <1>2, <2>1, InsertHomeIs DEF e
  <2>3. RawIs(t, r, k, v, replace)
    BY <1>1, <2>2 DEF RawIs
  <2> QED
    BY <2>3 DEF r
<1>3. CASE t.metadata[HomeBucket(t, k)].home
  <2> DEFINE b == Lookup(t, k)
  <2>1. r = Placed(t, b, k, v, replace)
    BY <1>3 DEF InsertRaw
  <2>2. \/ b = End /\ Fresh(t, Used(t), k)
        \/ b \in Used(t) /\ t.buckets[b].key = k
    BY <1>0, LookupIs DEF Fresh
  <2> HIDE DEF b
  <2>3. CASE b = End /\ Fresh(t, Used(t), k)
    <3>1. r = InsertChain(t, k, v)
      BY <2>1, <2>3 DEF Placed
    <3> HIDE DEF r, e
    <3>2. \/ r.at = End /\ r.table = t
          \/ Adds(t, r.table, r.at, e)
      BY <1>3, <2>3, <3>1, InsertChainIs DEF e
    <3>3. RawIs(t, r, k, v, replace)
      BY <1>1, <2>3, <3>2 DEF RawIs
    <3> QED
      BY <3>3 DEF r
  <2>4. CASE b \in Used(t) /\ t.buckets[b].key = k
    <3>1. b # End
      <4>1. b \in Int
        BY <1>0, <2>4 DEF Used, Indices, Shaped
      <4> QED
        BY <4>1, EndAssumption
    <3>2. /\ r.at = b
          /\ replace => r.table = [t EXCEPT !.buckets[b] = e]
          /\ ~replace => r.table = t
      <4> HIDE DEF r
      <4>1. CASE replace
        BY <2>1, <3>1, <4>1 DEF Placed
      <4>2. CASE ~replace
        BY <2>1, <3>1, <4>2 DEF Placed
      <4> QED
        BY <4>1, <4>2
    <3> HIDE DEF r
    <3>3. CASE replace
      <4>1. e \in Bucket /\ e.key = t.buckets[b].key
        BY <2>4 DEF Bucket
      <4>2. Replaced(t, r.table, b, e)
        <5> HIDE DEF e
        <5>1. Replaced(t, [t EXCEPT !.buckets[b] = e], b, e)
          BY <2>4, <4>1, ReplaceIs
        <5> QED
          BY <3>2, <3>3, <5>1
      <4>3. Stores(t, r.table, r.at, k, v, replace)
        BY <2>4, <3>2, <3>3, <4>2 DEF Stores, Replaced
      <4> QED
        BY <4>3 DEF RawIs, r
    <3>4. CASE ~replace
      <4>1. Stores(t, r.table, r.at, k, v, replace)
        BY <2>4, <3>2, <3>4 DEF Stores
      <4> QED
        BY <4>1 DEF RawIs, r
    <3> QED
      BY <3>3, <3>4
  <2> QED
    BY <2>2, <2>3, <2>4
<1> QED
  BY <1>2, <1>3

-----------------------------------------------------------------------------
(* Growing.                                                                *)

(* A table with no key: what is used of it.                                *)
Blank(t, n) ==
  /\ Record(t) /\ t.count = 0 /\ t.mask = n - 1
  /\ t.metadata = [b \in 0 .. n - 1 |-> VT_EMPTY]
  /\ t.buckets = [b \in 0 .. n - 1 |-> End]

(* A table with no key is well formed.                                     *)
LEMMA BlankIs ==
  ASSUME NEW t, NEW n, Dyadic(n), Blank(t, n)
  PROVE  WF(Limit, t) /\ Ent(t) = {} /\ Used(t) = {}
<1>0. n \in Nat \ {0} /\ n - 1 \in Nat /\ (n - 1) + 1 = n
  BY DEF Dyadic
<1>1. /\ Record(t) /\ t.count = 0 /\ t.mask = n - 1 /\ Indices(t) = 0 .. n - 1
      /\ t.metadata = [b \in Indices(t) |-> VT_EMPTY]
      /\ t.buckets = [b \in Indices(t) |-> End]
  BY DEF Blank, Indices
<1>2. Used(t) = {}
  BY <1>1 DEF Used, Occupied
<1>3. VT_EMPTY \in Metadatum
  BY DEF VT_EMPTY, Metadatum
<1>4. t.metadata \in [Indices(t) -> Metadatum] /\ t.buckets \in [Indices(t) -> Bucket \cup {End}]
  BY <1>1, <1>3
<1>5. Shaped(t)
  BY <1>0, <1>1, <1>4 DEF Shaped
<1>6. Filled(t, Used(t))
  BY <1>2 DEF Filled
<1>7. \E ps : Laid(Limit, t, Used(t), ps)
  BY <1>2 DEF Laid, Chained
<1>8. Dyadic(t.mask + 1)
  BY <1>0, <1>1
<1>9. Clean(t)
  BY <1>1 DEF Clean
<1>10. Counted(t)
  <2>1. Cardinality(Used(t)) = 0
    BY <1>2, FS_EmptySet
  <2>2. BucketCount(t) \in Nat
    BY <1>0, <1>1 DEF BucketCount
  <2> QED
    BY <1>1, <2>1, <2>2 DEF Counted
<1> QED
  BY <1>2, <1>5, <1>6, <1>7, <1>8, <1>9, <1>10 DEF WF, Sound, Ent

(* The tables that hold none.                                              *)
LEMMA NewBlank ==
  ASSUME NEW n, n \in Nat
  PROVE  Blank(NewTable(n), n)
<1> DEFINE t == NewTable(n)
<1>1. /\ t.count = 0 /\ t.mask = n - 1
      /\ t.metadata = [b \in 0 .. n - 1 |-> VT_EMPTY]
      /\ t.buckets = [b \in 0 .. n - 1 |-> End]
  BY DEF NewTable
<1>2. Record(t)
  BY DEF NewTable, Record
<1> QED
  BY <1>1, <1>2 DEF Blank

(* The placeholder of init() is one.                                       *)
LEMMA EmptyBlank == Blank(EmptyTable, 1)
<1> DEFINE t == EmptyTable
<1>0. 0 .. 1 - 1 = {0}
  OBVIOUS
<1>1. /\ t.count = 0 /\ t.mask = 1 - 1
      /\ t.metadata = [b \in {0} |-> VT_EMPTY]
      /\ t.buckets = [b \in {0} |-> End]
  BY DEF EmptyTable
<1>2. Record(t)
  BY DEF EmptyTable, Record
<1> QED
  BY <1>0, <1>1, <1>2 DEF Blank

(* Reinserting bucket after bucket can be followed.                        *)
LEMMA ReinsertExists ==
  ASSUME NEW N \in Nat, NEW t, NEW x
  PROVE  \E g : g = [b \in -1 .. N |-> IF b = -1 THEN x ELSE Reinsert(g[b - 1], t, b)]
<1> DEFINE S == {n \in Nat : \E g : g = [b \in -1 .. n |-> IF b = -1 THEN x
                                                          ELSE Reinsert(g[b - 1], t, b)]}
<1>1. 0 \in S
  <2> DEFINE y == Reinsert(x, t, 0)
             g == [b \in -1 .. 0 |-> IF b = -1 THEN x ELSE y]
  <2>1. g[-1] = x /\ g[0] = y
    OBVIOUS
  <2>2. \A b \in -1 .. 0 : g[b] = IF b = -1 THEN x ELSE Reinsert(g[b - 1], t, b)
    <3> SUFFICES ASSUME NEW b \in -1 .. 0
                 PROVE  g[b] = IF b = -1 THEN x ELSE Reinsert(g[b - 1], t, b)
      OBVIOUS
    <3>1. CASE b = -1
      BY <2>1, <3>1
    <3>2. CASE b = 0
      BY <2>1, <3>2
    <3> QED
      BY <3>1, <3>2
  <2>3. g = [b \in -1 .. 0 |-> g[b]]
    OBVIOUS
  <2> HIDE DEF g
  <2>4. g = [b \in -1 .. 0 |-> IF b = -1 THEN x ELSE Reinsert(g[b - 1], t, b)]
    BY <2>2, <2>3, Zenon
  <2> QED
    BY <2>4
<1>2. ASSUME NEW n \in 0 .. N - 1, n \in S PROVE n + 1 \in S
  <2>1. PICK f : f = [b \in -1 .. n |-> IF b = -1 THEN x ELSE Reinsert(f[b - 1], t, b)]
    BY <1>2
  <2> DEFINE g == [b \in -1 .. n + 1 |-> IF b = n + 1 THEN Reinsert(f[n], t, n + 1)
                                         ELSE f[b]]
  <2>2. \A b \in -1 .. n : f[b] = IF b = -1 THEN x ELSE Reinsert(f[b - 1], t, b)
    BY <2>1, Zenon
  <2>3. ASSUME NEW b \in -1 .. n + 1
        PROVE  g[b] = IF b = -1 THEN x ELSE Reinsert(g[b - 1], t, b)
    <3>1. CASE b = n + 1
      <4>1. g[n] = f[n] /\ g[n + 1] = Reinsert(f[n], t, n + 1) /\ (n + 1) - 1 = n /\ n + 1 # -1
        OBVIOUS
      <4> QED
        BY <3>1, <4>1
    <3>2. CASE b \in -1 .. n
      <4>1. g[b] = f[b] /\ (b # -1 => b - 1 \in -1 .. n /\ g[b - 1] = f[b - 1])
        BY <3>2
      <4> QED
        BY <2>2, <3>2, <4>1
    <3> QED
      BY <3>1, <3>2
  <2>4. g = [b \in -1 .. n + 1 |-> g[b]]
    OBVIOUS
  <2> HIDE DEF g
  <2>5. g = [b \in -1 .. n + 1 |-> IF b = -1 THEN x ELSE Reinsert(g[b - 1], t, b)]
    BY <2>3, <2>4, Zenon
  <2> QED
    BY <2>5
<1> HIDE DEF S
<1>3. N \in S
  BY <1>1, <1>2, UpTo
<1> QED
  BY <1>3 DEF S

(* The used buckets up to b.                                               *)
UsedTo(t, b) == {c \in Used(t) : c <= b}

(* What reinserting them has come to.                                      *)
Progress(t, r, b) ==
  /\ WF(Limit, r.table)
  /\ r.at # End => /\ Ent(r.table) = {t.buckets[c] : c \in UsedTo(t, b)}
                   /\ r.table.count = Cardinality(UsedTo(t, b))
  /\ r.at = End => r.table.count < t.count

(* One bucket is reinserted.                                               *)
LEMMA ReinsertStep ==
  ASSUME NEW t, WF(Limit, t), Roomy, Limit # 0, NEW b \in Indices(t), NEW r,
         Progress(t, r, b - 1)
  PROVE  Progress(t, Reinsert(r, t, b), b)
<1> DEFINE s == Reinsert(r, t, b)
           U == UsedTo(t, b - 1)
           V == UsedTo(t, b)
           e == t.buckets[b]
<1>0. /\ Shaped(t) /\ Filled(t, Used(t)) /\ t.mask \in Nat /\ t.count = Cardinality(Used(t))
      /\ b \in Nat /\ \A c \in Used(t) : c \in Nat
  BY DEF WF, Sound, Shaped, Counted, Indices, Used
<1>1. U = V \ {b} /\ U \subseteq Used(t) /\ (b \in Used(t) => V = U \cup {b} /\ b \notin U)
      /\ (b \notin Used(t) => V = U)
  BY <1>0 DEF UsedTo
<1>2. CASE r.at = End
  <2>1. s = r
    BY <1>2 DEF Reinsert
  <2> QED
    BY <1>2, <2>1 DEF Progress
<1>3. CASE r.at # End /\ b \notin Used(t)
  <2>1. s = r
    BY <1>3 DEF Reinsert, Used
  <2>2. V = U
    BY <1>1, <1>3
  <2> QED
    BY <1>3, <2>1, <2>2 DEF Progress
<1>4. CASE r.at # End /\ b \in Used(t)
  <2> DEFINE k == e.key
             v == e.val
             w == r.table
  <2>1. e \in Bucket /\ k \in Keys /\ v \in Values /\ e = [key |-> k, val |-> v]
    BY <1>0, <1>4 DEF Filled, Bucket
  <2>2. s = InsertRaw(w, k, v, TRUE, FALSE)
    BY <1>4 DEF Reinsert, Used
  <2>3. WF(Limit, w) /\ Ent(w) = {t.buckets[c] : c \in U} /\ w.count = Cardinality(U)
    BY <1>4 DEF Progress
  <2>4. Fresh(w, Used(w), k)
    <3> SUFFICES ASSUME NEW x \in Used(w), w.buckets[x].key = k PROVE FALSE
      BY DEF Fresh
    <3>1. w.buckets[x] \in Ent(w)
      BY DEF Ent
    <3>2. PICK c \in U : w.buckets[x] = t.buckets[c]
      BY <2>3, <3>1
    <3>3. c \in Used(t) /\ c # b
      BY <1>1, <1>4
    <3>4. t.buckets[c].key = t.buckets[b].key
      BY <3>2
    <3> QED
      BY <1>0, <1>4, <3>3, <3>4 DEF Filled
  <2> HIDE DEF s, k, v, w, e
  <2>5. \/ s.at = End /\ s.table = w
        \/ Adds(w, s.table, s.at, e)
    BY <2>1, <2>2, <2>3, <2>4, InsertNewIs
  <2>6. IsFiniteSet(Used(t)) /\ IsFiniteSet(U) /\ Cardinality(U) <= Cardinality(Used(t))
        /\ (Cardinality(U) = Cardinality(Used(t)) => U = Used(t))
    <3>1. IsFiniteSet(Used(t))
      BY <1>0, UsedFinite
    <3> QED
      BY <1>1, <3>1, FS_Subset
  <2>7. Cardinality(U) \in Nat /\ Cardinality(Used(t)) \in Nat
    BY <2>6, FS_CardinalityType
  <2>8. CASE s.at = End /\ s.table = w
    <3>1. U # Used(t)
      BY <1>1, <1>4
    <3>2. s.table.count < t.count
      BY <1>0, <2>3, <2>6, <2>7, <2>8, <3>1
    <3> QED
      BY <2>3, <2>8, <3>2 DEF Progress, s
  <2>9. CASE Adds(w, s.table, s.at, e)
    <3>1. /\ WF(Limit, s.table) /\ s.table.count = w.count + 1
          /\ Ent(s.table) = Ent(w) \cup {e} /\ s.at \in Used(s.table)
      BY <2>9 DEF Adds
    <3>2. s.at # End
      <4>1. s.at \in Int
        BY <3>1 DEF WF, Sound, Shaped, Used, Indices
      <4> QED
        BY <4>1, EndAssumption
    <3>3. V = U \cup {b} /\ b \notin U
      BY <1>1, <1>4
    <3>4. Cardinality(V) = Cardinality(U) + 1
      <4> HIDE DEF U, V
      <4>1. IsFiniteSet(U) /\ b \notin U /\ V = U \cup {b}
        BY <2>6, <3>3
      <4> QED
        BY <4>1, FS_AddElement
    <3>5. Ent(s.table) = {t.buckets[c] : c \in V}
      BY <2>3, <3>1, <3>3 DEF e
    <3> QED
      BY <2>3, <3>1, <3>2, <3>4, <3>5 DEF Progress, s
  <2> QED
    BY <2>5, <2>8, <2>9
<1> QED
  BY <1>2, <1>3, <1>4

(* The keys of t in a new table: all of them if there are as many.         *)
LEMMA ReinsertedIs ==
  ASSUME NEW t, WF(Limit, t), Roomy, Limit # 0, NEW n, Dyadic(n)
  PROVE  /\ WF(Limit, Reinserted(t, n))
         /\ Reinserted(t, n).count = t.count => Ent(Reinserted(t, n)) = Ent(t)
<1> DEFINE x == [table |-> NewTable(n), at |-> 0]
           g == CHOOSE g : g = [b \in -1 .. t.mask |-> IF b = -1 THEN x
                                                       ELSE Reinsert(g[b - 1], t, b)]
<1>0. /\ Shaped(t) /\ t.mask \in Nat /\ Indices(t) = 0 .. t.mask /\ n \in Nat
      /\ \A c \in Used(t) : c \in 0 .. t.mask
  BY DEF WF, Sound, Shaped, Indices, Used, Dyadic
<1>1. Reinserted(t, n) = g[t.mask].table
  BY DEF Reinserted
<1> HIDE DEF x
<1>2. g = [b \in -1 .. t.mask |-> IF b = -1 THEN x ELSE Reinsert(g[b - 1], t, b)]
  BY <1>0, ReinsertExists
<1> HIDE DEF g
<1>3. \A b \in -1 .. t.mask : g[b] = IF b = -1 THEN x ELSE Reinsert(g[b - 1], t, b)
  BY <1>2, Zenon
<1>4. g[-1] = x /\ \A b \in 0 .. t.mask : g[b] = Reinsert(g[b - 1], t, b)
  BY <1>0, <1>3
<1>5. Progress(t, x, -1)
  <2>1. x.table = NewTable(n) /\ x.at = 0
    BY DEF x
  <2>2. WF(Limit, x.table) /\ Ent(x.table) = {} /\ x.table.count = 0
    <3>1. Blank(x.table, n)
      BY <1>0, <2>1, NewBlank
    <3> QED
      BY <3>1, BlankIs DEF Blank
  <2>3. UsedTo(t, -1) = {}
    BY <1>0 DEF UsedTo
  <2>4. Cardinality(UsedTo(t, -1)) = 0
    BY <2>3, FS_EmptySet
  <2>5. x.at # End
    BY <2>1, EndAssumption
  <2> QED
    BY <2>2, <2>3, <2>4, <2>5 DEF Progress
<1> DEFINE S == {b \in 0 .. t.mask : Progress(t, g[b], b)}
<1>6. 0 \in S
  <2>1. g[0] = Reinsert(x, t, 0) /\ 0 \in Indices(t) /\ 0 - 1 = -1
    BY <1>0, <1>4
  <2>2. Progress(t, g[0], 0)
    BY <1>5, <2>1, ReinsertStep
  <2> QED
    BY <1>0, <2>2
<1>7. ASSUME NEW b \in 0 .. t.mask - 1, b \in S PROVE b + 1 \in S
  <2>1. Progress(t, g[b], b)
    BY <1>7
  <2> DEFINE c == b + 1
  <2>2. c \in 0 .. t.mask /\ c \in Indices(t) /\ c - 1 = b
    BY <1>0
  <2>3. g[c] = Reinsert(g[c - 1], t, c) /\ Progress(t, g[c - 1], c - 1)
    BY <1>4, <2>1, <2>2
  <2> HIDE DEF c
  <2>4. Progress(t, g[c], c)
    BY <2>2, <2>3, ReinsertStep
  <2> QED
    BY <2>2, <2>4 DEF c
<1> HIDE DEF S
<1>8. t.mask \in S
  <2>1. t.mask \in Nat /\ t.mask \in 0 .. t.mask
    BY <1>0
  <2>2. \A b \in 0 .. t.mask : b \in S
    BY <1>6, <1>7, <2>1, UpTo
  <2> QED
    BY <2>1, <2>2
<1>9. Progress(t, g[t.mask], t.mask)
  BY <1>8 DEF S
<1>10. UsedTo(t, t.mask) = Used(t)
  BY <1>0 DEF UsedTo
<1>11. {t.buckets[c] : c \in UsedTo(t, t.mask)} = Ent(t)
  BY <1>10 DEF Ent
<1> DEFINE w == g[t.mask].table
<1>12. WF(Limit, w) /\ w.count \in Nat /\ t.count \in Nat
  BY <1>0, <1>9 DEF Progress, WF, Sound, Shaped
<1>13. w.count = t.count => Ent(w) = Ent(t)
  BY <1>9, <1>11, <1>12 DEF Progress
<1> QED
  BY <1>1, <1>12, <1>13

(* g doubles x.                                                            *)
Doubles(g, N, x) == g = [i \in 0 .. N |-> IF i = 0 THEN x ELSE 2 * g[i - 1]]

(* Doubling can be followed.                                               *)
LEMMA DoublingExists ==
  ASSUME NEW N \in Nat, NEW x
  PROVE  \E g : Doubles(g, N, x)
<1> DEFINE S == {n \in Nat : \E g : g = [i \in 0 .. n |-> IF i = 0 THEN x ELSE 2 * g[i - 1]]}
<1>1. 0 \in S
  <2> DEFINE g == [i \in 0 .. 0 |-> x]
  <2>1. g = [i \in 0 .. 0 |-> IF i = 0 THEN x ELSE 2 * g[i - 1]]
    OBVIOUS
  <2> QED
    BY <2>1
<1>2. ASSUME NEW n \in 0 .. N - 1, n \in S PROVE n + 1 \in S
  <2>1. PICK f : f = [i \in 0 .. n |-> IF i = 0 THEN x ELSE 2 * f[i - 1]]
    BY <1>2
  <2> DEFINE y == 2 * f[n]
             g == [i \in 0 .. n + 1 |-> IF i = n + 1 THEN y ELSE f[i]]
  <2>2. \A i \in 0 .. n : f[i] = IF i = 0 THEN x ELSE 2 * f[i - 1]
    BY <2>1, Zenon
  <2>3. ASSUME NEW i \in 0 .. n + 1 PROVE g[i] = IF i = 0 THEN x ELSE 2 * g[i - 1]
    <3>1. CASE i = n + 1
      <4>1. g[n] = f[n] /\ g[n + 1] = y /\ (n + 1) - 1 = n /\ n + 1 # 0
        OBVIOUS
      <4> QED
        BY <3>1, <4>1
    <3>2. CASE i \in 0 .. n
      <4>1. g[i] = f[i] /\ (i # 0 => i - 1 \in 0 .. n /\ g[i - 1] = f[i - 1])
        BY <3>2
      <4> HIDE DEF g
      <4> QED
        BY <2>2, <3>2, <4>1
    <3> QED
      BY <3>1, <3>2
  <2>4. g = [i \in 0 .. n + 1 |-> g[i]]
    OBVIOUS
  <2> HIDE DEF g
  <2>5. g = [i \in 0 .. n + 1 |-> IF i = 0 THEN x ELSE 2 * g[i - 1]]
    BY <2>3, <2>4, Zenon
  <2> QED
    BY <2>5
<1> HIDE DEF S
<1>3. N \in S
  BY <1>1, <1>2, UpTo
<1> QED
  BY <1>3 DEF S, Doubles

(* The bucket counts are dyadic, and grow.                                 *)
LEMMA DoublingsIs ==
  ASSUME NEW n, Dyadic(n), NEW m \in Nat
  PROVE  \A i \in 0 .. m : /\ Dyadic(Doublings(n, m)[i])
                           /\ n >= 2 => Doublings(n, m)[i] >= 2 * (i + 1)
<1> DEFINE g == CHOOSE g : g = [i \in 0 .. m |-> IF i = 0 THEN n ELSE 2 * g[i - 1]]
<1>1. Doublings(n, m) = g
  BY DEF Doublings
<1>2. g = [i \in 0 .. m |-> IF i = 0 THEN n ELSE 2 * g[i - 1]]
  <2>1. \E f : Doubles(f, m, n)
    BY DoublingExists
  <2> QED
    BY <2>1, Zenon DEF Doubles
<1> HIDE DEF g
<1>3. \A i \in 0 .. m : g[i] = IF i = 0 THEN n ELSE 2 * g[i - 1]
  BY <1>2, Zenon
<1> DEFINE S == {i \in 0 .. m : Dyadic(g[i]) /\ (n >= 2 => g[i] >= 2 * (i + 1))}
<1>4. 0 \in S
  <2>1. g[0] = n /\ n \in Nat
    BY <1>3 DEF Dyadic
  <2> QED
    BY <2>1
<1>5. ASSUME NEW i \in 0 .. m - 1, i \in S PROVE i + 1 \in S
  <2>1. i + 1 \in 0 .. m /\ i + 1 # 0 /\ (i + 1) - 1 = i
    OBVIOUS
  <2>2. g[i + 1] = 2 * g[i]
    BY <1>3, <2>1
  <2>3. Dyadic(g[i]) /\ (n >= 2 => g[i] >= 2 * (i + 1))
    BY <1>5
  <2>4. Dyadic(g[i + 1])
    BY <2>2, <2>3, DyadicDouble
  <2>5. g[i] \in Nat
    BY <2>3 DEF Dyadic
  <2>6. n >= 2 => g[i + 1] >= 2 * ((i + 1) + 1)
    BY <2>2, <2>3, <2>5
  <2> QED
    BY <2>1, <2>4, <2>6
<1> HIDE DEF S
<1>6. \A i \in 0 .. m : i \in S
  BY <1>4, <1>5, UpTo
<1> QED
  BY <1>1, <1>6 DEF S

(* min_bucket_count_for_size().                                            *)
LEMMA MinCountIs ==
  ASSUME NEW size \in Nat, size # 0
  PROVE  Dyadic(MinBucketCount(size))
<1> DEFINE g == Doublings(MinBuckets, size)
           S == {i \in 0 .. size : size * 10 <= g[i] * 9}
<1>1. \A i \in 0 .. size : Dyadic(g[i]) /\ g[i] >= 2 * (i + 1)
  BY DyadicMin, DoublingsIs
<1>2. g[size] \in Nat /\ g[size] >= 2 * (size + 1)
  BY <1>1 DEF Dyadic
<1>3. MinBucketCount(size) = g[Min(S)]
  BY DEF MinBucketCount
<1> HIDE DEF g
<1>4. size \in S
  BY <1>2
<1>5. S \in SUBSET Nat
  OBVIOUS
<1>6. Min(S) \in S
  BY <1>4, <1>5, LeastOf
<1> QED
  BY <1>1, <1>3, <1>6

(* rehash(): all the keys in another table, or the table as it was.        *)
Rehashed(t, r) ==
  \/ r.ok = TRUE /\ WF(Limit, r.table) /\ Ent(r.table) = Ent(t) /\ r.mallocs \in Nat
  \/ r.ok = FALSE /\ r.table = t

(* A rehash loses no key, also when it fails.                              *)
LEMMA RehashIs ==
  ASSUME NEW t, WF(Limit, t), Roomy, Limit # 0, NEW n, Dyadic(n), NEW m \in Nat
  PROVE  Rehashed(t, Rehash(t, n, m))
<1> DEFINE new == [i \in 0 .. m - 1 |-> Reinserted(t, Doublings(n, m)[i])]
           S == {i \in DOMAIN new : new[i].count = t.count}
           r == Rehash(t, n, m)
<1>1. r = FirstToFit(t, new, m)
  BY DEF Rehash
<1>2. /\ S = {} => r.ok = FALSE /\ r.table = t
      /\ S # {} => r.ok = TRUE /\ r.table = new[Min(S)] /\ r.mallocs = m - Min(S) - 1
  <2> HIDE DEF new, r
  <2>1. CASE S = {}
    BY <1>1, <2>1 DEF FirstToFit
  <2>2. CASE S # {}
    BY <1>1, <2>2 DEF FirstToFit
  <2> QED
    BY <2>1, <2>2
<1>3. \A i \in 0 .. m - 1 : /\ WF(Limit, new[i])
                            /\ new[i].count = t.count => Ent(new[i]) = Ent(t)
  <2> SUFFICES ASSUME NEW i \in 0 .. m - 1
               PROVE  /\ WF(Limit, new[i])
                      /\ new[i].count = t.count => Ent(new[i]) = Ent(t)
    OBVIOUS
  <2>1. i \in 0 .. m
    OBVIOUS
  <2>2. Dyadic(Doublings(n, m)[i])
    BY <2>1, DoublingsIs
  <2> DEFINE k == Doublings(n, m)[i]
  <2>3. new[i] = Reinserted(t, k)
    OBVIOUS
  <2> HIDE DEF k, new
  <2> QED
    BY <2>2, <2>3, ReinsertedIs DEF k
<1>4. DOMAIN new = 0 .. m - 1
  OBVIOUS
<1> HIDE DEF new, r
<1>5. CASE S = {}
  BY <1>2, <1>5 DEF Rehashed, r
<1>6. CASE S # {}
  <2>1. S \in SUBSET Nat
    BY <1>4
  <2>2. Min(S) \in S
    BY <1>6, <2>1, LeastOf
  <2>3. Min(S) \in 0 .. m - 1 /\ new[Min(S)].count = t.count
    BY <1>4, <2>2
  <2>4. m - Min(S) - 1 \in Nat
    BY <2>3
  <2>5. r.ok = TRUE /\ r.table = new[Min(S)] /\ r.mallocs \in Nat
    BY <1>2, <1>6, <2>4
  <2>6. WF(Limit, r.table) /\ Ent(r.table) = Ent(t)
    BY <1>3, <2>3, <2>5
  <2> QED
    BY <2>5, <2>6 DEF Rehashed, r
<1> QED
  BY <1>5, <1>6

(* The table u has key k in bucket at and else the entries E.              *)
Got(E, u, at, k, v, replace) ==
  /\ WF(Limit, u) /\ at \in Used(u)
  /\ \/ /\ \A o \in E : o.key # k
        /\ u.buckets[at] = [key |-> k, val |-> v]
        /\ Ent(u) = E \cup {[key |-> k, val |-> v]}
     \/ \E o \in E :
          /\ o.key = k
          /\ replace => /\ u.buckets[at] = [key |-> k, val |-> v]
                        /\ Ent(u) = (E \ {o}) \cup {[key |-> k, val |-> v]}
          /\ ~replace => u.buckets[at] = o /\ Ent(u) = E

(* What insert_raw() stores, in terms of the entries alone.                *)
LEMMA StoresGot ==
  ASSUME NEW t, NEW u, NEW at, NEW k, NEW v, NEW replace \in BOOLEAN,
         Stores(t, u, at, k, v, replace)
  PROVE  Got(Ent(t), u, at, k, v, replace)
<1> DEFINE e == [key |-> k, val |-> v]
           E == Ent(t)
<1>0. WF(Limit, u) /\ at \in Used(u)
  BY DEF Stores
<1>1. CASE Fresh(t, Used(t), k) /\ Adds(t, u, at, e)
  <2>1. u.buckets[at] = e /\ Ent(u) = E \cup {e}
    BY <1>1 DEF Adds
  <2>2. \A o \in E : o.key # k
    BY <1>1 DEF Fresh, Ent
  <2> HIDE DEF E
  <2>3. Got(E, u, at, k, v, replace)
    BY <1>0, <2>1, <2>2 DEF Got
  <2> QED
    BY <2>3 DEF E
<1>2. ASSUME NEW b \in Used(t), t.buckets[b].key = k,
             replace => u.buckets[at] = e /\ Ent(u) = (E \ {t.buckets[b]}) \cup {e},
             ~replace => u.buckets[at] = t.buckets[b] /\ Ent(u) = E
      PROVE  Got(E, u, at, k, v, replace)
  <2> DEFINE o == t.buckets[b]
  <2>1. o \in E /\ o.key = k
    BY <1>2 DEF Ent
  <2> HIDE DEF E, e
  <2>2. /\ replace => u.buckets[at] = e /\ Ent(u) = (E \ {o}) \cup {e}
        /\ ~replace => u.buckets[at] = o /\ Ent(u) = E
    BY <1>2
  <2> HIDE DEF o
  <2> QED
    BY <1>0, <2>1, <2>2 DEF Got, e
<1> HIDE DEF E
<1> QED
  BY <1>1, <1>2 DEF Stores, E

(* The attempts to insert a key, and what they have come to.               *)
Trial(s) == s = [x \in {"table", "mallocs", "at", "done"} |-> s[x]]

Attempted(E, s, k, v, replace) ==
  /\ Trial(s) /\ s.mallocs \in Nat /\ s.done \in BOOLEAN /\ WF(Limit, s.table)
  /\ \/ s.at = End /\ Ent(s.table) = E
     \/ s.done = TRUE /\ Got(E, s.table, s.at, k, v, replace)

(* A bucket count is doubled.                                              *)
LEMMA DoubledIs ==
  ASSUME NEW t, WF(Limit, t)
  PROVE  Dyadic(Doubled(t))
<1>1. Dyadic(t.mask + 1) /\ t.mask \in Nat
  BY DEF WF, Sound, Shaped
<1>2. CASE t.mask = 0
  BY <1>2, DyadicMin DEF Doubled
<1>3. CASE t.mask # 0
  <2>1. Doubled(t) = 2 * (t.mask + 1)
    BY <1>1, <1>3 DEF Doubled, BucketCount
  <2> QED
    BY <1>1, <2>1, DyadicDouble
<1> QED
  BY <1>2, <1>3

(* One more attempt.                                                       *)
LEMMA AttemptIs ==
  ASSUME Roomy, Limit # 0, NEW E, NEW s, NEW k \in Keys, NEW v \in Values,
         NEW replace \in BOOLEAN, Attempted(E, s, k, v, replace)
  PROVE  Attempted(E, Attempt(s, k, v, replace), k, v, replace)
<1> DEFINE a == Attempt(s, k, v, replace)
           raw == InsertRaw(s.table, k, v, FALSE, replace)
           n == Doubled(raw.table)
           h == Rehash(raw.table, n, s.mallocs)
           q == [s EXCEPT !.table = raw.table]
<1>0. Trial(s) /\ s.mallocs \in Nat /\ s.done \in BOOLEAN /\ WF(Limit, s.table)
  BY DEF Attempted
<1>00. DOMAIN s = {"table", "mallocs", "at", "done"}
  BY <1>0 DEF Trial
<1>1. CASE s.done = TRUE
  <2>1. a = s
    BY <1>1 DEF Attempt
  <2> QED
    BY <2>1
<1>2. CASE s.done = FALSE
  <2>1. a = Tried(s, raw)
    BY <1>2 DEF Attempt
  <2>2. s.at = End /\ Ent(s.table) = E
    BY <1>2 DEF Attempted
  <2>3. RawIs(s.table, raw, k, v, replace)
    BY <1>0, InsertRawIs
  <2> HIDE DEF a, raw
  <2>4. CASE raw.at = End /\ raw.table = s.table
    <3>1. a = Grown(q, h)
      BY <2>1, <2>4 DEF Tried
    <3>2. q = s
      BY <1>0, <1>00, <2>4 DEF Trial
    <3>3. Dyadic(n) /\ WF(Limit, raw.table)
      BY <1>0, <2>4, DoubledIs
    <3> HIDE DEF n, q
    <3>4. Rehashed(raw.table, h)
      BY <1>0, <3>3, RehashIs
    <3> HIDE DEF h
    <3>5. CASE /\ h.ok = TRUE /\ WF(Limit, h.table) /\ Ent(h.table) = Ent(raw.table)
               /\ h.mallocs \in Nat
      <4>1. a = [s EXCEPT !.table = h.table, !.mallocs = h.mallocs]
        BY <3>1, <3>2, <3>5 DEF Grown
      <4>2. Trial(a) /\ a.table = h.table /\ a.mallocs = h.mallocs /\ a.done = s.done /\ a.at = s.at
        BY <1>00, <4>1 DEF Trial
      <4> QED
        BY <1>0, <2>2, <2>4, <3>5, <4>2 DEF Attempted, a
    <3>6. CASE h.ok = FALSE
      <4>1. a = [s EXCEPT !.done = TRUE]
        BY <3>1, <3>2, <3>6 DEF Grown
      <4>2. Trial(a) /\ a.table = s.table /\ a.mallocs = s.mallocs /\ a.done = TRUE /\ a.at = s.at
        BY <1>00, <4>1 DEF Trial
      <4> QED
        BY <1>0, <2>2, <4>2 DEF Attempted, a
    <3> QED
      BY <3>4, <3>5, <3>6 DEF Rehashed
  <2>5. CASE Stores(s.table, raw.table, raw.at, k, v, replace)
    <3>1. WF(Limit, raw.table) /\ raw.at \in Used(raw.table)
      BY <2>5 DEF Stores
    <3>2. raw.at # End
      <4>1. raw.at \in Int
        BY <3>1 DEF WF, Sound, Shaped, Used, Indices
      <4> QED
        BY <4>1, EndAssumption
    <3>3. a = [s EXCEPT !.table = raw.table, !.at = raw.at, !.done = TRUE]
      BY <2>1, <3>2 DEF Tried
    <3>4. /\ Trial(a) /\ a.table = raw.table /\ a.mallocs = s.mallocs /\ a.done = TRUE
          /\ a.at = raw.at
      BY <1>00, <3>3 DEF Trial
    <3>5. Got(E, raw.table, raw.at, k, v, replace)
      BY <2>2, <2>5, StoresGot
    <3>6. Attempted(E, a, k, v, replace)
      BY <1>0, <3>1, <3>4, <3>5 DEF Attempted
    <3> QED
      BY <3>6 DEF a
  <2> QED
    BY <2>3, <2>4, <2>5 DEF RawIs
<1> QED
  BY <1>0, <1>1, <1>2

(* g is attempt after attempt.                                             *)
Attempts(g, N, x, k, v, replace) ==
  g = [i \in 0 .. N |-> IF i = 0 THEN x ELSE Attempt(g[i - 1], k, v, replace)]

(* Trying again and again can be followed.                                 *)
LEMMA AttemptsExist ==
  ASSUME NEW N \in Nat, NEW x, NEW k, NEW v, NEW replace
  PROVE  \E g : Attempts(g, N, x, k, v, replace)
<1> DEFINE S == {n \in Nat : \E g :
                   g = [i \in 0 .. n |-> IF i = 0 THEN x ELSE Attempt(g[i - 1], k, v, replace)]}
<1>1. 0 \in S
  <2> DEFINE g == [i \in 0 .. 0 |-> x]
  <2>1. g = [i \in 0 .. 0 |-> IF i = 0 THEN x ELSE Attempt(g[i - 1], k, v, replace)]
    OBVIOUS
  <2> QED
    BY <2>1
<1>2. ASSUME NEW n \in 0 .. N - 1, n \in S PROVE n + 1 \in S
  <2>1. PICK f : f = [i \in 0 .. n |-> IF i = 0 THEN x ELSE Attempt(f[i - 1], k, v, replace)]
    BY <1>2
  <2> DEFINE y == Attempt(f[n], k, v, replace)
             g == [i \in 0 .. n + 1 |-> IF i = n + 1 THEN y ELSE f[i]]
  <2>2. \A i \in 0 .. n : f[i] = IF i = 0 THEN x ELSE Attempt(f[i - 1], k, v, replace)
    BY <2>1, Zenon
  <2>3. ASSUME NEW i \in 0 .. n + 1
        PROVE  g[i] = IF i = 0 THEN x ELSE Attempt(g[i - 1], k, v, replace)
    <3>1. CASE i = n + 1
      <4>1. g[n] = f[n] /\ g[n + 1] = y /\ (n + 1) - 1 = n /\ n + 1 # 0
        OBVIOUS
      <4> QED
        BY <3>1, <4>1
    <3>2. CASE i \in 0 .. n
      <4>1. g[i] = f[i] /\ (i # 0 => i - 1 \in 0 .. n /\ g[i - 1] = f[i - 1])
        BY <3>2
      <4> HIDE DEF g
      <4> QED
        BY <2>2, <3>2, <4>1
    <3> QED
      BY <3>1, <3>2
  <2>4. g = [i \in 0 .. n + 1 |-> g[i]]
    OBVIOUS
  <2> HIDE DEF g
  <2>5. g = [i \in 0 .. n + 1 |-> IF i = 0 THEN x ELSE Attempt(g[i - 1], k, v, replace)]
    BY <2>3, <2>4, Zenon
  <2> QED
    BY <2>5
<1> HIDE DEF S
<1>3. N \in S
  BY <1>1, <1>2, UpTo
<1> QED
  BY <1>3 DEF S, Attempts

(* insert() and get_or_insert().                                           *)
LEMMA InsertedIs ==
  ASSUME Roomy, Limit # 0, NEW t, WF(Limit, t), NEW k \in Keys, NEW v \in Values,
         NEW replace \in BOOLEAN, NEW m \in Nat
  PROVE  Attempted(Ent(t), Inserted(t, k, v, replace, m), k, v, replace)
<1> DEFINE x == [table |-> t, mallocs |-> m, at |-> End, done |-> FALSE]
           g == CHOOSE g : g = [i \in 0 .. m + 1 |-> IF i = 0 THEN x
                                   ELSE Attempt(g[i - 1], k, v, replace)]
           E == Ent(t)
<1>1. Inserted(t, k, v, replace, m) = g[m + 1]
  BY DEF Inserted
<1>2. Attempted(E, x, k, v, replace)
  <2>1. Trial(x) /\ x.table = t /\ x.mallocs = m /\ x.at = End /\ x.done = FALSE
    BY DEF Trial
  <2> HIDE DEF x, E
  <2>2. Ent(x.table) = E
    BY <2>1 DEF E
  <2> QED
    BY <2>1, <2>2 DEF Attempted
<1> HIDE DEF x, E
<1>3. g = [i \in 0 .. m + 1 |-> IF i = 0 THEN x ELSE Attempt(g[i - 1], k, v, replace)]
  <2>1. m + 1 \in Nat
    OBVIOUS
  <2>2. \E f : Attempts(f, m + 1, x, k, v, replace)
    BY <2>1, AttemptsExist
  <2> QED
    BY <2>2, Zenon DEF Attempts
<1> HIDE DEF g
<1>4. \A i \in 0 .. m + 1 : g[i] = IF i = 0 THEN x ELSE Attempt(g[i - 1], k, v, replace)
  BY <1>3, Zenon
<1> DEFINE S == {i \in 0 .. m + 1 : Attempted(E, g[i], k, v, replace)}
<1>5. 0 \in S
  BY <1>2, <1>4
<1>6. ASSUME NEW i \in 0 .. (m + 1) - 1, i \in S PROVE i + 1 \in S
  <2>1. i + 1 \in 0 .. m + 1 /\ i + 1 # 0 /\ (i + 1) - 1 = i
    OBVIOUS
  <2>2. g[i + 1] = Attempt(g[i], k, v, replace)
    BY <1>4, <2>1
  <2>3. Attempted(E, g[i], k, v, replace)
    BY <1>6
  <2>4. Attempted(E, g[i + 1], k, v, replace)
    BY <2>2, <2>3, AttemptIs
  <2> QED
    BY <2>1, <2>4
<1> HIDE DEF S
<1>7. m + 1 \in S
  <2>1. m + 1 \in Nat /\ m + 1 \in 0 .. m + 1
    OBVIOUS
  <2> QED
    BY <1>5, <1>6, <2>1, UpTo
<1> QED
  BY <1>1, <1>7 DEF S, E

-----------------------------------------------------------------------------
(* Erasure.                                                                *)

(* What the steps of an erasure change.                                    *)
Vacated(t, u, z) ==
  /\ Shaped(u) /\ u.count = t.count /\ u.mask = t.mask /\ Indices(u) = Indices(t)
  /\ u.metadata[z] = VT_EMPTY /\ u.buckets[z] = End
  /\ \A x \in Indices(t) : x # z => /\ u.metadata[x] = t.metadata[x]
                                    /\ u.buckets[x] = t.buckets[x]

(* A bucket is emptied.                                                    *)
LEMMA VacateFields ==
  ASSUME NEW t, Shaped(t), NEW z \in Indices(t)
  PROVE  Vacated(t, Vacate(t, z), z)
<1> DEFINE u == Vacate(t, z)
<1>1. /\ u.count = t.count /\ u.mask = t.mask
      /\ u.metadata = [t.metadata EXCEPT ![z] = VT_EMPTY]
      /\ u.buckets = [t.buckets EXCEPT ![z] = End] /\ Record(u)
  <2>1. DOMAIN t = {"count", "mask", "metadata", "buckets"}
    BY DEF Shaped, Record
  <2> QED
    BY <2>1 DEF Vacate, Record
<1>2. t.metadata \in [Indices(t) -> Metadatum]
      /\ t.buckets \in [Indices(t) -> Bucket \cup {End}] /\ t.count \in Nat /\ t.mask \in Nat
  BY DEF Shaped
<1>3. VT_EMPTY \in Metadatum
  BY DEF VT_EMPTY, Metadatum
<1> HIDE DEF u
<1>4. /\ u.metadata[z] = VT_EMPTY /\ u.buckets[z] = End
      /\ u.metadata \in [Indices(t) -> Metadatum]
      /\ u.buckets \in [Indices(t) -> Bucket \cup {End}]
      /\ \A x \in Indices(t) : x # z => /\ u.metadata[x] = t.metadata[x]
                                        /\ u.buckets[x] = t.buckets[x]
  BY <1>1, <1>2, <1>3
<1>5. Indices(u) = Indices(t)
  BY <1>1 DEF Indices
<1>6. Shaped(u)
  BY <1>1, <1>2, <1>4, <1>5 DEF Shaped
<1>7. Vacated(t, u, z)
  BY <1>1, <1>4, <1>5, <1>6 DEF Vacated
<1> QED
  BY <1>7 DEF u

EndsAt(t, u, p) ==
  /\ Shaped(u) /\ u.count = t.count /\ u.mask = t.mask /\ Indices(u) = Indices(t)
  /\ u.buckets = t.buckets
  /\ \A x \in Indices(t) : x # p => u.metadata[x] = t.metadata[x]
  /\ u.metadata[p].disp = Limit
  /\ u.metadata[p].frag = t.metadata[p].frag
  /\ u.metadata[p].home = t.metadata[p].home

(* A bucket becomes the last of its chain.                                 *)
LEMMA EndChainFields ==
  ASSUME NEW t, Shaped(t), NEW p \in Indices(t), Limit \in Nat
  PROVE  EndsAt(t, EndChainAt(t, p), p)
<1> DEFINE u == EndChainAt(t, p)
           md == [t.metadata EXCEPT ![p].disp = Limit]
<1>1. /\ u.count = t.count /\ u.mask = t.mask /\ u.metadata = md
      /\ u.buckets = t.buckets /\ Record(u)
  <2>1. DOMAIN t = {"count", "mask", "metadata", "buckets"}
    BY DEF Shaped, Record
  <2> QED
    BY <2>1 DEF EndChainAt, Record
<1>2. /\ t.metadata[p] \in Metadatum /\ t.metadata \in [Indices(t) -> Metadatum]
      /\ t.buckets \in [Indices(t) -> Bucket \cup {End}] /\ t.count \in Nat /\ t.mask \in Nat
  BY DEF Shaped
<1>3. md[p] = [frag |-> t.metadata[p].frag, home |-> t.metadata[p].home, disp |-> Limit]
  BY <1>2 DEF Metadatum
<1>4. md[p] \in Metadatum
  BY <1>2, <1>3 DEF Metadatum
<1>5. \A x \in Indices(t) : x # p => md[x] = t.metadata[x]
  BY <1>2
<1>6. md \in [Indices(t) -> Metadatum]
  BY <1>2, <1>4, <1>5
<1>7. md[p].disp = Limit /\ md[p].frag = t.metadata[p].frag /\ md[p].home = t.metadata[p].home
  BY <1>3
<1> HIDE DEF md, u
<1>8. Indices(u) = Indices(t)
  BY <1>1 DEF Indices
<1>9. Shaped(u)
  BY <1>1, <1>2, <1>6, <1>8 DEF Shaped
<1>10. EndsAt(t, u, p)
  BY <1>1, <1>5, <1>7, <1>8, <1>9 DEF EndsAt
<1> QED
  BY <1>10 DEF u

Moved(t, u, b, e, f) ==
  /\ Shaped(u) /\ u.count = t.count /\ u.mask = t.mask /\ Indices(u) = Indices(t)
  /\ u.buckets[b] = e
  /\ \A x \in Indices(t) : x # b => /\ u.metadata[x] = t.metadata[x]
                                    /\ u.buckets[x] = t.buckets[x]
  /\ u.metadata[b].frag = f
  /\ u.metadata[b].disp = t.metadata[b].disp
  /\ u.metadata[b].home = t.metadata[b].home

(* A key moves into the bucket of another.                                 *)
LEMMA MoveFields ==
  ASSUME NEW t, Shaped(t), NEW b \in Indices(t), NEW e \in Bucket, NEW f \in Nat
  PROVE  Moved(t, [t EXCEPT !.buckets[b] = e, !.metadata[b].frag = f], b, e, f)
<1> DEFINE u == [t EXCEPT !.buckets[b] = e, !.metadata[b].frag = f]
           md == [t.metadata EXCEPT ![b].frag = f]
           bk == [t.buckets EXCEPT ![b] = e]
<1>1. /\ u.count = t.count /\ u.mask = t.mask /\ u.metadata = md
      /\ u.buckets = bk /\ Record(u)
  <2>1. DOMAIN t = {"count", "mask", "metadata", "buckets"}
    BY DEF Shaped, Record
  <2> QED
    BY <2>1 DEF Record
<1>2. /\ t.metadata[b] \in Metadatum /\ t.metadata \in [Indices(t) -> Metadatum]
      /\ t.buckets \in [Indices(t) -> Bucket \cup {End}] /\ t.count \in Nat /\ t.mask \in Nat
  BY DEF Shaped
<1>3. md[b] = [frag |-> f, home |-> t.metadata[b].home, disp |-> t.metadata[b].disp]
  BY <1>2 DEF Metadatum
<1>4. md[b] \in Metadatum
  BY <1>2, <1>3 DEF Metadatum
<1>5. \A x \in Indices(t) : x # b => md[x] = t.metadata[x] /\ bk[x] = t.buckets[x]
  BY <1>2
<1>6. md \in [Indices(t) -> Metadatum] /\ bk[b] = e /\ bk \in [Indices(t) -> Bucket \cup {End}]
  BY <1>2, <1>4, <1>5
<1>7. md[b].disp = t.metadata[b].disp /\ md[b].frag = f /\ md[b].home = t.metadata[b].home
  BY <1>3
<1> HIDE DEF md, u, bk
<1>8. Indices(u) = Indices(t)
  BY <1>1 DEF Indices
<1>9. Shaped(u)
  BY <1>1, <1>2, <1>6, <1>8 DEF Shaped
<1>10. Moved(t, u, b, e, f)
  BY <1>1, <1>5, <1>6, <1>7, <1>8, <1>9 DEF Moved
<1> QED
  BY <1>10 DEF u

(* Bucket z, the last of a chain, is empty; p before it is the last; and b *)
(* has the key that was in z.                                              *)
ErasedAt(t, u, p, b, z) ==
  /\ Shaped(u) /\ u.count = t.count - 1 /\ u.mask = t.mask /\ Indices(u) = Indices(t)
  /\ u.metadata[z] = VT_EMPTY /\ u.buckets[z] = End
  /\ \A x \in Indices(t) : x # z =>
       /\ u.metadata[x].home = t.metadata[x].home
       /\ u.metadata[x].disp = IF x = p THEN Limit ELSE t.metadata[x].disp
       /\ u.metadata[x].frag = IF x = b THEN t.metadata[z].frag ELSE t.metadata[x].frag
       /\ u.buckets[x] = IF x = b THEN t.buckets[z] ELSE t.buckets[x]
       /\ x # p /\ x # b => u.metadata[x] = t.metadata[x]

(* The result of an erasure.                                               *)
Emptied(t, u, b, z) ==
  /\ WF(Limit, u) /\ u.mask = t.mask /\ Used(u) = Used(t) \ {z}
  /\ \A x \in Used(u) : u.buckets[x] = IF x = b THEN t.buckets[z] ELSE t.buckets[x]

(* The table is then well formed, and nothing else has changed.            *)
LEMMA ErasedSound ==
  ASSUME NEW t, WF(Limit, t), Limit \in Nat, NEW ps, Laid(Limit, t, Used(t), ps),
         NEW z \in Used(t), NEW b \in Used(t), Hm(t)[z] = Hm(t)[b], Dp(t)[z] = Limit,
         NEW u, NEW p, ErasedAt(t, u, p, b, z),
         \/ z = Hm(t)[z] /\ p = z
         \/ z # Hm(t)[z] /\ p \in Used(t) /\ Hm(t)[p] = Hm(t)[z] /\ Dp(t)[p] = ps[z]
  PROVE  Emptied(t, u, b, z)
<1> DEFINE M == Used(t)
           n == t.mask + 1
<1>0. /\ Shaped(t) /\ Filled(t, M) /\ Dyadic(n) /\ Clean(t) /\ n \in Nat /\ t.mask \in Nat
      /\ t.count = Cardinality(M) /\ t.count \in Nat
      /\ t.count * 10 <= BucketCount(t) * 9
  BY DEF WF, Sound, Shaped, Counted
<1>1. /\ Shaped(u) /\ u.count = t.count - 1 /\ u.mask = t.mask /\ Indices(u) = Indices(t)
      /\ u.metadata[z] = VT_EMPTY /\ u.buckets[z] = End
  BY DEF ErasedAt
<1>2. \A x \in Indices(t) : x # z =>
        /\ u.metadata[x].home = t.metadata[x].home
        /\ u.metadata[x].disp = IF x = p THEN Limit ELSE t.metadata[x].disp
        /\ u.metadata[x].frag = IF x = b THEN t.metadata[z].frag ELSE t.metadata[x].frag
        /\ u.buckets[x] = IF x = b THEN t.buckets[z] ELSE t.buckets[x]
        /\ x # p /\ x # b => u.metadata[x] = t.metadata[x]
  BY DEF ErasedAt
<1>3. \A x \in M : /\ x \in Indices(t) /\ Hm(t)[x] = HomeBucket(t, t.buckets[x].key)
                   /\ Dp(t)[x] = t.metadata[x].disp
  BY <1>0, LaidMember
<1>4. \A k : HomeBucket(u, k) = HomeBucket(t, k)
  BY <1>1 DEF HomeBucket
<1>5. Agree(M \ {z}, Hm(t), Hm(u))
  <2> SUFFICES ASSUME NEW x \in M, x # z PROVE Hm(u)[x] = Hm(t)[x]
    BY DEF Agree
  <2>1. Hm(u)[x] = HomeBucket(t, u.buckets[x].key)
    BY <1>1, <1>3, <1>4 DEF Hm
  <2>2. CASE x = b
    BY <1>2, <1>3, <2>1, <2>2
  <2>3. CASE x # b
    BY <1>2, <1>3, <2>1, <2>3
  <2> QED
    BY <2>2, <2>3
<1>6. \A x \in M \ {z} : Dp(u)[x] = IF x = p THEN Limit ELSE Dp(t)[x]
  BY <1>1, <1>2, <1>3 DEF Dp
<1>7. Chained(n, Limit, M, Hm(t), ps, Dp(t))
  BY DEF Laid
<1>8. Chained(n, Limit, M \ {z}, Hm(u), ps, Dp(u))
  <2> HIDE DEF n, M
  <2>0. z \in M /\ b \in M
    BY DEF M
  <2>1. CASE z = Hm(t)[z] /\ p = z
    <3>1. Agree(M \ {z}, Dp(t), Dp(u))
      BY <1>6, <2>1 DEF Agree
    <3>2. Hm(t)[z] = z
      BY <2>1
    <3> QED
      BY <1>0, <1>5, <1>7, <2>0, <3>1, <3>2, ChainEmpty
  <2>2. CASE z # Hm(t)[z] /\ p \in M /\ Hm(t)[p] = Hm(t)[z] /\ Dp(t)[p] = ps[z]
    <3>1. p # z
      <4>1. ps[z] < Dp(t)[z] /\ ps[z] \in Nat
        BY <1>7, <2>0 DEF Chained
      <4> QED
        BY <2>2, <4>1
    <3>2. Agree(M \ {z, p}, Dp(t), Dp(u)) /\ Dp(u)[p] = Dp(t)[z]
      BY <1>6, <2>2, <3>1 DEF Agree
    <3> QED
      BY <1>0, <1>5, <1>7, <2>0, <2>2, <3>2, ChainRemove
  <2> QED
    BY <2>1, <2>2 DEF M
<1>9. Laid(Limit, u, M \ {z}, ps)
  BY <1>1, <1>8 DEF Laid
<1>10. \A x \in M \ {z} : u.buckets[x] = IF x = b THEN t.buckets[z] ELSE t.buckets[x]
  BY <1>2, <1>3
<1>11. Filled(u, M \ {z})
  <2>1. ASSUME NEW x \in M \ {z}
        PROVE  /\ u.buckets[x] \in Bucket /\ u.metadata[x].frag = HashFrag(u.buckets[x].key)
               /\ u.metadata[x].home <=> x = Hm(u)[x]
    <3>1. /\ u.metadata[x].home = t.metadata[x].home /\ Hm(u)[x] = Hm(t)[x]
          /\ u.metadata[x].frag = IF x = b THEN t.metadata[z].frag ELSE t.metadata[x].frag
          /\ u.buckets[x] = IF x = b THEN t.buckets[z] ELSE t.buckets[x]
      BY <1>2, <1>3, <1>5 DEF Agree
    <3>2. u.metadata[x].home <=> x = Hm(u)[x]
      BY <1>0, <3>1 DEF Filled
    <3>3. u.buckets[x] \in Bucket /\ u.metadata[x].frag = HashFrag(u.buckets[x].key)
      BY <1>0, <3>1 DEF Filled
    <3> QED
      BY <3>2, <3>3
  <2>2. ASSUME NEW x \in M \ {z}, NEW y \in M \ {z}, u.buckets[x].key = u.buckets[y].key
        PROVE  x = y
    <3>1. \A i, j \in M : t.buckets[i].key = t.buckets[j].key => i = j
      BY <1>0 DEF Filled
    <3> QED
      BY <1>10, <2>2, <3>1
  <2> QED
    BY <2>1, <2>2 DEF Filled
<1>12. Sound(Limit, u, M \ {z})
  BY <1>0, <1>1, <1>9, <1>11 DEF Sound
<1>13. Used(u) = M \ {z}
  <2>1. \A x \in M \ {z} : x \in Used(u)
    BY <1>1, <1>9, LaidMember
  <2>2. z \notin Used(u)
    BY <1>1 DEF Used, Occupied
  <2>3. ASSUME NEW x \in Indices(t), x \notin M PROVE x \notin Used(u)
    <3>1. x # z /\ x # b /\ x # p
      BY <2>3
    <3>2. u.metadata[x] = t.metadata[x]
      BY <1>2, <3>1
    <3> QED
      BY <2>3, <3>2 DEF Used, Occupied
  <2>4. Used(u) \subseteq Indices(t)
    BY <1>1 DEF Used
  <2> HIDE DEF M
  <2> QED
    BY <2>1, <2>2, <2>3, <2>4
<1>14. Clean(u)
  <2> SUFFICES ASSUME NEW x \in Indices(t), x \notin M \ {z} PROVE u.buckets[x] = End
    BY <1>1, <1>13 DEF Clean
  <2>1. CASE x = z
    BY <1>1, <2>1
  <2>2. CASE x # z
    <3>1. u.buckets[x] = t.buckets[x] /\ x \notin M
      BY <1>2, <2>2
    <3> QED
      BY <1>0, <3>1 DEF Clean
  <2> QED
    BY <2>1, <2>2
<1>15. Counted(u)
  <2>1. IsFiniteSet(M)
    BY <1>0, UsedFinite
  <2>2. Cardinality(M \ {z}) = Cardinality(M) - 1
    BY <2>1, FS_RemoveElement
  <2>3. BucketCount(u) = BucketCount(t) /\ BucketCount(t) \in Nat
    BY <1>0, <1>1 DEF BucketCount
  <2>4. u.count * 10 <= BucketCount(u) * 9
    BY <1>0, <1>1, <2>3
  <2> QED
    BY <1>0, <1>1, <1>13, <2>2, <2>4 DEF Counted
<1>16. WF(Limit, u)
  BY <1>12, <1>13, <1>14, <1>15 DEF WF
<1> QED
  BY <1>1, <1>10, <1>13, <1>16 DEF Emptied

(* erase_itr_raw().                                                        *)
Erased(t, r, b) ==
  \E z \in Used(t) : Emptied(t, r.table, b, z) /\ r.advance = (z <= b)

(* Its result, and whether the iterator goes on.                           *)
LEMMA EraseRawIs ==
  ASSUME NEW t, WF(Limit, t), Limit \in Nat, NEW b \in Used(t)
  PROVE  Erased(t, EraseRaw(t, b), b)
<1> DEFINE h == IF t.metadata[b].home THEN b ELSE HomeBucket(t, t.buckets[b].key)
           z == LastInChain(t, h)
           fewer == [t EXCEPT !.count = @ - 1]
           p == Previous(t, h, z)
           shorter == EndChainAt(fewer, p)
           r == EraseRaw(t, b)
           M == Used(t)
<1>0. /\ Shaped(t) /\ Filled(t, M) /\ t.mask \in Nat /\ Sound(Limit, t, M)
      /\ t.count = Cardinality(M) /\ t.count \in Nat
  BY DEF WF, Sound, Shaped, Counted
<1>1. PICK ps : Laid(Limit, t, M, ps)
  BY <1>0 DEF Sound
<1>2. h = Hm(t)[b] /\ h \in M /\ Hm(t)[h] = h
  <2>1. /\ Hm(t)[b] = HomeBucket(t, t.buckets[b].key) /\ Hm(t)[b] \in M
        /\ Hm(t)[Hm(t)[b]] = Hm(t)[b]
    BY <1>0, <1>1, LaidMember
  <2>2. t.metadata[b].home <=> b = Hm(t)[b]
    BY <1>0 DEF Filled
  <2>3. h = Hm(t)[b]
    BY <2>1, <2>2
  <2> QED
    BY <2>1, <2>3
<1>3. z \in M /\ Hm(t)[z] = h /\ Dp(t)[z] = Limit
  <2> HIDE DEF h
  <2> QED
    BY <1>0, <1>1, <1>2, LastIs
<1>4. \A x \in M : x \in Indices(t) /\ x \in Nat
  BY <1>0 DEF Used, Indices
<1>5. t.count - 1 \in Nat
  <2>1. IsFiniteSet(M)
    BY <1>0, UsedFinite
  <2>2. Cardinality(M) # 0
    BY <2>1, FS_EmptySet
  <2> QED
    BY <1>0, <2>2
<1>6. Recount(t, fewer, t.count - 1)
  <2>1. DOMAIN t = {"count", "mask", "metadata", "buckets"}
    BY <1>0 DEF Shaped, Record
  <2> QED
    BY <2>1 DEF Recount, Record
<1>7. /\ Shaped(fewer) /\ Indices(fewer) = Indices(t) /\ fewer.count = t.count - 1
      /\ fewer.mask = t.mask /\ fewer.metadata = t.metadata /\ fewer.buckets = t.buckets
  <2> HIDE DEF fewer
  <2>1. Shaped(fewer) /\ Indices(fewer) = Indices(t)
    BY <1>0, <1>5, <1>6, RecountSound
  <2> QED
    BY <1>6, <2>1 DEF Recount
<1>8. CASE z = h
  <2>1. b = h
    <3>1. Chained(t.mask + 1, Limit, M, Hm(t), ps, Dp(t))
      BY <1>1 DEF Laid
    <3>2. t.mask + 1 \in Nat
      BY <1>0
    <3>3. ps[b] <= ps[h]
      <4> HIDE DEF h, z, M
      <4>1. b \in M /\ Dp(t)[h] = Limit
        BY <1>3, <1>8 DEF M
      <4> QED
        BY <1>2, <3>1, <3>2, <4>1, ChainLast
    <3>4. ps[h] = 0 /\ ps[b] \in 0 .. t.mask
      BY <1>0, <1>1, <1>2, LaidMember
    <3>5. ps[b] = ps[h]
      BY <1>0, <3>3, <3>4
    <3> HIDE DEF h
    <3> QED
      BY <1>2, <3>1, <3>5, ChainDistinct
  <2>2. r.table = Vacate(fewer, b) /\ r.advance = TRUE
    BY <1>8 DEF EraseRaw
  <2> DEFINE u == Vacate(fewer, b)
  <2>3. Vacated(fewer, u, b)
    <3> HIDE DEF fewer
    <3> QED
      BY <1>4, <1>7, VacateFields
  <2> HIDE DEF u, fewer, h, z
  <2>4. ErasedAt(t, u, b, b, b)
    BY <1>7, <2>3 DEF Vacated, ErasedAt
  <2>5. b = Hm(t)[b] /\ Dp(t)[b] = Limit
    BY <1>2, <1>3, <1>8, <2>1
  <2>6. Emptied(t, u, b, b)
    BY <1>1, <2>4, <2>5, ErasedSound
  <2>7. (b <= b) = TRUE
    BY <1>4
  <2>8. r.table = u /\ r.advance = (b <= b)
    <3> HIDE DEF r
    <3> QED
      BY <2>2, <2>7 DEF u
  <2> QED
    BY <2>6, <2>8 DEF Erased
<1>9. CASE z # h
  <2>1. p \in M /\ Hm(t)[p] = h /\ Dp(t)[p] = ps[z] /\ p # z
    <3> HIDE DEF h, z
    <3> QED
      BY <1>0, <1>1, <1>3, <1>9, PreviousIs
  <2>2. EndsAt(fewer, shorter, p)
    <3> HIDE DEF fewer, p
    <3> QED
      BY <1>4, <1>7, <2>1, EndChainFields
  <2>3. CASE z = b
    <3>1. r.table = Vacate(shorter, b) /\ r.advance = TRUE
      BY <1>9, <2>3 DEF EraseRaw
    <3> DEFINE u == Vacate(shorter, b)
    <3> HIDE DEF h, z, p, fewer, shorter
    <3>2. Vacated(shorter, u, b)
      <4>1. Shaped(shorter) /\ b \in Indices(shorter)
        BY <1>4, <1>7, <2>2 DEF EndsAt
      <4> QED
        BY <4>1, VacateFields
    <3> HIDE DEF u
    <3>3. ErasedAt(t, u, p, b, b)
      BY <1>7, <2>2, <3>2 DEF Vacated, EndsAt, ErasedAt
    <3>4. Emptied(t, u, b, b)
      BY <1>1, <1>3, <1>9, <2>1, <2>3, <3>3, ErasedSound
    <3>5. (b <= b) = TRUE
      BY <1>4
    <3>6. r.table = u /\ r.advance = (b <= b)
      <4> HIDE DEF r
      <4> QED
        BY <3>1, <3>5 DEF u
    <3> QED
      BY <3>4, <3>6 DEF Erased
  <2>4. CASE z # b
    <3> DEFINE e == t.buckets[z]
               f == t.metadata[z].frag
               w == [shorter EXCEPT !.buckets[b] = e, !.metadata[b].frag = f]
               u == Vacate(w, z)
    <3>1. r.table = u /\ r.advance = (z < b)
      BY <1>9, <2>4 DEF EraseRaw
    <3>2. /\ e \in Bucket /\ f \in Nat /\ b \in Indices(t) /\ z \in Indices(t)
          /\ b \in Nat /\ z \in Nat
      <4>1. t.metadata[z] \in Metadatum
        BY <1>0, <1>3, <1>4 DEF Shaped
      <4> QED
        BY <1>0, <1>3, <1>4, <4>1 DEF Filled, Metadatum
    <3> HIDE DEF h, z, p, fewer, shorter, e, f
    <3>3. Moved(shorter, w, b, e, f)
      <4>1. Shaped(shorter) /\ b \in Indices(shorter)
        BY <1>7, <2>2, <3>2 DEF EndsAt
      <4> QED
        BY <3>2, <4>1, MoveFields
    <3> HIDE DEF w
    <3>4. Vacated(w, u, z)
      <4>1. Shaped(w) /\ z \in Indices(w)
        BY <1>7, <2>2, <3>2, <3>3 DEF EndsAt, Moved
      <4> QED
        BY <4>1, VacateFields
    <3> HIDE DEF u
    <3>5. ErasedAt(t, u, p, b, z)
      <4>1. /\ Shaped(u) /\ u.count = t.count - 1 /\ u.mask = t.mask /\ Indices(u) = Indices(t)
            /\ u.metadata[z] = VT_EMPTY /\ u.buckets[z] = End
        BY <1>7, <2>2, <3>3, <3>4 DEF Vacated, EndsAt, Moved
      <4>2. ASSUME NEW x \in Indices(t), x # z
            PROVE  /\ u.metadata[x].home = t.metadata[x].home
                   /\ u.metadata[x].disp = IF x = p THEN Limit ELSE t.metadata[x].disp
                   /\ u.metadata[x].frag = IF x = b THEN f ELSE t.metadata[x].frag
                   /\ u.buckets[x] = IF x = b THEN e ELSE t.buckets[x]
                   /\ x # p /\ x # b => u.metadata[x] = t.metadata[x]
        <5>1. u.metadata[x] = w.metadata[x] /\ u.buckets[x] = w.buckets[x]
          BY <1>7, <2>2, <3>3, <3>4, <4>2 DEF Vacated, EndsAt, Moved
        <5>2. /\ w.metadata[x].home = shorter.metadata[x].home
              /\ w.metadata[x].disp = shorter.metadata[x].disp
              /\ w.metadata[x].frag = IF x = b THEN f ELSE shorter.metadata[x].frag
              /\ w.buckets[x] = IF x = b THEN e ELSE shorter.buckets[x]
              /\ x # b => w.metadata[x] = shorter.metadata[x]
          BY <1>7, <2>2, <3>3 DEF EndsAt, Moved
        <5>3. /\ shorter.metadata[x].home = t.metadata[x].home
              /\ shorter.metadata[x].disp = IF x = p THEN Limit ELSE t.metadata[x].disp
              /\ shorter.metadata[x].frag = t.metadata[x].frag
              /\ shorter.buckets[x] = t.buckets[x]
              /\ x # p => shorter.metadata[x] = t.metadata[x]
          BY <1>7, <2>2 DEF EndsAt
        <5> QED
          BY <5>1, <5>2, <5>3
      <4> QED
        BY <4>1, <4>2 DEF ErasedAt, e, f
    <3>6. Emptied(t, u, b, z)
      BY <1>1, <1>2, <1>3, <1>9, <2>1, <3>5, ErasedSound
    <3>7. r.advance = (z <= b)
      <4>1. (z < b) = (z <= b)
        BY <2>4, <3>2
      <4> QED
        BY <3>1, <4>1
    <3> QED
      BY <1>3, <3>1, <3>6, <3>7 DEF Erased
  <2> QED
    BY <2>3, <2>4
<1> QED
  BY <1>8, <1>9

-----------------------------------------------------------------------------
(* The contents of a table, as a map.                                      *)

MapOf(E) == [k \in {e.key : e \in E} |-> (CHOOSE e \in E : e.key = k).val]

(* A map with value v for key k, and without key k.                        *)
Put(m, k, v) == [x \in DOMAIN m \cup {k} |-> IF x = k THEN v ELSE m[x]]
Drop(m, k) == [x \in DOMAIN m \ {k} |-> m[x]]
Entry(k, v) == [key |-> k, val |-> v]

(* Entries with different keys.                                            *)
Keyed(E) == E \subseteq Bucket /\ \A e, f \in E : e.key = f.key => e = f

(* The map of entries E is m if m has the value of each of them.           *)
MapsTo(m, E) == /\ m = [x \in {e.key : e \in E} |-> m[x]]
                /\ \A e \in E : m[e.key] = e.val

(* The value of each entry, and no other, is in its map.                   *)
LEMMA MapValues ==
  ASSUME NEW E, Keyed(E)
  PROVE  MapsTo(MapOf(E), E) /\ DOMAIN MapOf(E) = {e.key : e \in E}
<1> DEFINE m == MapOf(E)
           D == {e.key : e \in E}
<1>1. m = [x \in D |-> m[x]] /\ DOMAIN m = D
  BY DEF MapOf
<1>2. ASSUME NEW e \in E PROVE m[e.key] = e.val
  <2>1. m[e.key] = (CHOOSE f \in E : f.key = e.key).val
    BY DEF MapOf
  <2>2. (CHOOSE f \in E : f.key = e.key) = e
    BY DEF Keyed
  <2> QED
    BY <2>1, <2>2
<1> QED
  BY <1>1, <1>2 DEF MapsTo

(* There is one such map.                                                  *)
LEMMA MapUnique ==
  ASSUME NEW E, Keyed(E), NEW m, MapsTo(m, E)
  PROVE  MapOf(E) = m
<1> DEFINE D == {e.key : e \in E}
           g == MapOf(E)
<1>1. g = [x \in D |-> g[x]] /\ \A e \in E : g[e.key] = e.val
  BY MapValues DEF MapsTo
<1>2. m = [x \in D |-> m[x]] /\ \A e \in E : m[e.key] = e.val
  BY DEF MapsTo
<1> HIDE DEF g
<1>3. \A x \in D : g[x] = m[x]
  BY <1>1, <1>2
<1>4. g = m
  <2> HIDE DEF D
  <2> QED
    BY <1>1, <1>2, <1>3, Zenon
<1> QED
  BY <1>4 DEF g

(* No entries are the empty map.                                           *)
LEMMA MapEmpty == MapOf({}) = <<>>
  BY DEF MapOf

(* One more entry is one more key.                                         *)
LEMMA MapAdd ==
  ASSUME NEW E, Keyed(E), NEW k \in Keys, NEW v \in Values, \A o \in E : o.key # k
  PROVE  /\ Keyed(E \cup {Entry(k, v)})
         /\ MapOf(E \cup {Entry(k, v)}) = Put(MapOf(E), k, v)
<1> DEFINE e == Entry(k, v)
           F == E \cup {e}
           m == MapOf(E)
           g == [x \in DOMAIN m \cup {k} |-> IF x = k THEN v ELSE m[x]]
<1>1. e \in Bucket /\ e.key = k /\ e.val = v
  BY DEF Bucket, Entry
<1>2. DOMAIN m = {o.key : o \in E} /\ \A o \in E : m[o.key] = o.val
  BY MapValues DEF MapsTo
<1> HIDE DEF e, m
<1>3. Keyed(F)
  BY <1>1 DEF Keyed
<1>4. DOMAIN m \cup {k} = {o.key : o \in F}
  BY <1>1, <1>2
<1>5. g = [x \in {o.key : o \in F} |-> g[x]]
  BY <1>4
<1>6. \A o \in F : g[o.key] = o.val
  <2> SUFFICES ASSUME NEW o \in F PROVE g[o.key] = o.val
    OBVIOUS
  <2>1. CASE o = e
    BY <1>1, <2>1
  <2>2. CASE o \in E
    BY <1>2, <2>2
  <2> QED
    BY <2>1, <2>2
<1> HIDE DEF g, F
<1>7. MapOf(F) = g
  BY <1>3, <1>5, <1>6, MapUnique DEF MapsTo
<1> QED
  BY <1>3, <1>7 DEF F, g, e, m, Put

(* One less is one less.                                                   *)
LEMMA MapRemove ==
  ASSUME NEW E, Keyed(E), NEW o \in E
  PROVE  Keyed(E \ {o}) /\ MapOf(E \ {o}) = Drop(MapOf(E), o.key)
<1> DEFINE F == E \ {o}
           m == MapOf(E)
           g == [x \in DOMAIN m \ {o.key} |-> m[x]]
<1>1. DOMAIN m = {e.key : e \in E} /\ \A e \in E : m[e.key] = e.val
  BY MapValues DEF MapsTo
<1> HIDE DEF m
<1>2. Keyed(F) /\ \A e \in F : e.key # o.key
  BY DEF Keyed
<1>3. DOMAIN m \ {o.key} = {e.key : e \in F}
  BY <1>1, <1>2
<1>4. g = [x \in {e.key : e \in F} |-> g[x]]
  BY <1>3
<1>5. \A e \in F : g[e.key] = e.val
  BY <1>1, <1>2, <1>3
<1> HIDE DEF g, F
<1>6. MapOf(F) = g
  BY <1>2, <1>4, <1>5, MapUnique DEF MapsTo
<1> QED
  BY <1>2, <1>6 DEF F, g, m, Drop

(* The map of entries of which one has another value.                      *)
LEMMA MapReplace ==
  ASSUME NEW E, Keyed(E), NEW k \in Keys, NEW v \in Values, NEW o \in E, o.key = k
  PROVE  /\ Keyed((E \ {o}) \cup {Entry(k, v)})
         /\ MapOf((E \ {o}) \cup {Entry(k, v)}) = Put(MapOf(E), k, v)
<1> DEFINE m == MapOf(E)
           F == E \ {o}
<1>1. Keyed(F) /\ MapOf(F) = Drop(m, k)
  BY MapRemove
<1>2. \A x \in F : x.key # k
  BY DEF Keyed
<1> HIDE DEF F, m
<1>3. Keyed(F \cup {Entry(k, v)}) /\ MapOf(F \cup {Entry(k, v)}) = Put(Drop(m, k), k, v)
  <2>1. MapOf(F \cup {Entry(k, v)}) = Put(MapOf(F), k, v) /\ Keyed(F \cup {Entry(k, v)})
    BY <1>1, <1>2, MapAdd
  <2> QED
    BY <1>1, <2>1
<1>4. Put(Drop(m, k), k, v) = Put(m, k, v)
  BY DEF Put, Drop
<1> QED
  BY <1>3, <1>4 DEF F, m

(* The entries of a well-formed table.                                     *)
LEMMA EntriesAre ==
  ASSUME NEW L, NEW t, WF(L, t)
  PROVE  /\ Keyed(Ent(t)) /\ {t.buckets[b] : b \in Indices(t)} \ {End} = Ent(t)
         /\ {e.key : e \in Ent(t)} = {t.buckets[b].key : b \in Used(t)}
<1>1. /\ \A b \in Used(t) : b \in Indices(t) /\ t.buckets[b] \in Bucket
      /\ \A b, c \in Used(t) : t.buckets[b].key = t.buckets[c].key => b = c
      /\ \A b \in Indices(t) \ Used(t) : t.buckets[b] = End
  BY DEF WF, Sound, Filled, Used, Clean
<1>2. End \notin Bucket
  BY EndAssumption DEF Bucket
<1>3. Keyed(Ent(t))
  BY <1>1 DEF Keyed, Ent
<1>4. {t.buckets[b] : b \in Indices(t)} \ {End} = Ent(t)
  BY <1>1, <1>2 DEF Ent
<1> QED
  BY <1>3, <1>4 DEF Ent

(* The count of a table that holds nothing is zero.                        *)
LEMMA EmptyCount ==
  ASSUME NEW L, NEW t, WF(L, t)
  PROVE  t.count = 0 <=> Used(t) = {}
<1>1. IsFiniteSet(Used(t)) /\ t.count = Cardinality(Used(t))
  BY UsedFinite DEF WF, Sound, Shaped, Counted
<1> QED
  BY <1>1, FS_EmptySet

-----------------------------------------------------------------------------
(* Iteration.                                                              *)

(* The keys in the buckets from b on, and those ahead of an iterator.      *)
From(t, b) == {t.buckets[c].key : c \in {x \in Used(t) : b <= x}}
AheadOf(t, i) == IF i = End THEN {} ELSE From(t, i)

(* FastForward(): the first used bucket from b on, so that no key between  *)
(* them is passed by.                                                      *)
LEMMA FastForwardIs ==
  ASSUME NEW t, t.mask \in Nat, NEW b \in Nat
  PROVE  /\ FastForward(t, b) = End \/ FastForward(t, b) \in Used(t)
         /\ AheadOf(t, FastForward(t, b)) = From(t, b)
<1> DEFINE S == {c \in b .. t.mask : Occupied(t, c)}
           f == FastForward(t, b)
<1>1. S = {x \in Used(t) : b <= x} /\ S \in SUBSET Nat
  BY DEF Used, Indices
<1>2. f = IF S = {} THEN End ELSE Min(S)
  BY DEF FastForward
<1> HIDE DEF S, f
<1>3. CASE S = {}
  <2>1. f = End
    BY <1>2, <1>3
  <2>2. From(t, b) = {}
    BY <1>1, <1>3 DEF From
  <2> QED
    BY <2>1, <2>2 DEF AheadOf, f
<1>4. CASE S # {}
  <2>1. f \in S /\ \A y \in S : f <= y
    BY <1>1, <1>2, <1>4, LeastOf
  <2>2. f \in Used(t) /\ b <= f /\ f \in Nat
    BY <1>1, <2>1
  <2>3. f # End
    BY <2>2, EndAssumption
  <2>4. {x \in Used(t) : f <= x} = {x \in Used(t) : b <= x}
    <3>1. \A x \in Used(t) : x \in Nat
      BY DEF Used, Indices
    <3>2. \A x \in Used(t) : f <= x => b <= x
      BY <2>2, <3>1
    <3>3. \A x \in Used(t) : b <= x => f <= x
      BY <1>1, <2>1
    <3> QED
      BY <3>2, <3>3
  <2>5. From(t, f) = From(t, b)
    BY <2>4 DEF From
  <2>6. AheadOf(t, f) = From(t, b)
    BY <2>3, <2>5 DEF AheadOf
  <2> QED
    BY <2>2, <2>6 DEF f
<1> QED
  BY <1>3, <1>4

(* The key of bucket b is ahead of b, and not of the bucket after it.      *)
LEMMA FromNext ==
  ASSUME NEW L, NEW t, WF(L, t), NEW b \in Used(t)
  PROVE  t.buckets[b].key \in From(t, b) /\ From(t, b + 1) = From(t, b) \ {t.buckets[b].key}
<1>1. \A x, y \in Used(t) : t.buckets[x].key = t.buckets[y].key => x = y
  BY DEF WF, Sound, Filled
<1>2. \A x \in Used(t) : x \in Nat
  BY DEF Used, Indices, WF, Sound, Shaped
<1>3. b <= b /\ \A x \in Used(t) : b + 1 <= x <=> b <= x /\ x # b
  BY <1>2
<1> QED
  BY <1>1, <1>3 DEF From

(* The keys in all the buckets.                                            *)
LEMMA FromStart ==
  ASSUME NEW L, NEW t, WF(L, t)
  PROVE  From(t, 0) = {e.key : e \in Ent(t)}
<1>1. \A x \in Used(t) : 0 <= x
  BY DEF Used, Indices, WF, Sound, Shaped
<1> QED
  BY <1>1 DEF From, Ent

(* An erasure takes the entry of its bucket, and no other.                 *)
LEMMA EmptiedEnt ==
  ASSUME NEW t, WF(Limit, t), NEW u, NEW b \in Used(t), NEW z \in Used(t), Emptied(t, u, b, z)
  PROVE  Ent(u) = Ent(t) \ {t.buckets[b]}
<1>1. \A x, y \in Used(t) : t.buckets[x] = t.buckets[y] => x = y
  BY DEF WF, Sound, Filled
<1>2. /\ Used(u) = Used(t) \ {z}
      /\ \A x \in Used(u) : u.buckets[x] = IF x = b THEN t.buckets[z] ELSE t.buckets[x]
  BY DEF Emptied
<1>3. ASSUME NEW e \in Ent(u) PROVE e \in Ent(t) /\ e # t.buckets[b]
  <2>1. PICK x \in Used(u) : e = u.buckets[x]
    BY DEF Ent
  <2>2. CASE x = b
    <3>1. e = t.buckets[z] /\ z # b
      BY <1>2, <2>1, <2>2
    <3> QED
      BY <1>1, <3>1 DEF Ent
  <2>3. CASE x # b
    <3>1. e = t.buckets[x] /\ x \in Used(t)
      BY <1>2, <2>1, <2>3
    <3> QED
      BY <1>1, <2>3, <3>1 DEF Ent
  <2> QED
    BY <2>2, <2>3
<1>4. ASSUME NEW e \in Ent(t), e # t.buckets[b] PROVE e \in Ent(u)
  <2>1. PICK x \in Used(t) : e = t.buckets[x]
    BY DEF Ent
  <2>2. x # b
    BY <1>4, <2>1
  <2>3. CASE x = z
    <3>1. b \in Used(u) /\ u.buckets[b] = e
      BY <1>2, <2>1, <2>2, <2>3
    <3> QED
      BY <3>1 DEF Ent
  <2>4. CASE x # z
    <3>1. x \in Used(u) /\ u.buckets[x] = e
      BY <1>2, <2>1, <2>2, <2>4
    <3> QED
      BY <3>1 DEF Ent
  <2> QED
    BY <2>3, <2>4
<1> QED
  BY <1>3, <1>4

(* An iterator whose key was erased: the key that was moved is ahead of it *)
(* if and only if it was before.                                           *)
LEMMA EmptiedAhead ==
  ASSUME NEW t, WF(Limit, t), NEW u, NEW b \in Used(t), NEW z \in Used(t), Emptied(t, u, b, z)
  PROVE  /\ z <= b => From(u, b + 1) = From(t, b + 1)
         /\ ~(z <= b) => b \in Used(u) /\ From(u, b) = From(t, b + 1)
<1>1. \A x \in Used(t) : x \in Nat
  BY DEF Used, Indices, WF, Sound, Shaped
<1>2. /\ Used(u) = Used(t) \ {z}
      /\ \A x \in Used(u) : u.buckets[x] = IF x = b THEN t.buckets[z] ELSE t.buckets[x]
  BY DEF Emptied
<1>3. CASE z <= b
  <2>1. {x \in Used(u) : b + 1 <= x} = {x \in Used(t) : b + 1 <= x}
    BY <1>1, <1>2, <1>3
  <2>2. \A x \in Used(u) : b + 1 <= x => u.buckets[x] = t.buckets[x]
    BY <1>1, <1>2
  <2> QED
    BY <1>3, <2>1, <2>2 DEF From
<1>4. CASE ~(z <= b)
  <2>1. b \in Used(u) /\ b # z /\ b + 1 <= z
    BY <1>1, <1>2, <1>4
  <2>2. ASSUME NEW k \in From(u, b) PROVE k \in From(t, b + 1)
    <3>1. PICK x \in Used(u) : b <= x /\ k = u.buckets[x].key
      BY DEF From
    <3>2. CASE x = b
      <4>1. k = t.buckets[z].key
        BY <1>2, <3>1, <3>2
      <4> QED
        BY <2>1, <4>1 DEF From
    <3>3. CASE x # b
      <4>1. x \in Used(t) /\ k = t.buckets[x].key
        BY <1>2, <3>1, <3>3
      <4>2. b + 1 <= x
        BY <1>1, <3>1, <3>3, <4>1
      <4> QED
        BY <4>1, <4>2 DEF From
    <3> QED
      BY <3>2, <3>3
  <2>3. ASSUME NEW k \in From(t, b + 1) PROVE k \in From(u, b)
    <3>1. PICK x \in Used(t) : b + 1 <= x /\ k = t.buckets[x].key
      BY DEF From
    <3>2. x # b /\ b <= x /\ b <= b
      BY <1>1, <3>1
    <3>3. CASE x = z
      <4>1. u.buckets[b].key = k
        BY <1>2, <2>1, <3>1, <3>3
      <4> QED
        BY <2>1, <3>2, <4>1 DEF From
    <3>4. CASE x # z
      <4>1. x \in Used(u) /\ u.buckets[x].key = k
        BY <1>2, <3>1, <3>2, <3>4
      <4> QED
        BY <3>2, <4>1 DEF From
    <3> QED
      BY <3>3, <3>4
  <2> QED
    BY <1>4, <2>1, <2>2, <2>3
<1> QED
  BY <1>3, <1>4

-----------------------------------------------------------------------------
(* The inductive invariant.                                                *)

(* The platform's limit is above the number of keys, the table is well     *)
(* formed and an iterator in use stands on a key.                          *)
Okay(p, t, i, r) ==
  /\ p \in Platforms /\ Cardinality(Keys) < p.limit
  /\ WF(p.limit, t)
  /\ i = End \/ i \in Used(t)
  /\ r \in Values \cup BOOLEAN \cup {End}

Inv == Okay(platform, table, itr, ret)

(* What the keys ahead of an iterator are in the model.                    *)
LEMMA AheadIs ==
  ASSUME NEW t, t.mask \in Nat, NEW i, i = End \/ i \in Used(t)
  PROVE  (IF i = End THEN {}
          ELSE {t.buckets[b].key : b \in {c \in i .. t.mask : Occupied(t, c)}})
         = AheadOf(t, i)
<1>1. CASE i = End
  BY <1>1 DEF AheadOf
<1>2. CASE i # End
  <2>1. i \in Nat
    BY <1>2 DEF Used, Indices
  <2>2. {c \in i .. t.mask : Occupied(t, c)} = {x \in Used(t) : i <= x}
    BY <2>1 DEF Used, Indices
  <2> QED
    BY <1>2, <2>2 DEF AheadOf, From
<1> QED
  BY <1>1, <1>2

(* What is used of the invariant.                                          *)
LEMMA InvFacts ==
  ASSUME Inv
  PROVE  /\ Roomy /\ Limit \in Nat /\ Limit # 0 /\ WF(Limit, table)
         /\ platform.mallocs \subseteq Nat
         /\ table.mask \in Nat /\ Keyed(Ent(table))
         /\ Contents = MapOf(Ent(table)) /\ Ahead = AheadOf(table, itr)
<1>1. platform \in Platforms /\ Cardinality(Keys) < Limit /\ WF(Limit, table)
  BY DEF Inv, Okay, Limit
<1>2. Limit \in Nat /\ Limit # 0 /\ platform.mallocs \subseteq Nat
  BY <1>1, PlatformsAssumption DEF Limit
<1>3. table.mask \in Nat
  BY <1>1 DEF WF, Sound, Shaped
<1>4. Keyed(Ent(table)) /\ Entries = Ent(table)
  BY <1>1, EntriesAre DEF Entries
<1>5. Contents = MapOf(Ent(table))
  BY <1>4 DEF Contents, MapOf
<1>6. Ahead = AheadOf(table, itr)
  BY <1>3, AheadIs DEF Inv, Okay, Ahead
<1> QED
  BY <1>1, <1>2, <1>3, <1>4, <1>5, <1>6 DEF Roomy

(* What has to be shown of a step.                                         *)
LEMMA InvStep ==
  ASSUME Inv, UNCHANGED platform, WF(Limit, table'),
         itr' = End \/ itr' \in Used(table'), ret' \in Values \cup BOOLEAN \cup {End}
  PROVE  Inv' /\ Contents' = MapOf(Ent(table')) /\ Ahead' = AheadOf(table', itr')
<1>1. Inv'
  BY DEF Inv, Okay, Limit
<1>2. table'.mask \in Nat
  BY DEF WF, Sound, Shaped
<1>3. Entries' = Ent(table')
  BY EntriesAre DEF Entries
<1>4. Contents' = MapOf(Ent(table'))
  BY <1>3 DEF Contents, MapOf
<1>5. Ahead' = AheadOf(table', itr')
  BY <1>2, AheadIs DEF Ahead
<1> QED
  BY <1>1, <1>4, <1>5

(* The initial state is that of an empty map.                              *)
LEMMA InitInv ==
  ASSUME Init, Roomy
  PROVE  Inv /\ Map!Init
<1>1. WF(Limit, table) /\ Ent(table) = {}
  BY EmptyBlank, DyadicOne, BlankIs DEF Init
<1>2. Inv
  BY <1>1 DEF Init, Inv, Okay, Roomy, Limit
<1>3. Contents = <<>> /\ Ahead = {}
  BY <1>1, <1>2, InvFacts, MapEmpty DEF Init, AheadOf
<1> QED
  BY <1>2, <1>3 DEF Map!Init, Init

(* A step that keeps the keys and ends the iteration.                      *)
LEMMA SameKeys ==
  ASSUME Inv, UNCHANGED platform, WF(Limit, table'), Ent(table') = Ent(table),
         itr' = End, ret' \in Values \cup BOOLEAN \cup {End}
  PROVE  Inv' /\ Contents' = Contents /\ Ahead' = {}
<1>1. Inv' /\ Contents' = MapOf(Ent(table')) /\ Ahead' = AheadOf(table', itr')
  BY InvStep
<1> QED
  BY <1>1, InvFacts DEF AheadOf

(* insert() and get_or_insert(): the two outcomes.                         *)
LEMMA InsertKeyStep ==
  ASSUME Inv, NEW k \in Keys, NEW v \in Values, NEW replace \in BOOLEAN,
         InsertKey(k, v, replace)
  PROVE  /\ Inv' /\ Ahead' = {}
         /\ \/ ret' = End /\ Contents' = Contents
            \/ /\ ret' = v /\ Contents' = Put(Contents, k, v)
               /\ replace = TRUE \/ k \notin DOMAIN Contents
            \/ /\ replace = FALSE /\ k \in DOMAIN Contents
               /\ ret' = Contents[k] /\ Contents' = Contents
<1>0. /\ Roomy /\ Limit # 0 /\ WF(Limit, table) /\ platform.mallocs \subseteq Nat
      /\ Keyed(Ent(table)) /\ Contents = MapOf(Ent(table))
  BY InvFacts
<1>1. PICK m \in platform.mallocs :
        /\ table' = Inserted(table, k, v, replace, m).table
        /\ ret' = ValueAt(Inserted(table, k, v, replace, m).table,
                          Inserted(table, k, v, replace, m).at)
        /\ itr' = End /\ UNCHANGED platform
  BY DEF InsertKey
<1> DEFINE s == Inserted(table, k, v, replace, m)
           E == Ent(table)
<1>2. Attempted(E, s, k, v, replace)
  BY <1>0, InsertedIs
<1>3. table' = s.table /\ ret' = ValueAt(table', s.at)
  BY <1>1
<1> HIDE DEF s, E
<1>4. WF(Limit, table')
  BY <1>2, <1>3 DEF Attempted
<1>5. CASE s.at = End /\ Ent(s.table) = E
  <2>1. ret' = End /\ Ent(table') = Ent(table)
    BY <1>3, <1>5 DEF ValueAt, E
  <2> QED
    BY <1>1, <1>4, <2>1, SameKeys
<1>6. CASE Got(E, s.table, s.at, k, v, replace)
  <2> DEFINE e == Entry(k, v)
             a == s.at
  <2>1. a \in Used(table') /\ a # End
    <3>1. a \in Used(table')
      BY <1>3, <1>6 DEF Got
    <3> QED
      BY <3>1, EndAssumption DEF Used, Indices
  <2>2. ret' = table'.buckets[a].val
    BY <1>3, <2>1 DEF ValueAt
  <2>3. e \in Bucket /\ e.key = k /\ e.val = v
    BY DEF Entry, Bucket
  <2> HIDE DEF a, e
  <2>4. \/ (\A o \in E : o.key # k) /\ table'.buckets[a] = e /\ Ent(table') = E \cup {e}
        \/ \E o \in E : /\ o.key = k
                        /\ replace => /\ table'.buckets[a] = e
                                      /\ Ent(table') = (E \ {o}) \cup {e}
                        /\ ~replace => table'.buckets[a] = o /\ Ent(table') = E
    BY <1>3, <1>6 DEF Got, a, e, Entry
  <2>5. MapsTo(Contents, E) /\ DOMAIN Contents = {o.key : o \in E}
    BY <1>0, MapValues DEF E
  <2>6. CASE (\A o \in E : o.key # k) /\ table'.buckets[a] = e /\ Ent(table') = E \cup {e}
    <3>1. ret' = v
      BY <2>2, <2>3, <2>6
    <3>2. Inv' /\ Contents' = MapOf(Ent(table')) /\ Ahead' = AheadOf(table', itr')
      BY <1>1, <1>4, <3>1, InvStep
    <3>3. MapOf(Ent(table')) = Put(Contents, k, v)
      BY <1>0, <2>6, MapAdd DEF e, E
    <3>4. k \notin DOMAIN Contents
      BY <2>5, <2>6
    <3> QED
      BY <1>1, <3>1, <3>2, <3>3, <3>4 DEF AheadOf
  <2>7. ASSUME NEW o \in E, o.key = k, replace = TRUE, table'.buckets[a] = e,
               Ent(table') = (E \ {o}) \cup {e}
        PROVE  Inv' /\ Ahead' = {} /\ ret' = v /\ Contents' = Put(Contents, k, v)
    <3>1. ret' = v
      BY <2>2, <2>3, <2>7
    <3>2. Inv' /\ Contents' = MapOf(Ent(table')) /\ Ahead' = AheadOf(table', itr')
      BY <1>1, <1>4, <3>1, InvStep
    <3>3. MapOf(Ent(table')) = Put(Contents, k, v)
      BY <1>0, <2>7, MapReplace DEF e, E
    <3> QED
      BY <1>1, <3>1, <3>2, <3>3 DEF AheadOf
  <2>8. ASSUME NEW o \in E, o.key = k, table'.buckets[a] = o, Ent(table') = E
        PROVE  /\ Inv' /\ Ahead' = {} /\ k \in DOMAIN Contents
               /\ ret' = Contents[k] /\ Contents' = Contents
    <3>1. ret' = o.val /\ o \in Bucket
      BY <1>0, <2>2, <2>8 DEF Keyed, E
    <3>2. ret' \in Values
      BY <3>1 DEF Bucket
    <3>3. Inv' /\ Contents' = Contents /\ Ahead' = {}
      BY <1>1, <1>4, <2>8, <3>2, SameKeys DEF E
    <3>4. k \in DOMAIN Contents /\ Contents[k] = o.val
      BY <2>5, <2>8 DEF MapsTo
    <3> QED
      BY <3>1, <3>3, <3>4
  <2>9. CASE replace = TRUE
    BY <2>4, <2>6, <2>7, <2>9
  <2>10. CASE replace = FALSE
    BY <2>4, <2>6, <2>8, <2>10
  <2> QED
    BY <2>9, <2>10
<1> QED
  BY <1>2, <1>5, <1>6 DEF Attempted

(* An insertion is one of the map, or fails.                               *)
LEMMA InsertStep ==
  ASSUME Inv, NEW k \in Keys, NEW v \in Values, Insert(k, v)
  PROVE  Inv' /\ (Map!Insert(k, v) \/ Map!InsertFails)
<1> DEFINE rep == TRUE
<1>1. InsertKey(k, v, rep) /\ rep \in BOOLEAN /\ rep # FALSE
  BY DEF Insert
<1> HIDE DEF rep
<1>2. /\ Inv' /\ Ahead' = {}
      /\ \/ ret' = End /\ Contents' = Contents
         \/ ret' = v /\ Contents' = Put(Contents, k, v)
  BY <1>1, InsertKeyStep
<1> QED
  BY <1>2 DEF Map!Insert, Map!InsertFails, Map!With, Put

(* So is get_or_insert(), which keeps a value that is there.               *)
LEMMA GetOrInsertStep ==
  ASSUME Inv, NEW k \in Keys, NEW v \in Values, GetOrInsert(k, v)
  PROVE  Inv' /\ (Map!GetOrInsert(k, v) \/ Map!InsertFails)
<1> DEFINE rep == FALSE
<1>1. InsertKey(k, v, rep) /\ rep \in BOOLEAN /\ rep # TRUE
  BY DEF GetOrInsert
<1> HIDE DEF rep
<1>2. /\ Inv' /\ Ahead' = {}
      /\ \/ ret' = End /\ Contents' = Contents
         \/ ret' = v /\ Contents' = Put(Contents, k, v) /\ k \notin DOMAIN Contents
         \/ k \in DOMAIN Contents /\ ret' = Contents[k] /\ Contents' = Contents
  BY <1>1, InsertKeyStep
<1> QED
  BY <1>2 DEF Map!GetOrInsert, Map!Insert, Map!InsertFails, Map!With, Put

(* A key is found where the map has it.                                    *)
LEMMA FoundIs ==
  ASSUME Inv, NEW k \in Keys
  PROVE  \/ Lookup(table, k) = End /\ k \notin DOMAIN Contents
         \/ /\ Lookup(table, k) \in Used(table) /\ Lookup(table, k) # End
            /\ k \in DOMAIN Contents /\ table.buckets[Lookup(table, k)] \in Ent(table)
            /\ table.buckets[Lookup(table, k)].key = k
            /\ table.buckets[Lookup(table, k)].val = Contents[k] /\ Contents[k] \in Values
<1> DEFINE b == Lookup(table, k)
           E == Ent(table)
<1>0. WF(Limit, table) /\ Limit \in Nat /\ Keyed(E) /\ Contents = MapOf(E)
  BY InvFacts
<1>1. MapsTo(Contents, E) /\ DOMAIN Contents = {o.key : o \in E}
  BY <1>0, MapValues
<1>2. \/ b = End /\ \A x \in Used(table) : table.buckets[x].key # k
      \/ b \in Used(table) /\ table.buckets[b].key = k
  BY <1>0, LookupIs DEF WF
<1> HIDE DEF b
<1>3. CASE b = End /\ \A x \in Used(table) : table.buckets[x].key # k
  <2>1. k \notin DOMAIN Contents
    BY <1>1, <1>3 DEF Ent
  <2> QED
    BY <1>3, <2>1 DEF b
<1>4. CASE b \in Used(table) /\ table.buckets[b].key = k
  <2>1. b # End
    BY <1>4, EndAssumption DEF Used, Indices
  <2> DEFINE o == table.buckets[b]
  <2>2. o \in E /\ o.key = k
    BY <1>4 DEF Ent
  <2> HIDE DEF o, E
  <2>3. k \in DOMAIN Contents /\ Contents[k] = o.val /\ o.val \in Values
    BY <1>0, <1>1, <2>2 DEF MapsTo, Keyed, Bucket
  <2> QED
    BY <1>4, <2>1, <2>2, <2>3 DEF b, o, E
<1> QED
  BY <1>2, <1>3, <1>4

(* get().                                                                  *)
LEMMA GetStep ==
  ASSUME Inv, NEW k \in Keys, Get(k)
  PROVE  Inv' /\ Map!Get(k)
<1>1. ret' = ValueAt(table, Lookup(table, k)) /\ UNCHANGED <<platform, table, itr>>
  BY DEF Get
<1>2. ret' = Map!Found(k) /\ ret' \in Values \cup {End}
  BY <1>1, FoundIs DEF ValueAt, Map!Found
<1>3. WF(Limit, table') /\ (itr' = End \/ itr' \in Used(table'))
  BY <1>1, InvFacts DEF Inv, Okay
<1>4. Inv' /\ Contents' = MapOf(Ent(table')) /\ Ahead' = AheadOf(table', itr')
  BY <1>1, <1>2, <1>3, InvStep
<1>5. Contents' = Contents /\ Ahead' = Ahead
  BY <1>1, <1>4, InvFacts
<1> QED
  BY <1>2, <1>4, <1>5 DEF Map!Get

(* erase().                                                                *)
LEMMA EraseStep ==
  ASSUME Inv, NEW k \in Keys, Erase(k)
  PROVE  Inv' /\ Map!Erase(k)
<1> DEFINE b == Lookup(table, k)
           E == Ent(table)
<1>0. WF(Limit, table) /\ Limit \in Nat /\ Keyed(E) /\ Contents = MapOf(E)
  BY InvFacts
<1>1. /\ table' = IF b = End THEN table ELSE EraseRaw(table, b).table
      /\ ret' = (b # End) /\ itr' = End /\ UNCHANGED platform
  BY DEF Erase
<1>2. ret' \in BOOLEAN
  BY <1>1
<1>3. \/ b = End /\ k \notin DOMAIN Contents
      \/ /\ b \in Used(table) /\ b # End /\ k \in DOMAIN Contents
         /\ table.buckets[b] \in E /\ table.buckets[b].key = k
  BY FoundIs
<1> HIDE DEF b, E
<1>4. CASE b = End /\ k \notin DOMAIN Contents
  <2>1. table' = table /\ ret' = FALSE
    BY <1>1, <1>4
  <2>2. Inv' /\ Contents' = Contents /\ Ahead' = {}
    BY <1>0, <1>1, <1>2, <2>1, SameKeys
  <2>3. Map!Without(k) = Contents
    <3>1. Contents = [x \in DOMAIN Contents |-> Contents[x]]
      BY <1>0 DEF MapOf
    <3>2. DOMAIN Contents \ {k} = DOMAIN Contents
      BY <1>4
    <3> QED
      BY <3>1, <3>2 DEF Map!Without
  <2>4. ret' = (k \in DOMAIN Contents)
    <3>1. (k \in DOMAIN Contents) = FALSE
      BY <1>4
    <3> QED
      BY <2>1, <3>1
  <2> QED
    BY <2>2, <2>3, <2>4 DEF Map!Erase
<1>5. CASE /\ b \in Used(table) /\ b # End /\ k \in DOMAIN Contents
           /\ table.buckets[b] \in E /\ table.buckets[b].key = k
  <2>1. table' = EraseRaw(table, b).table /\ ret' = TRUE
    BY <1>1, <1>5
  <2>2. PICK z \in Used(table) : Emptied(table, table', b, z)
    BY <1>0, <1>5, <2>1, EraseRawIs DEF Erased
  <2>3. WF(Limit, table') /\ Ent(table') = E \ {table.buckets[b]}
    BY <1>0, <1>5, <2>2, EmptiedEnt DEF Emptied, E
  <2>4. Inv' /\ Contents' = MapOf(Ent(table')) /\ Ahead' = {}
    BY <1>1, <1>2, <2>3, InvStep DEF AheadOf
  <2>5. MapOf(Ent(table')) = Drop(Contents, k)
    <3> DEFINE o == table.buckets[b]
    <3>1. o \in E /\ o.key = k
      BY <1>5
    <3> HIDE DEF o
    <3>2. MapOf(E \ {o}) = Drop(MapOf(E), o.key)
      BY <1>0, <3>1, MapRemove
    <3> QED
      BY <1>0, <2>3, <3>1, <3>2 DEF o
  <2> QED
    BY <1>5, <2>1, <2>4, <2>5 DEF Map!Erase, Map!Without, Drop
<1> QED
  BY <1>3, <1>4, <1>5

(* reserve() and shrink(), where they rehash.                              *)
LEMMA ResizeStep ==
  ASSUME Inv, NEW n, Dyadic(n), ResizeTo(n), itr' = End, UNCHANGED platform
  PROVE  Inv' /\ \E ok \in BOOLEAN : Map!Resize(ok)
<1>0. Roomy /\ Limit # 0 /\ WF(Limit, table) /\ platform.mallocs \subseteq Nat
  BY InvFacts
<1>1. PICK m \in platform.mallocs : /\ table' = Rehash(table, n, m).table
                                    /\ ret' = Rehash(table, n, m).ok
  BY DEF ResizeTo
<1>2. Rehashed(table, Rehash(table, n, m))
  BY <1>0, RehashIs
<1>3. ret' \in BOOLEAN /\ WF(Limit, table') /\ Ent(table') = Ent(table)
  BY <1>0, <1>1, <1>2 DEF Rehashed
<1>4. Inv' /\ Contents' = Contents /\ Ahead' = {}
  BY <1>3, SameKeys
<1> QED
  BY <1>3, <1>4 DEF Map!Resize

(* and where they do not; and init_clone().                                *)
LEMMA IdleStep ==
  ASSUME Inv, UNCHANGED <<platform, table>>, ret' \in BOOLEAN, itr' = End
  PROVE  Inv' /\ \E ok \in BOOLEAN : Map!Resize(ok)
<1>1. WF(Limit, table') /\ Ent(table') = Ent(table)
  BY InvFacts
<1>2. Inv' /\ Contents' = Contents /\ Ahead' = {}
  BY <1>1, SameKeys
<1> QED
  BY <1>2 DEF Map!Resize

(* reserve() grows the table or leaves it.                                 *)
LEMMA ReserveStep ==
  ASSUME Inv, NEW size \in Reserves, Reserve(size)
  PROVE  Inv' /\ \E ok \in BOOLEAN : Map!Resize(ok)
<1> DEFINE n == MinBucketCount(size)
<1>0. itr' = End /\ UNCHANGED platform
  BY DEF Reserve
<1>1. CASE n <= BucketCount(table)
  <2>1. ret' = TRUE /\ UNCHANGED <<platform, table>>
    BY <1>1 DEF Reserve
  <2> QED
    BY <1>0, <2>1, IdleStep
<1>2. CASE ~(n <= BucketCount(table))
  <2>1. ResizeTo(n)
    BY <1>2 DEF Reserve
  <2>2. BucketCount(table) \in Nat
    BY InvFacts DEF BucketCount
  <2>3. size \in Nat /\ size # 0
    <3>1. size = 0 => n = 0
      BY DEF MinBucketCount
    <3> HIDE DEF n
    <3> QED
      BY <1>2, <2>2, <3>1, ClientAssumption
  <2>4. Dyadic(n)
    BY <2>3, MinCountIs
  <2> HIDE DEF n
  <2> QED
    BY <1>0, <2>1, <2>4, ResizeStep
<1> QED
  BY <1>1, <1>2

(* A step that leaves a table without keys.                                *)
LEMMA BlankStep ==
  ASSUME Inv, UNCHANGED platform, NEW n, Dyadic(n), Blank(table', n), itr' = End,
         ret' \in Values \cup BOOLEAN \cup {End}
  PROVE  Inv' /\ Contents' = <<>> /\ Ahead' = {}
<1>1. WF(Limit, table') /\ Ent(table') = {}
  BY BlankIs
<1>2. Inv' /\ Contents' = MapOf(Ent(table')) /\ Ahead' = AheadOf(table', itr')
  BY <1>1, InvStep
<1> QED
  BY <1>1, <1>2, MapEmpty DEF AheadOf

(* A table whose count is zero has no key.                                 *)
LEMMA NoneCounted ==
  ASSUME Inv, table.count = 0
  PROVE  Ent(table) = {} /\ Contents = <<>>
<1>1. Used(table) = {}
  BY InvFacts, EmptyCount
<1>2. Ent(table) = {}
  BY <1>1 DEF Ent
<1> QED
  BY <1>2, InvFacts, MapEmpty

(* shrink() leaves the table, frees it or moves the keys.                  *)
LEMMA ShrinkStep ==
  ASSUME Inv, Shrink
  PROVE  Inv' /\ \E ok \in BOOLEAN : Map!Resize(ok)
<1> DEFINE n == MinBucketCount(table.count)
<1>0. itr' = End /\ UNCHANGED platform
  BY DEF Shrink
<1>1. \/ n = BucketCount(table) /\ ret' = TRUE /\ UNCHANGED table
      \/ n # BucketCount(table) /\ n = 0 /\ ret' = TRUE /\ table' = EmptyTable
      \/ n # BucketCount(table) /\ n # 0 /\ ResizeTo(n)
  BY DEF Shrink
<1>2. table.count \in Nat
  BY InvFacts DEF WF, Sound, Shaped
<1>3. table.count = 0 => n = 0
  BY DEF MinBucketCount
<1>4. table.count # 0 => Dyadic(n)
  BY <1>2, MinCountIs
<1> HIDE DEF n
<1>5. CASE n = BucketCount(table) /\ ret' = TRUE /\ UNCHANGED table
  BY <1>0, <1>5, IdleStep
<1>6. CASE n = 0 /\ ret' = TRUE /\ table' = EmptyTable
  <2>1. table.count = 0
    BY <1>4, <1>6 DEF Dyadic
  <2>2. Inv' /\ Contents' = <<>> /\ Ahead' = {}
    BY <1>0, <1>6, EmptyBlank, DyadicOne, BlankStep
  <2>3. Contents' = Contents
    BY <2>1, <2>2, NoneCounted
  <2> QED
    BY <1>6, <2>2, <2>3 DEF Map!Resize
<1>7. CASE n # 0 /\ ResizeTo(n)
  BY <1>0, <1>3, <1>4, <1>7, ResizeStep
<1> QED
  BY <1>1, <1>5, <1>6, <1>7

(* clear() empties the table.                                              *)
LEMMA ClearStep ==
  ASSUME Inv, Clear
  PROVE  Inv' /\ Map!Clear
<1>0. itr' = End /\ UNCHANGED <<platform, ret>> /\ ret \in Values \cup BOOLEAN \cup {End}
  BY DEF Clear, Inv, Okay
<1>1. CASE table.count = 0
  <2>1. table' = table /\ WF(Limit, table)
    BY <1>1, InvFacts DEF Clear
  <2>2. Inv' /\ Contents' = Contents /\ Ahead' = {}
    BY <1>0, <2>1, SameKeys
  <2>3. Contents' = <<>>
    BY <1>1, <2>2, NoneCounted
  <2> QED
    BY <1>0, <2>2, <2>3 DEF Map!Clear
<1>2. CASE table.count # 0
  <2> DEFINE n == table.mask + 1
  <2>1. /\ Dyadic(n) /\ Shaped(table) /\ table.mask \in Nat /\ n - 1 = table.mask
    BY InvFacts DEF WF, Sound, Shaped
  <2>2. DOMAIN table = {"count", "mask", "metadata", "buckets"}
    BY <2>1 DEF Shaped, Record
  <2>3. Blank(table', n)
    <3>1. table' = [table EXCEPT !.count = 0,
                                 !.metadata = [b \in Indices(table) |-> VT_EMPTY],
                                 !.buckets = [b \in Indices(table) |-> End]]
      BY <1>2 DEF Clear
    <3>2. Record(table')
      BY <2>2, <3>1 DEF Record
    <3>3. /\ table'.count = 0 /\ table'.mask = table.mask
          /\ table'.metadata = [b \in Indices(table) |-> VT_EMPTY]
          /\ table'.buckets = [b \in Indices(table) |-> End]
      BY <2>2, <3>1
    <3> QED
      BY <2>1, <3>2, <3>3 DEF Blank, Indices
  <2> HIDE DEF n
  <2>4. Inv' /\ Contents' = <<>> /\ Ahead' = {}
    BY <1>0, <2>1, <2>3, BlankStep
  <2> QED
    BY <1>0, <2>4 DEF Map!Clear
<1> QED
  BY <1>1, <1>2

(* cleanup() frees the table.                                              *)
LEMMA CleanupStep ==
  ASSUME Inv, Cleanup
  PROVE  Inv' /\ Map!Clear
<1>0. /\ table' = EmptyTable /\ itr' = End /\ UNCHANGED <<platform, ret>>
      /\ ret \in Values \cup BOOLEAN \cup {End}
  BY DEF Cleanup, Inv, Okay
<1>1. Inv' /\ Contents' = <<>> /\ Ahead' = {}
  BY <1>0, EmptyBlank, DyadicOne, BlankStep
<1> QED
  BY <1>0, <1>1 DEF Map!Clear

(* first() begins an iteration over all the keys.                          *)
LEMMA FirstStep ==
  ASSUME Inv, First
  PROVE  Inv' /\ Map!First
<1>0. /\ itr' = IF table.count = 0 THEN End ELSE FastForward(table, 0)
      /\ UNCHANGED <<platform, table, ret>>
      /\ ret \in Values \cup BOOLEAN \cup {End}
  BY DEF First, Inv, Okay
<1>1. /\ WF(Limit, table) /\ table.mask \in Nat /\ Keyed(Ent(table))
      /\ Contents = MapOf(Ent(table))
  BY InvFacts
<1>2. DOMAIN Contents = {e.key : e \in Ent(table)}
  BY <1>1, MapValues
<1>3. (itr' = End \/ itr' \in Used(table)) /\ AheadOf(table, itr') = DOMAIN Contents
  <2>1. CASE table.count = 0
    <3>1. itr' = End /\ Ent(table) = {}
      BY <1>0, <2>1, NoneCounted
    <3> QED
      BY <1>2, <3>1 DEF AheadOf
  <2>2. CASE table.count # 0
    <3> DEFINE z == 0
    <3>1. z \in Nat /\ itr' = FastForward(table, z)
      BY <1>0, <2>2
    <3>2. From(table, z) = {e.key : e \in Ent(table)}
      BY <1>1, FromStart
    <3> HIDE DEF z
    <3> QED
      BY <1>1, <1>2, <3>1, <3>2, FastForwardIs
  <2> QED
    BY <2>1, <2>2
<1>4. Inv' /\ Contents' = MapOf(Ent(table')) /\ Ahead' = AheadOf(table', itr')
  BY <1>0, <1>1, <1>3, InvStep
<1> QED
  BY <1>0, <1>1, <1>3, <1>4 DEF Map!First

(* next() goes past the key of its bucket.                                 *)
LEMMA IterNextStep ==
  ASSUME Inv, IterNext
  PROVE  Inv' /\ Map!IterNext
<1>0. /\ itr # End /\ itr' = FastForward(table, itr + 1)
      /\ UNCHANGED <<platform, table, ret>>
      /\ ret \in Values \cup BOOLEAN \cup {End} /\ itr \in Used(table)
  BY DEF IterNext, Inv, Okay
<1>1. /\ WF(Limit, table) /\ table.mask \in Nat
      /\ Contents = MapOf(Ent(table)) /\ Ahead = AheadOf(table, itr)
  BY InvFacts
<1> DEFINE k == table.buckets[itr].key
           j == itr + 1
<1>2. j \in Nat
  BY <1>0 DEF Used, Indices
<1>3. k \in From(table, itr) /\ From(table, j) = From(table, itr) \ {k}
  BY <1>0, <1>1, FromNext
<1>4. itr' = FastForward(table, j)
  BY <1>0
<1> HIDE DEF j, k
<1>5. /\ itr' = End \/ itr' \in Used(table)
      /\ AheadOf(table, itr') = From(table, j)
  BY <1>1, <1>2, <1>4, FastForwardIs
<1>6. Inv' /\ Contents' = MapOf(Ent(table')) /\ Ahead' = AheadOf(table', itr')
  BY <1>0, <1>1, <1>5, InvStep
<1>7. Ahead = From(table, itr)
  BY <1>0, <1>1 DEF AheadOf
<1>8. k \in Ahead /\ Ahead' = Ahead \ {k}
  BY <1>0, <1>3, <1>5, <1>6, <1>7
<1>9. Contents' = Contents /\ ret' = ret
  BY <1>0, <1>1, <1>6
<1> QED
  BY <1>6, <1>8, <1>9 DEF Map!IterNext

(* erase_itr() erases the key of its bucket and goes past no other.        *)
LEMMA EraseItrStep ==
  ASSUME Inv, EraseItr
  PROVE  Inv' /\ Map!EraseItr
<1> DEFINE r == EraseRaw(table, itr)
           u == r.table
           k == table.buckets[itr].key
           j == itr + 1
           E == Ent(table)
<1>0. /\ itr # End /\ table' = u
      /\ itr' = IF r.advance THEN FastForward(table', j) ELSE itr
      /\ UNCHANGED <<platform, ret>>
      /\ ret \in Values \cup BOOLEAN \cup {End} /\ itr \in Used(table)
  BY DEF EraseItr, Inv, Okay
<1>1. /\ WF(Limit, table) /\ Limit \in Nat /\ table.mask \in Nat /\ Keyed(E)
      /\ Contents = MapOf(E) /\ Ahead = AheadOf(table, itr)
  BY InvFacts
<1>2. j \in Nat
  BY <1>0 DEF Used, Indices
<1>3. PICK z \in Used(table) : Emptied(table, table', itr, z) /\ r.advance = (z <= itr)
  BY <1>0, <1>1, EraseRawIs DEF Erased
<1>4. k \in From(table, itr) /\ From(table, j) = From(table, itr) \ {k}
  BY <1>0, <1>1, FromNext
<1>5. WF(Limit, table') /\ Ent(table') = E \ {table.buckets[itr]} /\ table'.mask \in Nat
  <2>1. WF(Limit, table') /\ Ent(table') = E \ {table.buckets[itr]}
    BY <1>0, <1>1, <1>3, EmptiedEnt DEF Emptied
  <2> QED
    BY <2>1 DEF WF, Sound, Shaped
<1>6. /\ z <= itr => From(table', j) = From(table, j)
      /\ ~(z <= itr) => itr \in Used(table') /\ From(table', itr) = From(table, j)
  BY <1>0, <1>1, <1>3, EmptiedAhead
<1> HIDE DEF r, j, k, E
<1>7. (itr' = End \/ itr' \in Used(table')) /\ AheadOf(table', itr') = From(table, j)
  <2>1. CASE z <= itr
    <3>1. itr' = FastForward(table', j)
      BY <1>0, <1>3, <2>1
    <3> QED
      BY <1>2, <1>5, <1>6, <2>1, <3>1, FastForwardIs
  <2>2. CASE ~(z <= itr)
    <3>1. itr' = itr
      BY <1>0, <1>3, <2>2
    <3> QED
      BY <1>0, <1>6, <2>2, <3>1 DEF AheadOf
  <2> QED
    BY <2>1, <2>2
<1>8. Inv' /\ Contents' = MapOf(Ent(table')) /\ Ahead' = AheadOf(table', itr')
  BY <1>0, <1>5, <1>7, InvStep
<1>9. Ahead = From(table, itr)
  BY <1>0, <1>1 DEF AheadOf
<1>10. k \in Ahead /\ Ahead' = Ahead \ {k}
  BY <1>4, <1>7, <1>8, <1>9
<1>11. Contents' = Drop(Contents, k)
  <2> DEFINE o == table.buckets[itr]
  <2>1. o \in E /\ o.key = k
    BY <1>0 DEF E, Ent, k
  <2> HIDE DEF o
  <2>2. MapOf(E \ {o}) = Drop(MapOf(E), o.key)
    BY <1>1, <2>1, MapRemove
  <2> QED
    BY <1>1, <1>5, <1>8, <2>1, <2>2 DEF o
<1> QED
  BY <1>0, <1>8, <1>10, <1>11 DEF Map!EraseItr, Map!Without, Drop

(* Every step keeps the invariant, and is one of the map or none.          *)
LEMMA NextStep ==
  ASSUME Inv, [Next]_vars
  PROVE  Inv' /\ [Map!Next]_Map!vars
<1> USE DEF Map!Next
<1>1. ASSUME NEW q \in Pairs, Insert(q[1], q[2]) \/ GetOrInsert(q[1], q[2])
      PROVE  Inv' /\ Map!Next
  <2>1. q[1] \in Keys /\ q[2] \in Values
    BY PairsAssumption
  <2> DEFINE k == q[1]
             v == q[2]
  <2> HIDE DEF k, v
  <2>2. k \in Keys /\ v \in Values /\ (Insert(k, v) \/ GetOrInsert(k, v))
    BY <1>1, <2>1 DEF k, v
  <2> QED
    BY <2>2, InsertStep, GetOrInsertStep
<1>2. ASSUME NEW k \in Keys, Get(k) \/ Erase(k) PROVE Inv' /\ Map!Next
  BY <1>2, GetStep, EraseStep
<1>3. ASSUME NEW size \in Reserves, Reserve(size) PROVE Inv' /\ Map!Next
  BY <1>3, ReserveStep
<1>4. CASE Shrink
  BY <1>4, ShrinkStep
<1>5. CASE Clear
  BY <1>5, ClearStep
<1>6. CASE Cleanup
  BY <1>6, CleanupStep
<1>7. CASE InitClone
  <2>1. UNCHANGED <<platform, table>> /\ ret' \in BOOLEAN /\ itr' = End
    BY <1>7 DEF InitClone
  <2> QED
    BY <2>1, IdleStep
<1>8. CASE First
  BY <1>8, FirstStep
<1>9. CASE IterNext
  BY <1>9, IterNextStep
<1>10. CASE EraseItr
  BY <1>10, EraseItrStep
<1>11. CASE UNCHANGED vars
  <2>1. UNCHANGED <<platform, table, itr, ret>>
    BY <1>11 DEF vars
  <2>2. Inv'
    BY <2>1 DEF Inv
  <2>3. Contents' = Contents /\ Ahead' = Ahead
    BY <2>1 DEF Contents, Entries, Ahead
  <2> QED
    BY <2>1, <2>2, <2>3 DEF Map!vars
<1> QED
  BY <1>1, <1>2, <1>3, <1>4, <1>5, <1>6, <1>7, <1>8, <1>9, <1>10, <1>11 DEF Next

(* A table of the invariant has its type.                                  *)
LEMMA InvTyped == Inv => TypeOK
<1> SUFFICES ASSUME Inv PROVE TypeOK
  OBVIOUS
<1>0. WF(Limit, table)
  BY InvFacts
<1>1. /\ table.mask \in Nat /\ table.count \in Nat
      /\ table.metadata \in [Indices(table) -> Metadatum]
      /\ table.buckets \in [Indices(table) -> Bucket \cup {End}]
  BY <1>0 DEF WF, Sound, Shaped
<1>2. table.count \in 0 .. table.mask + 1
  <2>1. table.count * 10 <= BucketCount(table) * 9
    BY <1>0 DEF WF, Counted
  <2>2. BucketCount(table) \in Nat /\ BucketCount(table) <= table.mask + 1
    BY <1>1 DEF BucketCount
  <2> HIDE DEF BucketCount
  <2> QED
    BY <1>1, <2>1, <2>2
<1>3. itr \in Indices(table) \cup {End}
  BY DEF Inv, Okay, Used
<1> QED
  BY <1>1, <1>2, <1>3 DEF TypeOK, Inv, Okay

(* Its chains are as every loop over them requires.                        *)
LEMMA InvChains == Inv => ChainsWellFormed
<1> SUFFICES ASSUME Inv PROVE ChainsWellFormed
  OBVIOUS
<1> DEFINE M == Used(table)
           H(b) == HomeBucket(table, table.buckets[b].key)
<1>0. /\ WF(Limit, table) /\ Limit \in Nat /\ table.mask \in Nat
      /\ Shaped(table) /\ Filled(table, M)
  BY InvFacts DEF WF, Sound
<1>1. PICK ps : Laid(Limit, table, M, ps)
  BY <1>0 DEF WF, Sound
<1>2. table.count * 10 <= BucketCount(table) * 9 /\ table.count = Cardinality(M)
  BY <1>0 DEF WF, Counted
<1>3. \A b, c \in M : table.buckets[b].key = table.buckets[c].key => b = c
  BY <1>0 DEF Filled
<1>4. \A b \in M : H(b) = Hm(table)[b]
  BY <1>0, <1>1, LaidMember
<1>5. ASSUME NEW b \in M
      PROVE  /\ table.metadata[b].home <=> b = H(b)
             /\ table.metadata[H(b)].home
             /\ {Chain(table, H(b))[i] : i \in Indices(table)} = {c \in M : H(c) = H(b)}
             /\ table.metadata[b].disp # Limit =>
                  /\ Probe(table, H(b), table.metadata[b].disp) \in M
                  /\ table.metadata[b].disp
                     < table.metadata[Probe(table, H(b), table.metadata[b].disp)].disp
  <2> DEFINE h == H(b)
             d == table.metadata[b].disp
             hm == Hm(table)
  <2>1. /\ h = hm[b] /\ h \in M /\ hm[h] = h /\ h \in Nat
        /\ d = Dp(table)[b] /\ d \in Nat
    BY <1>0, <1>1, <1>4, LaidMember
  <2>2. /\ table.metadata[b].home <=> b = hm[b]
        /\ table.metadata[h].home <=> h = hm[h]
    BY <1>0, <2>1 DEF Filled
  <2>3. table.metadata[b].home <=> b = h
    BY <2>1, <2>2
  <2>4. table.metadata[h].home
    BY <2>1, <2>2
  <2> DEFINE c == Chain(table, h)
  <2> HIDE DEF h, d, M, H
  <2>5. Visits(table, M, ps, h, c)
    BY <1>0, <1>1, <2>1, ChainVisits
  <2> HIDE DEF c, hm
  <2>6. {c[i] : i \in Indices(table)} = {x \in M : H(x) = h}
    <3>1. \A i \in Indices(table) : c[i] \in M /\ hm[c[i]] = h
      BY <2>5 DEF Visits, hm
    <3>2. \A x \in M : hm[x] = h => \E j \in Indices(table) : c[j] = x
      BY <2>5 DEF Visits, hm
    <3>3. \A x \in M : H(x) = hm[x]
      BY <1>4 DEF hm
    <3> QED
      BY <3>1, <3>2, <3>3
  <2>7. ASSUME d # Limit
        PROVE  Probe(table, h, d) \in M /\ d < table.metadata[Probe(table, h, d)].disp
    <3>1. PICK x \in M : hm[x] = hm[b] /\ ps[x] = d
      BY <1>1, <2>1, <2>7 DEF Laid, Chained, hm
    <3>2. /\ Slot(table.mask + 1, hm[x], ps[x]) = x
          /\ Dp(table)[x] = table.metadata[x].disp /\ ps[x] < Dp(table)[x]
      BY <1>0, <1>1, LaidMember DEF hm
    <3>3. Probe(table, h, d) = Slot(table.mask + 1, h, d)
      BY <1>0, <2>1, ProbeIn
    <3>4. Probe(table, h, d) = x
      BY <2>1, <3>1, <3>2, <3>3
    <3> QED
      BY <3>1, <3>2, <3>4
  <2> QED
    BY <2>3, <2>4, <2>6, <2>7 DEF c, h, d
<1>6. M = {b \in Indices(table) : Occupied(table, b)}
  BY DEF Used
<1> HIDE DEF M
<1> QED
  BY <1>2, <1>3, <1>5, <1>6 DEF ChainsWellFormed

-----------------------------------------------------------------------------
(* The theorems.  They are about the platforms whose limit is above the    *)
(* number of keys a client has: the code's, VT_DISPLACEMENT_MASK, is 2047. *)

(* With more keys on one chain than its metadata can link, evict() may     *)
(* take a key out of its chain and no larger table may be had for it.      *)

(* The invariant holds on a platform with room for every key.              *)
LEMMA TableInvariant == Spec /\ Roomy => []Inv
<1>1. Init /\ Roomy => Inv
  BY InitInv
<1>2. Inv /\ [Next]_vars => Inv'
  BY NextStep
<1> QED
  BY <1>1, <1>2, PTL DEF Spec

(* Every field of the table, the iterator and the result hold values of    *)
(* their types: the count is never above the buckets there are, although   *)
(* it is kept by adding and subtracting.                                   *)
THEOREM TableTyped == Spec /\ Roomy => []TypeOK
  BY TableInvariant, InvTyped, PTL

(* After any calls the keys of a home bucket, and no others, are on the    *)
(* chain that begins in it, in the order of their displacement, and one    *)
(* bucket at least is empty: get(), insert_raw(), evict() and              *)
(* erase_itr_raw() find what they search for and end.                      *)
THEOREM ChainsKept == Spec /\ Roomy => []ChainsWellFormed
  BY TableInvariant, InvChains, PTL

(* The table implements the map, whatever its keys, their hashes and the   *)
(* allocations that fail: no call loses, doubles or changes the value of a *)
(* key other than its own, and an iteration that erases on its way meets   *)
(* every key exactly once.                                                 *)
THEOREM TableIsMap == Spec /\ Roomy => ImplementsMap
<1>1. Init /\ Roomy => Map!Init
  BY InitInv
<1>2. Inv /\ [Next]_vars => [Map!Next]_Map!vars
  BY NextStep
<1> QED
  BY <1>1, <1>2, TableInvariant, PTL DEF Spec, ImplementsMap, Map!Spec
=============================================================================
