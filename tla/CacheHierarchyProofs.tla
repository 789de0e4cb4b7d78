------------------------ MODULE CacheHierarchyProofs ------------------------
(***************************************************************************)
(* Two facts about what a whole cache and a shared one add to one set of   *)
(* an analysis.                                                            *)
(*                                                                         *)
(* The first half: accesses to intervals of addresses age every set they   *)
(* can go to, for every associativity, line size, number of sets and       *)
(* address space.                                                          *)
(*                                                                         *)
(* The second half: a hit in the shared second level is a hit, for every   *)
(* associativity, all tags, and any functions of the other cores. The      *)
(* argument is about history: O[t] are the lines the own core has accessed *)
(* since its last access to t. An old line has been pushed back by lines   *)
(* of O[t] and by lines of the other cores, and each of those only once.   *)
(***************************************************************************)
EXTENDS AbstractCache, SharedCacheSet, CacheLemmas

-----------------------------------------------------------------------------
(* Addresses.                                                              *)

\* Division with remainder.
LEMMA Division ==
    ASSUME NEW x \in Nat, NEW d \in Nat, d > 0
    PROVE  /\ x \div d \in Nat /\ x % d \in Nat /\ x % d < d
           /\ x = d * (x \div d) + (x % d)
BY SMT

LEMMA Product ==
    ASSUME NEW d \in Nat, NEW x \in Int, NEW y \in Int, x <= y
    PROVE  d * x <= d * y
BY SMT

\* A quotient is determined by its remainder's range.
LEMMA Quotient ==
    ASSUME NEW x \in Nat, NEW d \in Nat, d > 0, NEW q \in Int, NEW r \in Nat, r < d, x = d * q + r
    PROVE  x \div d = q /\ x % d = r
BY SMT

\* A larger number has a larger quotient.
LEMMA Monotone ==
    ASSUME NEW x \in Nat, NEW y \in Nat, x <= y, NEW d \in Nat, d > 0
    PROVE  x \div d <= y \div d
BY SMT

\* The lines from m to n are fewer than the sets, or fill them all: those in
\* between are in the sets from that of m to that of n, around the last set.
LEMMA Around ==
    ASSUME NEW N \in Nat, N > 0, NEW m \in Nat, NEW n \in Nat, NEW k \in Nat,
           m <= k, k <= n, n - m < N
    PROVE  IF m % N <= n % N THEN m % N <= k % N /\ k % N <= n % N
                             ELSE m % N <= k % N \/ k % N <= n % N
<1> DEFINE qm == m \div N
           qn == n \div N
           qk == k \div N
           rm == m % N
           rn == n % N
           rk == k % N
<1>1. /\ qm \in Nat /\ rm \in Nat /\ rm < N /\ m = N * qm + rm
      /\ qn \in Nat /\ rn \in Nat /\ rn < N /\ n = N * qn + rn
      /\ qk \in Nat /\ rk \in Nat /\ rk < N /\ k = N * qk + rk
  BY Division
<1>2. qm <= qk /\ qk <= qn
  BY Monotone
<1> HIDE DEF qm, qn, qk, rm, rn, rk
<1>3. qn <= qm + 1
  <2>1. ASSUME qm + 2 <= qn PROVE FALSE
    <3>1. N * (qm + 2) <= N * qn
      BY ONLY <1>1, <2>1, N \in Nat, Product
    <3>2. N * (qm + 2) = N * qm + 2 * N
      BY ONLY <1>1, N \in Nat
    <3> DEFINE a == N * qm
               b == N * qn
               c == N * (qm + 2)
    <3>3. a \in Int /\ b \in Int /\ c \in Int
      BY ONLY <1>1, N \in Nat
    <3>4. /\ c <= b /\ c = a + 2 * N /\ m = a + rm /\ n = b + rn
          /\ rm \in Nat /\ rm < N /\ rn \in Nat
      BY <1>1, <3>1, <3>2
    <3> HIDE DEF a, b, c
    <3>5. QED
      BY ONLY <3>3, <3>4, n - m < N, N \in Nat, m \in Nat, n \in Nat
  <2>2. QED
    BY ONLY <1>1, <2>1
<1>4. N * (qm + 1) = N * qm + N
  BY ONLY <1>1, N \in Nat
<1>5. CASE qn = qm
  <2>1. qk = qm
    BY ONLY <1>1, <1>2, <1>5
  <2> DEFINE a == N * qm
  <2>2. a \in Int /\ m = a + rm /\ n = a + rn /\ k = a + rk
    BY <1>1, <1>5, <2>1
  <2> HIDE DEF a
  <2>3. rm <= rk /\ rk <= rn
    BY ONLY <1>1, <2>2, m <= k, k <= n
  <2>4. QED
    BY ONLY <1>1, <2>3 DEF rm, rn, rk
<1>6. CASE qn = qm + 1
  <2> DEFINE a == N * qm
  <2>1. a \in Int /\ m = a + rm /\ n = a + N + rn
    BY <1>1, <1>4, <1>6
  <2>2. k = a + rk \/ k = a + N + rk
    <3>1. qk = qm \/ qk = qm + 1
      BY ONLY <1>1, <1>2, <1>6
    <3>2. QED
      BY <1>1, <1>4, <3>1
  <2> HIDE DEF a
  <2>3. rn < rm
    BY ONLY <1>1, <2>1, n - m < N, N \in Nat
  <2>4. rm <= rk \/ rk <= rn
    BY ONLY <1>1, <2>1, <2>2, m <= k, k <= n, N \in Nat
  <2>5. QED
    BY ONLY <1>1, <2>3, <2>4 DEF rm, rn, rk
<1>7. QED
  BY ONLY <1>1, <1>2, <1>3, <1>5, <1>6

-----------------------------------------------------------------------------
(* The sets of an interval.                                                *)

\* The numbers of an interval of the program.
LEMMA IntervalFacts ==
    ASSUME NEW itv \in Interval
    PROVE  /\ itv[1] \in Nat /\ itv[2] \in Nat /\ itv[1] <= itv[2] /\ itv[2] < AddressSpace
           /\ AddressSpace \in Nat /\ AddressSpace > 0
           /\ LINE_SIZE \in Nat /\ LINE_SIZE >= 4 /\ N_SETS \in Nat /\ N_SETS > 0
           /\ AddressSpace % (LINE_SIZE * N_SETS) = 0
<1>1. /\ itv \in (0 .. AddressSpace - 1) \X (0 .. AddressSpace - 1)
      /\ itv[1] <= itv[2]
  BY GeometryAssumption
<1>2. /\ itv[1] \in 0 .. AddressSpace - 1 /\ itv[2] \in 0 .. AddressSpace - 1
      /\ AddressSpace \in Nat \ {0}
  BY <1>1, GeometryAssumption
<1>3. LINE_SIZE \in Nat /\ LINE_SIZE >= 4 /\ N_SETS \in Nat /\ N_SETS > 0
  BY GeometryAssumption
<1>4. AddressSpace % (LINE_SIZE * N_SETS) = 0
  BY GeometryAssumption
<1>5. QED
  BY ONLY <1>1, <1>2, <1>3, <1>4

\* An address has a set and a tag.
LEMMA AddressFacts ==
    ASSUME NEW a \in Nat, a < AddressSpace
    PROVE  getCacheSet(a) \in Index /\ getTag(a) \in Tag
<1>1. LINE_SIZE \in Nat /\ LINE_SIZE > 0 /\ N_SETS \in Nat /\ N_SETS > 0 /\ AddressSpace \in Nat
  BY GeometryAssumption
<1>2. a \div LINE_SIZE \in Nat
  BY ONLY <1>1, a \in Nat, Division
<1>3. (a \div LINE_SIZE) % N_SETS \in Nat /\ (a \div LINE_SIZE) % N_SETS < N_SETS
  BY ONLY <1>1, <1>2, Division
<1>4. a \in 0 .. AddressSpace - 1
  BY ONLY <1>1, a \in Nat, a < AddressSpace
<1>5. (a \div LINE_SIZE) \div N_SETS \in Tag
  BY <1>4, GeometryAssumption
<1>6. (a \div LINE_SIZE) % N_SETS \in 0 .. N_SETS - 1
  BY ONLY <1>1, <1>3
<1>7. QED
  BY <1>5, <1>6 DEF getCacheSet, getTag, Index

\* A line of the interval has a tag between those of its first and last byte.
LEMMA LineFacts ==
    ASSUME NEW itv \in Interval, NEW a \in Lines(itv)
    PROVE  /\ a \in Nat /\ a < AddressSpace
           /\ itv[1] \div LINE_SIZE <= a \div LINE_SIZE
           /\ a \div LINE_SIZE <= itv[2] \div LINE_SIZE
           /\ getTag(itv[1]) <= getTag(a) /\ getTag(a) <= getTag(itv[2])
<1> DEFINE x == itv[1]
           y == itv[2]
           L == LINE_SIZE
<1>1. /\ x \in Nat /\ y \in Nat /\ x <= y /\ y < AddressSpace /\ AddressSpace \in Nat
      /\ L \in Nat /\ L > 0 /\ N_SETS \in Nat /\ N_SETS > 0
  BY IntervalFacts
<1>2. a \in (x - (x % L)) .. y
  BY DEF Lines, alignToCacheline
<1> HIDE DEF x, y, L
<1>3. x \div L \in Nat /\ x % L \in Nat /\ x % L < L /\ x = L * (x \div L) + (x % L)
  BY ONLY <1>1, Division
<1> DEFINE q == x \div L
           r == x % L
           p == L * q
<1>4. p \in Nat /\ p = x - r
  BY ONLY <1>1, <1>3
<1>5. p \in Nat /\ a \in Int /\ p <= a /\ a <= y
  <2>1. p \in Nat /\ p = x - (x % L) /\ x - (x % L) \in Int
    BY ONLY <1>1, <1>3, <1>4
  <2>2. QED
    BY ONLY <1>1, <1>2, <2>1
<1>6. p \div L = q
  BY ONLY <1>1, <1>3, <1>4, Quotient, p = L * q + 0, 0 \in Nat, 0 < L
<1>7. a \in Nat /\ a < AddressSpace
  BY ONLY <1>1, <1>5
<1>8. p \div L <= a \div L /\ a \div L <= y \div L
  BY ONLY <1>1, <1>5, <1>7, Monotone
<1>9. x \div L \in Nat /\ a \div L \in Nat /\ y \div L \in Nat
  BY ONLY <1>1, <1>7, Division
<1>10. x \div L <= a \div L /\ a \div L <= y \div L
  BY ONLY <1>6, <1>8
<1>11. /\ (x \div L) \div N_SETS <= (a \div L) \div N_SETS
       /\ (a \div L) \div N_SETS <= (y \div L) \div N_SETS
  BY ONLY <1>1, <1>9, <1>10, Monotone
<1>12. QED
  BY <1>7, <1>10, <1>11 DEF x, y, L, getTag

\* An update of an interval that is not asserted away ages the sets of all its
\* lines, also if the interval wraps around the last set.
LEMMA SetsCover ==
    ASSUME NEW itv \in Interval, ~precise(itv), assertImprecise(itv), NEW a \in Lines(itv)
    PROVE  getCacheSet(a) \in unknownSets(itv)
<1> DEFINE x == itv[1]
           y == itv[2]
           L == LINE_SIZE
           N == N_SETS
           A == AddressSpace
           m == x \div L
           n == y \div L
           k == a \div L
           e == (y + 4 - x) % A
<1>1. /\ x \in Nat /\ y \in Nat /\ x <= y /\ y < A /\ A \in Nat /\ A > 0
      /\ L \in Nat /\ L >= 4 /\ N \in Nat /\ N > 0 /\ A % (L * N) = 0
  BY IntervalFacts
<1>2. a \in Nat /\ a < A /\ m <= k /\ k <= n
  BY LineFacts
<1>3. /\ getCacheSet(a) = k % N /\ getCacheSet(x) = m % N /\ getCacheSet(y) = n % N
      /\ getCacheSetInterval(itv) = IF e >= N * L THEN <<0, N - 1>> ELSE <<m % N, n % N>>
  BY DEF getCacheSet, getCacheSetInterval
<1>4. /\ unknownSets(itv) =
           LET s == getCacheSetInterval(itv) IN
           IF s[1] <= s[2] THEN s[1] .. s[2] ELSE (s[1] .. N - 1) \cup (0 .. s[2])
      /\ N = 1 \/ getCacheSetInterval(itv)[1] # getCacheSetInterval(itv)[2]
  BY DEF unknownSets, assertImprecise
<1> HIDE DEF x, y, L, N, A
<1>5. /\ m \in Nat /\ x % L \in Nat /\ x % L < L /\ x = L * m + (x % L)
      /\ n \in Nat /\ y % L \in Nat /\ y % L < L /\ y = L * n + (y % L)
  BY ONLY <1>1, Division
<1>6. k \in Nat
  BY ONLY <1>1, <1>2, Division
<1>7. /\ m % N \in Nat /\ m % N < N /\ n % N \in Nat /\ n % N < N /\ k % N \in Nat /\ k % N < N
  BY ONLY <1>1, <1>5, <1>6, Division
<1> HIDE DEF m, n, k
<1>8. CASE e >= N * L
  <2>1. unknownSets(itv) = 0 .. N - 1
    BY ONLY <1>1, <1>3, <1>4, <1>8
  <2>2. QED
    BY ONLY <1>1, <1>3, <1>7, <2>1
<1>9. CASE ~(e >= N * L) /\ N = 1
  <2>1. m % N = 0 /\ n % N = 0 /\ k % N = 0
    BY ONLY <1>7, <1>9
  <2>2. QED
    BY ONLY <1>3, <1>4, <1>9, <2>1
<1>10. CASE ~(e >= N * L) /\ N # 1 /\ y + 4 - x < A
  <2>1. e = y + 4 - x
    <3>1. y + 4 - x \in Nat
      BY ONLY <1>1
    <3>2. y + 4 - x = A * 0 + (y + 4 - x)
      BY ONLY <1>1
    <3>3. QED
      BY ONLY <1>1, <1>10, <3>1, <3>2, 0 \in Int, Quotient
  <2>2. m % N # n % N
    BY ONLY <1>3, <1>4, <1>10
  <2>3. n - m <= N
    <3> DEFINE f == L * m
               g == L * n
               h == N * L
    <3>1. f \in Int /\ g \in Int /\ h \in Int /\ L * (N + 1) = h + L
      BY ONLY <1>1, <1>5
    <3>2. x = f + (x % L) /\ y = g + (y % L) /\ e < h
      BY ONLY <1>5, <1>10, <2>1, <1>1, <3>1
    <3>3. ASSUME n - m >= N + 1 PROVE FALSE
      <4>1. L * (N + 1) <= L * (n - m)
        <5>1. N + 1 \in Int /\ n - m \in Int /\ N + 1 <= n - m
          BY ONLY <1>1, <1>5, <3>3
        <5>2. QED
          BY ONLY <1>1, <5>1, Product
      <4>2. L * (n - m) = g - f
        BY ONLY <1>1, <1>5
      <4> HIDE DEF f, g, h
      <4>3. h + L <= g - f
        BY ONLY <3>1, <4>1, <4>2
      <4>4. QED
        BY ONLY <1>1, <1>5, <2>1, <3>1, <3>2, <4>3
    <3>4. QED
      BY ONLY <1>1, <1>5, <3>3
  <2>4. n - m # N
    <3>1. ASSUME n - m = N PROVE m % N = n % N
      <4>1. m \div N \in Nat /\ m = N * (m \div N) + (m % N)
        BY ONLY <1>1, <1>5, Division
      <4>2. N * ((m \div N) + 1) = N * (m \div N) + N
        BY ONLY <1>1, <4>1
      <4> DEFINE q == (m \div N) + 1
      <4>3. q \in Int
        BY ONLY <4>1
      <4>4. n = N * q + (m % N)
        <5> DEFINE w == N * (m \div N)
        <5>1. w \in Int /\ m = w + (m % N) /\ N * q = w + N
          BY ONLY <1>1, <4>1, <4>2
        <5> HIDE DEF w, q
        <5>2. QED
          BY ONLY <1>1, <1>5, <1>7, <3>1, <5>1
      <4> HIDE DEF q
      <4>5. QED
        BY ONLY <1>1, <1>5, <1>7, <4>3, <4>4, Quotient
    <3>2. QED
      BY <2>2, <3>1
  <2>5. n - m < N
    BY ONLY <1>1, <1>5, <2>3, <2>4
  <2>6. IF m % N <= n % N THEN m % N <= k % N /\ k % N <= n % N
                          ELSE m % N <= k % N \/ k % N <= n % N
    BY ONLY <1>1, <1>2, <1>5, <1>6, <2>5, Around
  <2>7. getCacheSetInterval(itv) = <<m % N, n % N>>
    BY ONLY <1>3, <1>10
  <2>8. unknownSets(itv) = IF m % N <= n % N THEN (m % N) .. (n % N)
                           ELSE ((m % N) .. N - 1) \cup (0 .. (n % N))
    BY ONLY <1>4, <2>7
  <2>9. k % N \in unknownSets(itv)
    <3> DEFINE f == m % N
               g == n % N
               h == k % N
    <3>1. /\ f \in Nat /\ g \in Nat /\ h \in Nat /\ h < N /\ N \in Nat
          /\ IF f <= g THEN f <= h /\ h <= g ELSE f <= h \/ h <= g
          /\ unknownSets(itv) = IF f <= g THEN f .. g ELSE (f .. N - 1) \cup (0 .. g)
      BY <1>1, <1>7, <2>6, <2>8
    <3> HIDE DEF f, g, h
    <3>2. h \in unknownSets(itv)
      BY ONLY <3>1
    <3>3. QED
      BY <3>2 DEF h
  <2>10. QED
    BY <1>3, <2>9
<1>11. CASE ~(e >= N * L) /\ N # 1 /\ ~(y + 4 - x < A)
  <2>1. x \in 0 .. 3 /\ y \in A - 4 .. A - 1
    BY ONLY <1>1, <1>11
  <2>2. m = 0
    <3>1. x = L * 0 + x /\ x < L /\ 0 \in Int
      BY ONLY <1>1, <2>1
    <3>2. QED
      BY ONLY <1>1, <3>1, Quotient DEF m
  <2> DEFINE Q == A \div (L * N)
             c == N * Q
  <2>3. Q \in Nat /\ A = L * c /\ c \in Nat /\ c > 0
    <3>1. L * N \in Nat /\ L * N > 0
      BY ONLY <1>1
    <3>2. Q \in Nat /\ A = (L * N) * Q + (A % (L * N))
      BY ONLY <1>1, <3>1, Division
    <3>3. (L * N) * Q = L * (N * Q)
      BY ONLY <1>1, <3>2
    <3>4. A = L * (N * Q) /\ N * Q \in Nat
      BY ONLY <1>1, <3>1, <3>2, <3>3
    <3>5. N * Q # 0
      BY ONLY <1>1, <3>4
    <3>6. QED
      BY ONLY <3>2, <3>4, <3>5
  <2>4. n = c - 1
    <3>1. L * (c - 1) = L * c - L
      BY ONLY <1>1, <2>3
    <3> DEFINE r == y - L * (c - 1)
    <3>2. L * (c - 1) \in Int /\ L * (c - 1) = A - L /\ c - 1 \in Int
      BY ONLY <1>1, <2>3, <3>1
    <3>3. r \in Nat /\ r < L /\ y = L * (c - 1) + r
      BY ONLY <1>1, <2>1, <3>2
    <3> DEFINE b == c - 1
    <3>4. b \in Int /\ r \in Nat /\ r < L /\ y = L * b + r /\ y \in Nat /\ L \in Nat /\ L > 0
      BY ONLY <1>1, <3>2, <3>3
    <3> HIDE DEF r, b
    <3>5. y \div L = b
      BY ONLY <3>4, Quotient
    <3>6. QED
      BY <3>5 DEF b, n
  <2>5. n % N = N - 1
    <3>1. N * (Q - 1) = N * Q - N
      BY ONLY <1>1, <2>3
    <3>2. Q - 1 \in Int /\ N * Q \in Int /\ n = N * Q - 1
      BY ONLY <1>1, <2>3, <2>4
    <3>3. N * (Q - 1) \in Int /\ n = N * (Q - 1) + (N - 1) /\ N - 1 \in Nat /\ N - 1 < N
      BY ONLY <1>1, <3>1, <3>2
    <3> DEFINE b == Q - 1
               r == N - 1
    <3>4. /\ b \in Int /\ r \in Nat /\ r < N /\ n = N * b + r
          /\ n \in Nat /\ N \in Nat /\ N > 0
      BY ONLY <1>1, <1>5, <3>2, <3>3
    <3> HIDE DEF b, r
    <3>5. n % N = r
      BY ONLY <3>4, Quotient
    <3>6. QED
      BY <3>5 DEF r
  <2>6. m % N = 0
    <3>1. 0 = N * 0 + 0 /\ 0 \in Nat /\ 0 \in Int /\ 0 < N
      BY ONLY <1>1
    <3>2. 0 % N = 0
      BY ONLY <1>1, <3>1, Quotient
    <3>3. QED
      BY <2>2, <3>2
  <2>7. getCacheSetInterval(itv) = <<0, N - 1>>
    BY ONLY <1>3, <1>11, <2>5, <2>6
  <2>8. unknownSets(itv) = 0 .. N - 1
    BY ONLY <1>1, <1>4, <2>7
  <2>9. QED
    BY ONLY <1>1, <1>3, <1>7, <2>8
<1>12. QED
  BY ONLY <1>8, <1>9, <1>10, <1>11

-----------------------------------------------------------------------------
(* One set of the cache.                                                   *)

\* The analysis state s of a set has bounds that hold for its content c.
SetSound(c, s) == \E b, l : Represents(s, b, l) /\ Lru!Within(c, b, l)

\* Both instances of LruAges mean the same by an access.
LEMMA SameOperators ==
    ASSUME NEW c, NEW t
    PROVE  /\ Real!Touch(c, t) = Lru!Touch(c, t)
           /\ Real!Injective(c) <=> Lru!Injective(c)
           /\ Real!EmptySet = Lru!EmptySet
           /\ Lru!Ages = [Tag -> Age]
           /\ Classification = Lru!Classification
           /\ CL_HIT = Lru!CL_HIT /\ CL_MISS = Lru!CL_MISS
BY DEF Real!Touch, Lru!Touch, Real!Injective, Lru!Injective, Real!EmptySet, Lru!EmptySet,
   Lru!Ages, Lru!Age, Age, Classification, Lru!Classification, CL_HIT, CL_MISS, CL_UNKNOWN,
   Lru!CL_HIT, Lru!CL_MISS, Lru!CL_UNKNOWN

\* Before the first access.
LEMMA NewSound ==
    ASSUME NEW c \in [Tag -> Age], Real!Injective(c), NEW e \in BOOLEAN, e => c = Real!EmptySet
    PROVE  SetSound(c, new(e))
<1> DEFINE b == [t \in Tag |-> Assoc]
           l == [t \in Tag |-> IF e THEN Assoc ELSE 0]
<1>1. Represents(new(e), b, l)
  BY VectorNew
<1>2. Lru!Within(c, b, l)
  <2>1. Lru!Injective(c) /\ Lru!Ages = [Tag -> Age] /\ (e => c = Lru!EmptySet)
    BY SameOperators
  <2>2. b \in [Tag -> Age] /\ l \in [Tag -> Age]
    BY AssocAssumption DEF Age
  <2>3. ASSUME NEW u \in Tag PROVE l[u] <= c[u] /\ c[u] <= b[u]
    <3>1. c[u] \in Nat /\ c[u] <= Assoc /\ Assoc \in Nat
      BY AgeFacts, AssocAssumption
    <3>2. e => c[u] = Assoc
      BY <2>1 DEF Lru!EmptySet
    <3>3. QED
      BY <3>1, <3>2
  <2> HIDE DEF b, l
  <2>4. QED
    BY <2>1, <2>2, <2>3 DEF Lru!Within
<1> HIDE DEF b, l
<1>3. QED
  BY <1>1, <1>2 DEF SetSound

\* What classify says of a line is right.
LEMMA ClassifySound ==
    ASSUME NEW c, NEW s, SetSound(c, s), NEW t \in Tag
    PROVE  /\ classify(s, t, 0) \in Classification
           /\ classify(s, t, 0) = CL_HIT  => c[t] < Assoc
           /\ classify(s, t, 0) = CL_MISS => c[t] = Assoc
<1>1. PICK b, l : Represents(s, b, l) /\ Lru!Within(c, b, l)
  BY DEF SetSound
<1>2. classify(s, t, 0) = Lru!Classify(b, l, t) /\ classify(s, t, 0) \in Classification
  BY <1>1, VectorClassify
<1>3. /\ Lru!Classify(b, l, t) = Lru!CL_HIT  => c[t] < Assoc
      /\ Lru!Classify(b, l, t) = Lru!CL_MISS => c[t] = Assoc
  BY <1>1, Lru!ClassifyWithin, TagAssumption, AssocAssumption, TagRange
<1>4. QED
  BY <1>2, <1>3, SameOperators

\* A precise access, under an assumption that holds of it.
LEMMA UpdateSound ==
    ASSUME NEW c, NEW s, SetSound(c, s), NEW t \in Tag, NEW a \in Classification,
           a = CL_HIT => c[t] < Assoc, a = CL_MISS => c[t] = Assoc, c[t] \in Nat
    PROVE  SetSound(Real!Touch(c, t), update(s, t, 0, a))
<1>1. PICK b, l : Represents(s, b, l) /\ Lru!Within(c, b, l)
  BY DEF SetSound
<1>2. /\ classify(s, t, 0) \in Classification
      /\ classify(s, t, 0) = CL_HIT  => c[t] < Assoc
      /\ classify(s, t, 0) = CL_MISS => c[t] = Assoc
  BY ClassifySound
<1> DEFINE cl(z) == IF z = CL_UNKNOWN THEN classify(s, t, 0) ELSE z
\* What is assumed of a classified access is what classify says.
<1>3. PICK z \in Classification : /\ cl(z) = cl(a)
                                  /\ z # CL_UNKNOWN => classify(s, t, 0) = CL_UNKNOWN
  <2>1. Assoc \in Nat
    BY AssocAssumption
  <2>2. CASE a = CL_UNKNOWN \/ classify(s, t, 0) = CL_UNKNOWN
    BY <2>2
  <2>3. CASE a # CL_UNKNOWN /\ classify(s, t, 0) # CL_UNKNOWN
    <3>1. a = classify(s, t, 0)
      BY <1>2, <2>1, <2>3 DEF Classification
    <3>2. CL_UNKNOWN \in Classification /\ cl(CL_UNKNOWN) = cl(a)
      BY <2>3, <3>1 DEF Classification
    <3>3. QED
      BY <3>2
  <2>4. QED
    BY <2>2, <2>3
<1>4. update(s, t, 0, z) = update(s, t, 0, a)
  BY <1>3 DEF update
<1>5. /\ c \in [Tag -> Age] /\ Lru!Injective(c) /\ \A u \in Tag : c[u] <= b[u]
  BY <1>1, SameOperators DEF Lru!Within
<1>6. /\ cl(z) \in Classification
      /\ Represents(update(s, t, 0, z), Lru!MustUpdate(b, t, cl(z)), Lru!MayUpdate(l, t))
  BY <1>1, <1>3, <1>5, VectorUpdate
<1>7. cl(z) = CL_HIT => c[t] < Assoc
  BY <1>2, <1>3
<1> HIDE DEF cl
<1>8. Lru!Within(Lru!Touch(c, t), Lru!MustUpdate(b, t, cl(z)), Lru!MayUpdate(l, t))
  <2>1. cl(z) \in Lru!Classification /\ (cl(z) = Lru!CL_HIT => c[t] < Assoc)
    BY <1>6, <1>7, SameOperators
  <2>2. QED
    BY <1>1, <2>1, Lru!UpdateWithin, TagAssumption, AssocAssumption, TagRange
<1>9. Real!Touch(c, t) = Lru!Touch(c, t)
  BY SameOperators
<1>10. QED
  BY <1>4, <1>6, <1>8, <1>9 DEF SetSound

\* An access that may go to one of the lines lo .. hi of the set.
LEMMA PotentialUpdateSound ==
    ASSUME NEW c, NEW s, SetSound(c, s), NEW lo \in Tag, NEW hi \in Tag, lo <= hi
    PROVE  /\ SetSound(c, potentialUpdate(s, lo, hi))
           /\ \A t \in Tag : lo <= t /\ t <= hi =>
                SetSound(Real!Touch(c, t), potentialUpdate(s, lo, hi))
<1>1. PICK b, l : Represents(s, b, l) /\ Lru!Within(c, b, l)
  BY DEF SetSound
<1> DEFINE n == potentialUpdate(s, lo, hi)
           d == Lru!MustPotentialUpdate(b)
           k == Lru!MayPotentialUpdate(l, lo, hi)
<1>2. Represents(n, d, k)
  BY <1>1, VectorPotentialUpdate, TagRange
<1>3. /\ Lru!Within(c, d, k)
      /\ \A t \in Tag : lo <= t /\ t <= hi => Lru!Within(Lru!Touch(c, t), d, k)
  BY <1>1, Lru!PotentialUpdateWithin, TagAssumption, AssocAssumption, TagRange
<1> HIDE DEF n, d, k
<1>4. SetSound(c, n)
  BY <1>2, <1>3 DEF SetSound
<1>5. ASSUME NEW t \in Tag, lo <= t, t <= hi PROVE SetSound(Real!Touch(c, t), n)
  <2>1. Lru!Within(Real!Touch(c, t), d, k)
    BY <1>3, <1>5, SameOperators
  <2>2. QED
    BY <1>2, <2>1 DEF SetSound
<1>6. QED
  BY <1>4, <1>5 DEF n

-----------------------------------------------------------------------------
(* All sets.                                                               *)

\* Every set of the cache has sound bounds, whichever sets the accesses went
\* to.
IInv ==
    /\ age \in [Index -> [Tag -> Age]]
    /\ cacheSets = [i \in Index |-> cacheSets[i]]
    /\ \A i \in Index : SetSound(age[i], cacheSets[i])

\* A real access moves one line.
LEMMA RealAccessFacts ==
    ASSUME age \in [Index -> [Tag -> Age]], NEW a, RealAccess(a), getCacheSet(a) \in Index,
           getTag(a) \in Tag
    PROVE  /\ age' \in [Index -> [Tag -> Age]]
           /\ \A i \in Index : age'[i] = IF i = getCacheSet(a) THEN Real!Touch(age[i], getTag(a))
                                                               ELSE age[i]
<1> DEFINE i == getCacheSet(a)
           t == getTag(a)
<1>1. Real!Touch(age[i], t) \in [Tag -> Age]
  <2> DEFINE c == age[i]
  <2>1. c \in [Tag -> Age] /\ t \in Tag
    OBVIOUS
  <2> HIDE DEF c, t
  <2>2. ASSUME NEW u \in Tag
        PROVE  (IF u = t THEN 0 ELSE IF c[u] < c[t] THEN c[u] + 1 ELSE c[u]) \in Age
    <3>1. c[u] \in 0 .. Assoc /\ c[t] \in 0 .. Assoc /\ Assoc \in Nat
      BY <2>1, AssocAssumption DEF Age
    <3>2. QED
      BY ONLY <3>1 DEF Age
  <2>3. QED
    BY <2>2 DEF Real!Touch, c
<1>2. age' = [age EXCEPT ![i] = Real!Touch(age[i], t)]
  BY DEF RealAccess
<1> HIDE DEF i, t
<1>3. i \in Index
  BY DEF i
<1>4. QED
  BY <1>1, <1>2, <1>3 DEF i, t

\* Init establishes the invariant.
LEMMA InitInvariant == Init => IInv
<1> SUFFICES ASSUME Init PROVE IInv
  OBVIOUS
<1>1. PICK e \in BOOLEAN : /\ e => \A i \in Index : age[i] = Real!EmptySet
                           /\ cacheSets = [i \in Index |-> new(e)]
  BY DEF Init
<1>2. age \in [Index -> [Tag -> Age]] /\ \A i \in Index : Real!Injective(age[i])
  BY DEF Init
<1>3. \A i \in Index : SetSound(age[i], cacheSets[i])
  BY <1>1, <1>2, NewSound
<1>4. QED
  BY <1>1, <1>2, <1>3 DEF IInv

\* An access to one line changes its set only.
LEMMA PreciseInvariant ==
    ASSUME IInv, NEW itv \in Interval, NEW a \in Classification, UpdatePrecise(itv, a)
    PROVE  IInv'
<1> DEFINE j == getCacheSet(itv[1])
           t == getTag(itv[1])
<1>1. j \in Index /\ t \in Tag
  <2>1. itv[1] \in Nat /\ itv[1] < AddressSpace
    BY IntervalFacts
  <2>2. QED
    BY <2>1, AddressFacts
<1>2. /\ age \in [Index -> [Tag -> Age]] /\ cacheSets = [i \in Index |-> cacheSets[i]]
      /\ \A i \in Index : SetSound(age[i], cacheSets[i])
  BY DEF IInv
<1>3. /\ a = CL_HIT => age[j][t] < Assoc
      /\ a = CL_MISS => age[j][t] = Assoc
      /\ RealAccess(itv[1])
      /\ cacheSets' = [cacheSets EXCEPT ![j] = update(cacheSets[j], t, 0, a)]
  BY DEF UpdatePrecise
<1>4. /\ age' \in [Index -> [Tag -> Age]]
      /\ \A i \in Index : age'[i] = IF i = j THEN Real!Touch(age[i], t) ELSE age[i]
  BY <1>1, <1>2, <1>3, RealAccessFacts
<1> HIDE DEF j, t
<1>5. age[j][t] \in Nat
  <2>1. age[j] \in [Tag -> Age]
    BY <1>1, <1>2
  <2>2. QED
    BY <1>1, <2>1, AgeFacts
<1>6. SetSound(Real!Touch(age[j], t), update(cacheSets[j], t, 0, a))
  BY <1>1, <1>2, <1>3, <1>5, UpdateSound
<1>7. \A i \in Index : cacheSets'[i] = IF i = j THEN update(cacheSets[j], t, 0, a)
                                       ELSE cacheSets[i]
  BY <1>2, <1>3
<1>8. cacheSets' = [i \in Index |-> cacheSets'[i]]
  BY <1>2, <1>3
<1>9. \A i \in Index : SetSound(age'[i], cacheSets'[i])
  BY <1>2, <1>4, <1>6, <1>7
<1>10. QED
  BY <1>4, <1>8, <1>9 DEF IInv

\* An access to several lines ages every set that it can go to.
LEMMA ImpreciseInvariant ==
    ASSUME IInv, NEW itv \in Interval, UpdateImprecise(itv)
    PROVE  IInv'
<1>1. /\ age \in [Index -> [Tag -> Age]] /\ cacheSets = [i \in Index |-> cacheSets[i]]
      /\ \A i \in Index : SetSound(age[i], cacheSets[i])
  BY DEF IInv
<1> DEFINE lo == getTag(itv[1])
           hi == getTag(itv[2])
<1>2. lo \in Tag /\ hi \in Tag
  <2>1. /\ itv[1] \in Nat /\ itv[2] \in Nat /\ itv[1] <= itv[2]
        /\ itv[2] < AddressSpace /\ AddressSpace \in Nat
    BY IntervalFacts
  <2>2. itv[1] < AddressSpace
    BY ONLY <2>1
  <2>3. QED
    BY <2>1, <2>2, AddressFacts
<1>3. CASE ~assertImprecise(itv)
  BY <1>1, <1>3 DEF UpdateImprecise, IInv
<1>4. CASE assertImprecise(itv)
  <2>1. /\ ~precise(itv)
        /\ cacheSets' = [i \in Index |-> IF i \in unknownSets(itv)
                                         THEN potentialUpdate(cacheSets[i], lo, hi)
                                         ELSE cacheSets[i]]
    BY <1>4 DEF UpdateImprecise
  <2>2. PICK a \in Lines(itv) : RealAccess(a)
    BY <1>4 DEF UpdateImprecise
  <2> DEFINE j == getCacheSet(a)
             t == getTag(a)
  <2>3. /\ a \in Nat /\ a < AddressSpace /\ lo <= t /\ t <= hi
    BY LineFacts
  <2>4. j \in Index /\ t \in Tag
    BY <2>3, AddressFacts
  <2>5. j \in unknownSets(itv)
    BY <1>4, <2>1, SetsCover
  <2>6. /\ age' \in [Index -> [Tag -> Age]]
        /\ \A i \in Index : age'[i] = IF i = j THEN Real!Touch(age[i], t) ELSE age[i]
    BY <1>1, <2>2, <2>4, RealAccessFacts
  <2>7. lo <= hi
    <3>1. Tag \subseteq Nat
      BY TagAssumption
    <3> HIDE DEF lo, hi, t
    <3>2. QED
      BY <1>2, <2>3, <2>4, <3>1
  <2> HIDE DEF lo, hi, j, t
  <2>8. ASSUME NEW i \in Index PROVE SetSound(age'[i], cacheSets'[i])
    <3>1. SetSound(age[i], cacheSets[i])
      BY <1>1
    <3>2. CASE i \notin unknownSets(itv)
      BY <2>1, <2>5, <2>6, <3>1, <3>2
    <3>3. CASE i \in unknownSets(itv)
      <4>1. cacheSets'[i] = potentialUpdate(cacheSets[i], lo, hi)
        BY <2>1, <3>3
      <4>2. /\ SetSound(age[i], cacheSets'[i])
            /\ SetSound(Real!Touch(age[i], t), cacheSets'[i])
        BY <1>2, <2>3, <2>4, <2>7, <3>1, <4>1, PotentialUpdateSound
      <4>3. QED
        BY <2>6, <4>2
    <3>4. QED
      BY <3>2, <3>3
  <2>9. cacheSets' = [i \in Index |-> cacheSets'[i]]
    BY <2>1
  <2>10. QED
    BY <2>6, <2>8, <2>9 DEF IInv
<1>5. QED
  BY <1>3, <1>4

\* The invariant is inductive.
LEMMA Inductive == Spec => []IInv
<1>1. IInv /\ [Next]_vars => IInv'
  <2> SUFFICES ASSUME IInv, [Next]_vars PROVE IInv'
    OBVIOUS
  <2>1. ASSUME NEW itv \in Interval, NEW a \in Classification, UpdatePrecise(itv, a)
        PROVE  IInv'
    BY <2>1, PreciseInvariant
  <2>2. ASSUME NEW itv \in Interval, UpdateImprecise(itv) PROVE IInv'
    BY <2>2, ImpreciseInvariant
  <2>3. CASE UNCHANGED vars
    BY <2>3 DEF vars, IInv
  <2>4. QED
    BY <2>1, <2>2, <2>3 DEF Next
<1>2. QED
  BY <1>1, InitInvariant, PTL DEF Spec

\* What classify says of an access to an interval is right whichever line the
\* access goes to: AbstractCacheImpl::update has aged every set that an earlier
\* imprecise access could go to, also around the last set and at the ends of
\* the address space.
THEOREM IntervalsAreCovered == Spec => []IntervalClassificationSound
<1>1. IInv => IntervalClassificationSound
  <2> SUFFICES ASSUME IInv, NEW itv \in Interval, NEW a \in Lines(itv)
               PROVE  /\ classifyAddress(itv) = CL_HIT =>
                           age[getCacheSet(a)][getTag(a)] < Assoc
                      /\ classifyAddress(itv) = CL_MISS =>
                           age[getCacheSet(a)][getTag(a)] = Assoc
    BY DEF IntervalClassificationSound
  <2> DEFINE i == getCacheSet(a)
             t == getTag(a)
             own == classify(cacheSets[i], t, 0)
             cls == {classify(cacheSets[getCacheSet(x)], getTag(x), 0) : x \in Lines(itv)}
  <2>1. i \in Index /\ t \in Tag
    BY LineFacts, AddressFacts
  <2>2. /\ own = CL_HIT  => age[i][t] < Assoc
        /\ own = CL_MISS => age[i][t] = Assoc
        /\ own \in Classification
    BY <2>1, ClassifySound DEF IInv
  <2>3. own \in cls
    OBVIOUS
  <2>4. cls \subseteq Classification
    <3>1. ASSUME NEW x \in Lines(itv)
          PROVE  classify(cacheSets[getCacheSet(x)], getTag(x), 0) \in Classification
      <4>1. getCacheSet(x) \in Index /\ getTag(x) \in Tag
        BY LineFacts, AddressFacts
      <4>2. QED
        BY <4>1, ClassifySound DEF IInv
    <3>2. QED
      BY <3>1
  <2>5. classifyAddress(itv) = IF itv = UnknownAddress \/ cls = {CL_HIT, CL_MISS} THEN CL_UNKNOWN
                               ELSE IF CL_UNKNOWN \in cls THEN CL_UNKNOWN
                               ELSE CHOOSE c \in cls : TRUE
    BY DEF classifyAddress
  <2> HIDE DEF own, cls
  <2>6. classifyAddress(itv) # CL_UNKNOWN => classifyAddress(itv) = own
    <3> SUFFICES ASSUME classifyAddress(itv) # CL_UNKNOWN PROVE classifyAddress(itv) = own
      OBVIOUS
    <3>1. cls # {CL_HIT, CL_MISS} /\ CL_UNKNOWN \notin cls
      BY <2>5
    <3>2. classifyAddress(itv) \in cls
      BY <2>3, <2>5
    <3>3. QED
      BY <2>3, <2>4, <3>1, <3>2 DEF Classification
  <2>7. CL_HIT # CL_UNKNOWN /\ CL_MISS # CL_UNKNOWN
    BY DEF CL_HIT, CL_MISS, CL_UNKNOWN
  <2>8. QED
    BY <2>2, <2>6, <2>7 DEF i, t
<1>2. QED
  BY <1>1, Inductive, PTL

-----------------------------------------------------------------------------
(* The real set.                                                           *)

\* c2 is the content of the set after an access to x.
Touched(c, c2, x) ==
    /\ c \in [Tag -> Age] /\ c2 \in [Tag -> Age] /\ x \in Tag
    /\ \A t, u \in Tag : t # u /\ c[t] = c[u] => c[t] = Assoc
    /\ \A u \in Tag : c2[u] = IF u = x THEN 0 ELSE IF c[u] < c[x] THEN c[u] + 1 ELSE c[u]

\* What is known of the ages of a line.
LEMMA TouchedAt ==
    ASSUME NEW c, NEW d, NEW x, Touched(c, d, x), NEW u \in Tag
    PROVE  /\ x \in Tag /\ d[x] = 0 /\ Assoc \in Nat /\ Assoc > 0
           /\ c[u] \in Nat /\ c[u] <= Assoc /\ d[u] \in Nat /\ d[u] <= Assoc
           /\ c[x] \in Nat /\ c[x] <= Assoc
           /\ u # x => d[u] = IF c[u] < c[x] THEN c[u] + 1 ELSE c[u]
           /\ u # x /\ c[u] = c[x] => c[x] = Assoc
<1>1. c[u] \in Age /\ d[u] \in Age /\ c[x] \in Age /\ x \in Tag
  BY DEF Touched
<1>2. c[u] \in 0 .. Assoc /\ d[u] \in 0 .. Assoc /\ c[x] \in 0 .. Assoc
  BY <1>1 DEF Age
<1>3. Assoc \in Nat /\ Assoc > 0
  BY AssocAssumption
<1>4. u # x /\ c[u] = c[x] => c[x] = Assoc
  BY <1>1 DEF Touched
<1>5. d[x] = 0 /\ (u # x => d[u] = IF c[u] < c[x] THEN c[u] + 1 ELSE c[u])
  BY <1>1 DEF Touched
<1>6. QED
  BY ONLY <1>1, <1>2, <1>3, <1>4, <1>5

\* What Touch does to the ages.
LEMMA TouchIsTouched ==
    ASSUME NEW c \in [Tag -> Age], SharedSet!Injective(c), NEW x \in Tag
    PROVE  Touched(c, SharedSet!Touch(c, x), x) /\ SharedSet!Injective(SharedSet!Touch(c, x))
<1> DEFINE d == SharedSet!Touch(c, x)
<1>1. d = [u \in Tag |-> IF u = x THEN 0 ELSE IF c[u] < c[x] THEN c[u] + 1 ELSE c[u]]
  BY DEF SharedSet!Touch
<1>3. \A t, u \in Tag : t # u /\ c[t] = c[u] => c[t] = Assoc
  BY DEF SharedSet!Injective
<1>4. Touched(c, d, x)
  <2>1. ASSUME NEW u, u \in Tag
        PROVE  (IF u = x THEN 0 ELSE IF c[u] < c[x] THEN c[u] + 1 ELSE c[u]) \in Age
    <3>1. c[u] \in 0 .. Assoc /\ c[x] \in 0 .. Assoc /\ Assoc \in Nat
      BY <2>1, AssocAssumption DEF Age
    <3>2. QED
      BY ONLY <3>1 DEF Age
  <2>2. d \in [Tag -> Age]
    BY <1>1, <2>1
  <2> HIDE DEF d
  <2>3. QED
    BY <1>1, <1>3, <2>2 DEF Touched
<1>5. ASSUME NEW t, t \in Tag, NEW u, u \in Tag, t # u, d[t] = d[u] PROVE d[t] = Assoc
  <2> HIDE DEF d
  <2>1. /\ d[x] = 0 /\ Assoc \in Nat /\ Assoc > 0
        /\ c[u] \in Nat /\ c[u] <= Assoc /\ c[x] \in Nat /\ c[x] <= Assoc
        /\ u # x => d[u] = IF c[u] < c[x] THEN c[u] + 1 ELSE c[u]
        /\ u # x /\ c[u] = c[x] => c[x] = Assoc
    BY <1>4, <1>5, TouchedAt
  <2>2. /\ c[t] \in Nat /\ c[t] <= Assoc
        /\ t # x => d[t] = IF c[t] < c[x] THEN c[t] + 1 ELSE c[t]
        /\ t # x /\ c[t] = c[x] => c[x] = Assoc
    BY <1>4, <1>5, TouchedAt
  <2>3. c[t] = c[u] => c[t] = Assoc
    BY <1>3, <1>5
  <2>4. CASE t = x
    BY ONLY <1>5, <2>1, <2>2, <2>4
  <2>5. CASE u = x
    BY ONLY <1>5, <2>1, <2>2, <2>5
  <2>6. CASE t # x /\ u # x
    BY ONLY <1>5, <2>1, <2>2, <2>3, <2>6
  <2>7. QED
    BY <2>4, <2>5, <2>6
<1>6. SharedSet!Injective(d)
  <2> HIDE DEF d
  <2>1. QED
    BY <1>5 DEF SharedSet!Injective
<1>7. QED
  BY <1>4, <1>6

\* Lines younger than n sit in different ways.
LEMMA YoungLines ==
    ASSUME NEW c \in [Tag -> Age], NEW n \in Nat,
           \A t, u \in Tag : t # u /\ c[t] = c[u] => c[t] >= n,
           NEW S, S \subseteq Tag, \A u \in S : c[u] < n
    PROVE  IsFiniteSet(S) /\ Cardinality(S) \in Nat /\ Cardinality(S) <= n
<1> DEFINE f == [u \in S |-> c[u]]
           W == 0 .. (n - 1)
<1>1. ASSUME NEW u, u \in S PROVE c[u] \in W
  <2>1. c[u] \in 0 .. Assoc /\ c[u] < n /\ Assoc \in Nat
    BY <1>1, AssocAssumption DEF Age
  <2>2. QED
    BY ONLY <2>1, n \in Nat
<1>2. ASSUME NEW t, t \in S, NEW u, u \in S, c[t] = c[u] PROVE t = u
  <2>1. c[t] \in W /\ (t # u => c[t] >= n)
    BY <1>1, <1>2
  <2>2. QED
    BY ONLY <2>1, n \in Nat
<1>3. f \in Injection(S, W)
  <2> HIDE DEF W
  <2>1. f \in [S -> W]
    BY <1>1
  <2>2. \A t, u \in S : f[t] = f[u] => t = u
    BY <1>2
  <2>3. QED
    BY <2>1, <2>2 DEF Injection, IsInjective
<1>4. IsFiniteSet(W) /\ Cardinality(W) = n
  <2>1. 0 \in Int /\ n - 1 \in Int
    OBVIOUS
  <2>2. IsFiniteSet(W) /\ Cardinality(W) = IF 0 > n - 1 THEN 0 ELSE n - 1 - 0 + 1
    BY ONLY <2>1, FS_Interval
  <2> HIDE DEF W
  <2>3. QED
    BY <2>2
<1> HIDE DEF f, W
<1>5. IsFiniteSet(S) /\ Cardinality(S) <= Cardinality(W)
  BY <1>3, <1>4, FS_Injection
<1>6. QED
  BY <1>4, <1>5, FS_CardinalityType

-----------------------------------------------------------------------------
(* The history of the lines K the analysis has an entry for.               *)

\* A line is missing only once enough other lines can have been accessed since
\* its own access, and in front of a line no way is empty. (P are the own
\* core's accesses.)
FilledAt(c, P, t) ==
    /\ c[t] = Assoc => Cardinality((P \cup Interfering) \ {t}) >= Assoc
    /\ c[t] < Assoc => \A k \in 0 .. (c[t] - 1) : \E u \in Tag : c[u] = k

\* A line accessed since t, or t itself, is not older than a line that has not
\* been accessed since.
OrderAt(c, P, t) ==
    \A y \in Tag : y \notin P /\ y # t /\ y \notin Interfering =>
        \A u \in Tag : u \in P \cup {t} => c[u] <= c[y]

\* Of two lines the one accessed first has seen all that the other has seen.
Recency(K, O) ==
    \A t, v \in K : t \notin O[t] /\ (t # v /\ v \notin O[t] => O[t] \cup {t} \subseteq O[v])

History(c, K, O) ==
    /\ O \in [Tag -> SUBSET Tag] /\ \A t \in Tag : IsFiniteSet(O[t])
    /\ K \subseteq Tag /\ Recency(K, O)
    /\ \A t \in K : FilledAt(c, O[t], t) /\ OrderAt(c, O[t], t)

\* An access to another line x, by a core that has to account for it.
LEMMA FilledStep ==
    ASSUME NEW c, NEW d, NEW x, Touched(c, d, x), NEW t \in Tag, t # x,
           NEW P, NEW Q, P \subseteq Q, x \in Q \cup Interfering,
           IsFiniteSet(Q \cup Interfering), FilledAt(c, P, t), OrderAt(c, P, t)
    PROVE  FilledAt(d, Q, t)
<1>1. /\ x \in Tag /\ d[x] = 0 /\ Assoc \in Nat /\ Assoc > 0
      /\ c[t] \in Nat /\ c[t] <= Assoc /\ d[t] \in Nat /\ d[t] <= Assoc
      /\ c[x] \in Nat /\ c[x] <= Assoc
      /\ d[t] = IF c[t] < c[x] THEN c[t] + 1 ELSE c[t]
      /\ c[t] = c[x] => c[x] = Assoc
  BY TouchedAt
<1> DEFINE N == (P \cup Interfering) \ {t}
           M == (Q \cup Interfering) \ {t}
<1>2. /\ IsFiniteSet(M) /\ IsFiniteSet(N) /\ N \subseteq M /\ Cardinality(N) <= Cardinality(M)
      /\ Cardinality(M) \in Nat /\ Cardinality(N) \in Nat /\ x \in M
  <2>1. M \in SUBSET (Q \cup Interfering) /\ N \in SUBSET M /\ x \in M
    OBVIOUS
  <2> HIDE DEF M, N
  <2>2. IsFiniteSet(M)
    BY <2>1, FS_Subset
  <2>3. IsFiniteSet(N) /\ Cardinality(N) <= Cardinality(M)
    BY <2>1, <2>2, FS_Subset
  <2>4. QED
    BY <2>1, <2>2, <2>3, FS_CardinalityType
<1>3. ASSUME d[t] = Assoc PROVE Cardinality(M) >= Assoc
  <2>1. CASE c[t] = Assoc
    <3>1. Cardinality(N) >= Assoc
      BY <2>1 DEF FilledAt
    <3> HIDE DEF M, N
    <3>2. QED
      BY <1>1, <1>2, <3>1
  <2>2. CASE c[t] # Assoc
    <3>1. c[t] = Assoc - 1 /\ c[x] = Assoc
      BY ONLY <1>1, <1>3, <2>2
    <3> DEFINE W == {u \in Tag : c[u] < c[t]}
               f == [k \in 0 .. (c[t] - 1) |-> CHOOSE u \in Tag : c[u] = k]
    <3>2. W \subseteq N
      <4> SUFFICES ASSUME NEW u, u \in Tag, c[u] < c[t], u \notin N PROVE FALSE
        OBVIOUS
      <4>1. c[u] \in Nat
        BY TouchedAt
      <4>2. u # t
        BY <1>1
      <4>3. c[t] <= c[u]
        BY <4>2 DEF OrderAt
      <4>4. QED
        BY ONLY <1>1, <4>1, <4>3, c[u] < c[t]
    <3>3. IsFiniteSet(W) /\ W \cup {x} \subseteq M /\ x \notin W
      <4>1. x \notin W
        BY <1>1, <3>1
      <4> HIDE DEF W, M, N
      <4>2. W \in SUBSET N
        BY <3>2
      <4>3. IsFiniteSet(W)
        BY <4>2, <1>2, FS_Subset
      <4>4. QED
        BY <1>2, <3>2, <4>1, <4>3
    <3>4. Cardinality(W) >= Assoc - 1 /\ Cardinality(W) \in Nat
      <4>1. \A k \in 0 .. (c[t] - 1) : \E u \in Tag : c[u] = k
        BY <1>1, <3>1 DEF FilledAt
      <4>2. ASSUME NEW k, k \in 0 .. (c[t] - 1) PROVE f[k] \in Tag /\ c[f[k]] = k /\ f[k] \in W
        <5>1. f[k] \in Tag /\ c[f[k]] = k
          BY <4>1, <4>2
        <5>2. k < c[t]
          BY <1>1, <4>2
        <5> HIDE DEF f
        <5>3. QED
          BY <5>1, <5>2
      <4>3. f \in [0 .. (c[t] - 1) -> W]
        <5>1. \A k \in 0 .. (c[t] - 1) : f[k] \in W
          BY <4>2
        <5> HIDE DEF W
        <5>2. QED
          BY <5>1
      <4>4. \A j, k \in 0 .. (c[t] - 1) : f[j] = f[k] => j = k
        <5> HIDE DEF f
        <5>1. QED
          BY <4>2
      <4> HIDE DEF f, W
      <4>5. f \in Injection(0 .. (c[t] - 1), W)
        BY <4>3, <4>4 DEF Injection, IsInjective
      <4>6. Cardinality(0 .. (c[t] - 1)) <= Cardinality(W)
        BY <3>3, <4>5, FS_Injection
      <4>7. 0 \in Int /\ c[t] - 1 \in Int
        BY <1>1
      <4>8. Cardinality(0 .. (c[t] - 1)) = IF 0 > c[t] - 1 THEN 0 ELSE c[t] - 1 - 0 + 1
        BY ONLY <4>7, FS_Interval
      <4>9. Cardinality(0 .. (c[t] - 1)) = Assoc - 1
        BY ONLY <4>8, <3>1, <1>1
      <4>10. Cardinality(W) \in Nat
        BY <3>3, FS_CardinalityType
      <4>11. QED
        BY ONLY <4>6, <4>9, <4>10, <1>1
    <3> HIDE DEF W, M, N
    <3>5. Cardinality(W \cup {x}) = Cardinality(W) + 1
      BY <3>3, FS_AddElement
    <3>6. Cardinality(W \cup {x}) <= Cardinality(M)
      BY <1>2, <3>3, FS_Subset
    <3>7. QED
      BY ONLY <1>1, <1>2, <3>4, <3>5, <3>6
  <2>3. QED
    BY <2>1, <2>2
<1>4. ASSUME d[t] < Assoc, NEW k, k \in 0 .. (d[t] - 1) PROVE \E u \in Tag : d[u] = k
  <2>1. CASE k = 0
    BY <1>1, <2>1
  <2>2. CASE k # 0
    <3>1. c[t] < Assoc
      BY ONLY <1>1, <1>4
    <3>2. \A j \in 0 .. (c[t] - 1) : \E u \in Tag : c[u] = j
      BY <3>1 DEF FilledAt
    <3>3. CASE k <= c[x]
      <4>1. k - 1 \in 0 .. (c[t] - 1)
        BY ONLY <1>1, <1>4, <2>2, <3>1, <3>3
      <4>2. PICK u \in Tag : c[u] = k - 1
        BY <3>2, <4>1
      <4>3. c[u] < c[x] /\ u # x
        BY ONLY <1>1, <1>4, <4>2, <3>3
      <4>4. d[u] = c[u] + 1
        BY <4>3, TouchedAt
      <4>5. QED
        BY ONLY <4>2, <4>4, <1>4, <1>1
    <3>4. CASE k > c[x]
      <4>1. k \in 0 .. (c[t] - 1)
        BY ONLY <1>1, <1>4, <3>4
      <4>2. PICK u \in Tag : c[u] = k
        BY <3>2, <4>1
      <4>3. ~(c[u] < c[x]) /\ u # x
        BY ONLY <1>1, <1>4, <4>2, <3>4
      <4>4. d[u] = c[u]
        BY <4>3, TouchedAt
      <4>5. QED
        BY <4>2, <4>4
    <3>5. QED
      BY ONLY <1>1, <1>4, <3>3, <3>4
  <2>3. QED
    BY <2>1, <2>2
<1>5. QED
  BY <1>3, <1>4 DEF FilledAt

\* An access keeps the order of the other lines.
LEMMA TouchKeepsOrder ==
    ASSUME NEW c, NEW d, NEW x, Touched(c, d, x), NEW u \in Tag, NEW y \in Tag, y # x,
           u # x => c[u] <= c[y]
    PROVE  d[u] <= d[y]
<1>1. /\ d[x] = 0 /\ Assoc \in Nat
      /\ c[u] \in Nat /\ c[x] \in Nat
      /\ u # x => d[u] = IF c[u] < c[x] THEN c[u] + 1 ELSE c[u]
  BY TouchedAt
<1>2. /\ c[y] \in Nat /\ d[y] \in Nat
      /\ d[y] = IF c[y] < c[x] THEN c[y] + 1 ELSE c[y]
  BY TouchedAt
<1>3. QED
  BY ONLY <1>1, <1>2, u # x => c[u] <= c[y]

\* The own core accesses x.
LEMMA OwnAccess ==
    ASSUME NEW c, NEW d, NEW x, Touched(c, d, x), NEW K, NEW O, History(c, K, O),
           IsFiniteSet(Interfering), NEW L, L \subseteq K \cup {x},
           NEW P, P = [t \in Tag |-> IF t = x THEN {} ELSE O[t] \cup {x}]
    PROVE  History(d, L, P)
<1>1. x \in Tag /\ d[x] = 0 /\ L \subseteq Tag
  BY DEF Touched, History
<1>2. ASSUME NEW t, t \in Tag
      PROVE  /\ O[t] \in SUBSET Tag /\ IsFiniteSet(O[t]) /\ P[t] \in SUBSET Tag
             /\ IsFiniteSet(P[t]) /\ IsFiniteSet(P[t] \cup Interfering)
             /\ P[t] = IF t = x THEN {} ELSE O[t] \cup {x}
  <2>1. /\ O[t] \in SUBSET Tag /\ IsFiniteSet(O[t])
        /\ P[t] = IF t = x THEN {} ELSE O[t] \cup {x}
    BY <1>2 DEF History
  <2>2. IsFiniteSet(O[t] \cup {x}) /\ IsFiniteSet({})
    BY <2>1, FS_AddElement, FS_EmptySet
  <2>3. IsFiniteSet(P[t]) /\ P[t] \in SUBSET Tag
    <3>1. CASE t = x
      <4>1. P[t] = {}
        BY <2>1, <3>1
      <4>2. QED
        BY <2>2, <4>1
    <3>2. CASE t # x
      <4>1. P[t] = O[t] \cup {x}
        BY <2>1, <3>2
      <4>2. O[t] \cup {x} \in SUBSET Tag
        BY <1>1, <2>1
      <4>3. QED
        BY <2>2, <4>1, <4>2
    <3>3. QED
      BY <3>1, <3>2
  <2>4. IsFiniteSet(P[t] \cup Interfering)
    BY <2>3, FS_Union
  <2>5. QED
    BY <2>1, <2>3, <2>4
<1>3. P \in [Tag -> SUBSET Tag]
  <2>1. \A t \in Tag : (IF t = x THEN {} ELSE O[t] \cup {x}) \in SUBSET Tag
    BY <1>2
  <2>2. QED
    BY <2>1
<1>4. Recency(L, P)
  <2> SUFFICES ASSUME NEW t \in L, NEW v \in L
               PROVE  t \notin P[t] /\ (t # v /\ v \notin P[t] => P[t] \cup {t} \subseteq P[v])
    BY DEF Recency
  <2>1. /\ t \in Tag /\ v \in Tag /\ t \in K \cup {x} /\ v \in K \cup {x}
        /\ P[t] = IF t = x THEN {} ELSE O[t] \cup {x}
        /\ P[v] = IF v = x THEN {} ELSE O[v] \cup {x}
    BY <1>1, <1>2
  <2>2. \A r, s \in K : r \notin O[r] /\ (r # s /\ s \notin O[r] => O[r] \cup {r} \subseteq O[s])
    BY DEF History, Recency
  <2>3. QED
    BY <2>1, <2>2
<1>5. ASSUME NEW t, t \in L PROVE FilledAt(d, P[t], t) /\ OrderAt(d, P[t], t)
  <2>1. CASE t = x
    <3>1. FilledAt(d, P[t], t)
      <4>1. d[t] = 0 /\ 0 .. (d[t] - 1) = {} /\ d[t] # Assoc
        BY <1>1, <2>1, AssocAssumption
      <4>2. QED
        BY <4>1 DEF FilledAt
    <3>2. OrderAt(d, P[t], t)
      <4> SUFFICES ASSUME NEW y \in Tag, NEW u \in Tag, u \in P[t] \cup {t} PROVE d[u] <= d[y]
        BY DEF OrderAt
      <4>1. d[u] = 0
        BY <1>1, <1>2, <2>1
      <4>2. d[y] \in Nat
        BY TouchedAt
      <4>3. QED
        BY <4>1, <4>2
    <3>3. QED
      BY <3>1, <3>2
  <2>2. CASE t # x
    <3>1. /\ t \in Tag /\ t \in K /\ P[t] = O[t] \cup {x} /\ IsFiniteSet(P[t] \cup Interfering)
          /\ FilledAt(c, O[t], t) /\ OrderAt(c, O[t], t)
      BY <1>1, <1>2, <1>5, <2>2 DEF History
    <3>2. O[t] \subseteq P[t] /\ x \in P[t] \cup Interfering
      BY <3>1
    <3>3. FilledAt(d, P[t], t)
      BY <2>2, <3>1, <3>2, FilledStep
    <3>4. OrderAt(d, P[t], t)
      <4> SUFFICES ASSUME NEW y \in Tag, y \notin P[t], y # t, y \notin Interfering,
                          NEW u \in Tag, u \in P[t] \cup {t}
                   PROVE  d[u] <= d[y]
        BY DEF OrderAt
      <4>1. y # x /\ (u # x => c[u] <= c[y])
        BY <3>1 DEF OrderAt
      <4>2. QED
        BY <4>1, TouchKeepsOrder
    <3>5. QED
      BY <3>3, <3>4
  <2>3. QED
    BY <2>1, <2>2
<1>6. QED
  BY <1>1, <1>2, <1>3, <1>4, <1>5 DEF History

\* Another core accesses x.
LEMMA OtherAccess ==
    ASSUME NEW c, NEW d, NEW x, Touched(c, d, x), NEW K, NEW O, History(c, K, O),
           IsFiniteSet(Interfering), x \in Interfering
    PROVE  History(d, K, O)
<1>1. x \in Tag /\ d[x] = 0
  BY DEF Touched
<1>2. ASSUME NEW t, t \in K PROVE FilledAt(d, O[t], t) /\ OrderAt(d, O[t], t)
  <2>1. t \in Tag /\ IsFiniteSet(O[t]) /\ FilledAt(c, O[t], t) /\ OrderAt(c, O[t], t)
    BY <1>2 DEF History
  <2>2. IsFiniteSet(O[t] \cup Interfering)
    BY <2>1, FS_Union
  <2>3. FilledAt(d, O[t], t)
    <3>1. CASE t = x
      <4>1. d[t] = 0 /\ 0 .. (d[t] - 1) = {} /\ d[t] # Assoc
        BY <1>1, <3>1, AssocAssumption
      <4>2. QED
        BY <4>1 DEF FilledAt
    <3>2. CASE t # x
      BY <2>1, <2>2, <3>2, FilledStep
    <3>3. QED
      BY <3>1, <3>2
  <2>4. OrderAt(d, O[t], t)
    <3> SUFFICES ASSUME NEW y \in Tag, y \notin O[t], y # t, y \notin Interfering,
                        NEW u \in Tag, u \in O[t] \cup {t}
                 PROVE  d[u] <= d[y]
      BY DEF OrderAt
    <3>1. y # x /\ (u # x => c[u] <= c[y])
      BY <2>1 DEF OrderAt
    <3>2. QED
      BY <3>1, TouchKeepsOrder
  <2>5. QED
    BY <2>3, <2>4
<1>3. QED
  BY <1>2 DEF History

\* What is known of some lines is known of fewer.
LEMMA FewerLines ==
    ASSUME NEW c, NEW K, NEW O, History(c, K, O), NEW L, L \subseteq K
    PROVE  History(c, L, O)
BY DEF History, Recency

-----------------------------------------------------------------------------
(* The must analysis' bounds b and the history O.                          *)

\* No two lines have the same bound unless it is the greatest.
Distinct(b) == \A t, u \in Tag : t # u /\ b[t] = b[u] => b[t] >= Assoc - 1

\* A line with a smaller bound has not been overtaken more often than it says.
CountsAt(b, O, t) == b[t] < Assoc - 1 => Cardinality(O[t]) <= b[t]

\* A line with the greatest bound has not been either, or the own core has
\* accessed a line that other cores have, too, and of that line the same is
\* known (a hit may have been assumed that only their access explains).
OldestAt(b, O, v) ==
    b[v] = Assoc - 1 =>
        \/ Cardinality(O[v]) <= Assoc - 1
        \/ \E t \in Tag : /\ t \in Interfering /\ t \in O[v] /\ t # v
                          /\ b[t] < Assoc /\ O[t] \subseteq Below(b, Assoc)

Bounded(b, O) ==
    /\ b \in [Tag -> Age] /\ Distinct(b)
    /\ IsFiniteSet(Below(b, Assoc)) /\ Cardinality(Below(b, Assoc)) <= Assoc
    /\ \A t \in Tag : CountsAt(b, O, t) /\ OldestAt(b, O, t)

\* e are the bounds and P is the history after an access to x, whose bound was
\* acc or, if the hit is assumed, is acc = Assoc-1; c are the ages before.
Updating(b, e, c, O, P, x, acc) ==
    /\ x \in Tag /\ Bounded(b, O) /\ History(c, Below(b, Assoc), O)
    /\ c \in [Tag -> Age] /\ \A t, u \in Tag : t # u /\ c[t] = c[u] => c[t] = Assoc
    /\ P = [t \in Tag |-> IF t = x THEN {} ELSE O[t] \cup {x}]
    /\ \/ acc = b[x]
       \/ /\ acc = Assoc - 1 /\ b[x] = Assoc /\ c[x] < Assoc
          /\ Cardinality(Below(b, Assoc)) # Assoc
    /\ e \in [Tag -> Age]
    /\ \A u \in Tag : e[u] = IF u = x THEN 0 ELSE IF b[u] < acc THEN b[u] + 1 ELSE b[u]

\* What is known of one line.
LEMMA UpdatingAt ==
    ASSUME NEW b, NEW e, NEW c, NEW O, NEW P, NEW x, NEW acc, Updating(b, e, c, O, P, x, acc),
           NEW u \in Tag
    PROVE  /\ x \in Tag /\ Assoc \in Nat /\ Assoc > 0 /\ acc \in Nat /\ acc <= Assoc
           /\ b[x] \in Nat /\ b[x] <= Assoc
           /\ acc # b[x] => acc = Assoc - 1 /\ b[x] = Assoc
           /\ b[u] \in Nat /\ b[u] <= Assoc /\ e[u] \in Nat /\ e[u] <= Assoc
           /\ e[u] = IF u = x THEN 0 ELSE IF b[u] < acc THEN b[u] + 1 ELSE b[u]
           /\ u # x /\ b[u] = b[x] => b[u] >= Assoc - 1
<1>1. b[x] \in Age /\ b[u] \in Age /\ e[u] \in Age /\ x \in Tag
  BY DEF Updating, Bounded
<1>2. Assoc \in Nat /\ Assoc > 0
  BY AssocAssumption
<1>3. acc = b[x] \/ (acc = Assoc - 1 /\ b[x] = Assoc)
  BY DEF Updating
<1>4. e[u] = IF u = x THEN 0 ELSE IF b[u] < acc THEN b[u] + 1 ELSE b[u]
  BY DEF Updating
<1>5. u # x /\ b[u] = b[x] => b[u] >= Assoc - 1
  BY <1>1 DEF Updating, Bounded, Distinct
<1>6. b[x] \in 0 .. Assoc /\ b[u] \in 0 .. Assoc /\ e[u] \in 0 .. Assoc
  BY <1>1 DEF Age
<1>7. QED
  BY ONLY <1>1, <1>2, <1>3, <1>4, <1>5, <1>6

\* How the history of one line grows.
Grown(O, P, x, u) ==
    /\ Cardinality(O[u]) \in Nat /\ Cardinality(P[u]) \in Nat
    /\ u = x => Cardinality(P[u]) = 0
    /\ u # x /\ x \in O[u] => Cardinality(P[u]) = Cardinality(O[u])
    /\ u # x /\ x \notin O[u] => Cardinality(P[u]) = Cardinality(O[u]) + 1

LEMMA UpdatingHistory ==
    ASSUME NEW b, NEW e, NEW c, NEW O, NEW P, NEW x, NEW acc, Updating(b, e, c, O, P, x, acc),
           NEW u \in Tag
    PROVE  /\ P[u] = IF u = x THEN {} ELSE O[u] \cup {x}
           /\ IsFiniteSet(O[u]) /\ Grown(O, P, x, u)
<1>1. IsFiniteSet(O[u])
  BY DEF Updating, History
<1>2. P[u] = IF u = x THEN {} ELSE O[u] \cup {x}
  BY DEF Updating
<1>3. Cardinality(O[u]) \in Nat
  BY <1>1, FS_CardinalityType
<1>4. Cardinality({}) = 0
  BY FS_EmptySet
<1>5. Cardinality(O[u] \cup {x}) = IF x \in O[u] THEN Cardinality(O[u]) ELSE Cardinality(O[u]) + 1
  BY <1>1, FS_AddElement
<1>6. CASE u = x
  <2>1. P[u] = {}
    BY <1>2, <1>6
  <2>2. QED
    BY <1>1, <1>2, <1>3, <1>4, <1>6, <2>1 DEF Grown
<1>7. CASE u # x
  <2>1. P[u] = O[u] \cup {x}
    BY <1>2, <1>7
  <2>2. QED
    BY <1>1, <1>2, <1>3, <1>5, <1>7, <2>1 DEF Grown
<1>8. QED
  BY <1>6, <1>7

\* Two lines with entries: if x has not been accessed since v, x has seen at
\* least what v has seen, and v.
LEMMA SeenBefore ==
    ASSUME NEW c, NEW K, NEW O, History(c, K, O), NEW v \in K, NEW x \in K, v # x, x \notin O[v]
    PROVE  O[v] \cup {v} \subseteq O[x] /\ Cardinality(O[v]) + 1 <= Cardinality(O[x])
<1>1. v \notin O[v] /\ O[v] \cup {v} \subseteq O[x]
  BY DEF History, Recency
<1>2. IsFiniteSet(O[v]) /\ IsFiniteSet(O[x])
  BY DEF History
<1>3. Cardinality(O[v] \cup {v}) = Cardinality(O[v]) + 1
  BY <1>1, <1>2, FS_AddElement
<1>4. Cardinality(O[v] \cup {v}) <= Cardinality(O[x])
  BY <1>1, <1>2, FS_Subset
<1>5. QED
  BY <1>1, <1>3, <1>4

LEMMA UpdateCounts ==
    ASSUME NEW b, NEW e, NEW c, NEW O, NEW P, NEW x, NEW acc, Updating(b, e, c, O, P, x, acc),
           NEW t \in Tag
    PROVE  CountsAt(e, P, t)
<1> SUFFICES ASSUME e[t] < Assoc - 1 PROVE Cardinality(P[t]) <= e[t]
  BY DEF CountsAt
<1>1. /\ x \in Tag /\ Assoc \in Nat /\ Assoc > 0 /\ acc \in Nat /\ acc <= Assoc
      /\ b[x] \in Nat /\ b[x] <= Assoc
      /\ acc # b[x] => acc = Assoc - 1 /\ b[x] = Assoc
      /\ b[t] \in Nat /\ b[t] <= Assoc /\ e[t] \in Nat /\ e[t] <= Assoc
      /\ e[t] = IF t = x THEN 0 ELSE IF b[t] < acc THEN b[t] + 1 ELSE b[t]
      /\ t # x /\ b[t] = b[x] => b[t] >= Assoc - 1
  BY UpdatingAt
<1>2. /\ Cardinality(O[t]) \in Nat /\ Cardinality(P[t]) \in Nat
      /\ t = x => Cardinality(P[t]) = 0
      /\ t # x /\ x \in O[t] => Cardinality(P[t]) = Cardinality(O[t])
      /\ t # x /\ x \notin O[t] => Cardinality(P[t]) = Cardinality(O[t]) + 1
  <2>1. Grown(O, P, x, t)
    BY UpdatingHistory
  <2>2. QED
    BY <2>1 DEF Grown
<1>3. b[t] < Assoc - 1 => Cardinality(O[t]) <= b[t]
  BY DEF Updating, Bounded, CountsAt
<1>4. CASE t = x
  BY <1>1, <1>2, <1>4
<1>5. CASE t # x /\ b[t] < acc
  BY ONLY <1>1, <1>2, <1>3, <1>5, e[t] < Assoc - 1
<1>6. CASE t # x /\ ~(b[t] < acc)
  <2>1. b[t] < Assoc - 1 /\ b[x] < b[t] /\ e[t] = b[t]
    BY ONLY <1>1, <1>6, e[t] < Assoc - 1
  <2>2. CASE x \in O[t]
    BY ONLY <1>2, <1>3, <1>6, <2>1, <2>2
  <2>3. CASE x \notin O[t]
    <3>1. t \in Below(b, Assoc) /\ x \in Below(b, Assoc)
      <4>1. b[t] < Assoc /\ b[x] < Assoc
        BY ONLY <1>1, <2>1
      <4>2. QED
        BY <1>1, <4>1 DEF Below
    <3>2. Cardinality(O[t]) + 1 <= Cardinality(O[x])
      BY <1>6, <2>3, <3>1, SeenBefore DEF Updating
    <3>3. b[x] < Assoc - 1 => Cardinality(O[x]) <= b[x]
      BY <1>1 DEF Updating, Bounded, CountsAt
    <3>4. Cardinality(O[x]) \in Nat
      <4>1. x \in Tag
        BY <1>1
      <4>2. IsFiniteSet(O[x])
        BY <4>1, UpdatingHistory
      <4>3. QED
        BY <4>2, FS_CardinalityType
    <3>5. QED
      BY ONLY <1>1, <1>2, <1>6, <2>1, <2>3, <3>2, <3>3, <3>4
  <2>4. QED
    BY <2>2, <2>3
<1>7. QED
  BY <1>4, <1>5, <1>6

LEMMA UpdateDistinct ==
    ASSUME NEW b, NEW e, NEW c, NEW O, NEW P, NEW x, NEW acc, Updating(b, e, c, O, P, x, acc)
    PROVE  Distinct(e)
<1> SUFFICES ASSUME NEW t \in Tag, NEW u \in Tag, t # u, e[t] = e[u] PROVE e[t] >= Assoc - 1
  BY DEF Distinct
<1>1. /\ x \in Tag /\ Assoc \in Nat /\ Assoc > 0 /\ acc \in Nat /\ acc <= Assoc
      /\ b[x] \in Nat /\ b[x] <= Assoc
      /\ acc # b[x] => acc = Assoc - 1 /\ b[x] = Assoc
      /\ b[t] \in Nat /\ b[t] <= Assoc /\ e[t] \in Nat /\ e[t] <= Assoc
      /\ e[t] = IF t = x THEN 0 ELSE IF b[t] < acc THEN b[t] + 1 ELSE b[t]
      /\ t # x /\ b[t] = b[x] => b[t] >= Assoc - 1
  BY UpdatingAt
<1>2. /\ b[u] \in Nat /\ b[u] <= Assoc /\ e[u] \in Nat /\ e[u] <= Assoc
      /\ e[u] = IF u = x THEN 0 ELSE IF b[u] < acc THEN b[u] + 1 ELSE b[u]
      /\ u # x /\ b[u] = b[x] => b[u] >= Assoc - 1
  BY UpdatingAt
<1>3. b[t] = b[u] => b[t] >= Assoc - 1
  BY DEF Updating, Bounded, Distinct
<1>4. CASE t = x
  BY ONLY <1>1, <1>2, <1>4, t # u, e[t] = e[u]
<1>5. CASE u = x
  BY ONLY <1>1, <1>2, <1>5, t # u, e[t] = e[u]
<1>6. CASE t # x /\ u # x
  BY ONLY <1>1, <1>2, <1>3, <1>6, e[t] = e[u]
<1>7. QED
  BY <1>4, <1>5, <1>6

\* Only lines with an entry, and the accessed one, have an entry afterwards,
\* and they still fit into the set.
LEMMA UpdateFits ==
    ASSUME NEW b, NEW e, NEW c, NEW O, NEW P, NEW x, NEW acc, Updating(b, e, c, O, P, x, acc)
    PROVE  /\ Below(e, Assoc) \subseteq Below(b, Assoc) \cup {x}
           /\ IsFiniteSet(Below(e, Assoc)) /\ Cardinality(Below(e, Assoc)) <= Assoc
           /\ acc < Assoc => Below(e, Assoc) = Below(b, Assoc) \cup {x}
<1> DEFINE K == Below(b, Assoc)
           L == Below(e, Assoc)
<1>1. /\ x \in Tag /\ Assoc \in Nat /\ Assoc > 0 /\ acc \in Nat /\ acc <= Assoc
      /\ b[x] \in Nat /\ b[x] <= Assoc
      /\ acc # b[x] => acc = Assoc - 1 /\ b[x] = Assoc
      /\ e[x] = 0
  <2>1. x \in Tag
    BY DEF Updating
  <2>2. QED
    BY <2>1, UpdatingAt
<1>2. IsFiniteSet(K) /\ Cardinality(K) <= Assoc /\ Cardinality(K) \in Nat
  <2>1. IsFiniteSet(K) /\ Cardinality(K) <= Assoc
    BY DEF Updating, Bounded
  <2>2. QED
    BY <2>1, FS_CardinalityType
<1>3. L \subseteq K \cup {x}
  <2> SUFFICES ASSUME NEW u \in Tag, e[u] < Assoc, u # x PROVE b[u] < Assoc
    BY DEF Below
  <2>1. /\ b[u] \in Nat /\ b[u] <= Assoc
        /\ e[u] = IF u = x THEN 0 ELSE IF b[u] < acc THEN b[u] + 1 ELSE b[u]
    BY UpdatingAt
  <2>2. QED
    BY ONLY <1>1, <2>1, e[u] < Assoc, u # x
<1>4. x \in L
  BY <1>1 DEF Below
<1>5. ASSUME acc < Assoc PROVE L = K \cup {x} /\ Cardinality(L) <= Assoc
  <2>1. ASSUME NEW u \in Tag, b[u] < Assoc PROVE e[u] < Assoc
    <3>1. /\ b[u] \in Nat /\ b[u] <= Assoc
          /\ e[u] = IF u = x THEN 0 ELSE IF b[u] < acc THEN b[u] + 1 ELSE b[u]
      BY UpdatingAt
    <3>2. QED
      BY ONLY <1>1, <1>5, <2>1, <3>1
  <2>2. K \subseteq L
    BY <2>1 DEF Below
  <2>3. L = K \cup {x}
    <3> HIDE DEF K, L
    <3>1. QED
      BY <1>3, <1>4, <2>2
  <2>4. Cardinality(K \cup {x}) = IF x \in K THEN Cardinality(K) ELSE Cardinality(K) + 1
    <3> HIDE DEF K, L
    <3>1. QED
      BY <1>2, FS_AddElement
  <2>5. x \in K \/ Cardinality(K) # Assoc
    <3>1. acc = b[x] => x \in K
      BY <1>1, <1>5 DEF Below
    <3>2. acc # b[x] => Cardinality(K) # Assoc
      BY DEF Updating
    <3>3. QED
      BY <3>1, <3>2
  <2>6. QED
    <3> HIDE DEF K, L
    <3>1. Cardinality(K \cup {x}) <= Assoc
      BY ONLY <1>1, <1>2, <2>4, <2>5
    <3>2. QED
      BY <2>3, <3>1
<1>6. ASSUME ~(acc < Assoc) PROVE Cardinality(L) <= Assoc
  <2> DEFINE M == Below(b, Assoc - 1)
  <2>1. L \subseteq M \cup {x}
    <3> SUFFICES ASSUME NEW u \in Tag, e[u] < Assoc, u # x PROVE b[u] < Assoc - 1
      BY DEF Below
    <3>1. /\ b[u] \in Nat /\ b[u] <= Assoc
          /\ e[u] = IF u = x THEN 0 ELSE IF b[u] < acc THEN b[u] + 1 ELSE b[u]
      BY UpdatingAt
    <3>2. QED
      BY ONLY <1>1, <1>6, <3>1, e[u] < Assoc, u # x
  <2>2. IsFiniteSet(M) /\ Cardinality(M) \in Nat /\ Cardinality(M) <= Assoc - 1
    <3>1. Assoc - 1 \in Nat /\ b \in [Tag -> Age]
      BY <1>1 DEF Updating, Bounded
    <3>2. \A t, u \in Tag : t # u /\ b[t] = b[u] => b[t] >= Assoc - 1
      BY DEF Updating, Bounded, Distinct
    <3>3. M \subseteq Tag /\ \A u \in M : b[u] < Assoc - 1
      BY DEF Below
    <3> HIDE DEF M
    <3>4. QED
      BY <3>1, <3>2, <3>3, YoungLines
  <2> HIDE DEF M, L, K
  <2>3. /\ IsFiniteSet(M \cup {x})
        /\ Cardinality(M \cup {x}) = IF x \in M THEN Cardinality(M) ELSE Cardinality(M) + 1
    BY <2>2, FS_AddElement
  <2>4. Cardinality(L) <= Cardinality(M \cup {x})
    BY <2>1, <2>3, FS_Subset
  <2>5. IsFiniteSet(L)
    BY <2>1, <2>3, FS_Subset
  <2>6. Cardinality(L) \in Nat
    BY <2>5, FS_CardinalityType
  <2>7. QED
    BY ONLY <1>1, <2>2, <2>3, <2>4, <2>6
<1>7. IsFiniteSet(L)
  <2> HIDE DEF K, L
  <2>1. IsFiniteSet(K \cup {x})
    BY <1>2, FS_AddElement
  <2>2. QED
    BY <1>3, <2>1, FS_Subset
<1>8. QED
  BY <1>3, <1>5, <1>6, <1>7

\* Where the oldest lines of OldestAt come from: if v and x have the greatest
\* bound and x has not been accessed since v, what is known of x is enough.
LEMMA OldestBefore ==
    ASSUME NEW b, NEW O, NEW c, Bounded(b, O), History(c, Below(b, Assoc), O),
           NEW x \in Tag, NEW v \in Tag, v # x, b[v] = Assoc - 1, b[x] = Assoc - 1,
           x \notin O[v], Cardinality(O[v]) >= Assoc - 1
    PROVE  \E t \in Tag : /\ t \in Interfering /\ t \in O[v] /\ t # v /\ t # x
                          /\ b[t] < Assoc /\ O[t] \subseteq Below(b, Assoc)
<1> DEFINE K == Below(b, Assoc)
<1>1. Assoc \in Nat /\ Assoc > 0
  BY AssocAssumption
<1>2. v \in K /\ x \in K
  BY <1>1 DEF Below
<1>3. /\ v \notin O[v] /\ IsFiniteSet(O[v]) /\ IsFiniteSet(O[x]) /\ IsFiniteSet(K)
      /\ Cardinality(K) <= Assoc
  BY <1>2 DEF History, Recency, Bounded
<1>4. Cardinality(O[v]) \in Nat /\ Cardinality(O[x]) \in Nat /\ Cardinality(K) \in Nat
  BY <1>3, FS_CardinalityType
<1>5. Cardinality(O[v]) + 1 <= Cardinality(O[x])
  BY <1>2, SeenBefore
<1>6. ~(O[v] \subseteq K)
  <2> SUFFICES ASSUME O[v] \subseteq K PROVE FALSE
    OBVIOUS
  <2> DEFINE N == O[v] \cup {v}
  <2>1. /\ IsFiniteSet(N) /\ Cardinality(N) = Cardinality(O[v]) + 1
    BY <1>3, FS_AddElement
  <2>2. x \notin N
    OBVIOUS
  <2>3. N \cup {x} \subseteq K
    BY <1>2
  <2> HIDE DEF N, K
  <2>4. /\ IsFiniteSet(N \cup {x}) /\ Cardinality(N \cup {x}) = Cardinality(N) + 1
    BY <2>1, <2>2, FS_AddElement
  <2>5. Cardinality(N \cup {x}) <= Cardinality(K)
    BY <1>3, <2>3, FS_Subset
  <2>6. QED
    BY ONLY <1>1, <1>3, <1>4, <2>1, <2>4, <2>5, Cardinality(O[v]) >= Assoc - 1
<1>7. PICK t \in Tag : /\ t \in Interfering /\ t \in O[x] /\ t # x
                       /\ b[t] < Assoc /\ O[t] \subseteq K
  <2>1. ~(Cardinality(O[x]) <= Assoc - 1)
    BY ONLY <1>1, <1>4, <1>5, Cardinality(O[v]) >= Assoc - 1
  <2>2. OldestAt(b, O, x)
    BY DEF Bounded
  <2>3. QED
    BY <2>1, <2>2 DEF OldestAt
<1>8. t \in K
  BY <1>7 DEF Below
<1>9. t # v /\ t \in O[v]
  <2>1. t # v
    BY <1>6, <1>7
  <2>2. CASE t \notin O[v]
    <3>1. O[v] \cup {v} \subseteq O[t]
      <4> HIDE DEF K
      <4>1. History(c, K, O)
        BY DEF K
      <4>2. QED
        BY <1>2, <1>8, <2>1, <2>2, <4>1, SeenBefore
    <3>2. QED
      BY <1>6, <1>7, <3>1
  <2>3. QED
    BY <2>1, <2>2
<1>10. QED
  BY <1>7, <1>9

\* A real hit that the bounds do not explain is one on a line of another core,
\* or v has not been overtaken Assoc-1 times yet.
LEMMA HitExplained ==
    ASSUME NEW c \in [Tag -> Age], \A t, u \in Tag : t # u /\ c[t] = c[u] => c[t] = Assoc,
           NEW K, NEW O, History(c, K, O), NEW v \in K,
           NEW x \in Tag, x # v, x \notin O[v], c[x] < Assoc, x \notin Interfering
    PROVE  Cardinality(O[v]) < Assoc - 1
<1> DEFINE N == O[v] \cup {v}
<1>1. Assoc \in Nat /\ Assoc > 0
  BY AssocAssumption
<1>2. v \in Tag /\ v \notin O[v] /\ O[v] \in SUBSET Tag /\ IsFiniteSet(O[v]) /\ OrderAt(c, O[v], v)
  BY DEF History, Recency
<1>3. ASSUME NEW u \in N PROVE c[u] <= c[x]
  BY <1>2 DEF OrderAt
<1>4. /\ IsFiniteSet(N) /\ Cardinality(N) = Cardinality(O[v]) + 1
  BY <1>2, FS_AddElement
<1>5. x \notin N /\ N \subseteq Tag
  BY <1>2
<1> HIDE DEF N
<1>6. /\ IsFiniteSet(N \cup {x}) /\ Cardinality(N \cup {x}) = Cardinality(N) + 1
  BY <1>4, <1>5, FS_AddElement
<1>7. ASSUME NEW u \in N \cup {x} PROVE c[u] < Assoc
  <2>1. u \in Tag /\ (u # x => c[u] <= c[x])
    BY <1>3, <1>5
  <2>2. c[u] \in 0 .. Assoc /\ c[x] \in 0 .. Assoc
    BY <2>1 DEF Age
  <2>3. QED
    BY ONLY <1>1, <2>1, <2>2, c[x] < Assoc
<1>8. \A t, u \in Tag : t # u /\ c[t] = c[u] => c[t] >= Assoc
  BY <1>1
<1>9. Cardinality(N \cup {x}) <= Assoc
  <2>1. N \cup {x} \subseteq Tag
    BY <1>5
  <2>2. Assoc \in Nat
    BY <1>1
  <2>3. \A u \in N \cup {x} : c[u] < Assoc
    BY <1>7
  <2>4. QED
    BY <1>8, <2>1, <2>2, <2>3, YoungLines
<1>10. Cardinality(O[v]) \in Nat
  BY <1>2, FS_CardinalityType
<1>11. QED
  BY ONLY <1>1, <1>4, <1>6, <1>9, <1>10

LEMMA UpdateOldest ==
    ASSUME NEW b, NEW e, NEW c, NEW O, NEW P, NEW x, NEW acc, Updating(b, e, c, O, P, x, acc),
           NEW v \in Tag
    PROVE  OldestAt(e, P, v)
<1> SUFFICES ASSUME e[v] = Assoc - 1, ~(Cardinality(P[v]) <= Assoc - 1)
             PROVE  \E t \in Tag : /\ t \in Interfering /\ t \in P[v] /\ t # v
                                   /\ e[t] < Assoc /\ P[t] \subseteq Below(e, Assoc)
  BY DEF OldestAt
<1> DEFINE K == Below(b, Assoc)
           L == Below(e, Assoc)
<1>1. /\ x \in Tag /\ Assoc \in Nat /\ Assoc > 0 /\ acc \in Nat /\ acc <= Assoc
      /\ b[x] \in Nat /\ b[x] <= Assoc
      /\ acc # b[x] => acc = Assoc - 1 /\ b[x] = Assoc
      /\ b[v] \in Nat /\ b[v] <= Assoc /\ e[v] \in Nat /\ e[v] <= Assoc
      /\ e[v] = IF v = x THEN 0 ELSE IF b[v] < acc THEN b[v] + 1 ELSE b[v]
  BY UpdatingAt
<1>2. /\ Cardinality(O[v]) \in Nat /\ Cardinality(P[v]) \in Nat
      /\ v = x => Cardinality(P[v]) = 0
      /\ v # x /\ x \in O[v] => Cardinality(P[v]) = Cardinality(O[v])
      /\ v # x /\ x \notin O[v] => Cardinality(P[v]) = Cardinality(O[v]) + 1
  <2>1. Grown(O, P, x, v)
    BY UpdatingHistory
  <2>2. QED
    BY <2>1 DEF Grown
<1>3. v # x
  BY ONLY <1>1, <1>2, ~(Cardinality(P[v]) <= Assoc - 1)
<1>4. b[v] < Assoc - 1 => Cardinality(O[v]) <= b[v]
  BY DEF Updating, Bounded, CountsAt
<1>5. b[v] = Assoc - 1 /\ acc < Assoc
  <2>1. CASE b[v] < acc
    <3>1. b[v] + 1 = Assoc - 1
      BY ONLY <1>1, <1>3, <2>1, e[v] = Assoc - 1
    <3>2. Cardinality(O[v]) <= b[v]
      BY ONLY <1>1, <1>4, <3>1
    <3>3. QED
      BY ONLY <1>1, <1>2, <1>3, <3>1, <3>2, ~(Cardinality(P[v]) <= Assoc - 1)
  <2>2. CASE ~(b[v] < acc)
    BY ONLY <1>1, <1>3, <2>2, e[v] = Assoc - 1
  <2>3. QED
    BY <2>1, <2>2
<1>6. L = K \cup {x} /\ v \in K /\ x \in L
  <2>1. L = K \cup {x}
    BY <1>5, UpdateFits
  <2>2. v \in K
    BY <1>1, <1>5 DEF Below
  <2>3. QED
    BY <2>1, <2>2
<1>7. P[v] = O[v] \cup {x} /\ P[x] = {}
  <2>1. P[v] = IF v = x THEN {} ELSE O[v] \cup {x}
    BY UpdatingHistory
  <2>2. P[x] = IF x = x THEN {} ELSE O[x] \cup {x}
    BY <1>1 DEF Updating
  <2>3. QED
    BY <1>3, <2>1, <2>2
\* A witness for the old bounds, or x itself, is one for the new bounds.
<1>8. ASSUME NEW t \in Tag, t \in Interfering, t \in O[v], t # v, b[t] < Assoc, O[t] \subseteq K
      PROVE  /\ t \in Interfering /\ t \in P[v] /\ t # v
             /\ e[t] < Assoc /\ P[t] \subseteq L
  <2>1. t \in K
    BY <1>8 DEF Below
  <2>2. e[t] < Assoc
    <3>1. t \in L
      BY <1>6, <2>1
    <3>2. QED
      BY <3>1 DEF Below
  <2>3. P[t] \subseteq O[t] \cup {x}
    <3>1. P[t] = IF t = x THEN {} ELSE O[t] \cup {x}
      BY UpdatingHistory
    <3>2. QED
      BY <3>1
  <2>4. QED
    BY <1>6, <1>7, <1>8, <2>2, <2>3
<1>9. ASSUME x \in Interfering
      PROVE  /\ x \in Interfering /\ x \in P[v] /\ x # v
             /\ e[x] < Assoc /\ P[x] \subseteq L
  <2>1. e[x] < Assoc
    BY <1>6 DEF Below
  <2>2. QED
    BY <1>3, <1>7, <1>9, <2>1
<1>10. CASE Cardinality(O[v]) <= Assoc - 1
  <2>1. x \notin O[v] /\ Cardinality(O[v]) = Assoc - 1
    BY ONLY <1>1, <1>2, <1>3, <1>10, ~(Cardinality(P[v]) <= Assoc - 1)
  <2>2. CASE acc # b[x]
    <3>1. /\ c \in [Tag -> Age] /\ \A t, u \in Tag : t # u /\ c[t] = c[u] => c[t] = Assoc
          /\ History(c, K, O) /\ c[x] < Assoc
      BY <2>2 DEF Updating
    <3>2. CASE x \notin Interfering
      <4>1. Cardinality(O[v]) < Assoc - 1
        <5> HIDE DEF K
        <5>1. QED
          BY <1>1, <1>3, <1>6, <2>1, <3>1, <3>2, HitExplained
      <4>2. QED
        BY ONLY <1>1, <2>1, <4>1
    <3>3. QED
      BY <1>1, <1>9, <3>2
  <2>3. CASE b[x] = Assoc - 1
    <3>1. Bounded(b, O) /\ History(c, K, O)
      BY DEF Updating
    <3>2. Cardinality(O[v]) >= Assoc - 1
      BY ONLY <1>1, <2>1
    <3>3. PICK t \in Tag : /\ t \in Interfering /\ t \in O[v] /\ t # v /\ t # x
                           /\ b[t] < Assoc /\ O[t] \subseteq K
      BY <1>1, <1>3, <1>5, <2>1, <2>3, <3>1, <3>2, OldestBefore
    <3>4. QED
      BY <1>8, <3>3
  <2>4. CASE acc = b[x] /\ b[x] # Assoc - 1
    <3>1. b[x] < Assoc - 1 /\ x \in K
      <4>1. b[x] < Assoc - 1 /\ b[x] < Assoc
        BY ONLY <1>1, <1>5, <2>4
      <4>2. QED
        BY <1>1, <4>1 DEF Below
    <3>2. Cardinality(O[v]) + 1 <= Cardinality(O[x])
      <4>1. History(c, K, O)
        BY DEF Updating
      <4> HIDE DEF K
      <4>2. QED
        BY <1>3, <1>6, <2>1, <3>1, <4>1, SeenBefore
    <3>3. Cardinality(O[x]) <= b[x]
      BY <1>1, <3>1 DEF Updating, Bounded, CountsAt
    <3>4. QED
      <4>1. IsFiniteSet(O[x])
        BY <1>1, UpdatingHistory
      <4>2. Cardinality(O[x]) \in Nat
        BY <4>1, FS_CardinalityType
      <4>3. FALSE
        BY ONLY <1>1, <2>1, <3>1, <3>2, <3>3, <4>2
      <4>4. QED
        BY <4>3
  <2>5. QED
    BY <2>2, <2>3, <2>4
<1>11. CASE ~(Cardinality(O[v]) <= Assoc - 1)
  <2>1. OldestAt(b, O, v)
    BY DEF Updating, Bounded
  <2>2. PICK t \in Tag : /\ t \in Interfering /\ t \in O[v] /\ t # v
                         /\ b[t] < Assoc /\ O[t] \subseteq K
    BY <1>5, <1>11, <2>1 DEF OldestAt
  <2>3. QED
    BY <1>8, <2>2
<1>12. QED
  BY <1>10, <1>11

\* The must update keeps the bounds of the history.
LEMMA UpdateBounded ==
    ASSUME NEW b, NEW e, NEW c, NEW O, NEW P, NEW x, NEW acc, Updating(b, e, c, O, P, x, acc)
    PROVE  Bounded(e, P)
<1>1. e \in [Tag -> Age]
  BY DEF Updating
<1>2. \A t \in Tag : CountsAt(e, P, t)
  BY UpdateCounts
<1>3. \A t \in Tag : OldestAt(e, P, t)
  BY UpdateOldest
<1>4. Distinct(e)
  BY UpdateDistinct
<1>5. IsFiniteSet(Below(e, Assoc)) /\ Cardinality(Below(e, Assoc)) <= Assoc
  BY UpdateFits
<1>6. QED
  BY <1>1, <1>2, <1>3, <1>4, <1>5 DEF Bounded

\* No other line than the accessed one has bound 0 afterwards.
LEMMA UpdateOneFront ==
    ASSUME NEW b, NEW e, NEW c, NEW O, NEW P, NEW x, NEW acc, Updating(b, e, c, O, P, x, acc),
           NEW u \in Tag, u # x
    PROVE  e[u] # 0
<1> SUFFICES ASSUME e[u] = 0 PROVE FALSE
  OBVIOUS
<1>1. /\ x \in Tag /\ Assoc \in Nat /\ Assoc > 0 /\ acc \in Nat /\ acc <= Assoc
      /\ b[x] \in Nat /\ b[x] <= Assoc
      /\ acc # b[x] => acc = Assoc - 1 /\ b[x] = Assoc
      /\ b[u] \in Nat /\ b[u] <= Assoc /\ e[u] \in Nat /\ e[u] <= Assoc
      /\ e[u] = IF u = x THEN 0 ELSE IF b[u] < acc THEN b[u] + 1 ELSE b[u]
      /\ u # x /\ b[u] = b[x] => b[u] >= Assoc - 1
  BY UpdatingAt
<1>2. b[u] = 0 /\ acc = 0 /\ Assoc = 1
  BY ONLY <1>1, e[u] = 0, u # x
<1>3. u \in Below(b, Assoc) /\ u \in Below(e, Assoc) /\ x \in Below(e, Assoc)
  <2>1. e[x] = 0
    BY <1>1 DEF Updating
  <2>2. QED
    BY <1>1, <1>2, <2>1 DEF Below
<1>4. IsFiniteSet(Below(e, Assoc)) /\ Cardinality(Below(e, Assoc)) <= Assoc
  BY UpdateFits
<1>5. IsFiniteSet({u}) /\ Cardinality({u}) = 1
  BY FS_Singleton
<1>6. IsFiniteSet({u} \cup {x}) /\ Cardinality({u} \cup {x}) = Cardinality({u}) + 1
  BY <1>5, FS_AddElement
<1>7. Cardinality({u} \cup {x}) <= Cardinality(Below(e, Assoc))
  <2>1. {u} \cup {x} \in SUBSET Below(e, Assoc)
    BY <1>3
  <2>2. QED
    BY <1>4, <2>1, FS_Subset
<1>8. Cardinality(Below(e, Assoc)) \in Nat
  BY <1>4, FS_CardinalityType
<1>9. QED
  BY ONLY <1>2, <1>4, <1>5, <1>6, <1>7, <1>8

\* An access that may have happened leaves the bounds of the history: P grows
\* by one line at most.
LEMMA PotentialBounded ==
    ASSUME NEW b, NEW O, NEW c, Bounded(b, O), History(c, Below(b, Assoc), O),
           NEW e \in [Tag -> Age], \A u \in Tag : e[u] = IF b[u] < Assoc THEN b[u] + 1 ELSE b[u],
           NEW x, NEW P, P = O \/ \A u \in Tag : Grown(O, P, x, u)
    PROVE  Bounded(e, P) /\ Below(e, Assoc) \subseteq Below(b, Assoc)
<1>1. ASSUME NEW u \in Tag
      PROVE  /\ Assoc \in Nat /\ Assoc > 0
             /\ b[u] \in Nat /\ b[u] <= Assoc /\ e[u] \in Nat /\ e[u] <= Assoc
             /\ e[u] = IF b[u] < Assoc THEN b[u] + 1 ELSE b[u]
             /\ b[u] < Assoc - 1 => Cardinality(O[u]) <= b[u]
             /\ Cardinality(O[u]) \in Nat /\ Cardinality(P[u]) \in Nat
             /\ Cardinality(P[u]) <= Cardinality(O[u]) + 1
  <2>1. b[u] \in Age /\ e[u] \in Age
    BY DEF Bounded
  <2>2. b[u] \in 0 .. Assoc /\ e[u] \in 0 .. Assoc
    BY <2>1 DEF Age
  <2>3. e[u] = IF b[u] < Assoc THEN b[u] + 1 ELSE b[u]
    OBVIOUS
  <2>4. b[u] < Assoc - 1 => Cardinality(O[u]) <= b[u]
    BY DEF Bounded, CountsAt
  <2>5. IsFiniteSet(O[u])
    BY DEF History
  <2>6. Cardinality(O[u]) \in Nat
    BY <2>5, FS_CardinalityType
  <2>7. CASE P = O
    BY ONLY <2>2, <2>3, <2>4, <2>6, <2>7, AssocAssumption
  <2>8. CASE \A t \in Tag : Grown(O, P, x, t)
    <3>1. Grown(O, P, x, u)
      BY <2>8
    <3>2. Cardinality(P[u]) \in Nat /\ Cardinality(P[u]) <= Cardinality(O[u]) + 1
      BY ONLY <3>1, <2>6 DEF Grown
    <3>3. QED
      BY ONLY <2>2, <2>3, <2>4, <2>6, <3>2, AssocAssumption
  <2>9. QED
    BY <2>7, <2>8
<1>2. ASSUME NEW t \in Tag PROVE CountsAt(e, P, t) /\ OldestAt(e, P, t)
  <2>1. /\ Assoc \in Nat /\ Assoc > 0
        /\ b[t] \in Nat /\ b[t] <= Assoc /\ e[t] \in Nat /\ e[t] <= Assoc
        /\ e[t] = IF b[t] < Assoc THEN b[t] + 1 ELSE b[t]
        /\ b[t] < Assoc - 1 => Cardinality(O[t]) <= b[t]
        /\ Cardinality(O[t]) \in Nat /\ Cardinality(P[t]) \in Nat
        /\ Cardinality(P[t]) <= Cardinality(O[t]) + 1
    BY <1>1
  <2>2. e[t] <= Assoc - 1 => Cardinality(P[t]) <= e[t]
    BY ONLY <2>1
  <2>3. e[t] < Assoc - 1 => Cardinality(P[t]) <= e[t]
    BY ONLY <2>1, <2>2
  <2>4. e[t] = Assoc - 1 => Cardinality(P[t]) <= Assoc - 1
    BY ONLY <2>1, <2>2
  <2>5. QED
    BY <2>3, <2>4 DEF CountsAt, OldestAt
<1>3. Distinct(e)
  <2> SUFFICES ASSUME NEW t \in Tag, NEW u \in Tag, t # u, e[t] = e[u] PROVE e[t] >= Assoc - 1
    BY DEF Distinct
  <2>1. /\ Assoc \in Nat /\ Assoc > 0
        /\ b[t] \in Nat /\ b[t] <= Assoc /\ e[t] \in Nat /\ e[t] <= Assoc
        /\ e[t] = IF b[t] < Assoc THEN b[t] + 1 ELSE b[t]
    BY <1>1
  <2>2. /\ b[u] \in Nat /\ b[u] <= Assoc /\ e[u] \in Nat /\ e[u] <= Assoc
        /\ e[u] = IF b[u] < Assoc THEN b[u] + 1 ELSE b[u]
    BY <1>1
  <2>3. b[t] = b[u] => b[t] >= Assoc - 1
    BY DEF Bounded, Distinct
  <2>4. QED
    BY ONLY <2>1, <2>2, <2>3, e[t] = e[u]
<1>4. Below(e, Assoc) = Below(b, Assoc - 1)
  <2>1. ASSUME NEW u \in Tag PROVE e[u] < Assoc <=> b[u] < Assoc - 1
    <3>1. /\ Assoc \in Nat /\ Assoc > 0 /\ b[u] \in Nat /\ b[u] <= Assoc
          /\ e[u] = IF b[u] < Assoc THEN b[u] + 1 ELSE b[u]
      BY <1>1
    <3>2. QED
      BY ONLY <3>1
  <2>2. QED
    BY <2>1 DEF Below
<1>5. Below(e, Assoc) \subseteq Below(b, Assoc)
  <2>1. ASSUME NEW u \in Tag, b[u] < Assoc - 1 PROVE b[u] < Assoc
    <3>1. Assoc \in Nat /\ b[u] \in Nat
      BY <1>1
    <3>2. QED
      BY ONLY <2>1, <3>1
  <2>2. QED
    BY <1>4, <2>1 DEF Below
<1>6. IsFiniteSet(Below(e, Assoc)) /\ Cardinality(Below(e, Assoc)) <= Assoc
  <2>1. IsFiniteSet(Below(b, Assoc)) /\ Cardinality(Below(b, Assoc)) <= Assoc
    BY DEF Bounded
  <2>2. IsFiniteSet(Below(e, Assoc)) /\ Cardinality(Below(e, Assoc)) <= Cardinality(Below(b, Assoc))
    BY <1>5, <2>1, FS_Subset
  <2>3. Cardinality(Below(e, Assoc)) \in Nat /\ Cardinality(Below(b, Assoc)) \in Nat /\ Assoc \in Nat
    BY <2>1, <2>2, FS_CardinalityType, AssocAssumption
  <2>4. QED
    BY ONLY <2>1, <2>2, <2>3
<1>7. QED
  BY <1>2, <1>3, <1>5, <1>6 DEF Bounded

-----------------------------------------------------------------------------
(* The lines of the other cores.                                           *)

LEMMA InterferingFacts ==
    /\ Interfering \subseteq Tag /\ IsFiniteSet(Interfering)
    /\ \A t : CNN(t) \in Nat /\ Cardinality(Interfering \ {t}) <= CNN(t)
<1> DEFINE D == DOMAIN addrlists
<1>0. /\ IsFiniteSet(D)
      /\ \A f \in D : addrlists[f] \subseteq Tag /\ IsFiniteSet(addrlists[f])
  BY AddrlistsAssumption
<1>1. ASSUME NEW t
      PROVE  /\ CNN(t) \in Nat
             /\ IsFiniteSet(Interfering \ {t}) /\ Cardinality(Interfering \ {t}) <= CNN(t)
  <2> DEFINE Y == [f \in D |-> addrlists[f] \ {t}]
             n == [f \in D |-> Cardinality(addrlists[f] \ {t})]
  <2>1. ASSUME NEW f \in D PROVE IsFiniteSet(Y[f]) /\ n[f] = Cardinality(Y[f]) /\ n[f] \in Nat
    <3>1. Y[f] = addrlists[f] \ {t} /\ n[f] = Cardinality(addrlists[f] \ {t})
      OBVIOUS
    <3>2. addrlists[f] \ {t} \in SUBSET addrlists[f] /\ IsFiniteSet(addrlists[f])
      BY <1>0
    <3>3. IsFiniteSet(addrlists[f] \ {t})
      BY <3>2, FS_Subset
    <3>4. Cardinality(addrlists[f] \ {t}) \in Nat
      BY <3>3, FS_CardinalityType
    <3> HIDE DEF Y, n
    <3>5. QED
      BY <3>1, <3>3, <3>4
  <2>2. n \in [D -> Nat]
    <3>1. \A f \in D : n[f] \in Nat
      BY <2>1
    <3>2. QED
      BY <3>1
  <2>3. UNION {Y[f] : f \in D} = Interfering \ {t}
    BY DEF Interfering
  <2>4. CNN(t) = SumFunctionOnSet(n, D)
    BY DEF CNN
  <2> HIDE DEF Y, n, D
  <2>5. /\ IsFiniteSet(UNION {Y[f] : f \in D})
        /\ Cardinality(UNION {Y[f] : f \in D}) <= SumFunctionOnSet(n, D)
    BY <1>0, <2>1, <2>2, UnionBound
  <2>6. SumFunctionOnSet(n, D) \in Nat
    <3>1. PICK g : IsPartialSums(g, n, D) /\ SumFunctionOnSet(n, D) = g[D]
      BY <1>0, <2>2, SumUnfold
    <3>2. QED
      BY <3>1 DEF IsPartialSums
  <2>7. QED
    BY <2>3, <2>4, <2>5, <2>6
<1>2. Interfering \subseteq Tag
  BY <1>0 DEF Interfering
<1>3. IsFiniteSet(Interfering)
  <2>1. CASE Interfering = {}
    BY <2>1, FS_EmptySet
  <2>2. CASE Interfering # {}
    <3>1. PICK t \in Interfering : TRUE
      BY <2>2
    <3>2. IsFiniteSet(Interfering \ {t})
      BY <1>1
    <3>3. IsFiniteSet((Interfering \ {t}) \cup {t})
      BY <3>2, FS_AddElement
    <3>4. (Interfering \ {t}) \cup {t} = Interfering
      OBVIOUS
    <3>5. QED
      BY <3>3, <3>4
  <2>3. QED
    BY <2>1, <2>2
<1>4. QED
  BY <1>1, <1>2, <1>3

\* A line that is certain to be within reach of the bounds is cached.
LEMMA WithinReach ==
    ASSUME NEW c \in [Tag -> Age], NEW b, NEW O, Bounded(b, O), History(c, Below(b, Assoc), O),
           NEW t \in Tag, b[t] < Assoc, b[t] + CNN(t) < Assoc
    PROVE  c[t] < Assoc
<1> DEFINE J == Interfering
           N == (O[t] \cup J) \ {t}
<1>1. /\ t \in Below(b, Assoc) /\ IsFiniteSet(O[t]) /\ FilledAt(c, O[t], t)
      /\ CountsAt(b, O, t) /\ OldestAt(b, O, t)
  <2>1. t \in Below(b, Assoc)
    BY DEF Below
  <2>2. QED
    BY <2>1 DEF History, Bounded
<1>2. /\ IsFiniteSet(J \ {t}) /\ Cardinality(J \ {t}) <= CNN(t) /\ CNN(t) \in Nat
  <2>1. IsFiniteSet(J) /\ Cardinality(J \ {t}) <= CNN(t) /\ CNN(t) \in Nat
    BY InterferingFacts
  <2>2. J \ {t} \in SUBSET J
    OBVIOUS
  <2> HIDE DEF J
  <2>3. QED
    BY <2>1, <2>2, FS_Subset
<1>3. /\ Assoc \in Nat /\ b[t] \in Nat /\ c[t] \in Nat /\ c[t] <= Assoc
      /\ Cardinality(O[t]) \in Nat /\ Cardinality(J \ {t}) \in Nat
  <2>1. b[t] \in Age /\ c[t] \in Age
    BY DEF Bounded
  <2>2. b[t] \in 0 .. Assoc /\ c[t] \in 0 .. Assoc /\ Assoc \in Nat
    BY <2>1, AssocAssumption DEF Age
  <2>3. Cardinality(O[t]) \in Nat /\ Cardinality(J \ {t}) \in Nat
    BY <1>1, <1>2, FS_CardinalityType
  <2>4. QED
    BY <2>2, <2>3
<1>4. Cardinality(O[t]) <= b[t]
  <2>1. CASE b[t] < Assoc - 1
    BY <1>1, <2>1 DEF CountsAt
  <2>2. CASE ~(b[t] < Assoc - 1)
    <3>1. b[t] = Assoc - 1 /\ CNN(t) = 0 /\ Cardinality(J \ {t}) = 0
      BY ONLY <1>2, <1>3, <2>2, b[t] + CNN(t) < Assoc
    <3>2. J \ {t} = {}
      BY <1>2, <3>1, FS_EmptySet
    <3>3. Cardinality(O[t]) <= Assoc - 1
      BY <1>1, <3>1, <3>2 DEF OldestAt
    <3>4. QED
      BY <3>1, <3>3
  <2>3. QED
    BY <2>1, <2>2
<1>5. Cardinality(N) <= Cardinality(O[t]) + Cardinality(J \ {t}) /\ Cardinality(N) \in Nat
  <2> DEFINE A == O[t]
             B == J \ {t}
  <2>1. N \in SUBSET (A \cup B) /\ IsFiniteSet(A) /\ IsFiniteSet(B)
    BY <1>1, <1>2
  <2> HIDE DEF A, B, N
  <2>2. /\ IsFiniteSet(A \cup B)
        /\ Cardinality(A \cup B) = Cardinality(A) + Cardinality(B) - Cardinality(A \cap B)
    BY <2>1, FS_Union
  <2>3. IsFiniteSet(N) /\ Cardinality(N) <= Cardinality(A \cup B)
    BY <2>1, <2>2, FS_Subset
  <2>4. IsFiniteSet(A \cap B)
    BY <2>1, FS_Subset
  <2>5. /\ Cardinality(A) \in Nat /\ Cardinality(B) \in Nat /\ Cardinality(N) \in Nat
        /\ Cardinality(A \cap B) \in Nat /\ Cardinality(A \cup B) \in Nat
    BY <2>1, <2>2, <2>3, <2>4, FS_CardinalityType
  <2>6. Cardinality(N) <= Cardinality(A) + Cardinality(B)
    BY ONLY <2>2, <2>3, <2>5
  <2>7. QED
    BY <2>5, <2>6 DEF A, B
<1>6. c[t] = Assoc => Cardinality(N) >= Assoc
  BY <1>1 DEF FilledAt
<1> HIDE DEF N, J
<1>7. QED
  BY ONLY <1>2, <1>3, <1>4, <1>5, <1>6, b[t] + CNN(t) < Assoc

-----------------------------------------------------------------------------
(* The inductive invariant.                                                *)

\* The analysis has the bounds b, and O is a history that goes with them.
Explains(c, v, b, O) ==
    /\ c \in [Tag -> Age] /\ SharedSet!Injective(c)
    /\ MustRep(v, b) /\ Bounded(b, O) /\ History(c, Below(b, Assoc), O)

\* There are bounds and a history that explain the real set.
SharedIInv == \E b, O : Explains(sharedAge, analysis[1], b, O)

\* In the beginning nothing is known.
LEMMA SharedInitIInv == SharedInit => SharedIInv
<1> SUFFICES ASSUME SharedInit PROVE SharedIInv
  OBVIOUS
<1> DEFINE b == [t \in Tag |-> Assoc]
           O == [t \in Tag |-> {}]
<1>1. Assoc \in Nat /\ Assoc > 0
  BY AssocAssumption
<1>2. sharedAge \in [Tag -> Age] /\ SharedSet!Injective(sharedAge)
  BY DEF SharedInit
<1>3. analysis[1] = <<>>
  BY DEF SharedInit, new, Must!new
<1>4. b \in [Tag -> Age] /\ Below(b, Assoc) = {}
  BY <1>1 DEF Below, Age
<1>5. MustRep(<<>>, b)
  <2> HIDE DEF b
  <2>1. QED
    BY <1>4, HoldsEmpty DEF MustRep
<1>6. ASSUME NEW t \in Tag PROVE CountsAt(b, O, t) /\ OldestAt(b, O, t)
  <2>1. b[t] = Assoc
    OBVIOUS
  <2> HIDE DEF b, O
  <2>2. QED
    BY <1>1, <2>1 DEF CountsAt, OldestAt
<1>7. Distinct(b)
  <2>1. \A t \in Tag : b[t] = Assoc
    OBVIOUS
  <2> HIDE DEF b
  <2>2. QED
    BY <1>1, <2>1 DEF Distinct
<1>8. IsFiniteSet({}) /\ Cardinality({}) <= Assoc
  BY <1>1, FS_EmptySet
<1>9. Bounded(b, O)
  <2> HIDE DEF b, O
  <2>1. QED
    BY <1>4, <1>6, <1>7, <1>8 DEF Bounded
<1>10. History(sharedAge, Below(b, Assoc), O)
  <2>1. O \in [Tag -> SUBSET Tag] /\ \A t \in Tag : IsFiniteSet(O[t])
    BY <1>8
  <2>2. Recency({}, O)
    BY DEF Recency
  <2> HIDE DEF b, O
  <2>3. QED
    BY <1>4, <2>1, <2>2 DEF History
<1>11. QED
  <2> HIDE DEF b, O
  <2>1. Explains(sharedAge, analysis[1], b, O)
    BY <1>2, <1>3, <1>5, <1>9, <1>10 DEF Explains
  <2>2. QED
    BY <2>1 DEF SharedIInv

\* A classification as a hit is one of the must analysis.
LEMMA ClassifyFacts ==
    ASSUME NEW s, NEW b, MustRep(s[1], b), NEW t \in Tag, NEW n \in Nat
    PROVE  /\ classify(s, t, n) = CL_HIT => b[t] < Assoc /\ b[t] + n < Assoc
           /\ classify(s, t, n) = CL_UNKNOWN /\ b[t] = Assoc =>
                 Cardinality(Below(b, Assoc)) # Assoc
<1>1. May!classify(s[2], t, n) \in {CL_UNKNOWN, CL_MISS}
  BY DEF May!classify, May!CL_UNKNOWN, May!CL_MISS, CL_UNKNOWN, CL_MISS
<1>2. Must!classify(s[1], t, n) =
        IF b[t] < Assoc THEN IF b[t] + n >= Assoc THEN CL_MISS ELSE CL_HIT
        ELSE IF Cardinality(Below(b, Assoc)) = Assoc THEN CL_MISS ELSE CL_UNKNOWN
  BY MustClassify
<1>3. classify(s, t, n) = IF Must!classify(s[1], t, n) # CL_UNKNOWN THEN Must!classify(s[1], t, n)
                          ELSE May!classify(s[2], t, n)
  BY DEF classify
<1>4. CL_HIT # CL_MISS /\ CL_HIT # CL_UNKNOWN /\ CL_MISS # CL_UNKNOWN
  BY DEF CL_HIT, CL_MISS, CL_UNKNOWN
<1>5. b[t] \in Nat /\ Assoc \in Nat
  BY AgeFacts DEF MustRep
<1>6. classify(s, t, n) = CL_HIT => Must!classify(s[1], t, n) = CL_HIT
  BY <1>1, <1>3, <1>4
<1>7. Must!classify(s[1], t, n) = CL_HIT => b[t] < Assoc /\ ~(b[t] + n >= Assoc)
  BY ONLY <1>2, <1>4
<1>8. Must!classify(s[1], t, n) = CL_MISS => classify(s, t, n) = CL_MISS
  BY <1>3, <1>4
<1>9. b[t] = Assoc /\ Cardinality(Below(b, Assoc)) = Assoc => Must!classify(s[1], t, n) = CL_MISS
  BY ONLY <1>2, <1>5
<1>10. QED
  BY ONLY <1>4, <1>5, <1>6, <1>7, <1>8, <1>9, n \in Nat

\* An access of the own core.
LEMMA UpdateIInv ==
    ASSUME NEW x \in Tag, NEW assumption \in Classification, SharedIInv, Update(x, assumption)
    PROVE  SharedIInv'
<1>1. PICK b, O : Explains(sharedAge, analysis[1], b, O)
  BY DEF SharedIInv
<1>2. /\ sharedAge \in [Tag -> Age] /\ SharedSet!Injective(sharedAge) /\ MustRep(analysis[1], b)
      /\ Bounded(b, O) /\ History(sharedAge, Below(b, Assoc), O)
  BY <1>1 DEF Explains
<1>3. CNN(x) \in Nat
  BY InterferingFacts
<1> DEFINE cl == IF assumption = CL_UNKNOWN THEN classify(analysis, x, CNN(x)) ELSE assumption
           acc == IF b[x] = Assoc /\ cl = CL_HIT THEN Assoc - 1 ELSE b[x]
           d == SharedSet!Touch(sharedAge, x)
           P == [t \in Tag |-> IF t = x THEN {} ELSE O[t] \cup {x}]
           e == [u \in Tag |-> IF u = x THEN 0 ELSE IF b[u] < acc THEN b[u] + 1 ELSE b[u]]
<1>4. sharedAge' = d /\ analysis'[1] = Must!update(analysis[1], x, cl)
  BY DEF Update, update
<1>5. Touched(sharedAge, d, x) /\ SharedSet!Injective(d)
  BY <1>2, TouchIsTouched
<1>6. \A t \in Tag : b[t] \in Nat /\ b[t] <= Assoc /\ Assoc \in Nat /\ Assoc > 0
  BY <1>2, AgeFacts DEF MustRep
<1>7. b[x] = Assoc /\ cl = CL_HIT => sharedAge[x] < Assoc /\ Cardinality(Below(b, Assoc)) # Assoc
  <2> SUFFICES ASSUME b[x] = Assoc, cl = CL_HIT
               PROVE  sharedAge[x] < Assoc /\ Cardinality(Below(b, Assoc)) # Assoc
    OBVIOUS
  <2>1. classify(analysis, x, CNN(x)) # CL_HIT
    <3>1. ~(b[x] < Assoc)
      BY <1>6
    <3>2. QED
      BY <1>2, <1>3, <3>1, ClassifyFacts
  <2>2. assumption = CL_HIT /\ assumption # CL_UNKNOWN
    BY <2>1 DEF CL_HIT, CL_UNKNOWN
  <2>3. classify(analysis, x, CNN(x)) = CL_UNKNOWN /\ sharedAge[x] < Assoc
    BY <2>2 DEF Update
  <2>4. QED
    BY <1>2, <1>3, <2>3, ClassifyFacts
<1>8. acc = b[x] \/ (/\ acc = Assoc - 1 /\ b[x] = Assoc /\ sharedAge[x] < Assoc
                     /\ Cardinality(Below(b, Assoc)) # Assoc)
  BY <1>7
<1>9. e \in [Tag -> Age]
  <2>1. ASSUME NEW u \in Tag
        PROVE  (IF u = x THEN 0 ELSE IF b[u] < acc THEN b[u] + 1 ELSE b[u]) \in Age
    <3>1. /\ b[u] \in Nat /\ b[u] <= Assoc /\ Assoc \in Nat /\ Assoc > 0
          /\ b[x] \in Nat /\ b[x] <= Assoc
      BY <1>6
    <3>2. acc \in Nat /\ acc <= Assoc
      BY ONLY <3>1
    <3> HIDE DEF acc
    <3>3. QED
      BY ONLY <3>1, <3>2 DEF Age
  <2> HIDE DEF acc
  <2>2. QED
    BY <2>1
<1>10. \A u \in Tag : e[u] = IF u = x THEN 0 ELSE IF b[u] < acc THEN b[u] + 1 ELSE b[u]
  BY DEF e
<1>11. Updating(b, e, sharedAge, O, P, x, acc)
  <2>1. \A t, u \in Tag : t # u /\ sharedAge[t] = sharedAge[u] => sharedAge[t] = Assoc
    BY <1>2 DEF SharedSet!Injective
  <2> HIDE DEF e, acc
  <2>2. QED
    BY <1>2, <1>8, <1>9, <1>10, <2>1 DEF Updating
<1>12. \A u \in Tag : u # x => e[u] # 0
  <2> HIDE DEF e, acc, P
  <2>1. QED
    BY <1>11, UpdateOneFront
<1>13. acc = IF b[x] = Assoc /\ cl = CL_HIT THEN Assoc - 1 ELSE b[x]
  OBVIOUS
<1>14. MustRep(analysis'[1], e)
  <2> HIDE DEF e, acc, cl
  <2>1. MustRep(Must!update(analysis[1], x, cl), e)
    BY <1>2, <1>9, <1>10, <1>12, <1>13, MustUpdate
  <2>2. QED
    BY <1>4, <2>1
<1>15. Bounded(e, P) /\ Below(e, Assoc) \subseteq Below(b, Assoc) \cup {x}
  <2> HIDE DEF e, acc, P
  <2>1. QED
    BY <1>11, UpdateBounded, UpdateFits
<1>16. History(d, Below(e, Assoc), P)
  <2>1. IsFiniteSet(Interfering)
    BY InterferingFacts
  <2>2. P = [t \in Tag |-> IF t = x THEN {} ELSE O[t] \cup {x}]
    OBVIOUS
  <2> DEFINE K == Below(b, Assoc)
             L == Below(e, Assoc)
  <2>3. History(sharedAge, K, O) /\ L \subseteq K \cup {x}
    BY <1>2, <1>15
  <2> HIDE DEF e, d, P, K, L
  <2>4. History(d, L, P)
    BY <1>5, <2>1, <2>2, <2>3, OwnAccess
  <2>5. QED
    BY <2>4 DEF L
<1>17. QED
  <2>1. d \in [Tag -> Age]
    BY <1>5 DEF Touched
  <2> HIDE DEF e, d, P
  <2>2. Explains(sharedAge', analysis'[1], e, P)
    BY <1>4, <1>5, <1>14, <1>15, <1>16, <2>1 DEF Explains
  <2>3. QED
    BY <2>2 DEF SharedIInv

\* An access to an interval by the own core.
LEMMA PotentialUpdateIInv ==
    ASSUME NEW lowTag \in Tag, NEW highTag \in Tag, SharedIInv, PotentialUpdate(lowTag, highTag)
    PROVE  SharedIInv'
<1>1. PICK b, O : Explains(sharedAge, analysis[1], b, O)
  BY DEF SharedIInv
<1>2. /\ sharedAge \in [Tag -> Age] /\ SharedSet!Injective(sharedAge) /\ MustRep(analysis[1], b)
      /\ Bounded(b, O) /\ History(sharedAge, Below(b, Assoc), O)
  BY <1>1 DEF Explains
<1> DEFINE e == [u \in Tag |-> IF b[u] < Assoc THEN b[u] + 1 ELSE b[u]]
<1>3. analysis'[1] = Must!potentialUpdate(analysis[1])
  BY DEF PotentialUpdate, potentialUpdate
<1>4. e \in [Tag -> Age] /\ \A u \in Tag : e[u] = IF b[u] < Assoc THEN b[u] + 1 ELSE b[u]
  <2>1. ASSUME NEW u \in Tag PROVE (IF b[u] < Assoc THEN b[u] + 1 ELSE b[u]) \in Age
    <3>1. b[u] \in Nat /\ b[u] <= Assoc /\ Assoc \in Nat
      BY <1>2, AgeFacts DEF MustRep
    <3>2. QED
      BY ONLY <3>1 DEF Age
  <2>2. QED
    BY <2>1
<1> HIDE DEF e
<1>5. MustRep(analysis'[1], e)
  BY <1>2, <1>3, <1>4, MustPotentialUpdate
<1>6. IsFiniteSet(Interfering)
  BY InterferingFacts
<1>7. CASE sharedAge' = sharedAge
  <2>1. Bounded(e, O) /\ Below(e, Assoc) \subseteq Below(b, Assoc)
    BY <1>2, <1>4, PotentialBounded
  <2>2. History(sharedAge, Below(e, Assoc), O)
    BY <1>2, <2>1, FewerLines
  <2>3. Explains(sharedAge', analysis'[1], e, O)
    BY <1>2, <1>5, <1>7, <2>1, <2>2 DEF Explains
  <2>4. QED
    BY <2>3 DEF SharedIInv
<1>8. ASSUME NEW x \in Tag, sharedAge' = SharedSet!Touch(sharedAge, x) PROVE SharedIInv'
  <2> DEFINE d == SharedSet!Touch(sharedAge, x)
             P == [t \in Tag |-> IF t = x THEN {} ELSE O[t] \cup {x}]
             K == Below(b, Assoc)
             L == Below(e, Assoc)
  <2>1. Touched(sharedAge, d, x) /\ SharedSet!Injective(d) /\ d \in [Tag -> Age]
    BY <1>2, TouchIsTouched DEF Touched
  <2>2. ASSUME NEW u \in Tag PROVE Grown(O, P, x, u)
    <3>1. IsFiniteSet(O[u])
      BY <1>2 DEF History
    <3>2. Cardinality(O[u]) \in Nat
      BY <3>1, FS_CardinalityType
    <3>3. u = x => Cardinality(P[u]) = 0
      <4>1. u = x => P[u] = {}
        OBVIOUS
      <4>2. QED
        BY <4>1, FS_EmptySet
    <3>4. u # x => P[u] = O[u] \cup {x}
      OBVIOUS
    <3>5. Cardinality(O[u] \cup {x}) = IF x \in O[u] THEN Cardinality(O[u])
                                                     ELSE Cardinality(O[u]) + 1
      BY <3>1, FS_AddElement
    <3> HIDE DEF P
    <3>6. CASE u = x
      BY <3>2, <3>3, <3>6 DEF Grown
    <3>7. CASE u # x
      <4>1. P[u] = O[u] \cup {x}
        BY <3>4, <3>7
      <4>2. Cardinality(P[u]) = IF x \in O[u] THEN Cardinality(O[u])
                                              ELSE Cardinality(O[u]) + 1
        BY <3>5, <4>1
      <4>3. QED
        BY <3>2, <3>7, <4>2 DEF Grown
    <3>8. QED
      BY <3>6, <3>7
  <2>3. P = [t \in Tag |-> IF t = x THEN {} ELSE O[t] \cup {x}]
    OBVIOUS
  <2>4. Bounded(e, P) /\ L \subseteq K
    <3> HIDE DEF P
    <3>1. QED
      BY <1>2, <1>4, <2>2, PotentialBounded
  <2>5. History(sharedAge, K, O) /\ L \subseteq K \cup {x}
    BY <1>2, <2>4
  <2> HIDE DEF d, P, K, L
  <2>6. History(d, L, P)
    BY <1>6, <2>1, <2>3, <2>5, OwnAccess
  <2>7. sharedAge' = d
    BY <1>8 DEF d
  <2>8. Explains(sharedAge', analysis'[1], e, P)
    BY <1>5, <2>1, <2>4, <2>6, <2>7 DEF Explains, L
  <2>9. QED
    BY <2>8 DEF SharedIInv
<1>9. QED
  BY <1>7, <1>8 DEF PotentialUpdate

\* An access of another core, which the analysis does not see.
LEMMA OtherCoreIInv ==
    ASSUME NEW x \in Tag, SharedIInv, OtherCoreAccess(x)
    PROVE  SharedIInv'
<1>1. PICK b, O : Explains(sharedAge, analysis[1], b, O)
  BY DEF SharedIInv
<1>2. /\ sharedAge \in [Tag -> Age] /\ SharedSet!Injective(sharedAge) /\ MustRep(analysis[1], b)
      /\ Bounded(b, O) /\ History(sharedAge, Below(b, Assoc), O)
  BY <1>1 DEF Explains
<1> DEFINE d == SharedSet!Touch(sharedAge, x)
<1>3. Touched(sharedAge, d, x) /\ SharedSet!Injective(d) /\ d \in [Tag -> Age]
  BY <1>2, TouchIsTouched DEF Touched
<1>4. x \in Interfering /\ IsFiniteSet(Interfering) /\ sharedAge' = d /\ analysis' = analysis
  BY InterferingFacts DEF OtherCoreAccess
<1> HIDE DEF d
<1>5. History(d, Below(b, Assoc), O)
  BY <1>2, <1>3, <1>4, OtherAccess
<1>6. Explains(sharedAge', analysis'[1], b, O)
  BY <1>2, <1>3, <1>4, <1>5 DEF Explains
<1>7. QED
  BY <1>6 DEF SharedIInv

\* Bounds and a history explain every reachable state.
LEMMA SharedInductive == SharedSpec => []SharedIInv
<1>1. SharedIInv /\ [SharedNext]_sharedVars => SharedIInv'
  <2> SUFFICES ASSUME SharedIInv, [SharedNext]_sharedVars PROVE SharedIInv'
    OBVIOUS
  <2>1. CASE \E tag \in Tag, assumption \in Classification : Update(tag, assumption)
    BY <2>1, UpdateIInv
  <2>2. CASE \E lowTag, highTag \in Tag :
               lowTag <= highTag /\ PotentialUpdate(lowTag, highTag)
    BY <2>2, PotentialUpdateIInv
  <2>3. CASE \E tag \in Tag : OtherCoreAccess(tag)
    BY <2>3, OtherCoreIInv
  <2>4. CASE UNCHANGED sharedVars
    BY <2>4 DEF sharedVars, SharedIInv
  <2>5. QED
    BY <2>1, <2>2, <2>3, <2>4 DEF SharedNext
<1>2. QED
  BY <1>1, SharedInitIInv, PTL DEF SharedSpec

\* A second-level access that classify calls a hit is a hit, whatever the other
\* cores do in between, for every associativity and all lists of functions.
THEOREM SharedHitsHit == SharedSpec => []SharedHitSound
<1>1. SharedIInv => SharedHitSound
  <2> SUFFICES ASSUME SharedIInv, NEW t \in Tag, classify(analysis, t, CNN(t)) = CL_HIT
               PROVE  sharedAge[t] < Assoc
    BY DEF SharedHitSound
  <2>1. PICK b, O : Explains(sharedAge, analysis[1], b, O)
    BY DEF SharedIInv
  <2>2. /\ sharedAge \in [Tag -> Age] /\ MustRep(analysis[1], b)
        /\ Bounded(b, O) /\ History(sharedAge, Below(b, Assoc), O)
    BY <2>1 DEF Explains
  <2>3. b[t] < Assoc /\ b[t] + CNN(t) < Assoc
    <3>1. CNN(t) \in Nat
      BY InterferingFacts
    <3>2. QED
      BY <2>2, <3>1, ClassifyFacts
  <2>4. QED
    BY <2>2, <2>3, WithinReach
<1>2. QED
  BY <1>1, SharedInductive, PTL
=============================================================================
