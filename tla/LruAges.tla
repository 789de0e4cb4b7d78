------------------------------ MODULE LruAges ------------------------------
(***************************************************************************)
(* What the LRU must- and may-analyses of one cache set promise.           *)
(*                                                                         *)
(* For every program path the analysis follows there is the real content   *)
(* of the cache set (age: the LRU age of every line, Assoc if it is not    *)
(* cached) and the analysis' knowledge about it: ub, an upper bound of     *)
(* every age (the must analysis, LruMaxAgeAbstractCache), and lb, a lower  *)
(* bound of every age (the may analysis, LruMinAgeAbstractCache).          *)
(*                                                                         *)
(* The analyses themselves store the bounds in sorted vectors; module      *)
(* CompositionalAbstractCache models those vectors and is shown to         *)
(* implement this specification.                                           *)
(***************************************************************************)
EXTENDS CacheTraits, FiniteSetTheorems, TLAPS

CONSTANTS
    Path,               \* program paths whose analysis states may be joined
    MaxWorthwhileTags   \* maxWorthwhileTags of the may analysis (4 in the code)

ASSUME MaxWorthwhileAssumption == MaxWorthwhileTags \in Nat

VARIABLES
    age,  \* age[p][t]: LRU age of t in the real cache on path p
    ub,   \* ub[p][t]:  bound of the must analysis
    lb    \* lb[p][t]:  bound of the may analysis

vars == <<age, ub, lb>>

Ages == [Tag -> Age]

TypeOK ==
    /\ age \in [Path -> Ages]
    /\ ub  \in [Path -> Ages]
    /\ lb  \in [Path -> Ages]

-----------------------------------------------------------------------------
(* The real cache set: true LRU replacement.                               *)

\* Two lines cannot sit in the same way.
Injective(c) == \A t, u \in Tag : t # u /\ c[t] = c[u] => c[t] = Assoc

EmptySet == [t \in Tag |-> Assoc]

\* An access moves t to the front and ages the lines that were younger.
Touch(c, t) ==
    [u \in Tag |-> IF u = t THEN 0
                   ELSE IF c[u] < c[t] THEN c[u] + 1
                   ELSE c[u]]

-----------------------------------------------------------------------------
(* The operations of the two analyses on their bounds.                     *)

\* A line that is not bound below Assoc but is known to hit has age Assoc-1
\* at most.
MustAccessedAge(b, t, cl) ==
    IF b[t] = Assoc /\ cl = CL_HIT THEN Assoc - 1 ELSE b[t]

MustUpdate(b, t, cl) ==
    [u \in Tag |-> IF u = t THEN 0
                   ELSE IF b[u] < MustAccessedAge(b, t, cl) THEN b[u] + 1
                   ELSE b[u]]

\* Mutant: the age of a line that is not cached grows as well.
MustPotentialUpdateUncapped(b) == [u \in Tag |-> b[u] + 1]

\* Some access may have happened: every line may be one older.
MustPotentialUpdate(b) ==
    [u \in Tag |-> IF b[u] < Assoc THEN b[u] + 1 ELSE b[u]]

\* Mutant: the younger bound survives a join.
MustJoinYounger(b, c) == [u \in Tag |-> IF b[u] <= c[u] THEN b[u] ELSE c[u]]

MustJoin(b, c) == [u \in Tag |-> IF b[u] >= c[u] THEN b[u] ELSE c[u]]

\* Mutant: lines that are older than the accessed one age, too.
MayUpdateAgesAll(b, t) ==
    [u \in Tag |-> IF u = t THEN 0 ELSE IF b[u] < Assoc THEN b[u] + 1 ELSE b[u]]

MayUpdate(b, t) ==
    [u \in Tag |-> IF u = t THEN 0
                   ELSE IF b[u] <= b[t] /\ b[u] < Assoc THEN b[u] + 1
                   ELSE b[u]]

\* Any of the tags lo..hi may just have been accessed; a wide range is not
\* worth tracking and drops all knowledge.
MayPotentialUpdate(b, lo, hi) ==
    IF hi - lo + 1 > MaxWorthwhileTags
    THEN [u \in Tag |-> 0]
    ELSE [u \in Tag |-> IF lo <= u /\ u <= hi THEN 0 ELSE b[u]]

MayJoin(b, c) == [u \in Tag |-> IF b[u] <= c[u] THEN b[u] ELSE c[u]]

\* The tags the must analysis knows to be cached.
Known(b) == { u \in Tag : b[u] < Assoc }

\* classify: the must analysis knows the line, or it knows Assoc other lines,
\* or the may analysis excludes the line.
Classify(b, l, t) ==
    IF b[t] < Assoc THEN CL_HIT
    ELSE IF Cardinality(Known(b)) = Assoc \/ l[t] = Assoc THEN CL_MISS
    ELSE CL_UNKNOWN

-----------------------------------------------------------------------------
(* Init: the analysis knows nothing, or it was told the cache is empty     *)
(* (assumeAnEmptyCache).                                                   *)
Init ==
    /\ age \in [Path -> Ages]
    /\ \A p \in Path : Injective(age[p])
    /\ ub = [p \in Path |-> [t \in Tag |-> Assoc]]
    /\ \E assumeAnEmptyCache \in BOOLEAN :
         /\ assumeAnEmptyCache => \A p \in Path : age[p] = EmptySet
         /\ lb = [p \in Path |->
                    [t \in Tag |-> IF assumeAnEmptyCache THEN Assoc ELSE 0]]

\* The path accesses t; cl is what the analysis may assume about this access:
\* the branch of a split state covers only the executions in which it holds.
Update(p, t, cl) ==
    /\ cl = CL_HIT  => age[p][t] < Assoc
    /\ cl = CL_MISS => age[p][t] = Assoc
    /\ age' = [age EXCEPT ![p] = Touch(age[p], t)]
    /\ ub'  = [ub EXCEPT ![p] = MustUpdate(ub[p], t, cl)]
    /\ lb'  = [lb EXCEPT ![p] = MayUpdate(lb[p], t)]

\* The path accesses an address known only as an interval. Its tag is one of
\* lo..hi if the access falls into this set; or it falls into another set.
PotentialUpdate(p, lo, hi) ==
    /\ \/ \E t \in Tag : /\ lo <= t /\ t <= hi
                         /\ age' = [age EXCEPT ![p] = Touch(age[p], t)]
       \/ UNCHANGED age
    /\ ub' = [ub EXCEPT ![p] = MustPotentialUpdate(ub[p])]
    /\ lb' = [lb EXCEPT ![p] = MayPotentialUpdate(lb[p], lo, hi)]

\* The paths p and q meet: both continue with the joined knowledge.
Join(p, q) ==
    /\ ub' = [ub EXCEPT ![p] = MustJoin(ub[p], ub[q]),
                        ![q] = MustJoin(ub[p], ub[q])]
    /\ lb' = [lb EXCEPT ![p] = MayJoin(lb[p], lb[q]),
                        ![q] = MayJoin(lb[p], lb[q])]
    /\ UNCHANGED age

Next ==
    \/ \E p \in Path, t \in Tag, cl \in Classification : Update(p, t, cl)
    \/ \E p \in Path, lo, hi \in Tag : lo <= hi /\ PotentialUpdate(p, lo, hi)
    \/ \E p, q \in Path : p # q /\ Join(p, q)

Spec == Init /\ [][Next]_vars

-----------------------------------------------------------------------------
(* Soundness of the bounds.                                                *)

\* Every real age lies between the bounds of the two analyses.
Sound ==
    \A p \in Path : \A t \in Tag : lb[p][t] <= age[p][t] /\ age[p][t] <= ub[p][t]

\* An access classified as a hit hits and one classified as a miss misses. The
\* must analysis' miss rests on a set that is full of other lines.
ClassificationSound ==
    \A p \in Path : \A t \in Tag :
        /\ Classify(ub[p], lb[p], t) = CL_HIT  => age[p][t] < Assoc
        /\ Classify(ub[p], lb[p], t) = CL_MISS => age[p][t] = Assoc

\* The inductive invariant: real LRU states never hold two lines in one way.
IInv ==
    /\ TypeOK
    /\ \A p \in Path : Injective(age[p])
    /\ Sound
-----------------------------------------------------------------------------
(* The bounds are sound for every associativity, every set of tags and any *)
(* number of paths.                                                        *)

\* The result of a real access is a content of an LRU set again.
LEMMA TouchTyped ==
    ASSUME NEW c \in Ages, NEW t \in Tag, Injective(c)
    PROVE  Touch(c, t) \in Ages /\ Injective(Touch(c, t))
<1> USE AssocAssumption DEF Ages, Age, Injective, Touch
<1>1. \A u \in Tag : c[u] \in 0 .. Assoc
  OBVIOUS
<1>2. Touch(c, t) \in Ages
  BY <1>1
<1>3. ASSUME NEW u \in Tag, NEW w \in Tag, u # w, Touch(c, t)[u] = Touch(c, t)[w]
      PROVE  Touch(c, t)[u] = Assoc
  <2>1. c[u] \in 0 .. Assoc /\ c[w] \in 0 .. Assoc /\ c[t] \in 0 .. Assoc
    BY <1>1
  <2>2. CASE u = t
    BY <1>3, <2>1, <2>2
  <2>3. CASE w = t
    BY <1>3, <2>1, <2>3
  <2>4. CASE u # t /\ w # t
    BY <1>3, <2>1, <2>4
  <2>5. QED
    BY <2>2, <2>3, <2>4
<1>4. QED
  BY <1>2, <1>3

\* The must update keeps an upper bound, also with an assumed hit.
LEMMA MustUpdateSound ==
    ASSUME NEW c \in Ages, NEW b \in Ages, NEW t \in Tag,
           NEW cl \in Classification,
           \A u \in Tag : c[u] <= b[u],
           cl = CL_HIT => c[t] < Assoc
    PROVE  /\ MustUpdate(b, t, cl) \in Ages
           /\ \A u \in Tag : Touch(c, t)[u] <= MustUpdate(b, t, cl)[u]
<1> USE AssocAssumption DEF Ages, Age
<1>1. \A u \in Tag : c[u] \in 0 .. Assoc /\ b[u] \in 0 .. Assoc
  OBVIOUS
<1> DEFINE a == MustAccessedAge(b, t, cl)
<1>2. a \in 0 .. Assoc /\ c[t] <= a
  BY <1>1 DEF MustAccessedAge, CL_HIT
<1>3. MustUpdate(b, t, cl) \in Ages
  BY <1>1, <1>2 DEF MustUpdate
<1>4. ASSUME NEW u \in Tag
      PROVE  Touch(c, t)[u] <= MustUpdate(b, t, cl)[u]
  BY <1>1, <1>2 DEF MustUpdate, Touch
<1>5. QED
  BY <1>3, <1>4

\* The may update keeps a lower bound. A line as old as the accessed one can
\* only age with it because no two cached lines have the same age.
LEMMA MayUpdateSound ==
    ASSUME NEW c \in Ages, NEW b \in Ages, NEW t \in Tag, Injective(c),
           \A u \in Tag : b[u] <= c[u]
    PROVE  /\ MayUpdate(b, t) \in Ages
           /\ \A u \in Tag : MayUpdate(b, t)[u] <= Touch(c, t)[u]
<1> USE AssocAssumption DEF Ages, Age
<1>1. \A u \in Tag : c[u] \in 0 .. Assoc /\ b[u] \in 0 .. Assoc
  OBVIOUS
<1>2. MayUpdate(b, t) \in Ages
  BY <1>1 DEF MayUpdate
<1>3. ASSUME NEW u \in Tag
      PROVE  MayUpdate(b, t)[u] <= Touch(c, t)[u]
  <2>1. b[u] <= c[u] /\ b[t] <= c[t]
    OBVIOUS
  <2>2. u # t /\ c[u] = c[t] => c[u] = Assoc
    BY DEF Injective
  <2>3. QED
    BY <1>1, <2>1, <2>2 DEF MayUpdate, Touch
<1>4. QED
  BY <1>2, <1>3

\* In a set where Assoc lines are known to be cached no other line is: their
\* ages fill all ways.
LEMMA FullSetMisses ==
    ASSUME NEW c \in Ages, NEW b \in Ages, NEW t \in Tag, Injective(c),
           \A u \in Tag : c[u] <= b[u],
           b[t] = Assoc, Cardinality(Known(b)) = Assoc
    PROVE  c[t] = Assoc
<1> DEFINE K == Known(b)
           W == 0 .. Assoc - 1
           f == [u \in K |-> c[u]]
<1> USE AssocAssumption
<1>1. \A u \in Tag : c[u] \in 0 .. Assoc /\ b[u] \in 0 .. Assoc
  BY DEF Ages, Age
<1>2. ASSUME NEW u \in K PROVE u \in Tag /\ c[u] \in W
  <2>1. u \in Tag /\ b[u] < Assoc
    BY DEF Known
  <2>2. c[u] \in 0 .. Assoc /\ b[u] \in 0 .. Assoc /\ c[u] <= b[u]
    BY <1>1, <2>1
  <2>3. QED
    BY <2>1, <2>2
<1>3. f \in Injection(K, W)
  <2>1. f \in [K -> W]
    BY <1>2
  <2>2. \A x, y \in K : f[x] = f[y] => x = y
    BY <1>2 DEF Injective
  <2>3. QED
    BY <2>1, <2>2 DEF Injection, IsInjective
<1>4. IsFiniteSet(W) /\ Cardinality(W) = Assoc
  BY FS_Interval
<1>5. f \in Surjection(K, W)
  BY <1>3, <1>4, FS_Injection
<1>6. SUFFICES ASSUME c[t] # Assoc PROVE FALSE
  OBVIOUS
<1>7. c[t] \in W
  BY <1>1, <1>6
<1>8. PICK u \in K : f[u] = c[t]
  BY <1>5, <1>7 DEF Surjection
<1>9. u # t /\ u \in Tag /\ c[u] = c[t]
  BY <1>8 DEF Known
<1>10. QED
  BY <1>6, <1>9 DEF Injective

\* The content c of a set lies between the bounds b and l.
Within(c, b, l) ==
    /\ c \in Ages /\ b \in Ages /\ l \in Ages /\ Injective(c)
    /\ \A u \in Tag : l[u] <= c[u] /\ c[u] <= b[u]

\* A precise access, under an assumption that holds, keeps the content within.
LEMMA UpdateWithin ==
    ASSUME NEW c, NEW b, NEW l, Within(c, b, l), NEW t \in Tag, NEW cl \in Classification,
           cl = CL_HIT => c[t] < Assoc
    PROVE  Within(Touch(c, t), MustUpdate(b, t, cl), MayUpdate(l, t))
<1>1. /\ c \in Ages /\ b \in Ages /\ l \in Ages /\ Injective(c)
      /\ \A u \in Tag : l[u] <= c[u] /\ c[u] <= b[u]
  BY DEF Within
<1>2. Touch(c, t) \in Ages /\ Injective(Touch(c, t))
  BY <1>1, TouchTyped
<1>3. /\ MustUpdate(b, t, cl) \in Ages
      /\ \A u \in Tag : Touch(c, t)[u] <= MustUpdate(b, t, cl)[u]
  BY <1>1, MustUpdateSound
<1>4. /\ MayUpdate(l, t) \in Ages
      /\ \A u \in Tag : MayUpdate(l, t)[u] <= Touch(c, t)[u]
  BY <1>1, MayUpdateSound
<1>5. QED
  BY <1>2, <1>3, <1>4 DEF Within

\* An imprecise access keeps it within, whichever line it goes to, if any.
LEMMA PotentialUpdateWithin ==
    ASSUME NEW c, NEW b, NEW l, Within(c, b, l), NEW lo \in Tag, NEW hi \in Tag
    PROVE  LET d == MustPotentialUpdate(b)
               k == MayPotentialUpdate(l, lo, hi)
           IN  /\ Within(c, d, k)
               /\ \A t \in Tag : lo <= t /\ t <= hi => Within(Touch(c, t), d, k)
<1> DEFINE d == MustPotentialUpdate(b)
           k == MayPotentialUpdate(l, lo, hi)
<1> USE AssocAssumption, TagAssumption, MaxWorthwhileAssumption
<1>1. c \in Ages /\ b \in Ages /\ l \in Ages /\ Injective(c)
  BY DEF Within
<1>2. \A u \in Tag : l[u] <= c[u] /\ c[u] <= b[u]
  BY DEF Within
<1>3. \A u \in Tag : c[u] \in 0 .. Assoc /\ b[u] \in 0 .. Assoc /\ l[u] \in 0 .. Assoc
  BY <1>1 DEF Ages, Age
<1>4. d \in Ages /\ k \in Ages
  BY <1>3 DEF MustPotentialUpdate, MayPotentialUpdate, Ages, Age
<1>5. Within(c, d, k)
  <2>1. ASSUME NEW u \in Tag PROVE k[u] <= c[u] /\ c[u] <= d[u]
    <3>1. l[u] <= c[u] /\ c[u] <= b[u] /\ c[u] \in 0 .. Assoc /\ b[u] \in 0 .. Assoc
      BY <1>2, <1>3
    <3>2. c[u] <= d[u]
      BY <3>1 DEF MustPotentialUpdate
    <3>3. k[u] = 0 \/ k[u] = l[u]
      BY DEF MayPotentialUpdate
    <3>4. QED
      BY <3>1, <3>2, <3>3
  <2>2. QED
    BY <1>1, <1>4, <2>1 DEF Within
<1>6. ASSUME NEW t \in Tag, lo <= t, t <= hi PROVE Within(Touch(c, t), d, k)
  <2>1. Touch(c, t) \in Ages /\ Injective(Touch(c, t))
    BY <1>1, TouchTyped
  <2>2. ASSUME NEW u \in Tag PROVE Touch(c, t)[u] <= d[u]
    <3>1. c[u] <= b[u] /\ c[t] \in 0 .. Assoc /\ c[u] \in 0 .. Assoc /\ b[u] \in 0 .. Assoc
      BY <1>2, <1>3
    <3>2. QED
      BY <3>1 DEF MustPotentialUpdate, Touch
  <2>3. ASSUME NEW u \in Tag PROVE k[u] <= Touch(c, t)[u]
    <3>1. l[u] <= c[u] /\ c[t] \in 0 .. Assoc /\ c[u] \in 0 .. Assoc /\ l[u] \in 0 .. Assoc
      BY <1>2, <1>3
    <3>2. k[u] = 0 \/ (u # t /\ k[u] = l[u])
      BY <1>6 DEF MayPotentialUpdate
    <3>3. Touch(c, t)[u] \in Nat /\ (u # t => Touch(c, t)[u] >= c[u])
      BY <3>1 DEF Touch
    <3>4. QED
      BY <3>1, <3>2, <3>3
  <2>4. QED
    BY <1>4, <2>1, <2>2, <2>3 DEF Within
<1>7. QED
  BY <1>5, <1>6

\* The joined bounds hold for both contents.
LEMMA JoinWithin ==
    ASSUME NEW c, NEW b, NEW l, Within(c, b, l), NEW d \in Ages, NEW k \in Ages
    PROVE  Within(c, MustJoin(b, d), MayJoin(l, k)) /\ Within(c, MustJoin(d, b), MayJoin(k, l))
<1>1. c \in Ages /\ b \in Ages /\ l \in Ages /\ Injective(c)
  BY DEF Within
<1>2. \A u \in Tag : /\ l[u] <= c[u] /\ c[u] <= b[u]
                      /\ c[u] \in 0 .. Assoc /\ b[u] \in 0 .. Assoc /\ l[u] \in 0 .. Assoc
                      /\ d[u] \in 0 .. Assoc /\ k[u] \in 0 .. Assoc
  BY <1>1 DEF Ages, Age, Within
<1>3. /\ MustJoin(b, d) \in Ages /\ MayJoin(l, k) \in Ages
      /\ MustJoin(d, b) \in Ages /\ MayJoin(k, l) \in Ages
  BY <1>1, AssocAssumption DEF MustJoin, MayJoin, Ages, Age
<1>4. ASSUME NEW u \in Tag
      PROVE  /\ MayJoin(l, k)[u] <= c[u] /\ c[u] <= MustJoin(b, d)[u]
             /\ MayJoin(k, l)[u] <= c[u] /\ c[u] <= MustJoin(d, b)[u]
  <2>1. /\ l[u] <= c[u] /\ c[u] <= b[u]
        /\ c[u] \in 0 .. Assoc /\ b[u] \in 0 .. Assoc /\ l[u] \in 0 .. Assoc
        /\ d[u] \in 0 .. Assoc /\ k[u] \in 0 .. Assoc
    BY <1>2
  <2>2. QED
    BY <2>1, AssocAssumption DEF MustJoin, MayJoin
<1>5. QED
  BY <1>1, <1>3, <1>4 DEF Within

\* The bounds classify an access right.
LEMMA ClassifyWithin ==
    ASSUME NEW c, NEW b, NEW l, Within(c, b, l), NEW t \in Tag
    PROVE  /\ Classify(b, l, t) = CL_HIT  => c[t] < Assoc
           /\ Classify(b, l, t) = CL_MISS => c[t] = Assoc
<1>1. c \in Ages /\ b \in Ages /\ l \in Ages /\ Injective(c)
  BY DEF Within
<1>2. \A u \in Tag : l[u] <= c[u] /\ c[u] <= b[u]
  BY DEF Within
<1>3. \A u \in Tag : c[u] \in 0 .. Assoc /\ b[u] \in 0 .. Assoc
  BY <1>1 DEF Ages, Age
<1>4. b[t] = Assoc /\ Cardinality(Known(b)) = Assoc => c[t] = Assoc
  BY <1>1, <1>2, FullSetMisses
<1>5. QED
  BY <1>2, <1>3, <1>4, AssocAssumption DEF Classify, CL_HIT, CL_MISS, CL_UNKNOWN

\* The invariant says that every path is within its bounds.
LEMMA PathsWithin == IInv <=> TypeOK /\ \A p \in Path : Within(age[p], ub[p], lb[p])
BY DEF IInv, TypeOK, Sound, Within

\* Before the first access the bounds say nothing, or the set is empty.
LEMMA InitInvariant == Init => IInv
<1> SUFFICES ASSUME Init PROVE IInv
  OBVIOUS
<1>1. TypeOK
  BY AssocAssumption DEF Init, TypeOK, Ages, Age
<1>2. Sound
  <2> SUFFICES ASSUME NEW p \in Path, NEW t \in Tag
               PROVE  lb[p][t] <= age[p][t] /\ age[p][t] <= ub[p][t]
    BY DEF Sound
  <2>1. age[p][t] \in 0 .. Assoc /\ ub[p][t] = Assoc
    BY <1>1 DEF Init, TypeOK, Ages, Age
  <2>2. lb[p][t] = 0 \/ (lb[p][t] = Assoc /\ age[p][t] = Assoc)
    BY DEF Init, EmptySet
  <2>3. QED
    BY <2>1, <2>2, AssocAssumption
<1>3. QED
  BY <1>1, <1>2 DEF Init, IInv

\* A precise access keeps the invariant.
LEMMA UpdateInvariant ==
    ASSUME NEW p \in Path, NEW t \in Tag, NEW cl \in Classification,
           IInv, Update(p, t, cl)
    PROVE  IInv'
<1>1. Within(age[p], ub[p], lb[p]) /\ TypeOK
  BY PathsWithin
<1>2. Within(Touch(age[p], t), MustUpdate(ub[p], t, cl), MayUpdate(lb[p], t))
  BY <1>1, UpdateWithin DEF Update
<1>3. /\ age' = [age EXCEPT ![p] = Touch(age[p], t)]
      /\ ub'  = [ub EXCEPT ![p] = MustUpdate(ub[p], t, cl)]
      /\ lb'  = [lb EXCEPT ![p] = MayUpdate(lb[p], t)]
  BY DEF Update
<1>4. QED
  BY <1>1, <1>2, <1>3 DEF IInv, TypeOK, Sound, Within

\* An imprecise access keeps it.
LEMMA PotentialUpdateInvariant ==
    ASSUME NEW p \in Path, NEW lo \in Tag, NEW hi \in Tag,
           IInv, PotentialUpdate(p, lo, hi)
    PROVE  IInv'
<1> DEFINE b == MustPotentialUpdate(ub[p])
           l == MayPotentialUpdate(lb[p], lo, hi)
<1>1. Within(age[p], ub[p], lb[p]) /\ TypeOK
  BY PathsWithin
<1>2. /\ Within(age[p], b, l)
      /\ \A t \in Tag : lo <= t /\ t <= hi => Within(Touch(age[p], t), b, l)
  BY <1>1, PotentialUpdateWithin
<1>3. ub' = [ub EXCEPT ![p] = b] /\ lb' = [lb EXCEPT ![p] = l]
  BY DEF PotentialUpdate
<1> HIDE DEF b, l
<1>4. CASE UNCHANGED age
  BY <1>1, <1>2, <1>3, <1>4 DEF IInv, TypeOK, Sound, Within
<1>5. ASSUME NEW t \in Tag, lo <= t, t <= hi, age' = [age EXCEPT ![p] = Touch(age[p], t)]
      PROVE  IInv'
  <2>1. Within(Touch(age[p], t), b, l)
    BY <1>2, <1>5
  <2>2. QED
    BY <1>1, <1>3, <1>5, <2>1 DEF IInv, TypeOK, Sound, Within
<1>6. QED
  BY <1>4, <1>5 DEF PotentialUpdate

\* The meeting of two paths keeps it.
LEMMA JoinInvariant ==
    ASSUME NEW p \in Path, NEW q \in Path, IInv, Join(p, q)
    PROVE  IInv'
<1> DEFINE b == MustJoin(ub[p], ub[q])
           l == MayJoin(lb[p], lb[q])
<1>1. /\ TypeOK /\ Within(age[p], ub[p], lb[p]) /\ Within(age[q], ub[q], lb[q])
      /\ ub[p] \in Ages /\ lb[p] \in Ages /\ ub[q] \in Ages /\ lb[q] \in Ages
  BY PathsWithin DEF Within
<1>2. Within(age[p], b, l) /\ Within(age[q], b, l)
  BY <1>1, JoinWithin
<1>3. /\ ub' = [ub EXCEPT ![p] = b, ![q] = b]
      /\ lb' = [lb EXCEPT ![p] = l, ![q] = l]
      /\ age' = age
  BY DEF Join
<1> HIDE DEF b, l
<1>4. QED
  BY <1>1, <1>2, <1>3 DEF IInv, TypeOK, Sound, Within

\* The invariant is inductive.
LEMMA NextInvariant == IInv /\ [Next]_vars => IInv'
<1> SUFFICES ASSUME IInv, [Next]_vars PROVE IInv'
  OBVIOUS
<1>1. ASSUME NEW p \in Path, NEW t \in Tag, NEW cl \in Classification,
             Update(p, t, cl)
      PROVE  IInv'
  BY <1>1, UpdateInvariant
<1>2. ASSUME NEW p \in Path, NEW lo \in Tag, NEW hi \in Tag,
             PotentialUpdate(p, lo, hi)
      PROVE  IInv'
  BY <1>2, PotentialUpdateInvariant
<1>3. ASSUME NEW p \in Path, NEW q \in Path, Join(p, q)
      PROVE  IInv'
  BY <1>3, JoinInvariant
<1>4. CASE UNCHANGED vars
  BY <1>4 DEF IInv, TypeOK, Sound, vars
<1>5. QED
  BY <1>1, <1>2, <1>3, <1>4 DEF Next

\* The ages of the real set stay those of an LRU set and lie between the
\* bounds of the may and of the must analysis, whatever update,
\* potentialUpdate and join do: the invariant is inductive.
THEOREM InvariantHolds == Spec => []IInv
<1>1. QED
  BY InitInvariant, NextInvariant, PTL DEF Spec

\* Every age and every bound stays within 0 .. Assoc: the counters of
\* update and potentialUpdate never run past "not cached".
THEOREM TypeCorrect == Spec => []TypeOK
<1>1. IInv => TypeOK
  BY DEF IInv
<1>2. QED
  BY <1>1, InvariantHolds, PTL

\* The must analysis never underestimates and the may analysis never
\* overestimates the LRU age of a line: the bounds that
\* LruMaxAgeAbstractCache and LruMinAgeAbstractCache keep are sound after any
\* sequence of precise and imprecise accesses and joins.
THEOREM BoundsSound == Spec => []Sound
<1>1. IInv => Sound
  BY DEF IInv
<1>2. QED
  BY <1>1, InvariantHolds, PTL

\* The invariant classifies every access right.
LEMMA InvariantClassifies == IInv => ClassificationSound
BY PathsWithin, ClassifyWithin DEF ClassificationSound

\* What CompositionalAbstractCache::classify calls a hit hits and what it
\* calls a miss misses, in every real execution.
THEOREM ClassificationIsSound == Spec => []ClassificationSound
<1>1. QED
  BY InvariantClassifies, InvariantHolds, PTL
=============================================================================
