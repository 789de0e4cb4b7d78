--------------------------- MODULE CacheSetProofs ---------------------------
(***************************************************************************)
(* The analysis of one cache set, for every associativity, every range of  *)
(* tags and any number of paths: its vectors stand for the age bounds of   *)
(* module LruAges, every operation changes them as that module says, and   *)
(* what is proved of the bounds holds of the vectors.                      *)
(***************************************************************************)
EXTENDS CacheSet, CacheLemmas

\* The bounds that an analysis state stands for.
UB(s) == [t \in Tag |-> maxAge(s, t)]
LB(s) == [t \in Tag |-> minAge(s, t)]

-----------------------------------------------------------------------------
(* The operations on a state of the combined analysis.                     *)

\* The bounds of a state are those that it says.
LEMMA OwnBounds ==
    ASSUME NEW s, NEW b, NEW l, Represents(s, b, l)
    PROVE  /\ b = UB(s) /\ l = LB(s)
           /\ s[1] \in Seq(Entry) /\ s[2].explicitTags \in Seq(Entry)
           /\ b \in [Tag -> Age] /\ l \in [Tag -> Age]
<1>1. MustRep(s[1], b) /\ MayRep(s[2], l) /\ b \in [Tag -> Age] /\ l \in [Tag -> Age]
  BY DEF Represents, MustRep, MayRep
<1>2. \A t \in Tag : maxAge(s, t) = b[t] /\ minAge(s, t) = l[t]
  BY ONLY <1>1, MustMaxAge, MayMinAge DEF maxAge, minAge
<1>3. b = UB(s) /\ l = LB(s)
  BY <1>1, <1>2 DEF UB, LB
<1>4. s[1] \in Seq(Entry) /\ s[2].explicitTags \in Seq(Entry)
  BY <1>1 DEF MustRep, MayRep, Holds
<1>5. QED
  BY <1>1, <1>3, <1>4

\* The bounds of CacheSet are changed by the same operators.
LEMMA SameOperators ==
    ASSUME NEW b, NEW d, NEW t, NEW cl, NEW lo, NEW hi
    PROVE  /\ Bounds!Injective(b) <=> Lru!Injective(b)
           /\ Bounds!Classify(b, d, t) = Lru!Classify(b, d, t)
           /\ Bounds!MustUpdate(b, t, cl) = Lru!MustUpdate(b, t, cl)
           /\ Bounds!MayUpdate(b, t) = Lru!MayUpdate(b, t)
           /\ Bounds!MustPotentialUpdate(b) = Lru!MustPotentialUpdate(b)
           /\ Bounds!MayPotentialUpdate(b, lo, hi) = Lru!MayPotentialUpdate(b, lo, hi)
           /\ Bounds!MustJoin(b, d) = Lru!MustJoin(b, d)
           /\ Bounds!MayJoin(b, d) = Lru!MayJoin(b, d)
<1>1. Bounds!Injective(b) <=> Lru!Injective(b)
  BY DEF Bounds!Injective, Lru!Injective
<1>2. Bounds!MustUpdate(b, t, cl) = Lru!MustUpdate(b, t, cl)
  BY DEF Bounds!MustUpdate, Lru!MustUpdate, Bounds!MustAccessedAge,
         Lru!MustAccessedAge, Bounds!CL_HIT, Lru!CL_HIT
<1>3. /\ Bounds!MayUpdate(b, t) = Lru!MayUpdate(b, t)
      /\ Bounds!MustPotentialUpdate(b) = Lru!MustPotentialUpdate(b)
  BY DEF Bounds!MayUpdate, Lru!MayUpdate, Bounds!MustPotentialUpdate, Lru!MustPotentialUpdate
<1>4. Bounds!MayPotentialUpdate(b, lo, hi) = Lru!MayPotentialUpdate(b, lo, hi)
  BY DEF Bounds!MayPotentialUpdate, Lru!MayPotentialUpdate
<1>5. /\ Bounds!MustJoin(b, d) = Lru!MustJoin(b, d)
      /\ Bounds!MayJoin(b, d) = Lru!MayJoin(b, d)
  BY DEF Bounds!MustJoin, Lru!MustJoin, Bounds!MayJoin, Lru!MayJoin
<1>6. Bounds!Classify(b, d, t) = Lru!Classify(b, d, t)
  <2>1. Bounds!Cardinality(Bounds!Known(b)) = Lru!Cardinality(Lru!Known(b))
    BY DEF Bounds!Cardinality, Lru!Cardinality, Bounds!Known, Lru!Known
  <2>2. QED
    BY <2>1 DEF Bounds!Classify, Lru!Classify, Bounds!CL_HIT, Lru!CL_HIT,
       Bounds!CL_MISS, Lru!CL_MISS, Bounds!CL_UNKNOWN, Lru!CL_UNKNOWN
<1>7. QED
  BY <1>1, <1>2, <1>3, <1>4, <1>5, <1>6

\* classify reads the bounds as LruAges does.
LEMMA ClassifyBounds ==
    ASSUME NEW s, NEW b, NEW l, Represents(s, b, l), NEW t \in Tag
    PROVE  /\ classify(s, t, 0) = Bounds!Classify(b, l, t)
           /\ classify(s, t, 0) \in Classification
           /\ classify(s, t, 0) = CL_HIT <=> b[t] < Assoc
           /\ classify(s, t, 0) = CL_UNKNOWN => Cardinality(Below(b, Assoc)) # Assoc
BY VectorClassify, SameOperators

\* An access to a known line: classify decides what is assumed of it, unless
\* the caller has split an unclassified access.
LEMMA UpdateBounds ==
    ASSUME NEW s, NEW b, NEW l, Represents(s, b, l),
           NEW c \in [Tag -> Age], Bounds!Injective(c), \A u \in Tag : c[u] <= b[u],
           NEW t \in Tag, NEW a \in Classification,
           a # CL_UNKNOWN => classify(s, t, 0) = CL_UNKNOWN
    PROVE  LET cl == IF a = CL_UNKNOWN THEN classify(s, t, 0) ELSE a IN
           /\ cl \in Classification
           /\ Represents(update(s, t, 0, a), Bounds!MustUpdate(b, t, cl), Bounds!MayUpdate(l, t))
           /\ Bounds!MustUpdate(b, t, cl) = Bounds!MustUpdate(b, t, a)
<1> DEFINE cl == IF a = CL_UNKNOWN THEN classify(s, t, 0) ELSE a
<1>1. Lru!Injective(c)
  BY SameOperators
<1>2. /\ cl \in Classification
      /\ Represents(update(s, t, 0, a), Lru!MustUpdate(b, t, cl), Lru!MayUpdate(l, t))
      /\ Lru!MustUpdate(b, t, cl) = Lru!MustUpdate(b, t, a)
  BY <1>1, VectorUpdate
<1> HIDE DEF cl
<1>3. QED
  BY <1>2, SameOperators DEF cl

\* An access to an address known only as an interval.
LEMMA PotentialUpdateBounds ==
    ASSUME NEW s, NEW b, NEW l, Represents(s, b, l),
           NEW lo \in Tag, NEW hi \in Tag, lo <= hi
    PROVE  Represents(potentialUpdate(s, lo, hi),
                      Bounds!MustPotentialUpdate(b), Bounds!MayPotentialUpdate(l, lo, hi))
BY VectorPotentialUpdate, SameOperators, TagRange

\* The meeting of two paths.
LEMMA JoinBounds ==
    ASSUME NEW s, NEW b, NEW l, Represents(s, b, l), NEW r, NEW d, NEW k, Represents(r, d, k)
    PROVE  Represents(join(s, r), Bounds!MustJoin(b, d), Bounds!MayJoin(l, k))
<1>1. Represents(join(s, r), Lru!MustJoin(b, d), Lru!MayJoin(l, k))
  BY ONLY Represents(s, b, l), Represents(r, d, k), VectorJoin
<1>2. QED
  BY ONLY <1>1, SameOperators

-----------------------------------------------------------------------------
(* The inductive invariant.                                                *)

\* Every vector stands for the bounds it says, and the bounds are sound.
IInv ==
    /\ analysis = [p \in Path |-> analysis[p]]
    /\ \A p \in Path : Represents(analysis[p], UB(analysis[p]), LB(analysis[p]))
    /\ Bounds!IInv

\* What the invariant says of one path.
LEMMA PathFacts ==
    ASSUME IInv, NEW p \in Path
    PROVE  LET s == analysis[p] IN
           /\ Represents(s, UB(s), LB(s))
           /\ age[p] \in [Tag -> Age] /\ UB(s) \in [Tag -> Age] /\ LB(s) \in [Tag -> Age]
           /\ Bounds!Injective(age[p])
           /\ \A u \in Tag : LB(s)[u] <= age[p][u] /\ age[p][u] <= UB(s)[u]
<1> DEFINE s == analysis[p]
<1>1. Represents(s, UB(s), LB(s))
  BY DEF IInv
<1>2. Bounds!TypeOK /\ Bounds!Injective(age[p]) /\ Bounds!Sound
  BY DEF IInv, Bounds!IInv
<1>3. age[p] \in [Tag -> Age]
  BY <1>2 DEF Bounds!TypeOK, Bounds!Ages, Bounds!Age, Age
<1>4. \A u \in Tag : LB(s)[u] <= age[p][u] /\ age[p][u] <= UB(s)[u]
  BY <1>2 DEF Bounds!Sound, LB, UB
<1>5. Bounds!Injective(age[p])
  BY <1>2
<1> HIDE DEF s
<1>6. UB(s) \in [Tag -> Age] /\ LB(s) \in [Tag -> Age]
  BY ONLY <1>1, OwnBounds
<1>7. QED
  BY <1>1, <1>3, <1>4, <1>5, <1>6 DEF s

\* The paths of P continue with the state s.
LEMMA NewState ==
    ASSUME IInv, NEW P \in SUBSET Path, NEW s, NEW b, NEW l, Represents(s, b, l),
           analysis' = [r \in Path |-> IF r \in P THEN s ELSE analysis[r]]
    PROVE  /\ analysis' = [r \in Path |-> analysis'[r]]
           /\ \A r \in Path : Represents(analysis'[r], UB(analysis'[r]), LB(analysis'[r]))
           /\ [r \in Path |-> [t \in Tag |-> maxAge(analysis'[r], t)]]
                = [r \in Path |-> IF r \in P THEN b ELSE UB(analysis[r])]
           /\ [r \in Path |-> [t \in Tag |-> minAge(analysis'[r], t)]]
                = [r \in Path |-> IF r \in P THEN l ELSE LB(analysis[r])]
<1>1. b = UB(s) /\ l = LB(s)
  BY OwnBounds
<1>2. \A r \in Path : Represents(analysis[r], UB(analysis[r]), LB(analysis[r]))
  BY DEF IInv
<1>3. \A r \in Path : analysis'[r] = IF r \in P THEN s ELSE analysis[r]
  OBVIOUS
<1>4. analysis' = [r \in Path |-> analysis'[r]]
  OBVIOUS
<1>5. \A r \in Path : Represents(analysis'[r], UB(analysis'[r]), LB(analysis'[r]))
  BY <1>1, <1>2, <1>3
<1>6. \A r \in Path : /\ UB(analysis'[r]) = IF r \in P THEN b ELSE UB(analysis[r])
                      /\ LB(analysis'[r]) = IF r \in P THEN l ELSE LB(analysis[r])
  BY <1>1, <1>3
<1>7. /\ [r \in Path |-> [t \in Tag |-> maxAge(analysis'[r], t)]] = [r \in Path |-> UB(analysis'[r])]
      /\ [r \in Path |-> [t \in Tag |-> minAge(analysis'[r], t)]] = [r \in Path |-> LB(analysis'[r])]
  BY DEF UB, LB
<1>8. QED
  BY ONLY <1>4, <1>5, <1>6, <1>7

\* A precise access is one of LruAges.
LEMMA UpdateStep ==
    ASSUME IInv, NEW p \in Path, NEW t \in Tag, NEW a \in Classification, Update(p, t, a)
    PROVE  IInv' /\ \E cl \in Classification : Bounds!Update(p, t, cl)
<1> DEFINE s == analysis[p]
           b == UB(s)
           l == LB(s)
           cl == IF a = CL_UNKNOWN THEN classify(s, t, 0) ELSE a
           n == update(s, t, 0, a)
           d == Bounds!MustUpdate(b, t, cl)
           k == Bounds!MayUpdate(l, t)
<1>1. /\ Represents(s, b, l)
      /\ age[p] \in [Tag -> Age] /\ b \in [Tag -> Age] /\ l \in [Tag -> Age]
      /\ Bounds!Injective(age[p])
      /\ \A u \in Tag : l[u] <= age[p][u] /\ age[p][u] <= b[u]
  BY PathFacts
<1>2. /\ a # CL_UNKNOWN => classify(s, t, 0) = CL_UNKNOWN
      /\ a = CL_HIT  => age[p][t] < Assoc
      /\ a = CL_MISS => age[p][t] = Assoc
      /\ age' = [age EXCEPT ![p] = Bounds!Touch(age[p], t)]
      /\ analysis' = [analysis EXCEPT ![p] = n]
  BY DEF Update
<1>3. cl \in Classification /\ Represents(n, d, k)
  <2> DEFINE c == age[p]
  <2>1. /\ c \in [Tag -> Age] /\ Bounds!Injective(c) /\ \A u \in Tag : c[u] <= b[u]
        /\ Represents(s, b, l)
    BY <1>1
  <2> HIDE DEF c, s, b, l
  <2>2. QED
    BY <1>2, <2>1, UpdateBounds
<1>4. (cl = CL_HIT => age[p][t] < Assoc) /\ (cl = CL_MISS => age[p][t] = Assoc)
  <2>1. CASE a = CL_UNKNOWN
    <3>1. Bounds!ClassificationSound
      BY Bounds!InvariantClassifies, TagAssumption, AssocAssumption, TagRange DEF IInv
    <3>2. cl = Bounds!Classify(b, l, t)
      BY ONLY <1>1, <2>1, ClassifyBounds, t \in Tag
    <3>3. QED
      BY <3>1, <3>2 DEF Bounds!ClassificationSound, UB, LB, Bounds!CL_HIT, Bounds!CL_MISS,
         CL_HIT, CL_MISS
  <2>2. CASE a # CL_UNKNOWN
    BY <1>2, <2>2
  <2>3. QED
    BY <2>1, <2>2
<1>5. /\ analysis' = [r \in Path |-> analysis'[r]]
      /\ \A r \in Path : Represents(analysis'[r], UB(analysis'[r]), LB(analysis'[r]))
      /\ [r \in Path |-> [u \in Tag |-> maxAge(analysis'[r], u)]]
           = [r \in Path |-> IF r \in {p} THEN d ELSE UB(analysis[r])]
      /\ [r \in Path |-> [u \in Tag |-> minAge(analysis'[r], u)]]
           = [r \in Path |-> IF r \in {p} THEN k ELSE LB(analysis[r])]
  <2>1. analysis = [r \in Path |-> analysis[r]]
    BY DEF IInv
  <2> DEFINE P == {p}
  <2> HIDE DEF n
  <2>2. analysis' = [r \in Path |-> IF r \in P THEN n ELSE analysis[r]]
    BY <1>2, <2>1
  <2>3. P \in SUBSET Path
    OBVIOUS
  <2> HIDE DEF P, n, d, k, cl
  <2>4. /\ analysis' = [r \in Path |-> analysis'[r]]
        /\ \A r \in Path : Represents(analysis'[r], UB(analysis'[r]), LB(analysis'[r]))
        /\ [r \in Path |-> [u \in Tag |-> maxAge(analysis'[r], u)]]
             = [r \in Path |-> IF r \in P THEN d ELSE UB(analysis[r])]
        /\ [r \in Path |-> [u \in Tag |-> minAge(analysis'[r], u)]]
             = [r \in Path |-> IF r \in P THEN k ELSE LB(analysis[r])]
    BY <1>3, <2>2, <2>3, NewState
  <2>5. QED
    BY <2>4 DEF P
<1>6. Bounds!Update(p, t, cl)
  <2>1. /\ [[r \in Path |-> [u \in Tag |-> maxAge(analysis[r], u)]] EXCEPT ![p] = d]
             = [r \in Path |-> IF r \in {p} THEN d ELSE UB(analysis[r])]
        /\ [[r \in Path |-> [u \in Tag |-> minAge(analysis[r], u)]] EXCEPT ![p] = k]
             = [r \in Path |-> IF r \in {p} THEN k ELSE LB(analysis[r])]
    <3> HIDE DEF d, k
    <3>1. QED
      BY DEF UB, LB
  <2>2. /\ [r \in Path |-> [u \in Tag |-> maxAge(analysis[r], u)]][p] = b
        /\ [r \in Path |-> [u \in Tag |-> minAge(analysis[r], u)]][p] = l
    BY DEF UB, LB
  <2> HIDE DEF b, l, cl
  <2>3. QED
    BY <1>2, <1>4, <1>5, <2>1, <2>2 DEF Bounds!Update, Bounds!CL_HIT, Bounds!CL_MISS, CL_HIT, CL_MISS
<1>7. Bounds!IInv'
  <2>1. Bounds!Update(p, t, cl) /\ cl \in Bounds!Classification
    BY <1>3, <1>6 DEF Classification, CL_HIT, CL_MISS, CL_UNKNOWN, Bounds!Classification,
       Bounds!CL_HIT, Bounds!CL_MISS, Bounds!CL_UNKNOWN
  <2>2. Bounds!IInv
    BY DEF IInv
  <2> HIDE DEF cl
  <2>3. QED
    BY <2>1, <2>2, Bounds!UpdateInvariant, TagAssumption, AssocAssumption, TagRange
<1>8. QED
  BY <1>3, <1>5, <1>6, <1>7 DEF IInv

\* An access to an interval is one of LruAges.
LEMMA PotentialUpdateStep ==
    ASSUME IInv, NEW p \in Path, NEW lo \in Tag, NEW hi \in Tag, lo <= hi,
           PotentialUpdate(p, lo, hi)
    PROVE  IInv' /\ Bounds!PotentialUpdate(p, lo, hi)
<1> DEFINE s == analysis[p]
           b == UB(s)
           l == LB(s)
           n == potentialUpdate(s, lo, hi)
           d == Bounds!MustPotentialUpdate(b)
           k == Bounds!MayPotentialUpdate(l, lo, hi)
           P == {p}
<1>1. Represents(s, b, l)
  BY PathFacts
<1>2. /\ \/ \E tag \in Tag : /\ lo <= tag /\ tag <= hi
                             /\ age' = [age EXCEPT ![p] = Bounds!Touch(age[p], tag)]
         \/ UNCHANGED age
      /\ analysis' = [analysis EXCEPT ![p] = n]
  BY DEF PotentialUpdate
<1>3. Represents(n, d, k)
  <2> HIDE DEF s, b, l
  <2>1. QED
    BY ONLY <1>1, PotentialUpdateBounds, lo \in Tag, hi \in Tag, lo <= hi
<1>4. analysis' = [r \in Path |-> IF r \in P THEN n ELSE analysis[r]]
  <2>1. analysis = [r \in Path |-> analysis[r]]
    BY DEF IInv
  <2> HIDE DEF n
  <2>2. QED
    BY <1>2, <2>1
<1>5. P \in SUBSET Path
  OBVIOUS
<1>6. /\ analysis' = [r \in Path |-> analysis'[r]]
      /\ \A r \in Path : Represents(analysis'[r], UB(analysis'[r]), LB(analysis'[r]))
      /\ [r \in Path |-> [u \in Tag |-> maxAge(analysis'[r], u)]]
           = [r \in Path |-> IF r \in P THEN d ELSE UB(analysis[r])]
      /\ [r \in Path |-> [u \in Tag |-> minAge(analysis'[r], u)]]
           = [r \in Path |-> IF r \in P THEN k ELSE LB(analysis[r])]
  <2> HIDE DEF P, n, d, k
  <2>1. QED
    BY <1>3, <1>4, <1>5, NewState
<1>7. Bounds!PotentialUpdate(p, lo, hi)
  <2>1. /\ [[r \in Path |-> [u \in Tag |-> maxAge(analysis[r], u)]] EXCEPT ![p] = d]
             = [r \in Path |-> IF r \in P THEN d ELSE UB(analysis[r])]
        /\ [[r \in Path |-> [u \in Tag |-> minAge(analysis[r], u)]] EXCEPT ![p] = k]
             = [r \in Path |-> IF r \in P THEN k ELSE LB(analysis[r])]
    <3> HIDE DEF d, k
    <3>1. QED
      BY DEF UB, LB
  <2>2. /\ [r \in Path |-> [u \in Tag |-> maxAge(analysis[r], u)]][p] = b
        /\ [r \in Path |-> [u \in Tag |-> minAge(analysis[r], u)]][p] = l
    BY DEF UB, LB
  <2> HIDE DEF b, l, P
  <2>3. QED
    BY <1>2, <1>6, <2>1, <2>2 DEF Bounds!PotentialUpdate
<1>8. Bounds!IInv'
  <2>1. Bounds!IInv
    BY DEF IInv
  <2>2. QED
    BY <1>7, <2>1, Bounds!PotentialUpdateInvariant, TagAssumption, AssocAssumption, TagRange
<1>9. QED
  BY <1>6, <1>7, <1>8 DEF IInv

\* The meeting of two paths is one of LruAges.
LEMMA JoinStep ==
    ASSUME IInv, NEW p \in Path, NEW q \in Path, p # q, Join(p, q)
    PROVE  IInv' /\ Bounds!Join(p, q)
<1> DEFINE s == analysis[p]
           z == analysis[q]
           n == join(s, z)
           d == Bounds!MustJoin(UB(s), UB(z))
           k == Bounds!MayJoin(LB(s), LB(z))
           P == {p, q}
<1>1. Represents(s, UB(s), LB(s)) /\ Represents(z, UB(z), LB(z))
  BY PathFacts
<1>2. /\ UNCHANGED age
      /\ analysis' = [analysis EXCEPT ![p] = n, ![q] = n]
  BY DEF Join
<1>3. Represents(n, d, k)
  <2> HIDE DEF s, z
  <2>1. QED
    BY ONLY <1>1, JoinBounds
<1>4. analysis' = [r \in Path |-> IF r \in P THEN n ELSE analysis[r]]
  <2>1. analysis = [r \in Path |-> analysis[r]]
    BY DEF IInv
  <2> HIDE DEF n
  <2>2. QED
    BY <1>2, <2>1
<1>5. P \in SUBSET Path
  OBVIOUS
<1>6. /\ analysis' = [r \in Path |-> analysis'[r]]
      /\ \A r \in Path : Represents(analysis'[r], UB(analysis'[r]), LB(analysis'[r]))
      /\ [r \in Path |-> [u \in Tag |-> maxAge(analysis'[r], u)]]
           = [r \in Path |-> IF r \in P THEN d ELSE UB(analysis[r])]
      /\ [r \in Path |-> [u \in Tag |-> minAge(analysis'[r], u)]]
           = [r \in Path |-> IF r \in P THEN k ELSE LB(analysis[r])]
  <2> HIDE DEF P, n, d, k, s, z
  <2>1. QED
    BY ONLY IInv, <1>3, <1>4, <1>5, NewState, SMTT(60)
<1>7. Bounds!Join(p, q)
  <2>1. /\ [[r \in Path |-> [u \in Tag |-> maxAge(analysis[r], u)]] EXCEPT ![p] = d, ![q] = d]
             = [r \in Path |-> IF r \in P THEN d ELSE UB(analysis[r])]
        /\ [[r \in Path |-> [u \in Tag |-> minAge(analysis[r], u)]] EXCEPT ![p] = k, ![q] = k]
             = [r \in Path |-> IF r \in P THEN k ELSE LB(analysis[r])]
    <3> HIDE DEF d, k
    <3>1. QED
      BY DEF UB, LB
  <2>2. /\ [r \in Path |-> [u \in Tag |-> maxAge(analysis[r], u)]][p] = UB(s)
        /\ [r \in Path |-> [u \in Tag |-> minAge(analysis[r], u)]][p] = LB(s)
        /\ [r \in Path |-> [u \in Tag |-> maxAge(analysis[r], u)]][q] = UB(z)
        /\ [r \in Path |-> [u \in Tag |-> minAge(analysis[r], u)]][q] = LB(z)
    BY DEF UB, LB
  <2> HIDE DEF s, z, P
  <2>3. QED
    BY <1>2, <1>6, <2>1, <2>2 DEF Bounds!Join
<1>8. Bounds!IInv'
  <2>1. Bounds!IInv
    BY DEF IInv
  <2>2. QED
    BY <1>7, <2>1, Bounds!JoinInvariant, TagAssumption, AssocAssumption, TagRange
<1>9. QED
  BY <1>6, <1>7, <1>8 DEF IInv

\* Every step keeps the invariant and is a step of the bounds.
LEMMA NextInvariant ==
    IInv /\ [Next]_vars => IInv' /\ [Bounds!Next]_(Bounds!vars)
<1> SUFFICES ASSUME IInv, [Next]_vars PROVE IInv' /\ [Bounds!Next]_(Bounds!vars)
  OBVIOUS
<1>1. ASSUME NEW p \in Path, NEW tag \in Tag, NEW assumption \in Classification,
             Update(p, tag, assumption)
      PROVE  IInv' /\ Bounds!Next
  <2>1. IInv' /\ \E cl \in Classification : Bounds!Update(p, tag, cl)
    BY <1>1, UpdateStep
  <2>2. QED
    BY <2>1 DEF Bounds!Next, Bounds!Classification, Classification, CL_HIT, CL_MISS, CL_UNKNOWN,
         Bounds!CL_HIT, Bounds!CL_MISS, Bounds!CL_UNKNOWN
<1>2. ASSUME NEW p \in Path, NEW lowTag \in Tag, NEW highTag \in Tag,
             lowTag <= highTag, PotentialUpdate(p, lowTag, highTag)
      PROVE  IInv' /\ Bounds!Next
  BY <1>2, PotentialUpdateStep DEF Bounds!Next
<1>3. ASSUME NEW p \in Path, NEW q \in Path, p # q, Join(p, q)
      PROVE  IInv' /\ Bounds!Next
  BY <1>3, JoinStep DEF Bounds!Next
<1>4. CASE UNCHANGED vars
  <2>1. UNCHANGED <<age, analysis>>
    BY <1>4 DEF vars
  <2>2. QED
    BY <2>1 DEF IInv, Represents, UB, LB, maxAge, minAge, Bounds!IInv, Bounds!TypeOK,
       Bounds!Injective, Bounds!Sound, Bounds!vars
<1>5. QED
  BY <1>1, <1>2, <1>3, <1>4 DEF Next

\* The new states of the two analyses have the bounds of the beginning.
LEMMA InitInvariant == Init => IInv /\ Bounds!Init
<1> SUFFICES ASSUME Init PROVE IInv /\ Bounds!Init
  OBVIOUS
<1>1. PICK e \in BOOLEAN : /\ e => \A p \in Path : age[p] = Bounds!EmptySet
                           /\ analysis = [p \in Path |-> new(e)]
  BY DEF Init
<1>2. /\ age \in [Path -> [Tag -> Age]]
      /\ \A p \in Path : Bounds!Injective(age[p])
  BY DEF Init
<1> DEFINE b == [t \in Tag |-> Assoc]
           l == [t \in Tag |-> IF e THEN Assoc ELSE 0]
<1>3. Represents(new(e), b, l)
  BY VectorNew
<1>4. b = UB(new(e)) /\ l = LB(new(e))
  <2> HIDE DEF b, l
  <2>1. QED
    BY ONLY <1>3, OwnBounds
<1>5. \A p \in Path : analysis[p] = new(e) /\ UB(analysis[p]) = b /\ LB(analysis[p]) = l
  BY <1>1, <1>4
<1>6. /\ [r \in Path |-> [u \in Tag |-> maxAge(analysis[r], u)]] = [r \in Path |-> b]
      /\ [r \in Path |-> [u \in Tag |-> minAge(analysis[r], u)]] = [r \in Path |-> l]
  <2> HIDE DEF b, l
  <2>1. QED
    BY <1>5 DEF UB, LB
<1>7. Bounds!Init
  BY <1>1, <1>2, <1>6 DEF Bounds!Init, Bounds!Ages, Bounds!Age, Age
<1>8. Bounds!IInv
  BY <1>7, Bounds!InitInvariant, TagAssumption, AssocAssumption, TagRange
<1>9. QED
  BY <1>1, <1>3, <1>4, <1>5, <1>7, <1>8 DEF IInv

\* Every sequence of accesses and joins that LruMaxAgeAbstractCache and
\* LruMinAgeAbstractCache process keeps the vectors a representation of sound
\* age bounds.
THEOREM InvariantHolds == Spec => []IInv
<1>1. Init => IInv
  BY InitInvariant
<1>2. IInv /\ [Next]_vars => IInv'
  BY NextInvariant
<1>3. QED
  BY <1>1, <1>2, PTL DEF Spec

\* The vectors implement the age bounds: every operation of
\* CompositionalAbstractCache is a step of LruAges or changes nothing.
THEOREM VectorsRefineBounds == Spec => Bounds!Spec
<1>1. Init => Bounds!Init
  BY InitInvariant
<1>2. IInv /\ [Next]_vars => [Bounds!Next]_(Bounds!vars)
  BY NextInvariant
<1>3. QED
  BY <1>1, <1>2, InvariantHolds, PTL DEF Spec, Bounds!Spec

-----------------------------------------------------------------------------
(* What follows from the invariant.                                        *)

\* A real set has room for Assoc lines: no more can have a bound below Assoc.
LEMMA KnownFit ==
    ASSUME NEW c \in [Tag -> Age], Bounds!Injective(c), NEW b \in [Tag -> Age],
           \A u \in Tag : c[u] <= b[u], NEW v, MustRep(v, b)
    PROVE  Len(v) <= Assoc
<1> DEFINE K == Below(b, Assoc)
           W == 0 .. Assoc - 1
           f == [u \in K |-> c[u]]
<1>1. ASSUME NEW u \in K PROVE u \in Tag /\ c[u] \in W /\ c[u] # Assoc
  <2>1. u \in Tag /\ b[u] < Assoc
    BY DEF Below
  <2>2. c[u] \in Nat /\ b[u] \in Nat /\ c[u] <= b[u] /\ Assoc \in Nat
    BY <2>1, AgeFacts
  <2>3. QED
    BY <2>1, <2>2
<1>2. \A x, y \in K : f[x] = f[y] => x = y
  BY <1>1 DEF Bounds!Injective
<1>3. f \in Injection(K, W)
  <2>1. f \in [K -> W]
    BY <1>1
  <2>2. QED
    BY <1>2, <2>1 DEF Injection, IsInjective
<1>4. IsFiniteSet(W) /\ Cardinality(W) = Assoc
  BY AssocAssumption, FS_Interval
<1>5. IsFiniteSet(K) /\ Cardinality(K) <= Cardinality(W)
  BY <1>3, <1>4, FS_Injection
<1>6. Cardinality(K) = Len(v)
  BY HoldsLength DEF MustRep
<1>7. QED
  BY <1>4, <1>5, <1>6

\* The vectors have the entries their types say, and the must vector never
\* outgrows the arrays of Assoc tags and ages of LruMaxAgeAbstractCache.
THEOREM TypeCorrect == Spec => []TypeOK
<1>1. IInv => TypeOK
  <2> SUFFICES ASSUME IInv PROVE TypeOK
    OBVIOUS
  <2>1. age \in [Path -> [Tag -> Age]]
    BY DEF IInv, Bounds!IInv, Bounds!TypeOK, Bounds!Ages, Bounds!Age, Age
  <2>2. ASSUME NEW p \in Path
        PROVE  /\ analysis[p][1] \in Seq(Entry) /\ Len(analysis[p][1]) <= Assoc
               /\ analysis[p][2].explicitTags \in Seq(Entry)
               /\ analysis[p][2].ageOfImplicitTags \in Age
    <3> DEFINE s == analysis[p]
    <3>1. /\ Represents(s, UB(s), LB(s))
          /\ age[p] \in [Tag -> Age] /\ UB(s) \in [Tag -> Age]
          /\ Bounds!Injective(age[p])
          /\ \A u \in Tag : age[p][u] <= UB(s)[u]
      BY PathFacts
    <3>2. s[1] \in Seq(Entry) /\ s[2].explicitTags \in Seq(Entry)
      BY <3>1, OwnBounds
    <3>3. MustRep(s[1], UB(s)) /\ s[2].ageOfImplicitTags \in Age
      BY <3>1 DEF Represents, MayRep
    <3>4. Len(s[1]) <= Assoc
      BY <3>1, <3>3, KnownFit
    <3>5. QED
      BY <3>2, <3>3, <3>4
  <2>3. QED
    BY <2>1, <2>2 DEF TypeOK, Entry
<1>2. QED
  BY <1>1, InvariantHolds, PTL

\* After every sequence of shifts, merges and joins the vectors are sorted by
\* age and then by tag, hold a tag once, and the may vector has no entry as
\* old as the implicit tags.
THEOREM VectorsStayCanonical == Spec => []VectorsCanonical
<1>1. IInv => VectorsCanonical
  <2> SUFFICES ASSUME IInv, NEW p \in Path
               PROVE  LET s == analysis[p] IN
                      /\ \A i, j \in DOMAIN s[1] :
                           i < j => Less(s[1][i], s[1][j]) /\ s[1][i].tag # s[1][j].tag
                      /\ \A i, j \in DOMAIN s[2].explicitTags :
                           i < j => /\ Less(s[2].explicitTags[i], s[2].explicitTags[j])
                                    /\ s[2].explicitTags[i].tag # s[2].explicitTags[j].tag
                      /\ \A i \in DOMAIN s[2].explicitTags :
                           s[2].explicitTags[i].age < s[2].ageOfImplicitTags
    BY DEF VectorsCanonical, Less
  <2> DEFINE s == analysis[p]
             v == s[1]
             w == s[2].explicitTags
             imp == s[2].ageOfImplicitTags
  <2>1. Represents(s, UB(s), LB(s))
    BY PathFacts
  <2>2. Holds(v, UB(s), Below(UB(s), Assoc)) /\ Holds(w, LB(s), Below(LB(s), imp))
    BY <2>1 DEF Represents, MustRep, MayRep
  <2> HIDE DEF s, v, w, imp
  <2>3. /\ DOMAIN v = 1 .. Len(v) /\ DOMAIN w = 1 .. Len(w)
        /\ \A i, j \in 1 .. Len(v) : i < j => Less(v[i], v[j]) /\ v[i].tag # v[j].tag
        /\ \A i, j \in 1 .. Len(w) : i < j => Less(w[i], w[j]) /\ w[i].tag # w[j].tag
    <3>1. v \in Seq(Entry) /\ w \in Seq(Entry)
      BY <2>2 DEF Holds
    <3>2. /\ \A i, j \in 1 .. Len(v) : i < j => Less(v[i], v[j]) /\ v[i].tag # v[j].tag
          /\ \A i, j \in 1 .. Len(w) : i < j => Less(w[i], w[j]) /\ w[i].tag # w[j].tag
      BY ONLY <2>2 DEF Holds, Canonical
    <3>3. QED
      BY ONLY <3>1, <3>2
  <2>4. \A i \in 1 .. Len(w) : w[i].age < imp
    BY <2>2 DEF Holds, Below
  <2>5. QED
    BY <2>3, <2>4 DEF s, v, w, imp
<1>2. QED
  BY <1>1, InvariantHolds, PTL

\* What CompositionalAbstractCache::classify reads from its vectors is right
\* for every real execution: a hit hits, a miss misses.
THEOREM ClassificationIsSound == Spec => []ClassificationSound
<1>1. IInv => ClassificationSound
  <2> SUFFICES ASSUME IInv, NEW p \in Path, NEW tag \in Tag
               PROVE  /\ classify(analysis[p], tag, 0) = CL_HIT  => age[p][tag] < Assoc
                      /\ classify(analysis[p], tag, 0) = CL_MISS => age[p][tag] = Assoc
    BY DEF ClassificationSound
  <2> DEFINE s == analysis[p]
             b == UB(s)
             l == LB(s)
  <2>1. Represents(s, b, l)
    BY PathFacts
  <2>2. Bounds!ClassificationSound
    BY Bounds!InvariantClassifies, TagAssumption, AssocAssumption, TagRange DEF IInv
  <2>3. classify(s, tag, 0) = Bounds!Classify(b, l, tag)
    BY ONLY <2>1, ClassifyBounds, tag \in Tag
  <2>4. QED
    BY <2>2, <2>3 DEF Bounds!ClassificationSound, UB, LB, Bounds!CL_HIT, Bounds!CL_MISS,
       CL_HIT, CL_MISS
<1>2. QED
  BY <1>1, InvariantHolds, PTL

\* Every operation on the vectors changes the bounds exactly as LruAges says,
\* and classify reads them alike.
THEOREM BoundsAreImplemented == Spec => []ImplementsBounds
<1>1. IInv => ImplementsBounds
  <2> SUFFICES ASSUME IInv, NEW p \in Path
               PROVE  LET s == analysis[p] IN
                 /\ \A t \in Tag : classify(s, t, 0) = Bounds!Classify(UB(s), LB(s), t)
                 /\ \A t \in Tag, cl \in Classification :
                      cl = CL_UNKNOWN \/ classify(s, t, 0) = CL_UNKNOWN =>
                        /\ UB(update(s, t, 0, cl)) = Bounds!MustUpdate(UB(s), t, cl)
                        /\ LB(update(s, t, 0, cl)) = Bounds!MayUpdate(LB(s), t)
                 /\ \A lo, hi \in Tag : lo <= hi =>
                      /\ UB(potentialUpdate(s, lo, hi)) = Bounds!MustPotentialUpdate(UB(s))
                      /\ LB(potentialUpdate(s, lo, hi)) = Bounds!MayPotentialUpdate(LB(s), lo, hi)
                 /\ \A q \in Path :
                      /\ UB(join(s, analysis[q])) = Bounds!MustJoin(UB(s), UB(analysis[q]))
                      /\ LB(join(s, analysis[q])) = Bounds!MayJoin(LB(s), LB(analysis[q]))
    <3> DEFINE Good(q, z, b, l) ==
          /\ \A t \in Tag : classify(z, t, 0) = Bounds!Classify(b, l, t)
          /\ \A t \in Tag, cl \in Classification :
               cl = CL_UNKNOWN \/ classify(z, t, 0) = CL_UNKNOWN =>
                 \A n \in {update(z, t, 0, cl)} :
                   UB(n) = Bounds!MustUpdate(b, t, cl) /\ LB(n) = Bounds!MayUpdate(l, t)
          /\ \A lo, hi \in Tag : lo <= hi =>
               \A n \in {potentialUpdate(z, lo, hi)} :
                 /\ UB(n) = Bounds!MustPotentialUpdate(b)
                 /\ LB(n) = Bounds!MayPotentialUpdate(l, lo, hi)
          /\ \A r \in Path \ {q} :
               \A n \in {join(z, analysis[r])} :
                 /\ UB(n) = Bounds!MustJoin(b, UB(analysis[r]))
                 /\ LB(n) = Bounds!MayJoin(l, LB(analysis[r]))
    <3>1. ImplementsBounds <=>
            \A q \in Path : \A z \in {analysis[q]} : \A b \in {UB(z)}, l \in {LB(z)} :
              Good(q, z, b, l)
      BY DEF ImplementsBounds, UB, LB
    <3>2. (\A q \in Path : Good(q, analysis[q], UB(analysis[q]), LB(analysis[q])))
            => ImplementsBounds
      <4> HIDE DEF Good
      <4>1. QED
        BY <3>1
    <3>3. QED
      BY <3>2
  <2> DEFINE s == analysis[p]
             b == UB(s)
             l == LB(s)
             c == age[p]
  <2>1. /\ Represents(s, b, l)
        /\ c \in [Tag -> Age] /\ Bounds!Injective(c) /\ \A u \in Tag : c[u] <= b[u]
    BY PathFacts
  <2> HIDE DEF s, b, l, c
  <2>2. ASSUME NEW t \in Tag PROVE classify(s, t, 0) = Bounds!Classify(b, l, t)
    BY ONLY <2>1, ClassifyBounds, t \in Tag
  <2>3. ASSUME NEW t \in Tag, NEW cl \in Classification,
               cl = CL_UNKNOWN \/ classify(s, t, 0) = CL_UNKNOWN
        PROVE  /\ UB(update(s, t, 0, cl)) = Bounds!MustUpdate(b, t, cl)
               /\ LB(update(s, t, 0, cl)) = Bounds!MayUpdate(l, t)
    <3>1. PICK d : /\ Represents(update(s, t, 0, cl), Bounds!MustUpdate(b, t, d), Bounds!MayUpdate(l, t))
                   /\ Bounds!MustUpdate(b, t, d) = Bounds!MustUpdate(b, t, cl)
      BY <2>1, <2>3, UpdateBounds
    <3>2. Represents(update(s, t, 0, cl), Bounds!MustUpdate(b, t, cl), Bounds!MayUpdate(l, t))
      BY <3>1
    <3>3. QED
      BY ONLY <3>2, OwnBounds
  <2>4. ASSUME NEW lo \in Tag, NEW hi \in Tag, lo <= hi
        PROVE  /\ UB(potentialUpdate(s, lo, hi)) = Bounds!MustPotentialUpdate(b)
               /\ LB(potentialUpdate(s, lo, hi)) = Bounds!MayPotentialUpdate(l, lo, hi)
    <3>1. Represents(potentialUpdate(s, lo, hi),
                     Bounds!MustPotentialUpdate(b), Bounds!MayPotentialUpdate(l, lo, hi))
      BY <2>1, <2>4, PotentialUpdateBounds
    <3>2. QED
      BY ONLY <3>1, OwnBounds
  <2>5. ASSUME NEW q \in Path
        PROVE  /\ UB(join(s, analysis[q])) = Bounds!MustJoin(b, UB(analysis[q]))
               /\ LB(join(s, analysis[q])) = Bounds!MayJoin(l, LB(analysis[q]))
    <3> DEFINE z == analysis[q]
    <3>1. Represents(z, UB(z), LB(z))
      BY PathFacts
    <3> HIDE DEF z
    <3>2. Represents(join(s, z), Bounds!MustJoin(b, UB(z)), Bounds!MayJoin(l, LB(z)))
      BY ONLY <2>1, <3>1, JoinBounds
    <3>3. /\ UB(join(s, z)) = Bounds!MustJoin(b, UB(z))
          /\ LB(join(s, z)) = Bounds!MayJoin(l, LB(z))
      BY ONLY <3>2, OwnBounds
    <3>4. QED
      BY <3>3 DEF z
  <2>6. QED
    BY <2>2, <2>3, <2>4, <2>5 DEF s, b, l
<1>2. QED
  BY <1>1, InvariantHolds, PTL

-----------------------------------------------------------------------------
(* The order of the states.                                                *)

\* A vector is determined by its tags and their ages.
LEMMA OneVector ==
    ASSUME NEW v, NEW w, NEW b, NEW T, Holds(v, b, T), Holds(w, b, T)
    PROVE  v = w
<1> DEFINE n == Len(v)
           P == {j \in 1 .. n : v[j] = w[j]}
<1>1. /\ Len(v) \in Nat /\ v \in Seq(Entry) /\ w \in Seq(Entry)
      /\ \A i \in 1 .. Len(v) : v[i] \in Entry /\ v[i].tag \in T /\ v[i].age = b[v[i].tag]
      /\ \A i, j \in 1 .. Len(v) : i < j => Less(v[i], v[j]) /\ v[i].tag # v[j].tag
      /\ \A i, j \in 1 .. Len(v) : v[i].tag = v[j].tag => i = j
      /\ \A t \in T : \E i \in 1 .. Len(v) : v[i].tag = t
  BY HoldsFacts
<1>2. /\ \A i \in 1 .. Len(w) : w[i] \in Entry /\ w[i].tag \in T /\ w[i].age = b[w[i].tag]
      /\ \A i, j \in 1 .. Len(w) : i < j => Less(w[i], w[j]) /\ w[i].tag # w[j].tag
      /\ \A i, j \in 1 .. Len(w) : w[i].tag = w[j].tag => i = j
      /\ \A t \in T : \E i \in 1 .. Len(w) : w[i].tag = t
  BY HoldsFacts
<1>3. Len(w) = n
  <2>1. Cardinality(T) = Len(v)
    BY HoldsLength
  <2>2. Cardinality(T) = Len(w)
    BY HoldsLength
  <2>3. QED
    BY <2>1, <2>2
<1>4. PICK k \in 0 .. n : (\A j \in 1 .. k : j \in P) /\ (k < n => k + 1 \notin P)
  <2>1. n \in Nat
    BY <1>1
  <2> HIDE DEF P, n
  <2>2. QED
    BY <2>1, LeadingFacts
<1>5. \A d, e \in Entry : d.tag = e.tag /\ d.age = e.age => d = e
  BY DEF Entry
<1>6. CASE k < n
  <2> DEFINE m == k + 1
  <2>1. m \in 1 .. n /\ v[m] # w[m] /\ n \in Nat
    BY <1>1, <1>4, <1>6
  <2>2. \A j \in 1 .. n : j < m => v[j] = w[j]
    BY <1>1, <1>4
  <2> HIDE DEF m, n
  <2>3. n = Len(v) /\ n = Len(w)
    BY <1>3 DEF n
  <2>4. v[m] \in Entry /\ w[m] \in Entry
    BY <1>1, <1>2, <2>1, <2>3
  <2>5. Less(w[m], v[m])
    <3>1. PICK j \in 1 .. n : w[j].tag = v[m].tag
      BY <1>1, <1>2, <2>1, <2>3
    <3>2. w[j] = v[m]
      <4>1. w[j] \in Entry /\ w[j].age = b[w[j].tag] /\ v[m].age = b[v[m].tag]
        BY <1>1, <1>2, <2>1, <2>3
      <4>2. QED
        BY <1>5, <2>4, <3>1, <4>1
    <3>3. ~(j < m)
      <4>1. j < m => v[j] = v[m]
        BY <2>2, <3>2
      <4>2. j < m => v[j].tag # v[m].tag
        BY <1>1, <2>1, <2>3
      <4>3. QED
        BY <4>1, <4>2
    <3>4. j # m
      BY <2>1, <3>2
    <3>5. m < j
      BY <2>1, <3>3, <3>4
    <3>6. QED
      BY <1>2, <2>1, <2>3, <3>2, <3>5
  <2>6. Less(v[m], w[m])
    <3>1. PICK j \in 1 .. n : v[j].tag = w[m].tag
      BY <1>1, <1>2, <2>1, <2>3
    <3>2. v[j] = w[m]
      <4>1. v[j] \in Entry /\ v[j].age = b[v[j].tag] /\ w[m].age = b[w[m].tag]
        BY <1>1, <1>2, <2>1, <2>3
      <4>2. QED
        BY <1>5, <2>4, <3>1, <4>1
    <3>3. ~(j < m)
      <4>1. j < m => w[j] = w[m]
        BY <2>2, <3>2
      <4>2. j < m => w[j].tag # w[m].tag
        BY <1>2, <2>1, <2>3
      <4>3. QED
        BY <4>1, <4>2
    <3>4. j # m
      BY <2>1, <3>2
    <3>5. m < j
      BY <2>1, <3>3, <3>4
    <3>6. QED
      BY <1>1, <2>1, <2>3, <3>2, <3>5
  <2>7. QED
    BY <2>4, <2>5, <2>6, LessFacts
<1>7. CASE ~(k < n)
  <2>1. \A j \in 1 .. n : v[j] = w[j]
    BY <1>1, <1>4, <1>7
  <2>2. v \in Seq(Entry) /\ w \in Seq(Entry) /\ Len(v) = Len(w)
    BY <1>1, <1>3
  <2>3. QED
    BY ONLY <2>1, <2>2
<1>8. QED
  BY <1>6, <1>7

\* A must vector is determined by its bounds, and the other way round.
LEMMA OneMustVector ==
    ASSUME NEW v, NEW w, NEW b, NEW d, MustRep(v, b), MustRep(w, d)
    PROVE  v = w <=> \A t \in Tag : b[t] = d[t]
<1>1. ASSUME v = w, NEW t \in Tag PROVE b[t] = d[t]
  <2>1. Must!getMaxAge(v, t) = b[t] /\ Must!getMaxAge(w, t) = d[t]
    BY MustMaxAge
  <2>2. QED
    BY <1>1, <2>1
<1>2. ASSUME \A t \in Tag : b[t] = d[t] PROVE v = w
  <2>1. b = d
    BY <1>2 DEF MustRep
  <2>2. Holds(v, b, Below(b, Assoc)) /\ Holds(w, b, Below(b, Assoc))
    BY <2>1 DEF MustRep
  <2>3. QED
    BY ONLY <2>2, OneVector
<1>3. QED
  BY <1>1, <1>2

\* A state of the may analysis is determined by its bounds and the age of the
\* tags without an entry, and the other way round.
LEMMA OneMayVector ==
    ASSUME NEW m, NEW n, NEW l, NEW k, MayRep(m, l), MayRep(n, k)
    PROVE  m = n <=> /\ m.ageOfImplicitTags = n.ageOfImplicitTags
                     /\ \A t \in Tag : l[t] = k[t]
<1>1. ASSUME m = n, NEW t \in Tag PROVE l[t] = k[t]
  <2>1. May!getMinAge(m, t) = l[t] /\ May!getMinAge(n, t) = k[t]
    BY MayMinAge
  <2>2. QED
    BY <1>1, <2>1
<1>2. ASSUME m.ageOfImplicitTags = n.ageOfImplicitTags, \A t \in Tag : l[t] = k[t] PROVE m = n
  <2>1. l = k
    BY <1>2 DEF MayRep
  <2>2. /\ Holds(m.explicitTags, l, Below(l, m.ageOfImplicitTags))
        /\ Holds(n.explicitTags, l, Below(l, m.ageOfImplicitTags))
    BY <1>2, <2>1 DEF MayRep
  <2>3. m.explicitTags = n.explicitTags
    BY ONLY <2>2, OneVector
  <2>4. /\ m = [explicitTags |-> m.explicitTags, ageOfImplicitTags |-> m.ageOfImplicitTags]
        /\ n = [explicitTags |-> n.explicitTags, ageOfImplicitTags |-> n.ageOfImplicitTags]
    BY DEF MayRep
  <2>5. QED
    BY ONLY <1>2, <2>3, <2>4
<1>3. QED
  BY <1>1, <1>2

\* lessequal, the comparison of a join with its right operand, compares the
\* bounds and the age of the tags without an entry.
LEMMA LessequalBounds ==
    ASSUME NEW s, NEW b, NEW l, Represents(s, b, l), NEW r, NEW d, NEW k, Represents(r, d, k)
    PROVE  lessequal(s, r) <=> /\ r[2].ageOfImplicitTags <= s[2].ageOfImplicitTags
                               /\ \A t \in Tag : k[t] <= l[t] /\ b[t] <= d[t]
<1> DEFINE j == join(s, r)
           f == Bounds!MustJoin(b, d)
           g == Bounds!MayJoin(l, k)
           x == s[2].ageOfImplicitTags
           y == r[2].ageOfImplicitTags
<1>1. Represents(j, f, g)
  BY JoinBounds
<1>2. MustRep(j[1], f) /\ MayRep(j[2], g) /\ MustRep(r[1], d) /\ MayRep(r[2], k)
  <2> HIDE DEF j, f, g
  <2>1. QED
    BY <1>1 DEF Represents
<1>3. lessequal(s, r) <=> j[1] = r[1] /\ j[2] = r[2]
  BY DEF lessequal, Must!lessequal, May!lessequal, join
<1>4. j[2].ageOfImplicitTags = IF x <= y THEN x ELSE y
  BY MayImplicitJoin DEF join
<1>5. x \in Nat /\ y \in Nat
  BY MayFacts DEF Represents
<1>6. \A t \in Tag : /\ b[t] \in Nat /\ d[t] \in Nat /\ l[t] \in Nat /\ k[t] \in Nat
                     /\ f[t] = IF b[t] >= d[t] THEN b[t] ELSE d[t]
                     /\ g[t] = IF l[t] <= k[t] THEN l[t] ELSE k[t]
  <2>1. b \in [Tag -> Age] /\ d \in [Tag -> Age] /\ l \in [Tag -> Age] /\ k \in [Tag -> Age]
    BY DEF Represents, MustRep, MayRep
  <2>2. QED
    BY <2>1, AgeFacts DEF Bounds!MustJoin, Bounds!MayJoin
<1> HIDE DEF j, f, g, x, y
<1>7. j[1] = r[1] <=> \A t \in Tag : f[t] = d[t]
  BY ONLY <1>2, OneMustVector
<1>8. j[2] = r[2] <=> j[2].ageOfImplicitTags = r[2].ageOfImplicitTags /\ \A t \in Tag : g[t] = k[t]
  BY ONLY <1>2, OneMayVector
<1>9. \A t \in Tag : (f[t] = d[t] <=> b[t] <= d[t]) /\ (g[t] = k[t] <=> k[t] <= l[t])
  <2> SUFFICES ASSUME NEW t, t \in Tag
               PROVE  (f[t] = d[t] <=> b[t] <= d[t]) /\ (g[t] = k[t] <=> k[t] <= l[t])
    OBVIOUS
  <2>1. /\ b[t] \in Nat /\ d[t] \in Nat /\ l[t] \in Nat /\ k[t] \in Nat
        /\ f[t] = IF b[t] >= d[t] THEN b[t] ELSE d[t]
        /\ g[t] = IF l[t] <= k[t] THEN l[t] ELSE k[t]
    BY <1>6
  <2>2. QED
    BY ONLY <2>1
<1>10. j[2].ageOfImplicitTags = y <=> y <= x
  BY <1>4, <1>5
<1>11. j[1] = r[1] <=> \A t \in Tag : b[t] <= d[t]
  BY ONLY <1>7, <1>9
<1>12. j[2] = r[2] <=> y <= x /\ \A t \in Tag : k[t] <= l[t]
  BY ONLY <1>8, <1>9, <1>10 DEF y
<1>13. QED
  BY <1>3, <1>11, <1>12 DEF x, y

\* lessequal, on which the fixpoint iteration stops, holds exactly if the left
\* state knows at least as much as the right one, and the joined state knows
\* what both know and nothing less.
THEOREM LessequalIsCoverage == Spec => []LessequalIsPrecision
<1>1. IInv => LessequalIsPrecision
  <2> SUFFICES ASSUME IInv, NEW p \in Path, NEW q \in Path
               PROVE  LET s == analysis[p]
                          r == analysis[q]
                          j == join(s, r)
                      IN  /\ lessequal(s, r) <=> Covers(r, s)
                          /\ lessequal(s, j) /\ lessequal(r, j)
                          /\ \A t \in Tag : /\ maxAge(j, t) \in {maxAge(s, t), maxAge(r, t)}
                                            /\ minAge(j, t) \in {minAge(s, t), minAge(r, t)}
    BY DEF LessequalIsPrecision
  <2> DEFINE s == analysis[p]
             r == analysis[q]
             j == join(s, r)
             b == UB(s)
             l == LB(s)
             d == UB(r)
             k == LB(r)
             f == Bounds!MustJoin(b, d)
             g == Bounds!MayJoin(l, k)
             x == s[2].ageOfImplicitTags
             y == r[2].ageOfImplicitTags
             z == j[2].ageOfImplicitTags
  <2>1. Represents(s, b, l) /\ Represents(r, d, k)
    BY PathFacts
  <2>2. /\ \A t \in Tag : maxAge(s, t) = b[t] /\ minAge(s, t) = l[t]
        /\ \A t \in Tag : maxAge(r, t) = d[t] /\ minAge(r, t) = k[t]
    BY DEF UB, LB
  <2>3. b \in [Tag -> Age] /\ l \in [Tag -> Age] /\ d \in [Tag -> Age] /\ k \in [Tag -> Age]
    BY PathFacts
  <2>4. z = IF x <= y THEN x ELSE y
    BY MayImplicitJoin DEF join
  <2> HIDE DEF s, r, b, l, d, k
  <2>5. Represents(j, f, g)
    BY ONLY <2>1, JoinBounds
  <2>6. x \in Nat /\ y \in Nat
    BY <2>1, MayFacts DEF Represents
  <2>7. \A t \in Tag : /\ b[t] \in Nat /\ d[t] \in Nat /\ l[t] \in Nat /\ k[t] \in Nat
                       /\ f[t] = IF b[t] >= d[t] THEN b[t] ELSE d[t]
                       /\ g[t] = IF l[t] <= k[t] THEN l[t] ELSE k[t]
    BY <2>3, AgeFacts DEF Bounds!MustJoin, Bounds!MayJoin
  <2>8. lessequal(s, r) <=> y <= x /\ \A t \in Tag : k[t] <= l[t] /\ b[t] <= d[t]
    BY ONLY <2>1, LessequalBounds
  <2>9. lessequal(s, r) <=> Covers(r, s)
    BY <2>2, <2>8 DEF Covers
  <2> HIDE DEF j, f, g, x, y, z
  <2>10. \A t \in Tag : f[t] = UB(j)[t] /\ g[t] = LB(j)[t]
    BY <2>5, OwnBounds
  <2>11. \A t \in Tag : maxAge(j, t) = f[t] /\ minAge(j, t) = g[t]
    BY <2>10 DEF UB, LB
  <2>12. ASSUME NEW t, t \in Tag
         PROVE  /\ g[t] <= l[t] /\ g[t] <= k[t] /\ b[t] <= f[t] /\ d[t] <= f[t]
                /\ f[t] \in {b[t], d[t]} /\ g[t] \in {l[t], k[t]}
    <3>1. /\ b[t] \in Nat /\ d[t] \in Nat /\ l[t] \in Nat /\ k[t] \in Nat
          /\ f[t] = IF b[t] >= d[t] THEN b[t] ELSE d[t]
          /\ g[t] = IF l[t] <= k[t] THEN l[t] ELSE k[t]
      BY <2>7, <2>12
    <3>2. QED
      BY ONLY <3>1
  <2>13. z <= x /\ z <= y
    BY ONLY <2>4, <2>6
  <2>14. lessequal(s, j)
    <3>1. lessequal(s, j) <=> z <= x /\ \A t \in Tag : g[t] <= l[t] /\ b[t] <= f[t]
      BY ONLY <2>1, <2>5, LessequalBounds DEF x, z
    <3>2. QED
      BY <2>12, <2>13, <3>1
  <2>15. lessequal(r, j)
    <3>1. lessequal(r, j) <=> z <= y /\ \A t \in Tag : g[t] <= k[t] /\ d[t] <= f[t]
      BY ONLY <2>1, <2>5, LessequalBounds DEF y, z
    <3>2. QED
      BY <2>12, <2>13, <3>1
  <2>16. \A t \in Tag : /\ maxAge(j, t) \in {maxAge(s, t), maxAge(r, t)}
                        /\ minAge(j, t) \in {minAge(s, t), minAge(r, t)}
    BY <2>2, <2>11, <2>12
  <2>17. QED
    BY <2>9, <2>14, <2>15, <2>16 DEF j, s, r
<1>2. QED
  BY <1>1, InvariantHolds, PTL

\* From a state that knows more, an access never leads to a state that knows
\* less, whichever line or interval it goes to.
THEOREM TransfersAreMonotone == Spec => []TransferMonotone
<1>1. IInv => TransferMonotone
  <2> SUFFICES ASSUME IInv, NEW p \in Path, NEW q \in Path,
                      lessequal(analysis[p], analysis[q])
               PROVE  /\ \A t \in Tag : lessequal(update(analysis[p], t, 0, CL_UNKNOWN),
                                                  update(analysis[q], t, 0, CL_UNKNOWN))
                      /\ \A lo, hi \in Tag : lo <= hi =>
                           lessequal(potentialUpdate(analysis[p], lo, hi),
                                     potentialUpdate(analysis[q], lo, hi))
    BY DEF TransferMonotone
  <2> DEFINE s == analysis[p]
             r == analysis[q]
             b == UB(s)
             l == LB(s)
             d == UB(r)
             k == LB(r)
             c == age[p]
             e == age[q]
             x == s[2].ageOfImplicitTags
             y == r[2].ageOfImplicitTags
  <2>1. /\ Represents(s, b, l) /\ Represents(r, d, k)
        /\ c \in [Tag -> Age] /\ Bounds!Injective(c) /\ \A u \in Tag : c[u] <= b[u]
        /\ e \in [Tag -> Age] /\ Bounds!Injective(e) /\ \A u \in Tag : e[u] <= d[u]
    BY PathFacts
  <2>2. lessequal(s, r)
    OBVIOUS
  <2> HIDE DEF s, r, b, l, d, k, c, e
  <2>3. y <= x /\ \A t \in Tag : k[t] <= l[t] /\ b[t] <= d[t]
    BY ONLY <2>1, <2>2, LessequalBounds
  <2>4. x \in Nat /\ y \in Nat /\ MayRep(s[2], l) /\ MayRep(r[2], k)
    BY <2>1, MayFacts DEF Represents
  <2>5. \A t \in Tag : b[t] \in Nat /\ d[t] \in Nat /\ l[t] \in Nat /\ k[t] \in Nat
    BY <2>1, AgeFacts DEF Represents, MustRep, MayRep
  <2>6. Assoc \in Nat
    BY AssocAssumption
  <2>7. ASSUME NEW t \in Tag
        PROVE  lessequal(update(s, t, 0, CL_UNKNOWN), update(r, t, 0, CL_UNKNOWN))
    <3> DEFINE sn == update(s, t, 0, CL_UNKNOWN)
               rn == update(r, t, 0, CL_UNKNOWN)
               bn == Bounds!MustUpdate(b, t, CL_UNKNOWN)
               dn == Bounds!MustUpdate(d, t, CL_UNKNOWN)
               ln == Bounds!MayUpdate(l, t)
               kn == Bounds!MayUpdate(k, t)
               xn == sn[2].ageOfImplicitTags
               yn == rn[2].ageOfImplicitTags
    <3>1. CL_UNKNOWN \in Classification
      BY DEF Classification
    <3>2. Represents(sn, bn, ln)
      <4>1. PICK cl : Represents(sn, Bounds!MustUpdate(b, t, cl), ln)
                      /\ Bounds!MustUpdate(b, t, cl) = bn
        BY <2>1, <3>1, UpdateBounds
      <4>2. QED
        BY <4>1
    <3>3. Represents(rn, dn, kn)
      <4>1. PICK cl : Represents(rn, Bounds!MustUpdate(d, t, cl), kn)
                      /\ Bounds!MustUpdate(d, t, cl) = dn
        BY <2>1, <3>1, UpdateBounds
      <4>2. QED
        BY <4>1
    <3>4. /\ xn = IF x <= l[t] /\ x < Assoc THEN x + 1 ELSE x
          /\ yn = IF y <= k[t] /\ y < Assoc THEN y + 1 ELSE y
      <4>1. sn[2] = May!update(s[2], t) /\ rn[2] = May!update(r[2], t)
        BY DEF update
      <4> HIDE DEF sn, rn
      <4>2. QED
        BY <2>4, <4>1, MayImplicit
    <3>5. ASSUME NEW u, u \in Tag
          PROVE  /\ bn[u] = IF u = t THEN 0 ELSE IF b[u] < b[t] THEN b[u] + 1 ELSE b[u]
                 /\ dn[u] = IF u = t THEN 0 ELSE IF d[u] < d[t] THEN d[u] + 1 ELSE d[u]
                 /\ ln[u] = IF u = t THEN 0 ELSE IF l[u] <= l[t] /\ l[u] < Assoc THEN l[u] + 1 ELSE l[u]
                 /\ kn[u] = IF u = t THEN 0 ELSE IF k[u] <= k[t] /\ k[u] < Assoc THEN k[u] + 1 ELSE k[u]
      <4>1. /\ Bounds!MustAccessedAge(b, t, CL_UNKNOWN) = b[t]
            /\ Bounds!MustAccessedAge(d, t, CL_UNKNOWN) = d[t]
        BY DEF Bounds!MustAccessedAge, Bounds!CL_HIT, CL_UNKNOWN
      <4>2. QED
        BY <3>5, <4>1 DEF Bounds!MustUpdate, Bounds!MayUpdate
    <3> HIDE DEF sn, rn, bn, dn, ln, kn, x, y, xn, yn
    <3>6. lessequal(sn, rn) <=> yn <= xn /\ \A u \in Tag : kn[u] <= ln[u] /\ bn[u] <= dn[u]
      BY ONLY <3>2, <3>3, LessequalBounds DEF xn, yn
    <3>7. ASSUME NEW u, u \in Tag PROVE kn[u] <= ln[u] /\ bn[u] <= dn[u]
      <4>1. /\ b[u] \in Nat /\ d[u] \in Nat /\ l[u] \in Nat /\ k[u] \in Nat
            /\ b[t] \in Nat /\ d[t] \in Nat /\ l[t] \in Nat /\ k[t] \in Nat
            /\ k[t] <= l[t] /\ b[t] <= d[t] /\ k[u] <= l[u] /\ b[u] <= d[u]
        BY <2>3, <2>5, <3>7
      <4>2. QED
        BY ONLY <2>6, <3>5, <3>7, <4>1
    <3>8. yn <= xn
      <4>1. l[t] \in Nat /\ k[t] \in Nat /\ k[t] <= l[t] /\ y <= x /\ x \in Nat /\ y \in Nat
        BY <2>3, <2>4, <2>5
      <4>2. QED
        BY ONLY <2>6, <3>4, <4>1
    <3>9. QED
      BY <3>6, <3>7, <3>8 DEF sn, rn
  <2>8. ASSUME NEW lo \in Tag, NEW hi \in Tag, lo <= hi
        PROVE  lessequal(potentialUpdate(s, lo, hi), potentialUpdate(r, lo, hi))
    <3> DEFINE sn == potentialUpdate(s, lo, hi)
               rn == potentialUpdate(r, lo, hi)
               bn == Bounds!MustPotentialUpdate(b)
               dn == Bounds!MustPotentialUpdate(d)
               ln == Bounds!MayPotentialUpdate(l, lo, hi)
               kn == Bounds!MayPotentialUpdate(k, lo, hi)
               xn == sn[2].ageOfImplicitTags
               yn == rn[2].ageOfImplicitTags
    <3>1. Represents(sn, bn, ln)
      BY <2>1, <2>8, PotentialUpdateBounds
    <3>2. Represents(rn, dn, kn)
      BY <2>1, <2>8, PotentialUpdateBounds
    <3>3. /\ xn = IF x # 0 /\ hi - lo + 1 > MaxWorthwhileTags THEN 0 ELSE x
          /\ yn = IF y # 0 /\ hi - lo + 1 > MaxWorthwhileTags THEN 0 ELSE y
      <4>1. sn[2] = May!potentialUpdate(s[2], lo, hi) /\ rn[2] = May!potentialUpdate(r[2], lo, hi)
        BY DEF potentialUpdate
      <4> HIDE DEF sn, rn
      <4>2. QED
        BY <2>4, <4>1, MayImplicitPotential
    <3>4. ASSUME NEW u, u \in Tag
          PROVE  /\ bn[u] = IF b[u] < Assoc THEN b[u] + 1 ELSE b[u]
                 /\ dn[u] = IF d[u] < Assoc THEN d[u] + 1 ELSE d[u]
                 /\ ln[u] = IF hi - lo + 1 > MaxWorthwhileTags THEN 0
                            ELSE IF lo <= u /\ u <= hi THEN 0 ELSE l[u]
                 /\ kn[u] = IF hi - lo + 1 > MaxWorthwhileTags THEN 0
                            ELSE IF lo <= u /\ u <= hi THEN 0 ELSE k[u]
      BY <3>4 DEF Bounds!MustPotentialUpdate, Bounds!MayPotentialUpdate
    <3> HIDE DEF sn, rn, bn, dn, ln, kn, x, y, xn, yn
    <3>5. lessequal(sn, rn) <=> yn <= xn /\ \A u \in Tag : kn[u] <= ln[u] /\ bn[u] <= dn[u]
      BY ONLY <3>1, <3>2, LessequalBounds DEF xn, yn
    <3>6. ASSUME NEW u, u \in Tag PROVE kn[u] <= ln[u] /\ bn[u] <= dn[u]
      <4>1. /\ b[u] \in Nat /\ d[u] \in Nat /\ l[u] \in Nat /\ k[u] \in Nat
            /\ k[u] <= l[u] /\ b[u] <= d[u]
        BY <2>3, <2>5, <3>6
      <4>2. bn[u] <= dn[u]
        BY ONLY <2>6, <3>4, <3>6, <4>1
      <4>3. kn[u] <= ln[u]
        BY ONLY <3>4, <3>6, <4>1
      <4>4. QED
        BY <4>2, <4>3
    <3>7. yn <= xn
      BY ONLY <2>3, <2>4, <3>3
    <3>8. QED
      BY <3>5, <3>6, <3>7 DEF sn, rn
  <2>9. QED
    BY <2>7, <2>8 DEF s, r
<1>2. QED
  BY <1>1, InvariantHolds, PTL
=============================================================================
