---------------------------- MODULE CacheLemmas ----------------------------
(***************************************************************************)
(* What the proofs of the cache modules share: induction over finite sets  *)
(* and natural numbers in a form that has sets for parameters, what the    *)
(* folds of the community modules compute, and what the operations on the  *)
(* sorted vectors of the must and the may analysis do to the ages that the *)
(* vectors stand for, for every associativity.                             *)
(***************************************************************************)
EXTENDS CompositionalAbstractCache, FiniteSetsExt, Functions, FiniteSetTheorems,
        SequenceTheorems, TLAPS

-----------------------------------------------------------------------------
(* Induction and folds.                                                    *)

\* A set of subsets of a finite set has a minimal element.
LEMMA MinimalSubset ==
    ASSUME NEW S, IsFiniteSet(S), NEW T, T \subseteq SUBSET S, T # {}
    PROVE  \E t \in T : \A u \in T : u \subseteq t => u = t
<1>1. T \subseteq FiniteSubsetsOf(S)
  BY FS_Subset DEF FiniteSubsetsOf
<1>2. PICK x \in T : \A y \in T : ~ (<<y, x>> \in StrictSubsetOrdering(S))
  BY <1>1, WFMin, FS_StrictSubsetOrderingWellFounded
<1>3. QED
  BY <1>2 DEF StrictSubsetOrdering

\* Every set of natural numbers has a least one.
LEMMA LeastNatural ==
    ASSUME NEW T, T \subseteq Nat, T # {}
    PROVE  \E n \in T : \A m \in T : n <= m
<1>1. PICK k \in T : TRUE
  OBVIOUS
<1> DEFINE I == 0 .. k
           D == {0 .. n : n \in {n \in T : n <= k}}
<1>2. D \subseteq SUBSET I /\ I \in D
  BY <1>1
<1>3. PICK d \in D : \A u \in D : u \subseteq d => u = d
  <2>1. IsFiniteSet(I)
    BY FS_Interval, <1>1
  <2>2. D # {}
    BY <1>2
  <2> HIDE DEF D, I
  <2>3. \E d \in D : \A u \in D : u \subseteq d => u = d
    BY <1>2, <2>1, <2>2, MinimalSubset
  <2>4. QED
    BY <2>3
<1>4. PICK n \in T : n <= k /\ d = 0 .. n
  BY <1>3
<1>5. ASSUME NEW m \in T, m < n PROVE FALSE
  <2>1. 0 .. m \in D /\ 0 .. m \subseteq d
    BY <1>1, <1>4, <1>5
  <2>2. 0 .. m = 0 .. n
    BY <1>3, <1>4, <2>1
  <2>3. QED
    BY <2>2, <1>5
<1>6. QED
  BY <1>5

\* Induction: a set that has 0 and the successors of its elements has all.
LEMMA NatInductionOn ==
    ASSUME NEW G, 0 \in G, \A n \in Nat : n \in G => n + 1 \in G
    PROVE  Nat \subseteq G
<1> SUFFICES ASSUME Nat \ G # {} PROVE FALSE
  OBVIOUS
<1>1. PICK n \in Nat \ G : \A m \in Nat \ G : n <= m
  BY LeastNatural
<1>2. n # 0 /\ n - 1 \in Nat /\ n - 1 \in G
  BY <1>1
<1>3. QED
  BY <1>1, <1>2

\* A recursive function whose value at d needs its value at pred[d], which has
\* a smaller rank; at rank 0 it is base.
IsRecursive(g, D, V, base, rank, pred, step) ==
    /\ g \in [D -> V]
    /\ \A d \in D : g[d] = IF rank[d] = 0 THEN base ELSE step[<<d, g[pred[d]]>>]

\* There is such a function.
LEMMA RecursionExists ==
    ASSUME NEW D, NEW V, NEW base \in V, NEW rank \in [D -> Nat], NEW pred,
           NEW step \in [D \X V -> V],
           \A d \in D : rank[d] > 0 => pred[d] \in D /\ rank[pred[d]] < rank[d],
           NEW max \in Nat, \A d \in D : rank[d] <= max
    PROVE  \E g : IsRecursive(g, D, V, base, rank, pred, step)
<1> DEFINE Value(g, d) == IF rank[d] = 0 THEN base ELSE step[<<d, g[pred[d]]>>]
           Solves(g, n) == \A d \in D : rank[d] <= n => g[d] = Value(g, d)
           G == {n \in Nat : \E g \in [D -> V] : Solves(g, n)}
<1>1. 0 \in G
  <2>1. [d \in D |-> base] \in [D -> V] /\ Solves([d \in D |-> base], 0)
    OBVIOUS
  <2>2. QED
    BY <2>1
<1>2. ASSUME NEW n \in Nat, n \in G PROVE n + 1 \in G
  <2>1. PICK g \in [D -> V] : Solves(g, n)
    BY <1>2
  <2> DEFINE h == [d \in D |-> Value(g, d)]
  <2>2. h \in [D -> V]
    OBVIOUS
  <2>3. \A d \in D : rank[d] <= n => h[d] = g[d]
    BY <2>1
  <2>4. ASSUME NEW d \in D, rank[d] <= n + 1, rank[d] > 0 PROVE h[pred[d]] = g[pred[d]]
    <3>1. pred[d] \in D /\ rank[pred[d]] <= n
      BY <2>4
    <3> HIDE DEF h
    <3>2. QED
      BY <2>3, <3>1
  <2>5. \A d \in D : h[d] = Value(g, d)
    OBVIOUS
  <2> HIDE DEF h
  <2>6. ASSUME NEW d \in D, rank[d] <= n + 1 PROVE h[d] = Value(h, d)
    <3>1. CASE rank[d] = 0
      BY <2>5, <3>1
    <3>2. CASE rank[d] > 0
      BY <2>4, <2>5, <2>6, <3>2
    <3>3. QED
      BY <3>1, <3>2
  <2> HIDE DEF Value
  <2>7. Solves(h, n + 1)
    BY <2>6
  <2> HIDE DEF Solves
  <2>8. QED
    BY <2>2, <2>7
<1>3. max \in G
  <2> HIDE DEF G
  <2>1. QED
    BY <1>1, <1>2, NatInductionOn
<1>4. PICK g \in [D -> V] : Solves(g, max)
  BY <1>3
<1>5. QED
  BY <1>4 DEF IsRecursive

\* A fold over the set S: the elements are taken away one by one as pick says.
IsFold(g, S, V, base, step, pick) ==
    /\ g \in [SUBSET S -> V]
    /\ \A s \in SUBSET S :
          g[s] = IF s = {} THEN base ELSE step[<<pick[s], g[s \ {pick[s]}]>>]

\* The recursion of a fold over a finite set has a solution.
LEMMA FoldExists ==
    ASSUME NEW S, IsFiniteSet(S), NEW V, NEW base \in V, NEW step \in [S \X V -> V],
           NEW pick \in [(SUBSET S) \ {{}} -> S],
           \A s \in (SUBSET S) \ {{}} : pick[s] \in s
    PROVE  \E g : IsFold(g, S, V, base, step, pick)
<1> DEFINE D == SUBSET S
           rank == [s \in D |-> Cardinality(s)]
           pred == [s \in D |-> s \ {pick[s]}]
           next == [z \in D \X V |-> IF z[1] = {} THEN base ELSE step[<<pick[z[1]], z[2]>>]]
<1>1. \A s \in D : /\ IsFiniteSet(s) /\ Cardinality(s) \in Nat /\ Cardinality(s) <= Cardinality(S)
                   /\ Cardinality(s) = 0 <=> s = {}
  BY FS_Subset, FS_CardinalityType, FS_EmptySet
<1>2. ASSUME NEW s \in D, s # {} PROVE pred[s] \in D /\ rank[pred[s]] < rank[s]
  <2>1. pick[s] \in s
    BY <1>2
  <2>2. Cardinality(s \ {pick[s]}) = Cardinality(s) - 1
    BY <1>1, <2>1, FS_RemoveElement
  <2>3. QED
    BY <1>1, <2>2
<1>3. rank \in [D -> Nat] /\ Cardinality(S) \in Nat /\ \A s \in D : rank[s] <= Cardinality(S)
  BY <1>1
<1>4. next \in [D \X V -> V]
  <2>1. ASSUME NEW s \in D, NEW x \in V, s # {} PROVE step[<<pick[s], x>>] \in V
    BY <2>1
  <2>2. QED
    BY <2>1
<1>5. \A s \in D : rank[s] > 0 => s # {}
  BY <1>1
<1>6. PICK g : IsRecursive(g, D, V, base, rank, pred, next)
  <2> HIDE DEF D, rank, pred, next
  <2>1. QED
    BY <1>2, <1>3, <1>4, <1>5, RecursionExists
<1>7. g \in [D -> V] /\ \A s \in D : g[s] = IF rank[s] = 0 THEN base ELSE next[<<s, g[pred[s]]>>]
  BY <1>6 DEF IsRecursive
<1>8. ASSUME NEW s \in D, s # {} PROVE g[s] = step[<<pick[s], g[s \ {pick[s]}]>>]
  <2>1. rank[s] # 0 /\ pred[s] = s \ {pick[s]} /\ g[pred[s]] \in V
    BY <1>1, <1>2, <1>7, <1>8
  <2>2. next[<<s, g[pred[s]]>>] = step[<<pick[s], g[pred[s]]>>]
    BY <1>8, <2>1
  <2> HIDE DEF next, rank, pred
  <2>3. QED
    BY <1>7, <2>1, <2>2
<1>9. g[{}] = base
  <2>1. {} \in D /\ rank[{}] = 0
    BY <1>1
  <2> HIDE DEF next, rank, pred, D
  <2>2. QED
    BY <1>7, <2>1
<1>10. QED
  BY <1>7, <1>8, <1>9 DEF IsFold

\* Every nonempty set of numbers up to n has a greatest one.
LEMMA GreatestNatural ==
    ASSUME NEW n \in Nat, NEW T, T \subseteq 0 .. n, T # {}
    PROVE  \E k \in T : \A m \in T : m <= k
<1> DEFINE R == {n - m : m \in T}
<1>1. \A m \in T : m \in Nat /\ n - m \in R
  OBVIOUS
<1>2. PICK r \in R : \A m \in R : r <= m
  <2>1. \A m \in T : n - m \in Nat
    OBVIOUS
  <2>2. R \subseteq Nat
    BY <2>1
  <2>3. R # {}
    BY <1>1
  <2> HIDE DEF R
  <2>4. QED
    BY <2>2, <2>3, LeastNatural
<1>3. PICK k \in T : r = n - k
  BY <1>2
<1> HIDE DEF R
<1>4. \A m \in T : m <= k
  BY <1>1, <1>2, <1>3
<1>5. QED
  BY <1>4

\* A property of sets holds for all subsets of a finite set if it holds for a
\* nonempty one whenever it holds for those that lack one of its elements.
LEMMA SubsetInduction ==
    ASSUME NEW S, IsFiniteSet(S), NEW G, {} \in G,
           \A s \in SUBSET S :
              s # {} /\ (\A x \in s : s \ {x} \in G) => s \in G
    PROVE  S \in G
<1> SUFFICES ASSUME S \notin G PROVE FALSE
  OBVIOUS
<1> DEFINE T == (SUBSET S) \ G
<1>1. T \subseteq SUBSET S /\ T # {}
  OBVIOUS
<1>2. PICK t \in T : \A u \in T : u \subseteq t => u = t
  <2> HIDE DEF T
  <2>1. QED
    BY <1>1, MinimalSubset
<1>3. \A x \in t : t \ {x} \in G
  BY <1>2
<1>4. QED
  BY <1>2, <1>3

\* g has the sums of f over the subsets of S.
IsPartialSums(g, f, S) ==
    /\ g \in [SUBSET S -> Nat]
    /\ g[{}] = 0
    /\ \A s \in (SUBSET S) \ {{}} : \E x \in s : g[s] = f[x] + g[s \ {x}]

\* What SumFunctionOnSet adds up, one element at a time.
LEMMA SumUnfold ==
    ASSUME NEW S, IsFiniteSet(S), NEW f \in [S -> Nat]
    PROVE  \E g : IsPartialSums(g, f, S) /\ SumFunctionOnSet(f, S) = g[S]
<1> DEFINE pick == [s \in (SUBSET S) \ {{}} |-> CHOOSE x \in s : TRUE]
           step == [z \in S \X Nat |-> f[z[1]] + z[2]]
           Is(g) == g = [s \in SUBSET S |->
                           IF s = {} THEN 0
                           ELSE f[CHOOSE x \in s : TRUE] + g[s \ {CHOOSE x \in s : TRUE}]]
<1>1. /\ pick \in [(SUBSET S) \ {{}} -> S]
      /\ \A s \in (SUBSET S) \ {{}} : pick[s] \in s
  OBVIOUS
<1>2. step \in [S \X Nat -> Nat]
  OBVIOUS
<1> DEFINE zero == 0
<1>3. PICK g : IsFold(g, S, Nat, zero, step, pick)
  <2>1. zero \in Nat
    OBVIOUS
  <2> HIDE DEF pick, step, zero
  <2>2. QED
    BY <1>1, <1>2, <2>1, FoldExists
<1>3a. /\ g \in [SUBSET S -> Nat]
       /\ \A s \in SUBSET S :
             g[s] = IF s = {} THEN 0 ELSE step[<<pick[s], g[s \ {pick[s]}]>>]
  <2> HIDE DEF pick, step
  <2>1. QED
    BY <1>3 DEF IsFold
<1>4. ASSUME NEW s \in (SUBSET S) \ {{}}
      PROVE  /\ pick[s] \in s
             /\ g[s] = f[pick[s]] + g[s \ {pick[s]}]
  <2>1. pick[s] \in s /\ pick[s] \in S /\ s # {} /\ g[s \ {pick[s]}] \in Nat
    BY <1>1, <1>3a
  <2>2. step[<<pick[s], g[s \ {pick[s]}]>>] = f[pick[s]] + g[s \ {pick[s]}]
    <3> HIDE DEF pick
    <3>1. QED
      BY <2>1
  <2>3. QED
    BY <1>3a, <2>1, <2>2
<1>5. Is(g)
  <2>1. g[{}] = 0
    BY <1>3a
  <2>2. QED
    BY <1>3a, <1>4, <2>1
<1>6. SumFunctionOnSet(f, S) = (CHOOSE h : Is(h))[S]
  BY DEF SumFunctionOnSet, FoldFunctionOnSet, MapThenFoldSet
<1>7. PICK h : Is(h) /\ SumFunctionOnSet(f, S) = h[S]
  BY <1>5, <1>6
<1>8. \A s \in (SUBSET S) \ {{}} : h[s] = f[pick[s]] + h[s \ {pick[s]}]
  BY <1>7
<1>9. h[S] = g[S]
  <2> DEFINE G == {s \in SUBSET S : h[s] = g[s]}
  <2>1. {} \in G
    BY <1>5, <1>7
  <2>2. ASSUME NEW s \in SUBSET S, s # {}, \A x \in s : s \ {x} \in G
        PROVE  s \in G
    <3>1. pick[s] \in s /\ g[s] = f[pick[s]] + g[s \ {pick[s]}]
      BY <1>4, <2>2
    <3>2. h[s] = f[pick[s]] + h[s \ {pick[s]}]
      BY <1>8, <2>2
    <3> HIDE DEF pick
    <3>3. h[s \ {pick[s]}] = g[s \ {pick[s]}]
      BY <2>2, <3>1
    <3>4. QED
      BY <3>1, <3>2, <3>3
  <2>3. S \in G
    <3> HIDE DEF G
    <3>1. QED
      BY <2>1, <2>2, SubsetInduction
  <2>4. QED
    BY <2>3
<1>10. g[{}] = 0
  BY <1>3a
<1>11. QED
  <2> HIDE DEF pick, step, Is
  <2>1. \A s \in (SUBSET S) \ {{}} : \E x \in s : g[s] = f[x] + g[s \ {x}]
    BY <1>4
  <2>2. SumFunctionOnSet(f, S) = g[S]
    BY <1>7, <1>9
  <2>3. QED
    BY <1>10, <2>1, <2>2, <1>3a DEF IsPartialSums

\* A sum of zeros.
LEMMA SumZero ==
    ASSUME NEW S, IsFiniteSet(S), NEW f \in [S -> Nat], \A x \in S : f[x] = 0
    PROVE  SumFunctionOnSet(f, S) = 0
<1>0. PICK g : IsPartialSums(g, f, S) /\ SumFunctionOnSet(f, S) = g[S]
  BY SumUnfold
<1>1. /\ g \in [SUBSET S -> Nat] /\ g[{}] = 0
      /\ \A s \in (SUBSET S) \ {{}} : \E x \in s : g[s] = f[x] + g[s \ {x}]
  BY <1>0 DEF IsPartialSums
<1> DEFINE G == {s \in SUBSET S : g[s] = 0}
<1>2. {} \in G
  BY <1>1
<1>3. ASSUME NEW s \in SUBSET S, s # {}, \A x \in s : s \ {x} \in G
      PROVE  s \in G
  <2>1. PICK x \in s : g[s] = f[x] + g[s \ {x}]
    BY <1>1, <1>3
  <2>2. QED
    BY <1>3, <2>1
<1>4. S \in G
  <2> HIDE DEF G
  <2>1. QED
    BY <1>2, <1>3, SubsetInduction
<1>5. QED
  BY <1>0, <1>4

\* A union has at most as many elements as its members have together.
LEMMA UnionBound ==
    ASSUME NEW S, IsFiniteSet(S), NEW Y, NEW f \in [S -> Nat],
           \A i \in S : IsFiniteSet(Y[i]) /\ f[i] = Cardinality(Y[i])
    PROVE  /\ IsFiniteSet(UNION {Y[i] : i \in S})
           /\ Cardinality(UNION {Y[i] : i \in S}) <= SumFunctionOnSet(f, S)
<1>0. PICK g : IsPartialSums(g, f, S) /\ SumFunctionOnSet(f, S) = g[S]
  BY SumUnfold
<1>1. /\ g \in [SUBSET S -> Nat] /\ g[{}] = 0
      /\ \A s \in (SUBSET S) \ {{}} : \E x \in s : g[s] = f[x] + g[s \ {x}]
  BY <1>0 DEF IsPartialSums
<1> DEFINE U(s) == UNION {Y[i] : i \in s}
           G == {s \in SUBSET S : IsFiniteSet(U(s)) /\ Cardinality(U(s)) <= g[s]}
<1>2. {} \in G
  <2>1. U({}) = {}
    OBVIOUS
  <2> HIDE DEF U
  <2>2. IsFiniteSet(U({})) /\ Cardinality(U({})) = 0
    BY <2>1, FS_EmptySet
  <2>3. QED
    BY <1>1, <2>2
<1>3. ASSUME NEW s \in SUBSET S, s # {}, \A x \in s : s \ {x} \in G
      PROVE  s \in G
  <2>1. PICK x \in s : g[s] = f[x] + g[s \ {x}]
    BY <1>1, <1>3
  <2>2. U(s) = Y[x] \cup U(s \ {x})
    OBVIOUS
  <2>3. /\ IsFiniteSet(Y[x]) /\ f[x] = Cardinality(Y[x])
        /\ IsFiniteSet(U(s \ {x})) /\ Cardinality(U(s \ {x})) <= g[s \ {x}]
    BY <1>3, <2>1
  <2> DEFINE A == Y[x]
             B == U(s \ {x})
  <2>4. /\ IsFiniteSet(U(s))
        /\ Cardinality(U(s)) = Cardinality(Y[x]) + Cardinality(U(s \ {x})) - Cardinality(Y[x] \cap U(s \ {x}))
    <3>1. IsFiniteSet(A) /\ IsFiniteSet(B)
      BY <2>3
    <3> HIDE DEF A, B
    <3>2. /\ IsFiniteSet(A \cup B)
          /\ Cardinality(A \cup B) = Cardinality(A) + Cardinality(B) - Cardinality(A \cap B)
      BY <3>1, FS_Union
    <3> USE DEF A, B
    <3> HIDE DEF U
    <3>3. QED
      BY <2>2, <3>2
  <2>5. IsFiniteSet(Y[x] \cap U(s \ {x}))
    BY <2>3, FS_Subset
  <2>6. /\ Cardinality(Y[x] \cap U(s \ {x})) \in Nat
        /\ Cardinality(Y[x]) \in Nat /\ Cardinality(U(s \ {x})) \in Nat
    BY <2>3, <2>5, FS_CardinalityType
  <2>7. g[s] \in Nat /\ g[s \ {x}] \in Nat
    BY <1>1
  <2>8. QED
    <3> HIDE DEF U
    <3>1. QED
      BY <2>1, <2>3, <2>4, <2>6, <2>7
<1>4. S \in G
  <2> HIDE DEF G
  <2>1. QED
    BY <1>2, <1>3, SubsetInduction
<1>5. QED
  BY <1>0, <1>4

-----------------------------------------------------------------------------
(* Sorted vectors.                                                         *)

Entry == [tag : Tag, age : 0 .. Assoc - 1]

\* The order of the entries: by age and then by tag.
Less(d, e) == d.age < e.age \/ (d.age = e.age /\ d.tag < e.tag)

Canonical(v) == \A i, j \in 1 .. Len(v) : i < j => Less(v[i], v[j]) /\ v[i].tag # v[j].tag

\* The vector v has the tags T, with the ages b.
Holds(v, b, T) ==
    /\ v \in Seq(Entry) /\ Canonical(v)
    /\ \A i \in 1 .. Len(v) : v[i].tag \in T /\ v[i].age = b[v[i].tag]
    /\ \A t \in T : \E i \in 1 .. Len(v) : v[i].tag = t

\* The tags of the entries lo .. hi.
Tags(v, lo, hi) == {v[k].tag : k \in lo .. hi}

-----------------------------------------------------------------------------
(* Building vectors.                                                       *)

\* The numbers of an entry.
LEMMA EntryFacts ==
    ASSUME NEW e \in Entry
    PROVE  /\ e.tag \in Tag /\ e.tag \in Nat /\ e.age \in Nat /\ e.age <= Assoc - 1
           /\ \A t \in Tag, n \in 0 .. Assoc - 1 : [tag |-> t, age |-> n] \in Entry
           /\ e = [tag |-> e.tag, age |-> e.age]
<1>1. e.tag \in Tag /\ e.age \in 0 .. Assoc - 1 /\ e = [tag |-> e.tag, age |-> e.age]
  BY DEF Entry
<1>2. \A t \in Tag, n \in 0 .. Assoc - 1 : [tag |-> t, age |-> n] \in Entry
  BY DEF Entry
<1>3. QED
  BY <1>1, <1>2, TagAssumption, AssocAssumption

\* Two entries in order have different places.
LEMMA LessFacts ==
    ASSUME NEW d \in Entry, NEW e \in Entry
    PROVE  /\ d.tag \in Nat /\ d.age \in Nat /\ d.age <= Assoc - 1
           /\ Less(d, e) \/ Less(e, d) \/ d = e
           /\ ~(Less(d, e) /\ Less(e, d))
           /\ \A f \in Entry : Less(d, e) /\ Less(e, f) => Less(d, f)
<1>1. d.tag \in Nat /\ e.tag \in Nat /\ d.age \in Nat /\ e.age \in Nat /\ d.age <= Assoc - 1
  BY EntryFacts
<1>2. d.tag = e.tag /\ d.age = e.age => d = e
  BY DEF Entry
<1>3. \A f \in Entry : f.tag \in Nat /\ f.age \in Nat
  BY EntryFacts
<1>4. QED
  BY <1>1, <1>2, <1>3 DEF Less

\* Entries of a vector: their types, and the age of each.
LEMMA HoldsFacts ==
    ASSUME NEW v, NEW b, NEW T, Holds(v, b, T)
    PROVE  /\ Len(v) \in Nat /\ v \in Seq(Entry) /\ T \subseteq Tag
           /\ \A i \in 1 .. Len(v) : /\ v[i] \in Entry /\ v[i].tag \in T /\ v[i].tag \in Nat
                                     /\ v[i].age \in Nat /\ v[i].age <= Assoc - 1
                                     /\ v[i].age = b[v[i].tag]
           /\ \A i, j \in 1 .. Len(v) : i < j => Less(v[i], v[j]) /\ v[i].tag # v[j].tag
           /\ \A i, j \in 1 .. Len(v) : v[i].tag = v[j].tag => i = j
           /\ \A t \in T : /\ b[t] \in Nat /\ b[t] <= Assoc - 1
                           /\ \E i \in 1 .. Len(v) : v[i].tag = t
<1>1. v \in Seq(Entry) /\ Len(v) \in Nat /\ \A i \in 1 .. Len(v) : v[i] \in Entry
  BY DEF Holds
<1>2. \A i \in 1 .. Len(v) : /\ v[i].tag \in Tag /\ v[i].tag \in Nat
                             /\ v[i].age \in Nat /\ v[i].age <= Assoc - 1
  BY <1>1, TagAssumption, AssocAssumption DEF Entry
<1>3. /\ \A i \in 1 .. Len(v) : v[i].tag \in T /\ v[i].age = b[v[i].tag]
      /\ \A i, j \in 1 .. Len(v) : i < j => Less(v[i], v[j]) /\ v[i].tag # v[j].tag
      /\ \A t \in T : \E i \in 1 .. Len(v) : v[i].tag = t
  BY DEF Holds, Canonical
<1>4. ASSUME NEW i \in 1 .. Len(v), NEW j \in 1 .. Len(v), v[i].tag = v[j].tag PROVE i = j
  <2>1. i \in Nat /\ j \in Nat
    BY <1>1
  <2>2. ~(i < j) /\ ~(j < i)
    BY <1>3, <1>4
  <2>3. QED
    BY <2>1, <2>2
<1>5. T \subseteq Tag
  BY <1>2, <1>3
<1>6. \A t \in T : b[t] \in Nat /\ b[t] <= Assoc - 1
  BY <1>2, <1>3
<1>7. QED
  BY <1>1, <1>2, <1>3, <1>4, <1>5, <1>6

\* Only the ages of the tags in the vector matter.
LEMMA HoldsSame ==
    ASSUME NEW v, NEW b, NEW c, NEW T, Holds(v, b, T), \A t \in T : b[t] = c[t]
    PROVE  Holds(v, c, T)
BY DEF Holds

\* The empty vector.
LEMMA HoldsEmpty ==
    ASSUME NEW b
    PROVE  Holds(<<>>, b, {})
<1>1. <<>> \in Seq(Entry) /\ Len(<<>>) = 0
  OBVIOUS
<1>2. QED
  BY <1>1 DEF Holds, Canonical

\* A segment of a vector.
LEMMA HoldsSegment ==
    ASSUME NEW v, NEW b, NEW T, Holds(v, b, T),
           NEW lo \in Int, NEW hi \in Int, 1 <= lo, hi <= Len(v)
    PROVE  LET w == SubSeq(v, lo, hi) IN
           /\ Holds(w, b, Tags(v, lo, hi))
           /\ Len(w) = IF lo <= hi THEN hi - lo + 1 ELSE 0
           /\ \A i \in 1 .. Len(w) : w[i] = v[lo + i - 1] /\ lo + i - 1 \in lo .. hi
<1> DEFINE w == SubSeq(v, lo, hi)
<1>1. /\ Len(v) \in Nat /\ \A i \in 1 .. Len(v) : v[i] \in Entry /\ v[i].age = b[v[i].tag]
      /\ \A i, j \in 1 .. Len(v) : i < j => Less(v[i], v[j]) /\ v[i].tag # v[j].tag
  BY HoldsFacts
<1>2. \A i \in lo .. hi : i \in 1 .. Len(v)
  BY <1>1
<1>3. /\ w \in Seq(Entry) /\ Len(w) = IF lo <= hi THEN hi - lo + 1 ELSE 0
      /\ \A i \in 1 .. hi - lo + 1 : w[i] = v[lo + i - 1]
  BY <1>1, <1>2, SubSeqProperties
<1> HIDE DEF w
<1>4. \A i \in 1 .. Len(w) : w[i] = v[lo + i - 1] /\ lo + i - 1 \in lo .. hi
  BY <1>3
<1>5. \A k \in lo .. hi : k - lo + 1 \in 1 .. Len(w) /\ w[k - lo + 1] = v[k]
  BY <1>3
<1>6. Canonical(w)
  <2> SUFFICES ASSUME NEW i \in 1 .. Len(w), NEW j \in 1 .. Len(w), i < j
               PROVE  Less(w[i], w[j]) /\ w[i].tag # w[j].tag
    BY DEF Canonical
  <2> DEFINE k == lo + i - 1
             m == lo + j - 1
  <2>1. k \in 1 .. Len(v) /\ m \in 1 .. Len(v) /\ k < m /\ w[i] = v[k] /\ w[j] = v[m]
    BY <1>2, <1>3, <1>4
  <2> HIDE DEF k, m
  <2>2. QED
    BY <1>1, <2>1
<1>7. \A i \in 1 .. Len(w) : w[i].tag \in Tags(v, lo, hi) /\ w[i].age = b[w[i].tag]
  BY <1>1, <1>2, <1>4 DEF Tags
<1>8. \A t \in Tags(v, lo, hi) : \E i \in 1 .. Len(w) : w[i].tag = t
  BY <1>5 DEF Tags
<1>9. Holds(w, b, Tags(v, lo, hi))
  BY <1>3, <1>6, <1>7, <1>8 DEF Holds
<1>10. QED
  BY <1>3, <1>4, <1>9 DEF w

\* Two vectors, the entries of the second behind those of the first.
LEMMA HoldsConcat ==
    ASSUME NEW v, NEW w, NEW b, NEW S, NEW T, Holds(v, b, S), Holds(w, b, T),
           \A i \in 1 .. Len(v), j \in 1 .. Len(w) : Less(v[i], w[j]) /\ v[i].tag # w[j].tag
    PROVE  Holds(v \o w, b, S \cup T)
<1> DEFINE x == v \o w
<1>1. /\ v \in Seq(Entry) /\ w \in Seq(Entry) /\ Len(v) \in Nat /\ Len(w) \in Nat
      /\ \A i \in 1 .. Len(v) : v[i].tag \in S /\ v[i].age = b[v[i].tag]
      /\ \A i \in 1 .. Len(w) : w[i].tag \in T /\ w[i].age = b[w[i].tag]
      /\ \A i, j \in 1 .. Len(v) : i < j => Less(v[i], v[j]) /\ v[i].tag # v[j].tag
      /\ \A i, j \in 1 .. Len(w) : i < j => Less(w[i], w[j]) /\ w[i].tag # w[j].tag
      /\ \A t \in S : \E i \in 1 .. Len(v) : v[i].tag = t
      /\ \A t \in T : \E i \in 1 .. Len(w) : w[i].tag = t
  BY HoldsFacts
<1>2. /\ x \in Seq(Entry) /\ Len(x) = Len(v) + Len(w)
      /\ \A i \in 1 .. Len(v) + Len(w) : x[i] = IF i <= Len(v) THEN v[i] ELSE w[i - Len(v)]
  BY <1>1, ConcatProperties
<1> HIDE DEF x
<1>3. \A i \in 1 .. Len(v) : i \in 1 .. Len(x) /\ x[i] = v[i]
  BY <1>1, <1>2
<1>4. \A i \in 1 .. Len(w) : Len(v) + i \in 1 .. Len(x) /\ x[Len(v) + i] = w[i]
  BY <1>1, <1>2
<1>5. \A i \in 1 .. Len(x) : \/ i \in 1 .. Len(v)
                             \/ i - Len(v) \in 1 .. Len(w) /\ x[i] = w[i - Len(v)] /\ i > Len(v)
  BY <1>1, <1>2
<1>6. Canonical(x)
  <2> SUFFICES ASSUME NEW i \in 1 .. Len(x), NEW j \in 1 .. Len(x), i < j
               PROVE  Less(x[i], x[j]) /\ x[i].tag # x[j].tag
    BY DEF Canonical
  <2>0. i \in Nat /\ j \in Nat
    BY <1>1, <1>2
  <2>1. CASE i \in 1 .. Len(v) /\ j \in 1 .. Len(v)
    BY <1>1, <1>3, <2>1
  <2>2. CASE i \in 1 .. Len(v) /\ j \notin 1 .. Len(v)
    BY <1>3, <1>5, <2>2
  <2>3. CASE i \notin 1 .. Len(v)
    <3> DEFINE k == i - Len(v)
               m == j - Len(v)
    <3>1. k \in 1 .. Len(w) /\ m \in 1 .. Len(w) /\ k < m /\ x[i] = w[k] /\ x[j] = w[m]
      BY <1>1, <1>5, <2>0, <2>3
    <3> HIDE DEF k, m
    <3>2. QED
      BY <1>1, <3>1
  <2>4. QED
    BY <2>1, <2>2, <2>3
<1>7. ASSUME NEW i \in 1 .. Len(x) PROVE x[i].tag \in S \cup T /\ x[i].age = b[x[i].tag]
  <2>1. CASE i \in 1 .. Len(v)
    BY <1>1, <1>3, <2>1
  <2>2. CASE i \notin 1 .. Len(v)
    <3>1. PICK k \in 1 .. Len(w) : x[i] = w[k]
      BY <1>5, <2>2
    <3>2. QED
      BY <1>1, <3>1
  <2>3. QED
    BY <2>1, <2>2
<1>8. ASSUME NEW t \in S \cup T PROVE \E i \in 1 .. Len(x) : x[i].tag = t
  <2>1. CASE t \in S
    BY <1>1, <1>3, <2>1
  <2>2. CASE t \in T
    <3>1. PICK k \in 1 .. Len(w) : w[k].tag = t
      BY <1>1, <2>2
    <3>2. QED
      BY <1>4, <3>1
  <2>3. QED
    BY <2>1, <2>2
<1>9. QED
  BY <1>2, <1>6, <1>7, <1>8 DEF Holds, x

\* A vector of one entry.
LEMMA HoldsOne ==
    ASSUME NEW e \in Entry, NEW b, e.age = b[e.tag]
    PROVE  Holds(<<e>>, b, {e.tag}) /\ Len(<<e>>) = 1 /\ <<e>>[1] = e
<1>1. <<e>> \in Seq(Entry) /\ Len(<<e>>) = 1 /\ <<e>>[1] = e
  OBVIOUS
<1> DEFINE w == <<e>>
<1> HIDE DEF w
<1>2. w \in Seq(Entry) /\ Len(w) = 1 /\ w[1] = e
  BY <1>1 DEF w
<1>3. \A i \in 1 .. Len(w) : i = 1
  BY <1>2
<1>4. Holds(w, b, {e.tag})
  BY <1>2, <1>3 DEF Holds, Canonical
<1>5. QED
  BY <1>2, <1>4 DEF w

\* An entry at the front, before all others.
LEMMA HoldsFront ==
    ASSUME NEW w, NEW b, NEW T, Holds(w, b, T), NEW e \in Entry, e.age = b[e.tag],
           \A j \in 1 .. Len(w) : Less(e, w[j]) /\ e.tag # w[j].tag
    PROVE  Holds(<<e>> \o w, b, T \cup {e.tag})
<1> DEFINE x == <<e>>
<1>1. Holds(x, b, {e.tag}) /\ Len(x) = 1 /\ x[1] = e
  BY HoldsOne
<1> HIDE DEF x
<1>2. \A i \in 1 .. Len(x), j \in 1 .. Len(w) : Less(x[i], w[j]) /\ x[i].tag # w[j].tag
  BY <1>1
<1>3. Holds(x \o w, b, {e.tag} \cup T)
  BY <1>1, <1>2, HoldsConcat
<1>4. {e.tag} \cup T = T \cup {e.tag}
  OBVIOUS
<1>5. QED
  BY <1>3, <1>4 DEF x

\* An entry inserted at its place.
LEMMA HoldsInsert ==
    ASSUME NEW w, NEW b, NEW T, Holds(w, b, T), NEW e \in Entry, e.age = b[e.tag], e.tag \notin T,
           NEW n \in 0 .. Len(w),
           \A j \in 1 .. n : Less(w[j], e), \A j \in (n + 1) .. Len(w) : Less(e, w[j])
    PROVE  /\ Holds(Must!InsertAt(w, n + 1, e), b, T \cup {e.tag})
           /\ Holds(May!InsertAt(w, n + 1, e), b, T \cup {e.tag})
<1> DEFINE l == SubSeq(w, 1, n)
           r == SubSeq(w, n + 1, Len(w))
           x == l \o <<e>>
<1>1. /\ Len(w) \in Nat /\ n \in Int /\ Len(w) \in Int /\ n + 1 \in Int /\ 1 <= n + 1 /\ n <= Len(w)
      /\ \A i \in 1 .. Len(w) : w[i].tag \in T
  BY HoldsFacts
<1>2. /\ Holds(l, b, Tags(w, 1, n)) /\ Len(l) = IF 1 <= n THEN n - 1 + 1 ELSE 0
      /\ \A i \in 1 .. Len(l) : l[i] = w[1 + i - 1] /\ 1 + i - 1 \in 1 .. n
  BY <1>1, HoldsSegment
<1>3. /\ Holds(r, b, Tags(w, n + 1, Len(w)))
      /\ \A i \in 1 .. Len(r) : r[i] = w[n + 1 + i - 1] /\ n + 1 + i - 1 \in n + 1 .. Len(w)
  BY <1>1, HoldsSegment
<1>4. Holds(<<e>>, b, {e.tag}) /\ Len(<<e>>) = 1 /\ <<e>>[1] = e
  BY HoldsOne
<1> DEFINE o == <<e>>
<1> HIDE DEF l, r, o
<1>5. \A i \in 1 .. Len(l), j \in 1 .. Len(o) : Less(l[i], o[j]) /\ l[i].tag # o[j].tag
  <2> SUFFICES ASSUME NEW i \in 1 .. Len(l), NEW j \in 1 .. Len(o)
               PROVE  Less(l[i], o[j]) /\ l[i].tag # o[j].tag
    OBVIOUS
  <2>1. l[i] = w[1 + i - 1] /\ 1 + i - 1 \in 1 .. n /\ 1 + i - 1 \in 1 .. Len(w)
    BY <1>1, <1>2
  <2>2. o[j] = e
    BY <1>4 DEF o
  <2>3. QED
    BY <1>1, <2>1, <2>2
<1>6. Holds(x, b, Tags(w, 1, n) \cup {e.tag})
  BY <1>2, <1>4, <1>5, HoldsConcat DEF o
<1>7. /\ Len(x) = Len(l) + 1
      /\ \A i \in 1 .. Len(x) : x[i] = e \/ \E k \in 1 .. Len(l) : x[i] = l[k]
  <2>1. l \in Seq(Entry) /\ o \in Seq(Entry) /\ Len(l) \in Nat
    BY <1>2, <1>4, HoldsFacts DEF o
  <2>2. /\ Len(l \o o) = Len(l) + Len(o)
        /\ \A i \in 1 .. Len(l) + Len(o) : (l \o o)[i] = IF i <= Len(l) THEN l[i] ELSE o[i - Len(l)]
    BY <2>1, ConcatProperties
  <2>3. Len(o) = 1 /\ o[1] = e
    BY <1>4 DEF o
  <2>4. x = l \o o
    BY DEF o
  <2> HIDE DEF x
  <2>5. QED
    BY <2>1, <2>2, <2>3, <2>4
<1> HIDE DEF x
<1>8. \A i \in 1 .. Len(x), j \in 1 .. Len(r) : Less(x[i], r[j]) /\ x[i].tag # r[j].tag
  <2> SUFFICES ASSUME NEW i \in 1 .. Len(x), NEW j \in 1 .. Len(r)
               PROVE  Less(x[i], r[j]) /\ x[i].tag # r[j].tag
    OBVIOUS
  <2> DEFINE m == n + 1 + j - 1
  <2>1. r[j] = w[m] /\ m \in n + 1 .. Len(w) /\ m \in 1 .. Len(w) /\ m > n
    <3>1. Len(r) \in Nat
      BY <1>3, HoldsFacts
    <3>2. QED
      BY <1>1, <1>3, <3>1
  <2> HIDE DEF m
  <2>2. CASE x[i] = e
    BY <1>1, <2>1, <2>2
  <2>3. CASE \E k \in 1 .. Len(l) : x[i] = l[k]
    <3>1. PICK k \in 1 .. Len(l) : x[i] = l[k]
      BY <2>3
    <3>2. x[i] = w[1 + k - 1] /\ 1 + k - 1 \in 1 .. n
      BY <1>2, <3>1
    <3>3. 1 + k - 1 \in 1 .. Len(w) /\ 1 + k - 1 < m
      BY <1>1, <2>1, <3>2
    <3>4. QED
      BY <2>1, <3>2, <3>3, HoldsFacts
  <2>4. QED
    BY <1>7, <2>2, <2>3
<1>9. Holds(x \o r, b, Tags(w, 1, n) \cup {e.tag} \cup Tags(w, n + 1, Len(w)))
  BY <1>3, <1>6, <1>8, HoldsConcat
<1>10. Tags(w, 1, n) \cup {e.tag} \cup Tags(w, n + 1, Len(w)) = T \cup {e.tag}
  <2>1. \A k \in 1 .. Len(w) : k \in 1 .. n \/ k \in n + 1 .. Len(w)
    BY <1>1
  <2>2. \A k : k \in 1 .. n \/ k \in n + 1 .. Len(w) => k \in 1 .. Len(w)
    BY <1>1
  <2>3. \A t \in T : \E i \in 1 .. Len(w) : w[i].tag = t
    BY HoldsFacts
  <2>4. QED
    BY <1>1, <2>1, <2>2, <2>3 DEF Tags
<1>11. Must!InsertAt(w, n + 1, e) = x \o r /\ May!InsertAt(w, n + 1, e) = x \o r
  <2>1. n + 1 - 1 = n
    BY <1>1
  <2>2. QED
    BY <2>1 DEF Must!InsertAt, May!InsertAt, x, l, r
<1>12. QED
  BY <1>9, <1>10, <1>11

-----------------------------------------------------------------------------
(* Searching a vector.                                                     *)

\* The least and the greatest of a set of indices, 0 if there is none.
First(I) == IF I # {} THEN CHOOSE x \in I : \A y \in I : x =< y ELSE 0
Last(I)  == IF I # {} THEN CHOOSE x \in I : \A y \in I : x >= y ELSE 0

LEMMA FirstFacts ==
    ASSUME NEW n \in Nat, NEW I, I \subseteq 1 .. n
    PROVE  /\ First(I) \in 0 .. n
           /\ First(I) = 0 <=> I = {}
           /\ First(I) > 0 => First(I) \in I
           /\ \A y \in I : First(I) <= y
<1>1. CASE I = {}
  BY <1>1 DEF First
<1>2. CASE I # {}
  <2>0. I \subseteq Nat /\ \A y \in I : y \in 1 .. n
    OBVIOUS
  <2>1. \E x \in I : \A y \in I : x =< y
    BY <1>2, <2>0, LeastNatural
  <2>2. First(I) \in I /\ \A y \in I : First(I) =< y
    BY <1>2, <2>1 DEF First
  <2>3. First(I) \in 1 .. n
    BY <2>0, <2>2
  <2>4. QED
    BY <1>2, <2>2, <2>3
<1>3. QED
  BY <1>1, <1>2

LEMMA LastFacts ==
    ASSUME NEW n \in Nat, NEW I, I \subseteq 1 .. n
    PROVE  /\ Last(I) \in 0 .. n
           /\ Last(I) = 0 <=> I = {}
           /\ Last(I) > 0 => Last(I) \in I
           /\ \A y \in I : y <= Last(I)
<1>1. CASE I = {}
  BY <1>1 DEF Last
<1>2. CASE I # {}
  <2>1. \E x \in I : \A y \in I : y <= x
    <3>1. I \subseteq 0 .. n
      OBVIOUS
    <3>2. QED
      BY <1>2, <3>1, GreatestNatural
  <2>2. \A x, y \in I : y <= x <=> x >= y
    OBVIOUS
  <2>3. Last(I) \in I /\ \A y \in I : Last(I) >= y
    BY <1>2, <2>1, <2>2 DEF Last
  <2>4. Last(I) \in 1 .. n /\ \A y \in I : y \in 1 .. n
    BY <2>3
  <2>5. \A y \in I : y <= Last(I)
    BY <2>3, <2>4
  <2>6. QED
    BY <1>2, <2>3, <2>4, <2>5
<1>3. QED
  BY <1>1, <1>2

\* The position of a tag.
LEMMA FindFacts ==
    ASSUME NEW v, NEW b, NEW T, Holds(v, b, T), NEW t
    PROVE  /\ Must!find(v, t) \in 0 .. Len(v)
           /\ Must!find(v, t) = 0 <=> t \notin T
           /\ Must!find(v, t) > 0 => /\ v[Must!find(v, t)].tag = t
                                     /\ v[Must!find(v, t)].age = b[t]
<1> DEFINE I == {i \in 1 .. Len(v) : v[i].tag = t}
<1>1. Must!find(v, t) = First(I)
  BY DEF Must!find, Must!SelectInSeq, Must!Min, First
<1>2. /\ Len(v) \in Nat /\ \A i \in 1 .. Len(v) : v[i].tag \in T /\ v[i].age = b[v[i].tag]
      /\ \A u \in T : \E i \in 1 .. Len(v) : v[i].tag = u
  BY HoldsFacts
<1>3. I = {} <=> t \notin T
  BY <1>2
<1>4. I \subseteq 1 .. Len(v)
  OBVIOUS
<1>5. First(I) > 0 => v[First(I)].tag = t /\ v[First(I)].age = b[t]
  BY <1>2, <1>4, FirstFacts
<1> HIDE DEF I
<1>6. First(I) \in 0 .. Len(v) /\ (First(I) = 0 <=> I = {})
  BY <1>2, <1>4, FirstFacts
<1>7. QED
  BY <1>1, <1>3, <1>5, <1>6

\* The may analysis searches in the same way.
LEMMA SameFind ==
    ASSUME NEW m, NEW t
    PROVE  May!find(m, t) = Must!find(m.explicitTags, t)
BY DEF Must!find, May!find, Must!SelectInSeq, May!SelectInSeq, Must!Min, May!Min

\* The entries younger than a form the head of the vector.
LEMMA HoldsYounger ==
    ASSUME NEW v, NEW b, NEW T, Holds(v, b, T), NEW a \in Int
    PROVE  LET n == Last({i \in 1 .. Len(v) : v[i].age < a})
               w == SubSeq(v, 1, n)
           IN  /\ Holds(w, b, {t \in T : b[t] < a})
               /\ n \in 0 .. Len(v) /\ Len(w) = n
               /\ \A i \in 1 .. n : w[i] = v[i]
<1> DEFINE I == {i \in 1 .. Len(v) : v[i].age < a}
           n == Last(I)
           w == SubSeq(v, 1, n)
<1>1. /\ Len(v) \in Nat
      /\ \A i \in 1 .. Len(v) : /\ v[i].tag \in T /\ v[i].age = b[v[i].tag] /\ v[i].age \in Nat
                                /\ v[i].tag \in Nat
      /\ \A u \in T : \E i \in 1 .. Len(v) : v[i].tag = u
      /\ \A i, j \in 1 .. Len(v) : i < j => Less(v[i], v[j])
  BY HoldsFacts
<1>2. /\ n \in 0 .. Len(v) /\ n \in Int /\ n <= Len(v)
      /\ n > 0 => n \in I
      /\ \A y \in I : y <= n
  <2>1. I \subseteq 1 .. Len(v)
    OBVIOUS
  <2> HIDE DEF I
  <2>2. QED
    BY <1>1, <2>1, LastFacts
<1> HIDE DEF n
<1>3. /\ Holds(w, b, Tags(v, 1, n)) /\ Len(w) = IF 1 <= n THEN n - 1 + 1 ELSE 0
      /\ \A i \in 1 .. Len(w) : w[i] = v[1 + i - 1] /\ 1 + i - 1 \in 1 .. n
  BY <1>2, HoldsSegment
<1>4. \A i \in 1 .. Len(v) : v[i].age < a <=> i <= n
  <2> SUFFICES ASSUME NEW i \in 1 .. Len(v) PROVE v[i].age < a <=> i <= n
    OBVIOUS
  <2>1. ASSUME v[i].age < a PROVE i <= n
    BY <1>2, <2>1
  <2>2. ASSUME i <= n PROVE v[i].age < a
    <3>1. n \in 1 .. Len(v) /\ v[n].age < a
      BY <1>2, <2>2
    <3>2. CASE i = n
      BY <3>1, <3>2
    <3>3. CASE i < n
      BY <1>1, <3>1, <3>3 DEF Less
    <3>4. QED
      BY <1>2, <2>2, <3>2, <3>3
  <2>3. QED
    BY <2>1, <2>2
<1> HIDE DEF I
<1>5. Tags(v, 1, n) = {t \in T : b[t] < a}
  <2>1. ASSUME NEW t \in Tags(v, 1, n) PROVE t \in T /\ b[t] < a
    <3>1. PICK k \in 1 .. n : t = v[k].tag
      BY DEF Tags
    <3>2. k \in 1 .. Len(v) /\ k <= n
      BY <1>1, <1>2
    <3>3. QED
      BY <1>1, <1>4, <3>1, <3>2
  <2>2. ASSUME NEW t \in T, b[t] < a PROVE t \in Tags(v, 1, n)
    <3>1. PICK k \in 1 .. Len(v) : v[k].tag = t
      BY <1>1
    <3>2. k \in 1 .. n
      BY <1>1, <1>2, <1>4, <2>2, <3>1
    <3>3. QED
      BY <3>1, <3>2 DEF Tags
  <2>3. QED
    BY <2>1, <2>2
<1> HIDE DEF w
<1>6. Len(w) = n /\ \A i \in 1 .. n : w[i] = v[i]
  BY <1>2, <1>3
<1>7. QED
  BY <1>2, <1>3, <1>5, <1>6 DEF w, n, I

\* All entries grow one older.
LEMMA HoldsGrow ==
    ASSUME NEW v, NEW b, NEW T, Holds(v, b, T), NEW c,
           \A t \in T : c[t] = b[t] + 1 /\ c[t] <= Assoc - 1
    PROVE  LET w == [i \in DOMAIN v |-> [v[i] EXCEPT !.age = @ + 1]]
           IN  /\ Holds(w, c, T) /\ Len(w) = Len(v)
               /\ \A i \in 1 .. Len(v) : w[i].tag = v[i].tag /\ w[i].age = v[i].age + 1
<1>1. /\ Len(v) \in Nat /\ v \in Seq(Entry)
      /\ \A i \in 1 .. Len(v) : /\ v[i] \in Entry /\ v[i].tag \in T /\ v[i].age = b[v[i].tag]
                                /\ v[i].age \in Nat /\ v[i].tag \in Nat
      /\ \A u \in T : \E i \in 1 .. Len(v) : v[i].tag = u
      /\ \A i, j \in 1 .. Len(v) : i < j => Less(v[i], v[j]) /\ v[i].tag # v[j].tag
  BY ONLY Holds(v, b, T), HoldsFacts
<1>2. DOMAIN v = 1 .. Len(v)
  BY <1>1
<1> DEFINE old(i) == [v[i] EXCEPT !.age = @ + 1]
           n == Len(v)
           w == [i \in DOMAIN v |-> old(i)]
<1>3. ASSUME NEW i \in 1 .. n
      PROVE  /\ old(i) \in Entry /\ old(i).tag = v[i].tag /\ old(i).age = v[i].age + 1
             /\ old(i).age = c[old(i).tag]
  <2>1. v[i] = [tag |-> v[i].tag, age |-> v[i].age] /\ v[i].tag \in Tag
    BY <1>1, EntryFacts
  <2>2. v[i].age + 1 = c[v[i].tag] /\ v[i].age + 1 \in 0 .. Assoc - 1
    BY <1>1, AssocAssumption
  <2>3. old(i) = [tag |-> v[i].tag, age |-> v[i].age + 1]
    BY <2>1
  <2> HIDE DEF old
  <2>4. old(i) \in Entry
    BY <2>1, <2>2, <2>3 DEF Entry
  <2>5. QED
    BY <2>2, <2>3, <2>4
<1> HIDE DEF old
<1>4. /\ w \in Seq(Entry) /\ Len(w) = n
      /\ \A i \in 1 .. n : /\ w[i] \in Entry /\ w[i].tag = v[i].tag /\ w[i].age = v[i].age + 1
                           /\ w[i].age = c[w[i].tag]
  <2>1. w = [i \in 1 .. n |-> old(i)] /\ n \in Nat
    BY <1>1, <1>2
  <2> HIDE DEF w, n
  <2>2. w \in Seq(Entry) /\ Len(w) = n
    BY <1>3, <2>1
  <2>3. QED
    BY <1>3, <2>1, <2>2
<1> HIDE DEF w
<1>5. Canonical(w)
  <2> SUFFICES ASSUME NEW i \in 1 .. Len(v), NEW j \in 1 .. Len(v), i < j
               PROVE  Less(w[i], w[j]) /\ w[i].tag # w[j].tag
    BY <1>4 DEF Canonical
  <2>1. Less(v[i], v[j]) /\ v[i].tag # v[j].tag
    BY <1>1
  <2>2. QED
    BY <1>1, <1>4, <2>1 DEF Less
<1>6. \A t \in T : \E i \in 1 .. Len(w) : w[i].tag = t
  BY <1>1, <1>4
<1>7. Holds(w, c, T)
  BY <1>1, <1>4, <1>5, <1>6 DEF Holds
<1>8. QED
  BY <1>4, <1>7 DEF w, old

\* The number of entries is the number of tags.
LEMMA HoldsLength ==
    ASSUME NEW v, NEW b, NEW T, Holds(v, b, T)
    PROVE  IsFiniteSet(T) /\ Cardinality(T) = Len(v)
<1> DEFINE f == [i \in 1 .. Len(v) |-> v[i].tag]
<1>1. /\ Len(v) \in Nat
      /\ \A i \in 1 .. Len(v) : v[i].tag \in T
      /\ \A i, j \in 1 .. Len(v) : v[i].tag = v[j].tag => i = j
      /\ \A t \in T : \E i \in 1 .. Len(v) : v[i].tag = t
  BY HoldsFacts
<1>2. f \in Bijection(1 .. Len(v), T)
  <2>1. f \in [1 .. Len(v) -> T]
    BY <1>1
  <2>2. IsInjective(f)
    BY <1>1 DEF IsInjective
  <2>3. \A t \in T : \E i \in 1 .. Len(v) : f[i] = t
    BY <1>1
  <2> HIDE DEF f
  <2>4. QED
    BY <2>1, <2>2, <2>3 DEF Bijection, Injection, Surjection
<1>3. IsFiniteSet(1 .. Len(v)) /\ Cardinality(1 .. Len(v)) = Len(v)
  BY <1>1, FS_Interval
<1> HIDE DEF f
<1>4. QED
  BY <1>2, <1>3, FS_Bijection DEF ExistsBijection

\* How far a property, that of the indices P, holds from the front.
LEMMA LeadingFacts ==
    ASSUME NEW n \in Nat, NEW P
    PROVE  \E k \in 0 .. n : (\A j \in 1 .. k : j \in P) /\ (k < n => k + 1 \notin P)
<1> DEFINE K == {j \in 1 .. n : j \notin P}
<1>1. CASE K = {}
  <2>1. n \in 0 .. n /\ ~(n < n)
    OBVIOUS
  <2>2. QED
    BY <1>1, <2>1
<1>2. CASE K # {}
  <2>1. PICK m \in K : \A j \in K : m <= j
    <3>1. K \subseteq Nat
      OBVIOUS
    <3> HIDE DEF K
    <3>2. QED
      BY <1>2, <3>1, LeastNatural
  <2>2. m \in 1 .. n /\ m \notin P
    OBVIOUS
  <2> DEFINE k == m - 1
  <2>3. k \in 0 .. n /\ k + 1 = m
    BY <2>2
  <2>4. \A j \in 1 .. k : j \in P
    <3> SUFFICES ASSUME NEW j \in 1 .. k, j \notin P PROVE FALSE
      OBVIOUS
    <3>1. j \in K /\ j < m
      BY <2>2
    <3>2. QED
      BY <2>1, <2>2, <3>1
  <2> HIDE DEF k
  <2>5. QED
    BY <2>2, <2>3, <2>4
<1>3. QED
  BY <1>1, <1>2

\* InsertAt keeps the type.
LEMMA InsertType ==
    ASSUME NEW w \in Seq(Entry), NEW n \in 0 .. Len(w), NEW e \in Entry
    PROVE  /\ Must!InsertAt(w, n + 1, e) \in Seq(Entry)
           /\ May!InsertAt(w, n + 1, e) \in Seq(Entry)
<1>1. Len(w) \in Nat /\ \A i \in 1 .. Len(w) : w[i] \in Entry
  OBVIOUS
<1>2. SubSeq(w, 1, n) \in Seq(Entry)
  BY <1>1, SubSeqProperties
<1>3. SubSeq(w, n + 1, Len(w)) \in Seq(Entry)
  <2>1. \A i \in n + 1 .. Len(w) : w[i] \in Entry
    BY <1>1
  <2>2. n + 1 \in Int /\ Len(w) \in Int
    BY <1>1
  <2>3. QED
    BY <2>1, <2>2, SubSeqProperties
<1>4. <<e>> \in Seq(Entry)
  OBVIOUS
<1>5. SubSeq(w, 1, n) \o <<e>> \o SubSeq(w, n + 1, Len(w)) \in Seq(Entry)
  BY <1>2, <1>3, <1>4, ConcatProperties
<1>6. n + 1 - 1 = n
  BY <1>1
<1>7. QED
  BY <1>5, <1>6 DEF Must!InsertAt, May!InsertAt

-----------------------------------------------------------------------------
(* The must analysis.                                                      *)

Below(b, n) == {t \in Tag : b[t] < n}

\* The must vector v stands for the upper bounds b.
MustRep(v, b) == b \in [Tag -> Age] /\ Holds(v, b, Below(b, Assoc))

\* Bounds are ages.
LEMMA AgeFacts ==
    ASSUME NEW b \in [Tag -> Age], NEW t \in Tag
    PROVE  b[t] \in Nat /\ b[t] <= Assoc /\ Assoc \in Nat /\ Assoc > 0
BY AssocAssumption DEF Age

\* getMaxAge is the bound.
LEMMA MustMaxAge ==
    ASSUME NEW v, NEW b, MustRep(v, b), NEW t \in Tag
    PROVE  /\ Must!getMaxAge(v, t) = b[t]
           /\ Must!find(v, t) > 0 <=> b[t] < Assoc
<1>1. /\ Must!find(v, t) \in 0 .. Len(v)
      /\ Must!find(v, t) = 0 <=> t \notin Below(b, Assoc)
      /\ Must!find(v, t) > 0 => v[Must!find(v, t)].age = b[t]
  BY FindFacts DEF MustRep
<1>2. b[t] \in Nat /\ b[t] <= Assoc /\ Assoc \in Nat /\ (t \in Below(b, Assoc) <=> b[t] < Assoc)
  BY AgeFacts DEF MustRep, Below
<1>3. Len(v) \in Nat
  BY HoldsFacts DEF MustRep
<1>4. QED
  BY <1>1, <1>2, <1>3 DEF Must!getMaxAge

\* classify reads the bound; a full set of known lines excludes the others.
LEMMA MustClassify ==
    ASSUME NEW v, NEW b, MustRep(v, b), NEW t \in Tag, NEW CNN \in Nat
    PROVE  Must!classify(v, t, CNN) =
             IF b[t] < Assoc THEN IF b[t] + CNN >= Assoc THEN CL_MISS ELSE CL_HIT
             ELSE IF Cardinality(Below(b, Assoc)) = Assoc THEN CL_MISS ELSE CL_UNKNOWN
<1>1. Cardinality(Below(b, Assoc)) = Len(v)
  BY HoldsLength DEF MustRep
<1>2. /\ Must!find(v, t) > 0 <=> b[t] < Assoc
      /\ Must!find(v, t) > 0 => v[Must!find(v, t)].age = b[t]
  BY MustMaxAge DEF Must!getMaxAge
<1>3. QED
  BY <1>1, <1>2 DEF Must!classify, Must!CL_HIT, Must!CL_MISS, Must!CL_UNKNOWN, CL_HIT, CL_MISS,
                    CL_UNKNOWN

\* The lines of age Assoc-1 leave the vector.
LEMMA MustDrop ==
    ASSUME NEW v, NEW b, MustRep(v, b)
    PROVE  /\ Holds(Must!dropOldest(v), b, Below(b, Assoc - 1))
           /\ \A i \in 1 .. Len(Must!dropOldest(v)) : Must!dropOldest(v)[i].age < Assoc - 1
<1> DEFINE I == {i \in 1 .. Len(v) : v[i].age < Assoc - 1}
           J == {i \in 1 .. Len(v) : v[i].age # Assoc - 1}
<1>1. Holds(v, b, Below(b, Assoc)) /\ b \in [Tag -> Age]
  BY DEF MustRep
<1>2. /\ Assoc - 1 \in Nat
      /\ \A i \in 1 .. Len(v) : v[i].age \in Nat /\ v[i].age <= Assoc - 1
  BY <1>1, HoldsFacts, AssocAssumption
<1>3. I = J
  BY <1>2
<1>4. Must!dropOldest(v) = SubSeq(v, 1, Last(J))
  BY DEF Must!dropOldest, Must!SelectLastInSeq, Must!Max, Last
<1>5. Holds(SubSeq(v, 1, Last(I)), b, {t \in Below(b, Assoc) : b[t] < Assoc - 1})
  BY <1>1, <1>2, HoldsYounger
<1>6. {t \in Below(b, Assoc) : b[t] < Assoc - 1} = Below(b, Assoc - 1)
  <2>1. \A t \in Tag : b[t] < Assoc - 1 => b[t] < Assoc
    BY <1>1, AgeFacts
  <2>2. QED
    BY <2>1 DEF Below
<1>7. Holds(Must!dropOldest(v), b, Below(b, Assoc - 1))
  <2> HIDE DEF I, J
  <2>1. QED
    BY <1>3, <1>4, <1>5, <1>6
<1>8. ASSUME NEW i \in 1 .. Len(Must!dropOldest(v)) PROVE Must!dropOldest(v)[i].age < Assoc - 1
  <2> DEFINE w == Must!dropOldest(v)
  <2> HIDE DEF w
  <2>1. w[i].tag \in Below(b, Assoc - 1) /\ w[i].age = b[w[i].tag]
    BY <1>7, <1>8, HoldsFacts DEF w
  <2>2. QED
    BY <2>1 DEF w, Below
<1>9. QED
  BY <1>7, <1>8

\* An access to an unknown line: every bound grows, up to Assoc.
LEMMA MustPotentialUpdate ==
    ASSUME NEW v, NEW b, MustRep(v, b), NEW c \in [Tag -> Age],
           \A u \in Tag : c[u] = IF b[u] < Assoc THEN b[u] + 1 ELSE b[u]
    PROVE  MustRep(Must!potentialUpdate(v), c)
<1> DEFINE w == Must!dropOldest(v)
<1>1. Holds(w, b, Below(b, Assoc - 1))
  BY MustDrop
<1>2. b \in [Tag -> Age]
  BY DEF MustRep
<1>3. \A t \in Below(b, Assoc - 1) : c[t] = b[t] + 1 /\ c[t] <= Assoc - 1
  BY <1>2, AgeFacts DEF Below
<1>4. Below(c, Assoc) = Below(b, Assoc - 1)
  <2>1. \A t \in Tag : c[t] < Assoc <=> b[t] < Assoc - 1
    BY <1>2, AgeFacts
  <2>2. QED
    BY <2>1 DEF Below
<1>5. Must!potentialUpdate(v) = [i \in DOMAIN w |-> [w[i] EXCEPT !.age = @ + 1]]
  BY DEF Must!potentialUpdate
<1> HIDE DEF w
<1>6. Holds([i \in DOMAIN w |-> [w[i] EXCEPT !.age = @ + 1]], c, Below(b, Assoc - 1))
  BY <1>1, <1>3, HoldsGrow
<1>7. QED
  BY <1>4, <1>5, <1>6 DEF MustRep

\* An entry that is shifted to the right ends at its place.
LEMMA MustShift ==
    ASSUME NEW e \in Entry, NEW rest \in Seq(Entry), NEW a \in Int
    PROVE  /\ Must!shiftRight(e, rest, a) \in Seq(Entry)
           /\ \A c, T :
                /\ Holds(rest, c, T) /\ e.age = c[e.tag] /\ e.tag \notin T
                /\ e.age = a => \A j \in 1 .. Len(rest) : rest[j].age >= a
                /\ e.age # a => \A j \in 1 .. Len(rest) : Less(e, rest[j])
                => Holds(Must!shiftRight(e, rest, a), c, T \cup {e.tag})
<1> DEFINE L == Len(rest)
           P == {j \in 1 .. L : rest[j].age = a /\ rest[j].tag < e.tag}
           Ok(k) == /\ \A j \in 1 .. k : rest[j].age = a /\ rest[j].tag < e.tag
                    /\ k < L => ~ (rest[k + 1].age = a /\ rest[k + 1].tag < e.tag)
           n == IF e.age # a THEN 0 ELSE CHOOSE k \in 0 .. L : Ok(k)
<1>1. Must!shiftRight(e, rest, a) = Must!InsertAt(rest, n + 1, e)
  BY DEF Must!shiftRight
<1>2. L \in Nat /\ \A j \in 1 .. L : rest[j] \in Entry
  OBVIOUS
<1>3. \E k \in 0 .. L : Ok(k)
  <2>1. PICK k \in 0 .. L : (\A j \in 1 .. k : j \in P) /\ (k < L => k + 1 \notin P)
    <3> HIDE DEF P, L
    <3>1. QED
      BY <1>2, LeadingFacts
  <2>2. k < L => k + 1 \in 1 .. L
    BY <1>2
  <2>3. Ok(k)
    BY <2>1, <2>2
  <2>4. QED
    BY <2>3
<1>4. n \in 0 .. L /\ (e.age = a => Ok(n)) /\ (e.age # a => n = 0)
  <2> HIDE DEF Ok
  <2>1. QED
    BY <1>2, <1>3
<1> HIDE DEF n
<1>5. Must!shiftRight(e, rest, a) \in Seq(Entry)
  BY <1>1, <1>4, InsertType
<1>6. ASSUME NEW c, NEW T, Holds(rest, c, T), e.age = c[e.tag], e.tag \notin T,
             e.age = a => \A j \in 1 .. L : rest[j].age >= a,
             e.age # a => \A j \in 1 .. L : Less(e, rest[j])
      PROVE  Holds(Must!shiftRight(e, rest, a), c, T \cup {e.tag})
  <2>1. \A j \in 1 .. L : /\ rest[j].tag \in T /\ rest[j].tag \in Nat /\ rest[j].age \in Nat
                          /\ rest[j].tag # e.tag
    BY <1>6, HoldsFacts
  <2>2. e.tag \in Nat /\ e.age \in Nat
    BY EntryFacts
  <2>3. \A j \in 1 .. n : Less(rest[j], e)
    BY <1>2, <1>4, <2>1, <2>2 DEF Less
  <2>4. ASSUME NEW j \in n + 1 .. L PROVE Less(e, rest[j])
    <3>0. j \in 1 .. L
      BY <1>2, <1>4
    <3>1. CASE e.age # a
      BY <1>6, <3>0, <3>1
    <3>2. CASE e.age = a
      <4>1. n + 1 \in 1 .. L /\ Less(e, rest[n + 1])
        <5>1. n < L /\ n + 1 \in 1 .. L
          BY <1>2, <1>4
        <5>2. QED
          BY <1>4, <1>6, <2>1, <2>2, <3>2, <5>1 DEF Less
      <4>2. CASE j = n + 1
        BY <4>1, <4>2
      <4>3. CASE j > n + 1
        <5>1. Less(rest[n + 1], rest[j])
          BY <1>6, <3>0, <4>1, <4>3, HoldsFacts
        <5>2. QED
          BY <1>2, <3>0, <4>1, <5>1, LessFacts
      <4>4. QED
        BY <1>2, <1>4, <4>2, <4>3
    <3>3. QED
      BY <3>1, <3>2
  <2>5. QED
    BY <1>1, <1>4, <1>6, <2>3, <2>4, HoldsInsert
<1>7. QED
  BY <1>5, <1>6

\* The partial results of the fold in update: q[k] has taken in the entries
\* k .. n of left.
IsShifting(q, left, right, acc) ==
    /\ q[Len(left) + 1] = right
    /\ \A k \in 1 .. Len(left) : q[k] = Must!shiftRight(Must!older(left[k], acc), q[k + 1], acc)

LEMMA MustFold ==
    ASSUME NEW left \in Seq(Entry), NEW right \in Seq(Entry), NEW acc \in Int,
           \A k \in 1 .. Len(left) : Must!older(left[k], acc) \in Entry
    PROVE  \E q : /\ IsShifting(q, left, right, acc)
                  /\ Must!shiftAll(left, right, acc) = q[1]
<1> DEFINE n == Len(left)
           S == 1 .. n
           V == Seq(Entry)
           mn(s) == CHOOSE x \in s : \A y \in s : x =< y
           op(k, r) == Must!shiftRight(Must!older(left[k], acc), r, acc)
           pick == [s \in (SUBSET S) \ {{}} |-> mn(s)]
           step == [z \in S \X V |-> op(z[1], z[2])]
           Is(g) == g = [s \in SUBSET S |-> IF s = {} THEN right ELSE op(mn(s), g[s \ {mn(s)}])]
<1>0. n \in Nat /\ DOMAIN left = S /\ IsFiniteSet(S)
  BY FS_Interval
<1>1. \A s \in (SUBSET S) \ {{}} : mn(s) \in s /\ \A y \in s : mn(s) <= y
  <2> SUFFICES ASSUME NEW s \in (SUBSET S) \ {{}} PROVE mn(s) \in s /\ \A y \in s : mn(s) <= y
    OBVIOUS
  <2>1. s \subseteq Nat /\ s # {}
    OBVIOUS
  <2>2. \E x \in s : \A y \in s : x <= y
    BY <2>1, LeastNatural
  <2>3. QED
    BY <2>2
<1>2. pick \in [(SUBSET S) \ {{}} -> S] /\ \A s \in (SUBSET S) \ {{}} : pick[s] \in s
  <2> HIDE DEF mn
  <2>1. QED
    BY <1>1
<1>3. step \in [S \X V -> V]
  <2>1. ASSUME NEW k \in S, NEW r \in V PROVE op(k, r) \in V
    BY MustShift
  <2> HIDE DEF op
  <2>2. QED
    BY <2>1
<1>4. PICK g : IsFold(g, S, V, right, step, pick)
  <2> HIDE DEF S, V, step, pick
  <2>1. QED
    BY <1>0, <1>2, <1>3, FoldExists DEF V
<1>5. Is(g)
  <2>1. /\ g \in [SUBSET S -> V]
        /\ \A s \in SUBSET S : g[s] = IF s = {} THEN right ELSE step[<<pick[s], g[s \ {pick[s]}]>>]
    <3> HIDE DEF S, V, step, pick
    <3>1. QED
      BY <1>4 DEF IsFold
  <2>2. ASSUME NEW s \in (SUBSET S) \ {{}} PROVE g[s] = op(mn(s), g[s \ {mn(s)}])
    <3>1. pick[s] = mn(s)
      OBVIOUS
    <3>2. mn(s) \in S /\ s \ {mn(s)} \in SUBSET S
      BY <1>1
    <3> HIDE DEF mn, pick
    <3>3. g[s \ {mn(s)}] \in V
      BY <2>1, <3>2
    <3>4. step[<<mn(s), g[s \ {mn(s)}]>>] = op(mn(s), g[s \ {mn(s)}])
      <4> HIDE DEF op
      <4>1. QED
        BY <3>2, <3>3
    <3> HIDE DEF step, op
    <3>5. QED
      BY <2>1, <3>1, <3>4
  <2> HIDE DEF mn, op, pick, step
  <2>3. \A s \in SUBSET S : g[s] = IF s = {} THEN right ELSE op(mn(s), g[s \ {mn(s)}])
    BY <2>1, <2>2
  <2>4. QED
    BY <2>1, <2>3
<1> DEFINE fold == Must!shiftAll(left, right, acc)
<1>6. fold = (CHOOSE h : Is(h))[S]
  BY <1>0 DEF Must!shiftAll, Must!FoldRight, Must!MapThenFoldSet, Must!Min
<1>7. PICK h : Is(h) /\ fold = h[S]
  BY <1>5, <1>6
<1>8. ASSUME NEW k \in S PROVE h[k .. n] = op(k, h[(k + 1) .. n])
  <2>1. /\ k .. n \in (SUBSET S) \ {{}} /\ k \in k .. n
        /\ (k .. n) \ {k} = (k + 1) .. n
    BY <1>0
  <2>2. mn(k .. n) = k
    <3> DEFINE s == k .. n
    <3>1. \A m \in s : k <= m /\ m \in Nat
      BY <1>0
    <3>2. mn(s) \in s /\ mn(s) <= k
      BY <1>1, <2>1
    <3> HIDE DEF s, mn
    <3>3. QED
      BY <3>1, <3>2 DEF s
  <2> DEFINE s == k .. n
             r == (k + 1) .. n
  <2> HIDE DEF mn, op
  <2>3. h[s] = op(mn(s), h[s \ {mn(s)}])
    BY <1>7, <2>1
  <2> HIDE DEF s, r
  <2>4. h[s] = op(k, h[r])
    BY <2>1, <2>2, <2>3 DEF s, r
  <2>5. QED
    BY <2>4 DEF s, r
<1>9. h[(n + 1) .. n] = right
  <2>1. (n + 1) .. n = {}
    BY <1>0
  <2>2. QED
    BY <1>7, <2>1
<1> DEFINE q == [k \in 1 .. n + 1 |-> h[k .. n]]
<1>10. IsShifting(q, left, right, acc)
  <2>1. q[n + 1] = right
    BY <1>0, <1>9
  <2>2. ASSUME NEW k \in 1 .. n PROVE q[k] = op(k, q[k + 1])
    <3>1. k \in 1 .. n + 1 /\ k + 1 \in 1 .. n + 1
      BY <1>0
    <3>2. q[k] = h[k .. n] /\ q[k + 1] = h[(k + 1) .. n]
      BY <3>1
    <3> HIDE DEF q, op
    <3>3. QED
      BY <1>8, <3>2
  <2> HIDE DEF q
  <2>3. QED
    BY <2>1, <2>2 DEF IsShifting
<1>11. fold = q[1]
  <2>1. q[1] = h[S]
    BY <1>0
  <2>2. QED
    BY <1>7, <2>1
<1> HIDE DEF q, fold
<1>12. QED
  BY <1>10, <1>11 DEF fold

\* The entry behind which another one stands does not overtake it by ageing.
LEMMA OlderOrder ==
    ASSUME NEW d \in Entry, NEW e \in Entry, Less(d, e), NEW acc \in Int, NEW m, NEW n,
           m = IF d.age < acc THEN d.age + 1 ELSE d.age,
           n = IF e.age < acc THEN e.age + 1 ELSE e.age, e.age <= acc
    PROVE  /\ m = acc => n >= acc
           /\ m # acc => m < n \/ (m = n /\ d.tag < e.tag)
<1>1. d.age \in Nat /\ e.age \in Nat /\ d.tag \in Nat /\ e.tag \in Nat
  BY EntryFacts
<1>2. QED
  BY <1>1 DEF Less

\* The fold of update: the entries of left, one older each unless they are as
\* old as the accessed one, before and among those of right.
LEMMA MustFoldHolds ==
    ASSUME NEW left, NEW right, NEW b, NEW c, NEW S, NEW R, NEW acc \in Int,
           Holds(left, b, S), Holds(right, c, R), S \cap R = {},
           \A u \in S : /\ c[u] = IF b[u] < acc THEN b[u] + 1 ELSE b[u]
                        /\ c[u] <= Assoc - 1 /\ b[u] <= acc,
           \A u \in R : c[u] >= acc
    PROVE  Holds(Must!shiftAll(left, right, acc), c, S \cup R)
<1> DEFINE n == Len(left)
           TT(k) == R \cup Tags(left, k, n)
<1>1. /\ n \in Nat /\ left \in Seq(Entry)
      /\ \A i \in 1 .. n : /\ left[i] \in Entry /\ left[i].tag \in S /\ left[i].age = b[left[i].tag]
                           /\ left[i].age \in Nat
      /\ \A i, j \in 1 .. n : i < j => Less(left[i], left[j]) /\ left[i].tag # left[j].tag
      /\ \A t \in S : \E i \in 1 .. n : left[i].tag = t
  BY ONLY Holds(left, b, S), HoldsFacts
<1>2. right \in Seq(Entry)
  BY ONLY Holds(right, c, R), HoldsFacts
<1>3. ASSUME NEW k \in 1 .. n
      PROVE  LET e == Must!older(left[k], acc) IN
             /\ e \in Entry /\ e.tag = left[k].tag /\ e.age = c[e.tag]
             /\ e.age = IF left[k].age < acc THEN left[k].age + 1 ELSE left[k].age
             /\ left[k].age <= acc
  <2> DEFINE d == left[k]
             a == IF d.age < acc THEN d.age + 1 ELSE d.age
  <2>1. /\ d \in Entry /\ d.tag \in S /\ d.age = b[d.tag] /\ d.age \in Nat
    BY <1>1
  <2>2. d = [tag |-> d.tag, age |-> d.age] /\ d.tag \in Tag
    BY <2>1, EntryFacts
  <2>3. a = c[d.tag] /\ a <= Assoc - 1 /\ d.age <= acc
    BY <2>1
  <2>4. a \in 0 .. Assoc - 1
    BY <2>1, <2>3, AssocAssumption
  <2>5. Must!older(d, acc) = [tag |-> d.tag, age |-> a]
    BY <2>2 DEF Must!older
  <2> HIDE DEF d, a
  <2>6. [tag |-> d.tag, age |-> a] \in Entry
    BY <2>2, <2>4 DEF Entry
  <2>7. /\ Must!older(d, acc) \in Entry /\ Must!older(d, acc).tag = d.tag /\ Must!older(d, acc).age = a
    BY <2>5, <2>6
  <2>8. QED
    BY <2>3, <2>7 DEF d, a
<1>4. PICK q : /\ IsShifting(q, left, right, acc)
               /\ Must!shiftAll(left, right, acc) = q[1]
  <2>1. \A k \in 1 .. Len(left) : Must!older(left[k], acc) \in Entry
    BY <1>3
  <2>2. QED
    BY ONLY <1>1, <1>2, <2>1, acc \in Int, MustFold
<1> DEFINE G == {m \in Nat : m <= n => Holds(q[n + 1 - m], c, TT(n + 1 - m))}
<1>5. 0 \in G
  <2>1. TT(n + 1) = R
    BY <1>1 DEF Tags
  <2>2. q[n + 1] = right
    BY <1>4 DEF IsShifting
  <2>3. n + 1 - 0 = n + 1 /\ 0 \in Nat
    BY <1>1
  <2> HIDE DEF TT
  <2>4. QED
    BY <2>1, <2>2, <2>3
<1>6. ASSUME NEW m \in Nat, m \in G PROVE m + 1 \in G
  <2> SUFFICES ASSUME m + 1 <= n PROVE Holds(q[n + 1 - (m + 1)], c, TT(n + 1 - (m + 1)))
    <3> HIDE DEF TT
    <3>1. m + 1 \in Nat
      OBVIOUS
    <3>2. QED
      BY <3>1, Zenon
  <2> DEFINE k == n - m
  <2>1. k \in 1 .. n /\ n + 1 - (m + 1) = k /\ n + 1 - m = k + 1 /\ k + 1 \in Int
    BY <1>1
  <2>2. Holds(q[k + 1], c, TT(k + 1))
    BY <1>1, <1>6, <2>1
  <2> HIDE DEF k, G
  <2> DEFINE e == Must!older(left[k], acc)
             rest == q[k + 1]
  <2>3. /\ e \in Entry /\ e.tag = left[k].tag /\ e.age = c[e.tag]
        /\ e.age = IF left[k].age < acc THEN left[k].age + 1 ELSE left[k].age
        /\ left[k].age <= acc /\ left[k] \in Entry /\ left[k].age \in Nat
    BY <1>1, <1>3, <2>1
  <2>4. q[k] = Must!shiftRight(e, rest, acc)
    BY <1>4, <2>1 DEF IsShifting
  <2> HIDE DEF e, rest
  <2>5. /\ rest \in Seq(Entry) /\ Len(rest) \in Nat
        /\ \A j \in 1 .. Len(rest) : /\ rest[j].tag \in TT(k + 1) /\ rest[j].age = c[rest[j].tag]
                                     /\ rest[j].age \in Nat
    BY ONLY <2>2, HoldsFacts DEF rest
  <2>6. e.tag \notin TT(k + 1)
    <3>1. e.tag \notin R
      BY <1>1, <2>1, <2>3
    <3>2. ASSUME NEW i \in k + 1 .. n PROVE left[i].tag # e.tag
      <4>1. i \in 1 .. n /\ k < i
        BY <1>1, <2>1
      <4>2. QED
        BY <1>1, <2>1, <2>3, <4>1
    <3>3. QED
      BY <3>1, <3>2 DEF Tags
  <2>7. ASSUME NEW j \in 1 .. Len(rest)
        PROVE  /\ e.age = acc => rest[j].age >= acc
               /\ e.age # acc => Less(e, rest[j])
    <3>1. CASE rest[j].tag \in R
      <4>1. rest[j].age >= acc /\ rest[j].age \in Nat
        BY <2>5, <3>1
      <4>2. e.age <= acc /\ e.age \in Nat
        BY <2>3
      <4>3. QED
        BY <4>1, <4>2 DEF Less
    <3>2. CASE rest[j].tag \in Tags(left, k + 1, n)
      <4>1. PICK i \in k + 1 .. n : rest[j].tag = left[i].tag
        BY <3>2 DEF Tags
      <4>2. i \in 1 .. n /\ Less(left[k], left[i])
        <5>1. i \in 1 .. n /\ k < i
          BY <1>1, <2>1
        <5>2. QED
          BY <1>1, <2>1, <5>1
      <4> DEFINE f == Must!older(left[i], acc)
      <4>3. /\ f.tag = left[i].tag /\ f.age = c[f.tag]
            /\ f.age = IF left[i].age < acc THEN left[i].age + 1 ELSE left[i].age
            /\ left[i].age <= acc /\ left[i] \in Entry
        BY <1>1, <1>3, <4>2
      <4> HIDE DEF f
      <4>4. rest[j].age = f.age
        BY <2>5, <4>1, <4>3
      <4>5. /\ e.age = acc => f.age >= acc
            /\ e.age # acc => e.age < f.age \/ (e.age = f.age /\ left[k].tag < left[i].tag)
        BY ONLY <2>3, <4>2, <4>3, acc \in Int, OlderOrder
      <4>6. QED
        BY <2>3, <4>1, <4>4, <4>5 DEF Less
    <3>3. QED
      BY <2>5, <3>1, <3>2
  <2>8. Holds(Must!shiftRight(e, rest, acc), c, TT(k + 1) \cup {e.tag})
    <3> HIDE DEF TT
    <3>1. Holds(rest, c, TT(k + 1))
      BY <2>2 DEF rest
    <3>2. QED
      BY <2>3, <2>5, <2>6, <2>7, <3>1, MustShift
  <2>9. TT(k) = TT(k + 1) \cup {e.tag}
    <3>1. \A i : i \in k .. n <=> i = k \/ i \in k + 1 .. n
      BY <1>1, <2>1
    <3>2. QED
      BY <2>3, <3>1 DEF Tags
  <2>10. QED
    BY <2>1, <2>4, <2>8, <2>9
<1>7. n \in G
  <2> HIDE DEF G
  <2>1. QED
    BY <1>1, <1>5, <1>6, NatInductionOn
<1>8. Holds(q[1], c, TT(1))
  <2>1. n + 1 - n = 1 /\ n <= n
    BY <1>1
  <2>2. QED
    BY <1>7, <2>1
<1>9. TT(1) = S \cup R
  BY <1>1 DEF Tags
<1>10. QED
  BY <1>4, <1>8, <1>9

\* The accessed line is put in front of the result of the fold.
LEMMA MustAccess ==
    ASSUME NEW left, NEW right, NEW b, NEW c \in [Tag -> Age], NEW S, NEW R, NEW acc \in Int,
           Holds(left, b, S), Holds(right, c, R), S \cap R = {},
           \A u \in S : /\ c[u] = IF b[u] < acc THEN b[u] + 1 ELSE b[u]
                        /\ c[u] <= Assoc - 1 /\ b[u] <= acc,
           \A u \in R : c[u] >= acc,
           NEW t \in Tag, c[t] = 0, \A u \in Tag : u # t => c[u] # 0,
           S \cup R = Below(c, Assoc) \ {t}
    PROVE  MustRep(<<[tag |-> t, age |-> 0]>> \o Must!shiftAll(left, right, acc), c)
<1> DEFINE w == Must!shiftAll(left, right, acc)
           e == [tag |-> t, age |-> 0]
<1>1. Holds(w, c, S \cup R)
  BY MustFoldHolds
<1> HIDE DEF w
<1>2. \A j \in 1 .. Len(w) : /\ w[j].tag \in S \cup R /\ w[j].age = c[w[j].tag]
                             /\ w[j].age \in Nat /\ w[j].tag \in Tag
  BY ONLY <1>1, HoldsFacts
<1>3. e \in Entry /\ e.age = c[e.tag] /\ e.tag = t /\ e.age = 0
  BY AssocAssumption DEF Entry
<1> HIDE DEF e
<1>4. \A j \in 1 .. Len(w) : Less(e, w[j]) /\ e.tag # w[j].tag
  BY <1>2, <1>3 DEF Less
<1>5. Holds(<<e>> \o w, c, (S \cup R) \cup {e.tag})
  BY ONLY <1>1, <1>3, <1>4, HoldsFront
<1>6. (S \cup R) \cup {e.tag} = Below(c, Assoc)
  BY <1>3, AssocAssumption DEF Below
<1>7. QED
  BY <1>5, <1>6 DEF MustRep, e, w

\* update sets the bound of the accessed line to 0, provided no line but the
\* accessed one is left with that bound.
LEMMA MustUpdate ==
    ASSUME NEW v, NEW b, MustRep(v, b), NEW t \in Tag, NEW cl, NEW c, c \in [Tag -> Age], NEW acc,
           acc = IF b[t] = Assoc /\ cl = CL_HIT THEN Assoc - 1 ELSE b[t],
           \A u \in Tag : c[u] = IF u = t THEN 0 ELSE IF b[u] < acc THEN b[u] + 1 ELSE b[u],
           \A u \in Tag : u # t => c[u] # 0
    PROVE  MustRep(Must!update(v, t, cl), c)
<1> DEFINE i == Must!find(v, t)
<1>1. /\ b \in [Tag -> Age] /\ Holds(v, b, Below(b, Assoc))
      /\ \A u \in Tag : b[u] \in Nat /\ b[u] <= Assoc
      /\ Assoc \in Nat /\ Assoc > 0 /\ acc \in Int /\ c[t] = 0
  BY AgeFacts, AssocAssumption DEF MustRep
<1>n. Assoc \in Nat /\ Assoc > 0 /\ acc \in Int /\ c[t] = 0 /\ t \in Tag
  BY <1>1
<1>h. Holds(v, b, Below(b, Assoc))
  BY <1>1
<1>c. \A u \in Tag : u # t => c[u] # 0
  OBVIOUS
<1>0. ASSUME NEW u \in Tag, u # t
      PROVE  /\ c[u] \in Nat /\ b[u] \in Nat /\ b[u] <= Assoc
             /\ c[u] = IF b[u] < acc THEN b[u] + 1 ELSE b[u]
  <2>1. c[u] \in Nat
    BY ONLY c \in [Tag -> Age], u \in Tag, AgeFacts
  <2>2. b[u] \in Nat /\ b[u] <= Assoc
    BY ONLY <1>1, u \in Tag
  <2>3. c[u] = IF b[u] < acc THEN b[u] + 1 ELSE b[u]
    BY <1>0
  <2>4. QED
    BY <2>1, <2>2, <2>3
<1>2. /\ Len(v) \in Nat
      /\ \A k \in 1 .. Len(v) : /\ v[k] \in Entry /\ v[k].tag \in Below(b, Assoc)
                                /\ v[k].age = b[v[k].tag] /\ v[k].age \in Nat
      /\ \A k, j \in 1 .. Len(v) : k < j => Less(v[k], v[j]) /\ v[k].tag # v[j].tag
      /\ \A u \in Below(b, Assoc) : \E k \in 1 .. Len(v) : v[k].tag = u
  BY ONLY <1>1, HoldsFacts
<1>3. /\ i \in 0 .. Len(v) /\ (i > 0 <=> b[t] < Assoc)
      /\ i > 0 => v[i].tag = t /\ v[i].age = b[t]
  BY <1>1, FindFacts, MustMaxAge
<1>4. CASE b[t] < Assoc
  <2> DEFINE S == Tags(v, 1, i - 1)
             R == Tags(v, i + 1, Len(v))
             left == SubSeq(v, 1, i - 1)
             right == SubSeq(v, i + 1, Len(v))
  <2>1. acc = b[t] /\ i \in 1 .. Len(v) /\ v[i].tag = t /\ v[i].age = acc
    BY <1>2, <1>3, <1>4
  <2>2. Must!update(v, t, cl) = <<[tag |-> t, age |-> 0]>> \o Must!shiftAll(left, right, acc)
    BY <2>1 DEF Must!update
  <2>3. Holds(left, b, S)
    BY ONLY <1>h, <1>2, <2>1, HoldsSegment
  <2>4. Holds(right, b, R)
    BY ONLY <1>h, <1>2, <2>1, HoldsSegment
  <2>5. \A u \in S : u \in Tag /\ u # t /\ b[u] <= acc /\ b[u] < Assoc
    <3> SUFFICES ASSUME NEW k \in 1 .. i - 1
                 PROVE  LET u == v[k].tag IN u \in Tag /\ u # t /\ b[u] <= acc /\ b[u] < Assoc
      BY DEF Tags
    <3>1. k \in 1 .. Len(v) /\ k < i
      BY <1>2, <2>1
    <3>2. QED
      BY <1>2, <2>1, <3>1 DEF Less, Below
  <2>6. \A u \in R : u \in Tag /\ u # t /\ acc <= b[u] /\ b[u] < Assoc
    <3> SUFFICES ASSUME NEW k \in i + 1 .. Len(v)
                 PROVE  LET u == v[k].tag IN u \in Tag /\ u # t /\ acc <= b[u] /\ b[u] < Assoc
      BY DEF Tags
    <3>1. k \in 1 .. Len(v) /\ i < k
      BY <1>2, <2>1
    <3>2. QED
      BY <1>2, <2>1, <3>1 DEF Less, Below
  <2>7. S \cap R = {}
    <3> SUFFICES ASSUME NEW k \in 1 .. i - 1, NEW j \in i + 1 .. Len(v) PROVE v[k].tag # v[j].tag
      BY DEF Tags
    <3>1. k \in 1 .. Len(v) /\ j \in 1 .. Len(v) /\ k < j
      BY <1>2, <2>1
    <3>2. QED
      BY <1>2, <3>1
  <2>8. \A u \in Below(b, Assoc) : u # t => u \in S \cup R
    <3> SUFFICES ASSUME NEW k \in 1 .. Len(v), v[k].tag # t PROVE v[k].tag \in S \cup R
      BY <1>2
    <3>1. k \in 1 .. i - 1 \/ k \in i + 1 .. Len(v)
      BY <1>2, <2>1
    <3>2. QED
      BY <3>1 DEF Tags
  <2> HIDE DEF S, R, left, right
  <2>9. ASSUME NEW u \in R PROVE b[u] = c[u] /\ acc <= c[u]
    <3>1. u \in Tag /\ u # t /\ acc <= b[u]
      BY <2>6
    <3>2. QED
      BY ONLY <1>n, <1>0, <3>1
  <2>10. Holds(right, c, R)
    BY <2>4, <2>9, HoldsSame
  <2>11. ASSUME NEW u \in S
         PROVE  /\ c[u] = IF b[u] < acc THEN b[u] + 1 ELSE b[u]
                /\ c[u] <= Assoc - 1 /\ b[u] <= acc
    <3>1. u \in Tag /\ u # t /\ b[u] <= acc /\ b[u] < Assoc
      BY <2>5
    <3>2. acc <= Assoc - 1
      BY ONLY <1>n, <1>4, <2>1
    <3>3. QED
      BY ONLY <1>n, <1>0, <3>1, <3>2
  <2>12. S \cup R = Below(c, Assoc) \ {t}
    <3>1. ASSUME NEW u \in S \cup R PROVE u \in Tag /\ u # t /\ c[u] < Assoc
      <4>1. u \in Tag /\ u # t /\ b[u] < Assoc /\ (u \in R => b[u] = c[u])
              /\ (u \in S => c[u] <= Assoc - 1)
        BY <2>5, <2>6, <2>9, <2>11
      <4>2. QED
        BY ONLY <1>n, <1>0, <4>1, u \in S \cup R
    <3>2. ASSUME NEW u \in Below(c, Assoc), u # t PROVE u \in Below(b, Assoc)
      BY ONLY <1>n, <1>0, <3>2 DEF Below
    <3>3. QED
      BY <2>8, <3>1, <3>2 DEF Below
  <2>13. QED
    BY ONLY <1>n, <1>c, <2>2, <2>3, <2>7, <2>9, <2>10, <2>11, <2>12, c \in [Tag -> Age],
            MustAccess
<1>5. CASE b[t] = Assoc /\ cl = CL_HIT
  <2>0. acc = Assoc - 1
    BY <1>1, <1>5
  <2>1. Must!update(v, t, cl) = <<[tag |-> t, age |-> 0]>> \o Must!shiftAll(v, <<>>, acc)
    BY <1>1, <1>3, <1>5 DEF Must!update, Must!CL_HIT, CL_HIT
  <2>2. Holds(<<>>, c, {})
    BY HoldsEmpty
  <2>3. ASSUME NEW u \in Below(b, Assoc)
        PROVE  /\ c[u] = IF b[u] < acc THEN b[u] + 1 ELSE b[u]
               /\ c[u] <= Assoc - 1 /\ b[u] <= acc
    <3>1. u \in Tag /\ u # t /\ b[u] < Assoc /\ (acc = Assoc => b[u] < Assoc - 1)
      BY ONLY <1>n, <1>5, <2>0, u \in Below(b, Assoc), <1>0 DEF Below
    <3>2. QED
      BY ONLY <1>n, <1>0, <2>0, <3>1
  <2>4. Below(b, Assoc) \cup {} = Below(c, Assoc) \ {t}
    <3>1. ASSUME NEW u \in Below(c, Assoc), u # t PROVE u \in Below(b, Assoc)
      BY ONLY <1>n, <1>0, <2>0, <3>1 DEF Below
    <3>2. ASSUME NEW u \in Below(b, Assoc) PROVE u \in Tag /\ c[u] < Assoc /\ u # t
      BY ONLY <1>n, <1>5, <2>0, <2>3, u \in Below(b, Assoc), <1>0 DEF Below
    <3>3. QED
      BY <3>1, <3>2 DEF Below
  <2>5. QED
    BY ONLY <1>n, <1>h, <1>c, <2>1, <2>2, <2>3, <2>4, Below(b, Assoc) \cap {} = {}, MustAccess, c \in [Tag -> Age]
<1>6. CASE b[t] = Assoc /\ cl # CL_HIT
  <2>0. acc = Assoc
    BY <1>1, <1>6
  <2>1. Must!update(v, t, cl)
          = <<[tag |-> t, age |-> 0]>> \o Must!shiftAll(Must!dropOldest(v), <<>>, acc)
    BY <1>1, <1>3, <1>6 DEF Must!update, Must!CL_HIT, CL_HIT
  <2>2. Holds(<<>>, c, {}) /\ Holds(Must!dropOldest(v), b, Below(b, Assoc - 1))
    BY HoldsEmpty, MustDrop
  <2>3. ASSUME NEW u \in Below(b, Assoc - 1)
        PROVE  /\ c[u] = IF b[u] < acc THEN b[u] + 1 ELSE b[u]
               /\ c[u] <= Assoc - 1 /\ b[u] <= acc
    <3>1. u \in Tag /\ u # t /\ b[u] < Assoc /\ (acc = Assoc => b[u] < Assoc - 1)
      BY ONLY <1>n, <1>6, <2>0, u \in Below(b, Assoc - 1), <1>0 DEF Below
    <3>2. QED
      BY ONLY <1>n, <1>0, <2>0, <3>1
  <2>4. Below(b, Assoc - 1) \cup {} = Below(c, Assoc) \ {t}
    <3>1. ASSUME NEW u \in Below(c, Assoc), u # t PROVE u \in Below(b, Assoc - 1)
      BY ONLY <1>n, <1>0, <2>0, <3>1 DEF Below
    <3>2. ASSUME NEW u \in Below(b, Assoc - 1) PROVE u \in Tag /\ c[u] < Assoc /\ u # t
      BY ONLY <1>n, <1>6, <2>0, <2>3, u \in Below(b, Assoc - 1), <1>0 DEF Below
    <3>3. QED
      BY <3>1, <3>2 DEF Below
  <2>5. QED
    BY ONLY <1>n, <1>h, <1>c, <2>1, <2>2, <2>3, <2>4, Below(b, Assoc - 1) \cap {} = {}, MustAccess, c \in [Tag -> Age]
<1>7. QED
  BY <1>1, <1>4, <1>5, <1>6

-----------------------------------------------------------------------------
(* The join of two must vectors.                                           *)

\* An entry behind all others.
LEMMA HoldsBack ==
    ASSUME NEW w, NEW b, NEW T, Holds(w, b, T), NEW e \in Entry, e.age = b[e.tag],
           \A j \in 1 .. Len(w) : Less(w[j], e) /\ w[j].tag # e.tag
    PROVE  Holds(w \o <<e>>, b, T \cup {e.tag})
<1> DEFINE u == <<e>>
<1>1. Holds(u, b, {e.tag}) /\ Len(u) = 1 /\ u[1] = e
  BY HoldsOne
<1> HIDE DEF u
<1>2. \A i \in 1 .. Len(w), j \in 1 .. Len(u) : Less(w[i], u[j]) /\ w[i].tag # u[j].tag
  <2> SUFFICES ASSUME NEW i \in 1 .. Len(w), NEW j \in 1 .. Len(u)
               PROVE  Less(w[i], u[j]) /\ w[i].tag # u[j].tag
    OBVIOUS
  <2>1. u[j] = e
    BY <1>1
  <2>2. QED
    BY <2>1
<1>3. QED
  BY <1>1, <1>2, HoldsConcat DEF u

\* The entry e is behind f, or says the same.
NotBefore(f, e) == Less(f, e) \/ (f.age = e.age /\ f.tag = e.tag)

\* c has the greater of the bounds b and d for the lines U.
GreaterOf(c, b, d, U) == \A u \in U : c[u] >= b[u] /\ c[u] >= d[u] /\ c[u] \in {b[u], d[u]}

\* One step of the merge: the i-th entry of x follows what the first i - 1
\* entries of x and the first j of y have in common.
LEMMA MustJoinStep ==
    ASSUME NEW x, NEW y, NEW bx, NEW by, NEW S, NEW T, Holds(x, bx, S), Holds(y, by, T), NEW c,
           GreaterOf(c, bx, by, S \cap T),
           NEW i \in 1 .. Len(x), NEW j \in 0 .. Len(y), j > 0 => NotBefore(y[j], x[i]),
           NEW w, Holds(w, c, Tags(x, 1, i - 1) \cap Tags(y, 1, j))
    PROVE  Holds(w \o (IF \E k \in 1 .. j : y[k].tag = x[i].tag THEN <<x[i]>> ELSE <<>>), c,
                 Tags(x, 1, i) \cap Tags(y, 1, j))
<1> DEFINE K == Tags(x, 1, i - 1) \cap Tags(y, 1, j)
           e == x[i]
<1>1. /\ Len(x) \in Nat
      /\ \A k \in 1 .. Len(x) : /\ x[k] \in Entry /\ x[k].tag \in S /\ x[k].age = bx[x[k].tag]
                                /\ x[k].age \in Nat /\ x[k].tag \in Nat
      /\ \A k, l \in 1 .. Len(x) : k < l => Less(x[k], x[l]) /\ x[k].tag # x[l].tag
  BY ONLY Holds(x, bx, S), HoldsFacts
<1>2. /\ Len(y) \in Nat
      /\ \A k \in 1 .. Len(y) : /\ y[k] \in Entry /\ y[k].tag \in T /\ y[k].age = by[y[k].tag]
                                /\ y[k].age \in Nat /\ y[k].tag \in Nat
      /\ \A k, l \in 1 .. Len(y) : k < l => Less(y[k], y[l]) /\ y[k].tag # y[l].tag
  BY ONLY Holds(y, by, T), HoldsFacts
<1>3. /\ w \in Seq(Entry) /\ Len(w) \in Nat
      /\ \A k \in 1 .. Len(w) : w[k] \in Entry /\ w[k].tag \in K /\ w[k].age = c[w[k].tag]
  BY ONLY Holds(w, c, K), HoldsFacts
<1>4. Tags(x, 1, i) = Tags(x, 1, i - 1) \cup {e.tag}
  <2>1. \A k : k \in 1 .. i <=> k = i \/ k \in 1 .. i - 1
    BY <1>1
  <2>2. QED
    BY <2>1 DEF Tags
<1>5. CASE \E k \in 1 .. j : y[k].tag = e.tag
  <2>1. PICK k \in 1 .. j : y[k].tag = e.tag
    BY <1>5
  <2>2. k \in 1 .. Len(y) /\ j \in 1 .. Len(y)
    BY <1>2
  <2>3. \A f \in Entry : NotBefore(f, y[j]) => NotBefore(f, e)
    <3> SUFFICES ASSUME NEW f \in Entry, NotBefore(f, y[j]) PROVE NotBefore(f, e)
      OBVIOUS
    <3>1. NotBefore(y[j], e) /\ y[j] \in Entry /\ e \in Entry
      BY <1>1, <1>2, <2>2
    <3>2. QED
      BY ONLY <3>1, NotBefore(f, y[j]), f \in Entry, EntryFacts DEF NotBefore, Less
  <2>4. \A l \in 1 .. j : NotBefore(y[l], e)
    <3> SUFFICES ASSUME NEW l \in 1 .. j PROVE NotBefore(y[l], e)
      OBVIOUS
    <3>1. l \in 1 .. Len(y) /\ y[l] \in Entry
      BY <1>2
    <3>2. NotBefore(y[l], y[j])
      BY <1>2, <2>2, <3>1 DEF NotBefore
    <3>3. QED
      BY <2>3, <3>1, <3>2
  <2>5. e.age = c[e.tag]
    <3>1. e.tag \in S \cap T /\ e.age = bx[e.tag] /\ y[k].age = by[e.tag]
            /\ e.age \in Nat /\ y[k].age \in Nat
      BY <1>1, <1>2, <2>1, <2>2
    <3>2. y[k].age <= e.age
      BY <2>1, <2>4, <3>1 DEF NotBefore, Less
    <3>3. c[e.tag] >= bx[e.tag] /\ c[e.tag] >= by[e.tag] /\ c[e.tag] \in {bx[e.tag], by[e.tag]}
      BY <3>1 DEF GreaterOf
    <3>4. QED
      BY ONLY <3>1, <3>2, <3>3
  <2>6. ASSUME NEW l \in 1 .. Len(w) PROVE Less(w[l], e) /\ w[l].tag # e.tag
    <3> DEFINE f == w[l]
               u == f.tag
    <3>1. f \in Entry /\ u \in K /\ f.age = c[u]
      BY <1>3
    <3>2. PICK p \in 1 .. i - 1 : x[p].tag = u
      BY <3>1 DEF Tags
    <3>3. PICK q \in 1 .. j : y[q].tag = u
      BY <3>1 DEF Tags
    <3>4. p \in 1 .. Len(x) /\ p < i /\ q \in 1 .. Len(y)
      BY <1>1, <1>2
    <3>5. Less(x[p], e) /\ u # e.tag
      BY <1>1, <3>2, <3>4
    <3>6. NotBefore(y[q], e)
      BY <2>4
    <3>7. u \in S \cap T /\ bx[u] = x[p].age /\ by[u] = y[q].age
      BY <1>1, <1>2, <3>2, <3>3, <3>4
    <3>8. f.age \in {x[p].age, y[q].age}
      BY <3>1, <3>7 DEF GreaterOf
    <3>9. QED
      BY <3>2, <3>3, <3>5, <3>6, <3>8 DEF NotBefore, Less
  <2>7. Holds(w \o <<e>>, c, K \cup {e.tag})
    BY <1>1, <2>5, <2>6, HoldsBack
  <2>8. K \cup {e.tag} = Tags(x, 1, i) \cap Tags(y, 1, j)
    BY <1>4, <2>1 DEF Tags
  <2>9. QED
    BY <1>5, <2>7, <2>8
<1>6. CASE ~ \E k \in 1 .. j : y[k].tag = e.tag
  <2>1. K = Tags(x, 1, i) \cap Tags(y, 1, j)
    BY <1>4, <1>6 DEF Tags
  <2>2. w \o <<>> = w
    BY <1>3
  <2>3. QED
    BY <1>6, <2>1, <2>2
<1>7. QED
  BY <1>5, <1>6

\* join takes the greater bound of both vectors.
LEMMA MustJoin ==
    ASSUME NEW x, NEW bx, MustRep(x, bx), NEW y, NEW by, MustRep(y, by), NEW c, c \in [Tag -> Age],
           \A u \in Tag : c[u] = IF by[u] <= bx[u] THEN bx[u] ELSE by[u]
    PROVE  MustRep(Must!join(x, y), c)
<1> DEFINE D == (0 .. Len(x)) \X (0 .. Len(y))
           V == Seq(Entry)
           xGreater(i, j) == /\ i > 0
                             /\ \/ j = 0
                                \/ x[i].age > y[j].age
                                \/ x[i].age = y[j].age /\ x[i].tag >= y[j].tag
           xs(i, j) == IF \E k \in 1 .. j : y[k].tag = x[i].tag THEN <<x[i]>> ELSE <<>>
           ys(i, j) == IF \E k \in 1 .. i : x[k].tag = y[j].tag THEN <<y[j]>> ELSE <<>>
           Is(o) == o = [left \in D |->
                           IF left[1] = 0 /\ left[2] = 0 THEN <<>>
                           ELSE IF xGreater(left[1], left[2])
                           THEN o[<<left[1] - 1, left[2]>>] \o xs(left[1], left[2])
                           ELSE o[<<left[1], left[2] - 1>>] \o ys(left[1], left[2])]
           S == Below(bx, Assoc)
           T == Below(by, Assoc)
<1>1. Must!join(x, y) = (CHOOSE o : Is(o))[<<Len(x), Len(y)>>]
  BY DEF Must!join
<1>2. /\ Len(x) \in Nat
      /\ \A k \in 1 .. Len(x) : /\ x[k] \in Entry /\ x[k].age \in Nat /\ x[k].tag \in Nat
                                /\ x[k].tag \in S
      /\ \A u \in S : \E k \in 1 .. Len(x) : x[k].tag = u
  BY ONLY MustRep(x, bx), HoldsFacts DEF MustRep
<1>3. /\ Len(y) \in Nat
      /\ \A k \in 1 .. Len(y) : /\ y[k] \in Entry /\ y[k].age \in Nat /\ y[k].tag \in Nat
                                /\ y[k].tag \in T
      /\ \A u \in T : \E k \in 1 .. Len(y) : y[k].tag = u
  BY ONLY MustRep(y, by), HoldsFacts DEF MustRep
<1>4. ASSUME NEW i \in 0 .. Len(x), NEW j \in 0 .. Len(y)
      PROVE  /\ xGreater(i, j) => i > 0 /\ xs(i, j) \in V
             /\ ~ xGreater(i, j) /\ i + j > 0 => j > 0 /\ ys(i, j) \in V
             /\ xGreater(i, j) /\ j > 0 => NotBefore(y[j], x[i])
             /\ ~ xGreater(i, j) /\ i > 0 /\ j > 0 => NotBefore(x[i], y[j])
  <2>1. <<>> \in V /\ \A e \in Entry : <<e>> \in V
    OBVIOUS
  <2>2. i > 0 => i \in 1 .. Len(x)
    OBVIOUS
  <2>3. j > 0 => j \in 1 .. Len(y)
    OBVIOUS
  <2>4. i > 0 => x[i] \in Entry /\ x[i].age \in Nat /\ x[i].tag \in Nat
    BY <1>2, <2>2
  <2>5. j > 0 => y[j] \in Entry /\ y[j].age \in Nat /\ y[j].tag \in Nat
    BY <1>3, <2>3
  <2> HIDE DEF V
  <2>6. QED
    BY ONLY <2>1, <2>4, <2>5, i \in 0 .. Len(x), j \in 0 .. Len(y), <1>2, <1>3 DEF NotBefore, Less, xGreater, xs, ys
<1>5. \E o : Is(o)
  <2> DEFINE rank == [d \in D |-> d[1] + d[2]]
             pred == [d \in D |-> IF xGreater(d[1], d[2]) THEN <<d[1] - 1, d[2]>>
                                  ELSE <<d[1], d[2] - 1>>]
             step == [z \in D \X V |-> IF rank[z[1]] = 0 THEN <<>>
                                       ELSE IF xGreater(z[1][1], z[1][2])
                                       THEN z[2] \o xs(z[1][1], z[1][2])
                                       ELSE z[2] \o ys(z[1][1], z[1][2])]
             max == Len(x) + Len(y)
  <2>1. \A v, w \in V : v \o w \in V
    OBVIOUS
  <2>2. <<>> \in V
    OBVIOUS
  <2> HIDE DEF V, xGreater, xs, ys
  <2>3. \A d \in D : /\ d[1] \in 0 .. Len(x) /\ d[2] \in 0 .. Len(y) /\ d = <<d[1], d[2]>>
                     /\ rank[d] = d[1] + d[2] /\ rank[d] \in Nat /\ rank[d] <= max
    BY <1>2, <1>3
  <2>4. rank \in [D -> Nat] /\ max \in Nat
    BY <1>2, <1>3
  <2>5. \A d \in D : rank[d] > 0 => pred[d] \in D /\ rank[pred[d]] < rank[d]
    <3> SUFFICES ASSUME NEW d \in D, rank[d] > 0
                 PROVE  pred[d] \in D /\ rank[pred[d]] < rank[d]
      OBVIOUS
    <3>1. d[1] \in 0 .. Len(x) /\ d[2] \in 0 .. Len(y) /\ rank[d] = d[1] + d[2]
      BY <2>3
    <3>2. CASE xGreater(d[1], d[2])
      <4>1. d[1] > 0 /\ pred[d] = <<d[1] - 1, d[2]>>
        BY <1>4, <3>1, <3>2
      <4>2. <<d[1] - 1, d[2]>> \in D /\ rank[<<d[1] - 1, d[2]>>] = d[1] - 1 + d[2]
        BY <1>2, <1>3, <3>1, <4>1
      <4> HIDE DEF D, rank, pred
      <4>3. QED
        BY <3>1, <4>1, <4>2
    <3>3. CASE ~ xGreater(d[1], d[2])
      <4>1. d[2] > 0 /\ pred[d] = <<d[1], d[2] - 1>>
        BY <1>4, <3>1, <3>3
      <4>2. <<d[1], d[2] - 1>> \in D /\ rank[<<d[1], d[2] - 1>>] = d[1] + (d[2] - 1)
        BY <1>2, <1>3, <3>1, <4>1
      <4> HIDE DEF D, rank, pred
      <4>3. QED
        BY <3>1, <4>1, <4>2
    <3>4. QED
      BY <3>2, <3>3
  <2>6. step \in [D \X V -> V]
    <3>1. ASSUME NEW d \in D, NEW w \in V
          PROVE  (IF rank[d] = 0 THEN <<>>
                  ELSE IF xGreater(d[1], d[2]) THEN w \o xs(d[1], d[2])
                  ELSE w \o ys(d[1], d[2])) \in V
      <4>1. d[1] \in 0 .. Len(x) /\ d[2] \in 0 .. Len(y) /\ rank[d] = d[1] + d[2]
              /\ rank[d] \in Nat
        BY <2>3
      <4> HIDE DEF rank, D
      <4>2. rank[d] = 0 \/ d[1] + d[2] > 0
        BY <4>1
      <4>3. QED
        BY <1>4, <2>1, <2>2, <4>1, <4>2
    <3> HIDE DEF rank, D
    <3>2. QED
      BY <3>1
  <2>7. PICK g : IsRecursive(g, D, V, <<>>, rank, pred, step)
    <3> HIDE DEF rank, pred, step, D, max
    <3>1. QED
      BY <2>2, <2>3, <2>4, <2>5, <2>6, RecursionExists
  <2>8. g \in [D -> V] /\ \A d \in D : g[d] = IF rank[d] = 0 THEN <<>> ELSE step[<<d, g[pred[d]]>>]
    <3> HIDE DEF rank, pred, step, D
    <3>1. QED
      BY <2>7 DEF IsRecursive
  <2>9. ASSUME NEW d \in D
        PROVE  g[d] = IF d[1] = 0 /\ d[2] = 0 THEN <<>>
                      ELSE IF xGreater(d[1], d[2]) THEN g[<<d[1] - 1, d[2]>>] \o xs(d[1], d[2])
                      ELSE g[<<d[1], d[2] - 1>>] \o ys(d[1], d[2])
    <3>1. d[1] \in Nat /\ d[2] \in Nat /\ rank[d] = d[1] + d[2]
      BY <2>3
    <3>2. CASE d[1] = 0 /\ d[2] = 0
      <4>1. rank[d] = 0
        BY <3>1, <3>2
      <4> HIDE DEF rank, D, step
      <4>2. QED
        BY <2>8, <3>2, <4>1
    <3>3. CASE ~ (d[1] = 0 /\ d[2] = 0)
      <4>1. rank[d] # 0 /\ rank[d] > 0
        BY <3>1, <3>3
      <4>2. pred[d] = IF xGreater(d[1], d[2]) THEN <<d[1] - 1, d[2]>> ELSE <<d[1], d[2] - 1>>
        OBVIOUS
      <4> DEFINE p == pred[d]
                 z == <<d, g[p]>>
      <4>3. z \in D \X V /\ z[1] = d /\ z[2] = g[p]
        <5>1. p \in D
          BY <2>5, <4>1
        <5> HIDE DEF D, p, rank, step
        <5>2. QED
          BY <2>8, <5>1
      <4>4. step[z] = IF xGreater(d[1], d[2]) THEN g[p] \o xs(d[1], d[2])
                      ELSE g[p] \o ys(d[1], d[2])
        <5> HIDE DEF z, p, rank, D
        <5>1. QED
          BY <4>1, <4>3
      <4>5. g[d] = step[z]
        <5> HIDE DEF step, rank, D, pred
        <5>1. QED
          BY <2>8, <4>1
      <4> HIDE DEF D, rank, step, pred
      <4>6. QED
        BY <3>3, <4>2, <4>4, <4>5 DEF p
    <3>4. QED
      BY <3>2, <3>3
  <2>10. Is(g)
    <3> HIDE DEF D
    <3>1. QED
      BY <2>8, <2>9
  <2>11. QED
    BY <2>10
<1>6. PICK o : Is(o) /\ Must!join(x, y) = o[<<Len(x), Len(y)>>]
  BY <1>1, <1>5
<1>7. /\ o[<<0, 0>>] = <<>>
      /\ \A i \in 0 .. Len(x), j \in 0 .. Len(y) :
            i + j > 0 => o[<<i, j>>] = IF xGreater(i, j) THEN o[<<i - 1, j>>] \o xs(i, j)
                                       ELSE o[<<i, j - 1>>] \o ys(i, j)
  <2> HIDE DEF xGreater, xs, ys
  <2>1. \A d \in D : o[d] = IF d[1] = 0 /\ d[2] = 0 THEN <<>>
                            ELSE IF xGreater(d[1], d[2]) THEN o[<<d[1] - 1, d[2]>>] \o xs(d[1], d[2])
                            ELSE o[<<d[1], d[2] - 1>>] \o ys(d[1], d[2])
    <3> HIDE DEF D
    <3>1. QED
      BY <1>6
  <2>2. <<0, 0>> \in D
    BY <1>2, <1>3
  <2>3. ASSUME NEW i \in 0 .. Len(x), NEW j \in 0 .. Len(y), i + j > 0
        PROVE  o[<<i, j>>] = IF xGreater(i, j) THEN o[<<i - 1, j>>] \o xs(i, j)
                             ELSE o[<<i, j - 1>>] \o ys(i, j)
    <3>1. <<i, j>> \in D /\ ~ (i = 0 /\ j = 0)
      BY <2>3
    <3> HIDE DEF D
    <3>2. QED
      BY <2>1, <3>1
  <2> HIDE DEF D
  <2>4. QED
    BY <2>1, <2>2, <2>3
<1> HIDE DEF D, Is
<1> DEFINE Good(i, j) == Holds(o[<<i, j>>], c, Tags(x, 1, i) \cap Tags(y, 1, j))
           G == {n \in Nat : \A i \in 0 .. Len(x), j \in 0 .. Len(y) : i + j = n => Good(i, j)}
<1>8. 0 \in G
  <2>1. \A i \in 0 .. Len(x), j \in 0 .. Len(y) : i + j = 0 => i = 0 /\ j = 0
    BY <1>2, <1>3
  <2>2. Tags(x, 1, 0) \cap Tags(y, 1, 0) = {}
    BY DEF Tags
  <2>3. Good(0, 0)
    BY <1>7, <2>2, HoldsEmpty
  <2> HIDE DEF Good
  <2>4. QED
    BY <2>1, <2>3
<1>9. ASSUME NEW n \in Nat, n \in G PROVE n + 1 \in G
  <2> SUFFICES ASSUME NEW i \in 0 .. Len(x), NEW j \in 0 .. Len(y), i + j = n + 1
               PROVE  Good(i, j)
    <3> HIDE DEF Good
    <3>1. QED
      OBVIOUS
  <2>1. i + j > 0
    BY <1>2, <1>3
  <2>2. /\ Holds(x, bx, S) /\ Holds(y, by, T)
        /\ GreaterOf(c, bx, by, S \cap T) /\ GreaterOf(c, by, bx, T \cap S)
    <3>1. Holds(x, bx, S) /\ Holds(y, by, T)
      BY DEF MustRep
    <3>2. ASSUME NEW u \in S \cap T
          PROVE  c[u] >= bx[u] /\ c[u] >= by[u] /\ c[u] \in {bx[u], by[u]}
      <4>1. u \in Tag
        BY DEF Below
      <4>2. bx[u] \in Nat /\ by[u] \in Nat /\ c[u] = IF by[u] <= bx[u] THEN bx[u] ELSE by[u]
        BY <4>1, AgeFacts DEF MustRep
      <4>3. QED
        BY ONLY <4>2
    <3>3. QED
      BY <3>1, <3>2 DEF GreaterOf
  <2>3. CASE xGreater(i, j)
    <3>1. i \in 1 .. Len(x) /\ i - 1 \in 0 .. Len(x) /\ (i - 1) + j = n
      BY <1>2, <1>3, <1>4, <2>3
    <3>2. Good(i - 1, j)
      <4> HIDE DEF Good
      <4>1. QED
        BY <1>9, <3>1
    <3>3. j > 0 => NotBefore(y[j], x[i])
      BY <1>4, <2>3
    <3>4. o[<<i, j>>] = o[<<i - 1, j>>] \o xs(i, j)
      <4> HIDE DEF xGreater, xs, ys
      <4>1. QED
        BY <1>7, <2>1, <2>3
    <3> DEFINE w == o[<<i - 1, j>>]
    <3> HIDE DEF w
    <3>5. Holds(w, c, Tags(x, 1, i - 1) \cap Tags(y, 1, j))
      BY <3>2 DEF w
    <3>6. Holds(w \o xs(i, j), c, Tags(x, 1, i) \cap Tags(y, 1, j))
      <4> HIDE DEF S, T
      <4>1. QED
        BY ONLY <2>2, <3>1, <3>3, <3>5, MustJoinStep, j \in 0 .. Len(y), Zenon
    <3>7. QED
      BY <3>4, <3>6 DEF w
  <2>4. CASE ~ xGreater(i, j)
    <3>1. j \in 1 .. Len(y) /\ j - 1 \in 0 .. Len(y) /\ i + (j - 1) = n
      BY <1>2, <1>3, <1>4, <2>1, <2>4
    <3>2. Good(i, j - 1)
      <4> HIDE DEF Good
      <4>1. QED
        BY <1>9, <3>1
    <3>3. i > 0 => NotBefore(x[i], y[j])
      <4>1. j > 0
        BY <3>1
      <4>2. QED
        BY <1>4, <2>4, <4>1
    <3>4. o[<<i, j>>] = o[<<i, j - 1>>] \o ys(i, j)
      <4> HIDE DEF xGreater, xs, ys
      <4>1. QED
        BY <1>7, <2>1, <2>4
    <3> DEFINE w == o[<<i, j - 1>>]
    <3> HIDE DEF w
    <3>5. Holds(w, c, Tags(y, 1, j - 1) \cap Tags(x, 1, i))
      <4>1. Tags(y, 1, j - 1) \cap Tags(x, 1, i) = Tags(x, 1, i) \cap Tags(y, 1, j - 1)
        OBVIOUS
      <4>2. QED
        BY <3>2, <4>1 DEF w
    <3>6. Holds(w \o ys(i, j), c, Tags(y, 1, j) \cap Tags(x, 1, i))
      <4> HIDE DEF S, T
      <4>1. QED
        BY ONLY <2>2, <3>1, <3>3, <3>5, MustJoinStep, i \in 0 .. Len(x), Zenon
    <3>7. Tags(y, 1, j) \cap Tags(x, 1, i) = Tags(x, 1, i) \cap Tags(y, 1, j)
      OBVIOUS
    <3>8. QED
      BY <3>4, <3>6, <3>7 DEF w
  <2>5. QED
    BY <2>3, <2>4
<1>10. Good(Len(x), Len(y))
  <2> HIDE DEF Good
  <2>1. Nat \subseteq G
    <3> HIDE DEF G
    <3>1. QED
      BY <1>8, <1>9, NatInductionOn
  <2>2. Len(x) + Len(y) \in Nat /\ Len(x) \in 0 .. Len(x) /\ Len(y) \in 0 .. Len(y)
    BY <1>2, <1>3
  <2>3. Len(x) + Len(y) \in G
    <3> HIDE DEF G
    <3>1. QED
      BY <2>1, <2>2
  <2>4. QED
    BY <2>2, <2>3
<1>11. Tags(x, 1, Len(x)) \cap Tags(y, 1, Len(y)) = Below(c, Assoc)
  <2>1. Tags(x, 1, Len(x)) = S
    BY <1>2 DEF Tags
  <2>2. Tags(y, 1, Len(y)) = T
    BY <1>3 DEF Tags
  <2>3. \A u \in Tag : c[u] < Assoc <=> bx[u] < Assoc /\ by[u] < Assoc
    <3> SUFFICES ASSUME NEW u \in Tag PROVE c[u] < Assoc <=> bx[u] < Assoc /\ by[u] < Assoc
      OBVIOUS
    <3>1. bx[u] \in Nat /\ by[u] \in Nat /\ Assoc \in Nat
            /\ c[u] = IF by[u] <= bx[u] THEN bx[u] ELSE by[u]
      BY AgeFacts DEF MustRep
    <3>2. QED
      BY ONLY <3>1
  <2>4. QED
    BY <2>1, <2>2, <2>3 DEF Below
<1>12. QED
  BY <1>6, <1>10, <1>11 DEF MustRep

-----------------------------------------------------------------------------
(* The may analysis.                                                       *)

\* mergeInto puts an entry of age a into its place among entries of age a or
\* more.
LEMMA MayMerge ==
    ASSUME NEW e \in Entry, NEW rest \in Seq(Entry), NEW a \in Int
    PROVE  /\ May!mergeInto(e, rest, a) \in Seq(Entry)
           /\ \A c, T :
                /\ Holds(rest, c, T) /\ e.age = c[e.tag] /\ e.tag \notin T
                /\ e.age = a /\ \A j \in 1 .. Len(rest) : rest[j].age >= a
                => Holds(May!mergeInto(e, rest, a), c, T \cup {e.tag})
<1> DEFINE L == Len(rest)
           P == {j \in 1 .. L : rest[j].age <= a /\ rest[j].tag < e.tag}
           Ok(k) == /\ \A j \in 1 .. k : rest[j].age <= a /\ rest[j].tag < e.tag
                    /\ k < L => ~ (rest[k + 1].age <= a /\ rest[k + 1].tag < e.tag)
           n == CHOOSE k \in 0 .. L : Ok(k)
<1>1. May!mergeInto(e, rest, a) = May!InsertAt(rest, n + 1, e)
  BY DEF May!mergeInto
<1>2. L \in Nat /\ \A j \in 1 .. L : rest[j] \in Entry
  OBVIOUS
<1>3. \E k \in 0 .. L : Ok(k)
  <2>1. PICK k \in 0 .. L : (\A j \in 1 .. k : j \in P) /\ (k < L => k + 1 \notin P)
    <3> HIDE DEF P, L
    <3>1. QED
      BY <1>2, LeadingFacts
  <2>2. k < L => k + 1 \in 1 .. L
    BY <1>2
  <2>3. Ok(k)
    BY <2>1, <2>2
  <2>4. QED
    BY <2>3
<1>4. n \in 0 .. L /\ Ok(n)
  <2> HIDE DEF Ok
  <2>1. QED
    BY <1>2, <1>3
<1> HIDE DEF n
<1>5. May!mergeInto(e, rest, a) \in Seq(Entry)
  BY <1>1, <1>4, InsertType
<1>6. ASSUME NEW c, NEW T, Holds(rest, c, T), e.age = c[e.tag], e.tag \notin T,
             e.age = a, \A j \in 1 .. L : rest[j].age >= a
      PROVE  Holds(May!mergeInto(e, rest, a), c, T \cup {e.tag})
  <2>1. \A j \in 1 .. L : /\ rest[j].tag \in T /\ rest[j].tag \in Nat /\ rest[j].age \in Nat
                          /\ rest[j].tag # e.tag
    BY <1>6, HoldsFacts
  <2>2. e.tag \in Nat /\ e.age \in Nat
    BY EntryFacts
  <2>3. \A j \in 1 .. n : Less(rest[j], e)
    BY <1>2, <1>4, <1>6, <2>1, <2>2 DEF Less
  <2>4. ASSUME NEW j \in n + 1 .. L PROVE Less(e, rest[j])
    <3>0. j \in 1 .. L
      BY <1>2, <1>4
    <3>1. n + 1 \in 1 .. L /\ Less(e, rest[n + 1])
      <4>1. n < L /\ n + 1 \in 1 .. L
        BY <1>2, <1>4
      <4>2. QED
        BY <1>4, <1>6, <2>1, <2>2, <4>1 DEF Less
    <3>2. CASE j = n + 1
      BY <3>1, <3>2
    <3>3. CASE j > n + 1
      <4>1. Less(rest[n + 1], rest[j])
        BY <1>6, <3>0, <3>1, <3>3, HoldsFacts
      <4>2. QED
        BY <1>2, <3>0, <3>1, <4>1, LessFacts
    <3>4. QED
      BY <1>2, <1>4, <3>2, <3>3
  <2>5. n \in 0 .. L
    BY <1>4
  <2>6. Holds(rest, c, T) /\ e.age = c[e.tag] /\ e.tag \notin T
    BY <1>6
  <2>7. Holds(May!InsertAt(rest, n + 1, e), c, T \cup {e.tag})
    BY ONLY <2>3, <2>4, <2>5, <2>6, e \in Entry, HoldsInsert
  <2>8. QED
    BY ONLY <1>1, <2>7
<1>7. QED
  BY <1>5, <1>6

\* The partial results of the fold in mergeAll: q[k] has taken in the entries
\* k .. n of left.
IsMerging(q, left, right, a) ==
    /\ q[Len(left) + 1] = right
    /\ \A k \in 1 .. Len(left) : q[k] = May!mergeInto(left[k], q[k + 1], a)

LEMMA MayFold ==
    ASSUME NEW left \in Seq(Entry), NEW right \in Seq(Entry), NEW a \in Int
    PROVE  \E q : /\ IsMerging(q, left, right, a)
                  /\ May!mergeAll(left, right, a) = q[1]
<1> DEFINE n == Len(left)
           S == 1 .. n
           V == Seq(Entry)
           mn(s) == CHOOSE x \in s : \A y \in s : x =< y
           op(k, r) == May!mergeInto(left[k], r, a)
           pick == [s \in (SUBSET S) \ {{}} |-> mn(s)]
           step == [z \in S \X V |-> op(z[1], z[2])]
           Is(g) == g = [s \in SUBSET S |-> IF s = {} THEN right ELSE op(mn(s), g[s \ {mn(s)}])]
<1>0. n \in Nat /\ DOMAIN left = S /\ IsFiniteSet(S)
  BY FS_Interval
<1>1. \A s \in (SUBSET S) \ {{}} : mn(s) \in s /\ \A y \in s : mn(s) <= y
  <2> SUFFICES ASSUME NEW s \in (SUBSET S) \ {{}} PROVE mn(s) \in s /\ \A y \in s : mn(s) <= y
    OBVIOUS
  <2>1. s \subseteq Nat /\ s # {}
    OBVIOUS
  <2>2. \E x \in s : \A y \in s : x <= y
    BY <2>1, LeastNatural
  <2>3. QED
    BY <2>2
<1>2. pick \in [(SUBSET S) \ {{}} -> S] /\ \A s \in (SUBSET S) \ {{}} : pick[s] \in s
  <2> HIDE DEF mn
  <2>1. QED
    BY <1>1
<1>3. step \in [S \X V -> V]
  <2>1. ASSUME NEW k \in S, NEW r \in V PROVE op(k, r) \in V
    BY <1>0, MayMerge
  <2> HIDE DEF op
  <2>2. QED
    BY <2>1
<1>4. PICK g : IsFold(g, S, V, right, step, pick)
  <2> HIDE DEF S, V, step, pick
  <2>1. QED
    BY <1>0, <1>2, <1>3, FoldExists DEF V
<1>5. Is(g)
  <2>1. /\ g \in [SUBSET S -> V]
        /\ \A s \in SUBSET S : g[s] = IF s = {} THEN right ELSE step[<<pick[s], g[s \ {pick[s]}]>>]
    <3> HIDE DEF S, V, step, pick
    <3>1. QED
      BY <1>4 DEF IsFold
  <2>2. ASSUME NEW s \in (SUBSET S) \ {{}} PROVE g[s] = op(mn(s), g[s \ {mn(s)}])
    <3>1. pick[s] = mn(s)
      OBVIOUS
    <3>2. mn(s) \in S /\ s \ {mn(s)} \in SUBSET S
      BY <1>1
    <3> HIDE DEF mn, pick
    <3>3. g[s \ {mn(s)}] \in V
      BY <2>1, <3>2
    <3>4. step[<<mn(s), g[s \ {mn(s)}]>>] = op(mn(s), g[s \ {mn(s)}])
      <4> HIDE DEF op
      <4>1. QED
        BY <3>2, <3>3
    <3> HIDE DEF step, op
    <3>5. QED
      BY <2>1, <3>1, <3>4
  <2> HIDE DEF mn, op, pick, step
  <2>3. \A s \in SUBSET S : g[s] = IF s = {} THEN right ELSE op(mn(s), g[s \ {mn(s)}])
    BY <2>1, <2>2
  <2>4. QED
    BY <2>1, <2>3
<1> DEFINE fold == May!mergeAll(left, right, a)
<1>6. fold = (CHOOSE h : Is(h))[S]
  BY <1>0 DEF May!mergeAll, May!FoldRight, May!MapThenFoldSet, May!Min
<1>7. PICK h : Is(h) /\ fold = h[S]
  BY <1>5, <1>6
<1>8. ASSUME NEW k \in S PROVE h[k .. n] = op(k, h[(k + 1) .. n])
  <2>1. /\ k .. n \in (SUBSET S) \ {{}} /\ k \in k .. n
        /\ (k .. n) \ {k} = (k + 1) .. n
    BY <1>0
  <2>2. mn(k .. n) = k
    <3> DEFINE s == k .. n
    <3>1. \A m \in s : k <= m /\ m \in Nat
      BY <1>0
    <3>2. mn(s) \in s /\ mn(s) <= k
      BY <1>1, <2>1
    <3> HIDE DEF s, mn
    <3>3. QED
      BY <3>1, <3>2 DEF s
  <2> DEFINE s == k .. n
             r == (k + 1) .. n
  <2> HIDE DEF mn, op
  <2>3. h[s] = op(mn(s), h[s \ {mn(s)}])
    BY <1>7, <2>1
  <2> HIDE DEF s, r
  <2>4. h[s] = op(k, h[r])
    BY <2>1, <2>2, <2>3 DEF s, r
  <2>5. QED
    BY <2>4 DEF s, r
<1>9. h[(n + 1) .. n] = right
  <2>1. (n + 1) .. n = {}
    BY <1>0
  <2>2. QED
    BY <1>7, <2>1
<1> DEFINE q == [k \in 1 .. n + 1 |-> h[k .. n]]
<1>10. IsMerging(q, left, right, a)
  <2>1. q[n + 1] = right
    BY <1>0, <1>9
  <2>2. ASSUME NEW k \in 1 .. n PROVE q[k] = op(k, q[k + 1])
    <3>1. k \in 1 .. n + 1 /\ k + 1 \in 1 .. n + 1
      BY <1>0
    <3>2. q[k] = h[k .. n] /\ q[k + 1] = h[(k + 1) .. n]
      BY <3>1
    <3> HIDE DEF q, op
    <3>3. QED
      BY <1>8, <3>2
  <2> HIDE DEF q
  <2>3. QED
    BY <2>1, <2>2 DEF IsMerging
<1>11. fold = q[1]
  <2>1. q[1] = h[S]
    BY <1>0
  <2>2. QED
    BY <1>7, <2>1
<1> HIDE DEF q, fold
<1>12. QED
  BY <1>10, <1>11 DEF fold

\* The entries of age a merge into those of age a or more.
LEMMA MayMergeAll ==
    ASSUME NEW left, NEW right, NEW c, NEW S, NEW R, NEW a \in Int,
           Holds(left, c, S), Holds(right, c, R), S \cap R = {},
           \A u \in S : c[u] = a, \A u \in R : c[u] >= a
    PROVE  Holds(May!mergeAll(left, right, a), c, S \cup R)
<1> DEFINE n == Len(left)
           TT(k) == R \cup Tags(left, k, n)
<1>1. /\ n \in Nat /\ left \in Seq(Entry)
      /\ \A i \in 1 .. n : /\ left[i] \in Entry /\ left[i].tag \in S /\ left[i].age = c[left[i].tag]
                           /\ left[i].age \in Nat
      /\ \A i, j \in 1 .. n : i < j => left[i].tag # left[j].tag
      /\ \A t \in S : \E i \in 1 .. n : left[i].tag = t
  BY ONLY Holds(left, c, S), HoldsFacts
<1>2. right \in Seq(Entry)
  BY ONLY Holds(right, c, R), HoldsFacts
<1>3. PICK q : IsMerging(q, left, right, a) /\ May!mergeAll(left, right, a) = q[1]
  BY ONLY <1>1, <1>2, a \in Int, MayFold
<1> DEFINE G == {m \in Nat : m <= n => Holds(q[n + 1 - m], c, TT(n + 1 - m))}
<1>4. 0 \in G
  <2>1. TT(n + 1) = R
    BY <1>1 DEF Tags
  <2>2. q[n + 1] = right
    BY <1>3 DEF IsMerging
  <2>3. n + 1 - 0 = n + 1 /\ 0 \in Nat
    BY <1>1
  <2> HIDE DEF TT
  <2>4. QED
    BY <2>1, <2>2, <2>3
<1>5. ASSUME NEW m \in Nat, m \in G PROVE m + 1 \in G
  <2> SUFFICES ASSUME m + 1 <= n PROVE Holds(q[n + 1 - (m + 1)], c, TT(n + 1 - (m + 1)))
    <3> HIDE DEF TT
    <3>1. m + 1 \in Nat
      OBVIOUS
    <3>2. QED
      BY <3>1, Zenon
  <2> DEFINE k == n - m
  <2>1. k \in 1 .. n /\ n + 1 - (m + 1) = k /\ n + 1 - m = k + 1 /\ k + 1 \in Int
    BY <1>1
  <2>2. Holds(q[k + 1], c, TT(k + 1))
    BY <1>1, <1>5, <2>1
  <2> HIDE DEF k, G
  <2> DEFINE e == left[k]
             rest == q[k + 1]
  <2>3. e \in Entry /\ e.tag \in S /\ e.age = c[e.tag] /\ e.age = a
    BY <1>1, <2>1
  <2>4. q[k] = May!mergeInto(e, rest, a)
    BY <1>3, <2>1 DEF IsMerging
  <2>5. e.tag \notin TT(k + 1)
    <3>1. e.tag \notin R
      BY <2>3
    <3>2. ASSUME NEW i \in k + 1 .. n PROVE left[i].tag # e.tag
      <4>1. i \in 1 .. n /\ k < i
        BY <1>1, <2>1
      <4>2. QED
        BY <1>1, <2>1, <4>1
    <3> HIDE DEF e
    <3>3. QED
      BY <3>1, <3>2 DEF Tags
  <2> HIDE DEF e, rest
  <2>6. /\ rest \in Seq(Entry) /\ Len(rest) \in Nat
        /\ \A j \in 1 .. Len(rest) : /\ rest[j].tag \in TT(k + 1) /\ rest[j].age = c[rest[j].tag]
                                     /\ rest[j].age \in Nat
    BY ONLY <2>2, HoldsFacts DEF rest
  <2>7. \A u \in TT(k + 1) : c[u] = a \/ c[u] >= a
    <3>1. \A i \in k + 1 .. n : i \in 1 .. n
      BY <1>1, <2>1
    <3>2. \A u \in Tags(left, k + 1, n) : u \in S
      BY <1>1, <3>1 DEF Tags
    <3>3. QED
      BY <3>2
  <2>8. ASSUME NEW j \in 1 .. Len(rest) PROVE rest[j].age >= a
    <3> HIDE DEF TT
    <3>1. rest[j].age = a \/ rest[j].age >= a
      BY <2>6, <2>7
    <3>2. QED
      BY <2>6, <3>1
  <2>9. Holds(May!mergeInto(e, rest, a), c, TT(k + 1) \cup {e.tag})
    <3> HIDE DEF TT
    <3>1. Holds(rest, c, TT(k + 1))
      BY <2>2 DEF rest
    <3>2. QED
      BY <2>3, <2>5, <2>6, <2>8, <3>1, MayMerge
  <2>10. TT(k) = TT(k + 1) \cup {e.tag}
    <3>1. \A i : i \in k .. n <=> i = k \/ i \in k + 1 .. n
      BY <1>1, <2>1
    <3>2. QED
      BY <2>3, <3>1 DEF Tags, e
  <2>11. QED
    BY <2>1, <2>4, <2>9, <2>10
<1>6. n \in G
  <2> HIDE DEF G
  <2>1. QED
    BY <1>1, <1>4, <1>5, NatInductionOn
<1>7. Holds(q[1], c, TT(1))
  <2>1. n + 1 - n = 1 /\ n <= n
    BY <1>1
  <2>2. QED
    BY <1>6, <2>1
<1>8. TT(1) = S \cup R
  BY <1>1 DEF Tags
<1>9. QED
  BY <1>3, <1>7, <1>8

\* The partial results of the fold in copyOther.
IsCopying(q, v, lo, hi) ==
    /\ q[0] = <<>>
    /\ \A k \in 1 .. Len(v) :
          q[k] = IF v[k].tag < lo \/ v[k].tag > hi THEN Append(q[k - 1], v[k]) ELSE q[k - 1]

LEMMA CopyFold ==
    ASSUME NEW v \in Seq(Entry), NEW lo \in Int, NEW hi \in Int
    PROVE  \E q : /\ IsCopying(q, v, lo, hi)
                  /\ May!copyOther(v, lo, hi) = q[Len(v)]
<1> DEFINE n == Len(v)
           S == 1 .. n
           V == Seq(Entry)
           mx(s) == CHOOSE x \in s : \A y \in s : x >= y
           op(k, r) == IF v[k].tag < lo \/ v[k].tag > hi THEN Append(r, v[k]) ELSE r
           pick == [s \in (SUBSET S) \ {{}} |-> mx(s)]
           step == [z \in S \X V |-> op(z[1], z[2])]
           Is(g) == g = [s \in SUBSET S |-> IF s = {} THEN <<>> ELSE op(mx(s), g[s \ {mx(s)}])]
<1>0. n \in Nat /\ DOMAIN v = S /\ IsFiniteSet(S)
  BY FS_Interval
<1>v. <<>> \in V /\ \A r \in V, e \in Entry : Append(r, e) \in V
  OBVIOUS
<1>1. \A s \in (SUBSET S) \ {{}} : mx(s) \in s /\ \A y \in s : y <= mx(s)
  <2> SUFFICES ASSUME NEW s \in (SUBSET S) \ {{}} PROVE mx(s) \in s /\ \A y \in s : y <= mx(s)
    OBVIOUS
  <2>1. s \subseteq 0 .. n /\ s # {}
    BY <1>0
  <2>2. \E x \in s : \A y \in s : y <= x
    BY <2>1, <1>0, GreatestNatural
  <2>3. QED
    BY <2>2
<1>2. pick \in [(SUBSET S) \ {{}} -> S] /\ \A s \in (SUBSET S) \ {{}} : pick[s] \in s
  <2> HIDE DEF mx
  <2>1. QED
    BY <1>1
<1>3. step \in [S \X V -> V]
  <2>1. ASSUME NEW k \in S, NEW r \in V PROVE op(k, r) \in V
    BY <1>0, <1>v
  <2> HIDE DEF op
  <2>2. QED
    BY <2>1
<1>4. PICK g : IsFold(g, S, V, <<>>, step, pick)
  <2> HIDE DEF S, V, step, pick
  <2>1. QED
    BY <1>0, <1>2, <1>3, <1>v, FoldExists
<1>5. Is(g)
  <2>1. /\ g \in [SUBSET S -> V]
        /\ \A s \in SUBSET S : g[s] = IF s = {} THEN <<>> ELSE step[<<pick[s], g[s \ {pick[s]}]>>]
    <3> HIDE DEF S, V, step, pick
    <3>1. QED
      BY <1>4 DEF IsFold
  <2>2. ASSUME NEW s \in (SUBSET S) \ {{}} PROVE g[s] = op(mx(s), g[s \ {mx(s)}])
    <3>1. pick[s] = mx(s)
      OBVIOUS
    <3>2. mx(s) \in S /\ s \ {mx(s)} \in SUBSET S
      BY <1>1
    <3> HIDE DEF mx, pick
    <3>3. g[s \ {mx(s)}] \in V
      BY <2>1, <3>2
    <3>4. step[<<mx(s), g[s \ {mx(s)}]>>] = op(mx(s), g[s \ {mx(s)}])
      <4> HIDE DEF op
      <4>1. QED
        BY <3>2, <3>3
    <3> HIDE DEF step, op
    <3>5. QED
      BY <2>1, <3>1, <3>4
  <2> HIDE DEF mx, op, pick, step
  <2>3. \A s \in SUBSET S : g[s] = IF s = {} THEN <<>> ELSE op(mx(s), g[s \ {mx(s)}])
    BY <2>1, <2>2
  <2>4. QED
    BY <2>1, <2>3
<1> DEFINE fold == May!copyOther(v, lo, hi)
<1>6. fold = (CHOOSE h : Is(h))[S]
  BY <1>0 DEF May!copyOther, May!FoldLeft, May!MapThenFoldSet, May!Max
<1>7. PICK h : Is(h) /\ fold = h[S]
  BY <1>5, <1>6
<1>8. ASSUME NEW k \in S PROVE h[1 .. k] = op(k, h[1 .. (k - 1)])
  <2>1. /\ 1 .. k \in (SUBSET S) \ {{}} /\ k \in 1 .. k
        /\ (1 .. k) \ {k} = 1 .. (k - 1)
    BY <1>0
  <2>2. mx(1 .. k) = k
    <3> DEFINE s == 1 .. k
    <3>1. \A m \in s : m <= k /\ m \in Nat
      BY <1>0
    <3>2. mx(s) \in s /\ k <= mx(s)
      BY <1>1, <2>1
    <3> HIDE DEF s, mx
    <3>3. QED
      BY <3>1, <3>2 DEF s
  <2> DEFINE s == 1 .. k
             r == 1 .. (k - 1)
  <2> HIDE DEF mx, op
  <2>3. h[s] = op(mx(s), h[s \ {mx(s)}])
    BY <1>7, <2>1
  <2> HIDE DEF s, r
  <2>4. h[s] = op(k, h[r])
    BY <2>1, <2>2, <2>3 DEF s, r
  <2>5. QED
    BY <2>4 DEF s, r
<1>9. h[1 .. 0] = <<>>
  <2>1. 1 .. 0 = {}
    OBVIOUS
  <2>2. QED
    BY <1>7, <2>1
<1> DEFINE q == [k \in 0 .. n |-> h[1 .. k]]
<1>10. IsCopying(q, v, lo, hi)
  <2>1. q[0] = <<>>
    BY <1>0, <1>9
  <2>2. ASSUME NEW k \in 1 .. n PROVE q[k] = op(k, q[k - 1])
    <3>1. k \in 0 .. n /\ k - 1 \in 0 .. n
      BY <1>0
    <3>2. q[k] = h[1 .. k] /\ q[k - 1] = h[1 .. (k - 1)]
      BY <3>1
    <3> HIDE DEF q, op
    <3>3. QED
      BY <1>8, <3>2
  <2> HIDE DEF q
  <2>3. QED
    BY <2>1, <2>2 DEF IsCopying
<1>11. fold = q[n]
  <2>1. q[n] = h[S]
    BY <1>0
  <2>2. QED
    BY <1>7, <2>1
<1> HIDE DEF q, fold
<1>12. QED
  BY <1>10, <1>11 DEF fold

\* The entries of the tags outside lo .. hi stay, in their order.
LEMMA CopyHolds ==
    ASSUME NEW v, NEW b, NEW T, Holds(v, b, T), NEW lo \in Int, NEW hi \in Int
    PROVE  Holds(May!copyOther(v, lo, hi), b, {u \in T : u < lo \/ u > hi})
<1> DEFINE n == Len(v)
           U(k) == {u \in Tags(v, 1, k) : u < lo \/ u > hi}
<1>1. /\ n \in Nat /\ v \in Seq(Entry)
      /\ \A i \in 1 .. n : /\ v[i] \in Entry /\ v[i].tag \in T /\ v[i].age = b[v[i].tag]
                           /\ v[i].age \in Nat /\ v[i].tag \in Nat
      /\ \A i, j \in 1 .. n : i < j => Less(v[i], v[j]) /\ v[i].tag # v[j].tag
      /\ \A t \in T : \E i \in 1 .. n : v[i].tag = t
  BY ONLY Holds(v, b, T), HoldsFacts
<1>2. PICK q : IsCopying(q, v, lo, hi) /\ May!copyOther(v, lo, hi) = q[n]
  BY ONLY <1>1, lo \in Int, hi \in Int, CopyFold
<1> DEFINE G == {m \in Nat : m <= n => Holds(q[m], b, U(m))}
<1>3. 0 \in G
  <2>1. U(0) = {}
    BY DEF Tags
  <2>2. q[0] = <<>>
    BY <1>2 DEF IsCopying
  <2> HIDE DEF U
  <2>3. QED
    BY <2>1, <2>2, HoldsEmpty
<1>4. ASSUME NEW m \in Nat, m \in G PROVE m + 1 \in G
  <2> SUFFICES ASSUME m + 1 <= n PROVE Holds(q[m + 1], b, U(m + 1))
    <3> HIDE DEF U
    <3>1. m + 1 \in Nat
      OBVIOUS
    <3>2. QED
      BY <3>1, Zenon
  <2> DEFINE k == m + 1
             e == v[k]
             w == q[m]
  <2>1. k \in 1 .. n /\ k - 1 = m /\ k \in Nat
    BY <1>1
  <2>2. Holds(w, b, U(m))
    <3> HIDE DEF U
    <3>1. QED
      BY <1>1, <1>4, <2>1
  <2>3. q[k] = IF e.tag < lo \/ e.tag > hi THEN Append(w, e) ELSE w
    <3> HIDE DEF k
    <3>1. QED
      BY <1>2, <2>1 DEF IsCopying
  <2>4. Tags(v, 1, k) = Tags(v, 1, m) \cup {e.tag}
    <3>1. \A i : i \in 1 .. k <=> i = k \/ i \in 1 .. m
      OBVIOUS
    <3> HIDE DEF k
    <3>2. QED
      BY <3>1 DEF Tags
  <2>5. e \in Entry /\ e.age = b[e.tag] /\ e.tag \in Nat /\ e.age \in Nat
    <3> HIDE DEF k
    <3>1. QED
      BY <1>1, <2>1
  <2>6. \A i \in 1 .. m : i \in 1 .. n /\ Less(v[i], e) /\ v[i].tag # e.tag
    <3>1. \A i \in 1 .. m : i \in 1 .. n /\ i < k
      BY <1>1, <2>1
    <3> HIDE DEF k
    <3>2. QED
      BY <1>1, <2>1, <3>1
  <2> HIDE DEF k, e, w
  <2>7. /\ w \in Seq(Entry) /\ Len(w) \in Nat
        /\ \A j \in 1 .. Len(w) : /\ w[j].tag \in U(m) /\ w[j].age = b[w[j].tag]
                                  /\ w[j].age \in Nat
    BY ONLY <2>2, HoldsFacts
  <2>8. CASE e.tag < lo \/ e.tag > hi
    <3>1. ASSUME NEW j \in 1 .. Len(w) PROVE Less(w[j], e) /\ w[j].tag # e.tag
      <4>1. PICK i \in 1 .. m : w[j].tag = v[i].tag
        BY <2>7 DEF Tags
      <4>2. w[j].age = v[i].age
        BY <1>1, <2>6, <2>7, <4>1
      <4>3. QED
        BY <2>6, <4>1, <4>2 DEF Less
    <3>2. Holds(w \o <<e>>, b, U(m) \cup {e.tag})
      <4> HIDE DEF U
      <4>1. QED
        BY ONLY <2>2, <2>5, <3>1, HoldsBack
    <3>3. Append(w, e) = w \o <<e>>
      BY <2>5, <2>7
    <3>4. U(m) \cup {e.tag} = U(k)
      BY <2>4, <2>8
    <3>5. QED
      BY <2>3, <2>8, <3>2, <3>3, <3>4 DEF k
  <2>9. CASE ~ (e.tag < lo \/ e.tag > hi)
    <3>1. U(m) = U(k)
      BY <2>4, <2>9
    <3> HIDE DEF U
    <3>2. QED
      BY <2>2, <2>3, <2>9, <3>1 DEF k, w
  <2>10. QED
    BY <2>8, <2>9
<1>5. n \in G
  <2> HIDE DEF G
  <2>1. QED
    BY <1>1, <1>3, <1>4, NatInductionOn
<1>6. Holds(q[n], b, U(n))
  <2>1. n <= n
    BY <1>1
  <2> HIDE DEF U
  <2>2. QED
    BY <1>5, <2>1
<1>7. Tags(v, 1, n) = T
  BY <1>1 DEF Tags
<1>8. QED
  BY <1>2, <1>6, <1>7

\* The may vector m stands for the lower bounds b.
MayRep(m, b) ==
    /\ b \in [Tag -> Age]
    /\ m = [explicitTags |-> m.explicitTags, ageOfImplicitTags |-> m.ageOfImplicitTags]
    /\ m.ageOfImplicitTags \in Age
    /\ \A t \in Tag : b[t] <= m.ageOfImplicitTags
    /\ Holds(m.explicitTags, b, Below(b, m.ageOfImplicitTags))

\* The parts of the representation.
LEMMA MayFacts ==
    ASSUME NEW m, NEW b, MayRep(m, b)
    PROVE  /\ m.ageOfImplicitTags \in Nat /\ m.ageOfImplicitTags <= Assoc
           /\ m.ageOfImplicitTags \in Age
           /\ Holds(m.explicitTags, b, Below(b, m.ageOfImplicitTags))
           /\ \A t \in Tag : /\ b[t] \in Nat /\ b[t] <= Assoc /\ b[t] <= m.ageOfImplicitTags
                             /\ t \notin Below(b, m.ageOfImplicitTags) => b[t] = m.ageOfImplicitTags
           /\ Assoc \in Nat /\ Assoc > 0
<1>1. m.ageOfImplicitTags \in Nat /\ m.ageOfImplicitTags <= Assoc /\ m.ageOfImplicitTags \in Age
  BY AssocAssumption DEF MayRep, Age
<1>2. Holds(m.explicitTags, b, Below(b, m.ageOfImplicitTags)) /\ Assoc \in Nat /\ Assoc > 0
  BY AssocAssumption DEF MayRep
<1>3. ASSUME NEW t \in Tag
      PROVE  /\ b[t] \in Nat /\ b[t] <= Assoc /\ b[t] <= m.ageOfImplicitTags
             /\ t \notin Below(b, m.ageOfImplicitTags) => b[t] = m.ageOfImplicitTags
  <2>1. b[t] \in Nat /\ b[t] <= Assoc /\ b[t] <= m.ageOfImplicitTags
    BY AgeFacts DEF MayRep
  <2>2. t \notin Below(b, m.ageOfImplicitTags) => ~ (b[t] < m.ageOfImplicitTags)
    BY DEF Below
  <2>3. QED
    BY ONLY <1>1, <2>1, <2>2
<1>4. QED
  BY <1>1, <1>2, <1>3

\* getMinAge is the bound.
LEMMA MayMinAge ==
    ASSUME NEW m, NEW b, MayRep(m, b), NEW t \in Tag
    PROVE  /\ May!getMinAge(m, t) = b[t]
           /\ May!find(m, t) > 0 <=> b[t] < m.ageOfImplicitTags
           /\ May!find(m, t) \in 0 .. Len(m.explicitTags)
           /\ May!find(m, t) > 0 => /\ m.explicitTags[May!find(m, t)].tag = t
                                    /\ m.explicitTags[May!find(m, t)].age = b[t]
<1> DEFINE i == May!find(m, t)
           s == m.explicitTags
           imp == m.ageOfImplicitTags
<1>1. Holds(s, b, Below(b, imp)) /\ imp \in Nat /\ b[t] \in Nat
  BY MayFacts
<1>2. i \in 0 .. Len(s) /\ (i = 0 <=> t \notin Below(b, imp))
        /\ (i > 0 => s[i].tag = t /\ s[i].age = b[t])
  BY <1>1, FindFacts, SameFind
<1>3. t \notin Below(b, imp) => b[t] = imp
  BY MayFacts
<1>4. t \in Below(b, imp) <=> b[t] < imp
  BY DEF Below
<1>5. i > 0 <=> b[t] < imp
  BY <1>1, <1>2, <1>4, HoldsFacts
<1>6. May!getMinAge(m, t) = IF i > 0 THEN s[i].age ELSE imp
  BY DEF May!getMinAge
<1> HIDE DEF i, s, imp
<1>7. May!getMinAge(m, t) = b[t]
  BY <1>1, <1>2, <1>3, <1>4, <1>5, <1>6
<1>8. QED
  BY <1>2, <1>5, <1>7 DEF i, s, imp

\* classify excludes the line if no age below Assoc is left for it.
LEMMA MayClassify ==
    ASSUME NEW m, NEW b, MayRep(m, b), NEW t \in Tag
    PROVE  May!classify(m, t, 0) = IF b[t] = Assoc THEN CL_MISS ELSE CL_UNKNOWN
<1> DEFINE imp == m.ageOfImplicitTags
<1>1. imp \in Nat /\ imp <= Assoc /\ b[t] \in Nat /\ b[t] <= imp /\ Assoc \in Nat
  BY MayFacts
<1>2. May!getMinAge(m, t) = b[t] /\ (May!find(m, t) > 0 <=> b[t] < imp)
  BY MayMinAge
<1>3. May!classify(m, t, 0) = IF imp + 0 < Assoc THEN CL_UNKNOWN
                              ELSE IF May!find(m, t) > 0 /\ May!getMinAge(m, t) + 0 < Assoc
                              THEN CL_UNKNOWN ELSE CL_MISS
  BY DEF May!classify, May!CL_UNKNOWN, May!CL_MISS, CL_UNKNOWN, CL_MISS
<1> HIDE DEF imp
<1>4. QED
  BY ONLY <1>1, <1>2, <1>3

\* The bounds c are those of e for the lines of U, cut at the age imp of all
\* others.
CutAt(c, imp, e, U) ==
    /\ \A t \in Tag : c[t] <= imp
    /\ \A t \in U : e[t] < imp => c[t] = e[t]
    /\ \A t \in Tag : c[t] < imp => t \in U /\ e[t] < imp

\* What removeRedundantTags leaves is canonical.
LEMMA MayClean ==
    ASSUME NEW s, NEW e, NEW U, Holds(s, e, U), NEW imp \in Age, NEW c, c \in [Tag -> Age],
           CutAt(c, imp, e, U)
    PROVE  MayRep(May!removeRedundantTags([explicitTags |-> s, ageOfImplicitTags |-> imp]), c)
<1> DEFINE m == [explicitTags |-> s, ageOfImplicitTags |-> imp]
           n == Last({i \in 1 .. Len(s) : s[i].age < imp})
           w == SubSeq(s, 1, n)
<1>1. imp \in Nat /\ imp \in Int
  BY AssocAssumption DEF Age
<1>2. s \in Seq(Entry) /\ Len(s) \in Nat /\ DOMAIN s = 1 .. Len(s) /\ U \subseteq Tag
  BY HoldsFacts
<1>3. May!removeRedundantTags(m) = [explicitTags |-> w, ageOfImplicitTags |-> imp]
  <2>1. m.explicitTags = s /\ m.ageOfImplicitTags = imp
    OBVIOUS
  <2>2. May!SelectLastInSeq(s, LAMBDA r : r.age < imp) = n
    BY <1>2 DEF May!SelectLastInSeq, May!Max, Last
  <2>3. May!removeRedundantTags(m)
          = [m EXCEPT !.explicitTags
               = SubSeq(@, 1, May!SelectLastInSeq(s, LAMBDA r : r.age < imp))]
    BY <2>1 DEF May!removeRedundantTags
  <2> HIDE DEF n
  <2>4. QED
    BY <2>2, <2>3
<1>4. Holds(w, e, {t \in U : e[t] < imp})
  BY ONLY <1>1, Holds(s, e, U), HoldsYounger
<1>5. Holds(w, c, {t \in U : e[t] < imp})
  <2>1. \A t \in {t \in U : e[t] < imp} : e[t] = c[t]
    BY DEF CutAt
  <2> HIDE DEF w
  <2>2. QED
    BY ONLY <1>4, <2>1, HoldsSame
<1>6. {t \in U : e[t] < imp} = Below(c, imp)
  <2>1. \A t \in U : t \in Tag
    BY <1>2
  <2>2. \A t \in U : e[t] < imp => c[t] < imp
    BY DEF CutAt
  <2>3. QED
    BY <2>1, <2>2 DEF Below, CutAt
<1> HIDE DEF w, m
<1>7. QED
  BY <1>1, <1>3, <1>5, <1>6 DEF MayRep, m, CutAt

\* The accessed line is put in front of the aged entries.
LEMMA MayAccess ==
    ASSUME NEW w, NEW c, c \in [Tag -> Age], NEW U, Holds(w, c, U), NEW t \in Tag, c[t] = 0,
           NEW imp \in Age, \A u \in Tag : u # t => c[u] # 0, t \notin U,
           CutAt(c, imp, c, U \cup {t})
    PROVE  MayRep(May!removeRedundantTags(
                     [explicitTags |-> <<[tag |-> t, age |-> 0]>> \o w,
                      ageOfImplicitTags |-> imp]), c)
<1> DEFINE e == [tag |-> t, age |-> 0]
<1>1. \A j \in 1 .. Len(w) : /\ w[j].tag \in U /\ w[j].age = c[w[j].tag]
                             /\ w[j].age \in Nat /\ w[j].tag \in Tag
  BY HoldsFacts
<1>2. e \in Entry /\ e.age = c[e.tag] /\ e.tag = t /\ e.age = 0
  BY AssocAssumption DEF Entry
<1> HIDE DEF e
<1>3. \A j \in 1 .. Len(w) : Less(e, w[j]) /\ e.tag # w[j].tag
  BY <1>1, <1>2 DEF Less
<1>4. Holds(<<e>> \o w, c, U \cup {t})
  BY ONLY Holds(w, c, U), <1>2, <1>3, HoldsFront
<1> DEFINE s == <<e>> \o w
<1> HIDE DEF s
<1>5. MayRep(May!removeRedundantTags([explicitTags |-> s, ageOfImplicitTags |-> imp]), c)
  BY <1>4, MayClean DEF s
<1>6. QED
  BY <1>5 DEF s, e

\* The bounds c follow from b by an access to t, if imp0 and imp are the ages
\* of the implicit tags before and after it.
MayAges(b, c, t, imp0, imp) ==
    /\ b \in [Tag -> Age] /\ c \in [Tag -> Age] /\ t \in Tag
    /\ \A u \in Tag : b[u] <= imp0
    /\ \A u \in Tag : c[u] = IF u = t THEN 0
                             ELSE IF b[u] <= b[t] /\ b[u] < Assoc THEN b[u] + 1 ELSE b[u]
    /\ imp0 \in Age
    /\ imp = IF imp0 <= b[t] /\ imp0 < Assoc THEN imp0 + 1 ELSE imp0

LEMMA MayAgesFacts ==
    ASSUME NEW b, NEW c, NEW t, NEW imp0, NEW imp, MayAges(b, c, t, imp0, imp)
    PROVE  /\ imp \in Age /\ imp \in Nat /\ imp <= Assoc /\ imp > 0 /\ c[t] = 0 /\ t \in Tag
           /\ imp0 \in Nat /\ imp0 <= Assoc /\ Assoc \in Nat /\ Assoc > 0
           /\ imp = IF imp0 <= b[t] /\ imp0 < Assoc THEN imp0 + 1 ELSE imp0
           /\ b[t] \in Nat /\ b[t] <= imp0
           /\ \A u \in Tag : u # t => c[u] # 0
           /\ \A u \in Tag : c[u] <= imp
<1>1. Assoc \in Nat /\ Assoc > 0 /\ imp0 \in Nat /\ imp0 <= Assoc
        /\ (imp = IF imp0 <= b[t] /\ imp0 < Assoc THEN imp0 + 1 ELSE imp0)
  BY AssocAssumption DEF MayAges, Age
<1>2. b[t] \in Nat /\ b[t] <= imp0 /\ c[t] = 0 /\ t \in Tag
  BY AgeFacts DEF MayAges
<1>3. imp \in Nat /\ imp <= Assoc /\ imp > 0
  BY <1>1, <1>2
<1>4. imp \in Age
  BY <1>1, <1>3 DEF Age
<1>5. ASSUME NEW u \in Tag, u # t PROVE c[u] # 0 /\ c[u] <= imp
  <2>1. b[u] \in Nat /\ b[u] <= imp0 /\ b[u] <= Assoc
    BY AgeFacts DEF MayAges
  <2>2. c[u] = IF b[u] <= b[t] /\ b[u] < Assoc THEN b[u] + 1 ELSE b[u]
    BY <1>5 DEF MayAges
  <2>3. QED
    BY ONLY <1>1, <1>2, <1>3, <2>1, <2>2
<1>6. ASSUME NEW u \in Tag PROVE c[u] <= imp
  BY <1>2, <1>3, <1>5
<1>7. QED
  BY <1>1, <1>2, <1>3, <1>4, <1>5, <1>6

\* One line that was not accessed.
LEMMA MayAgesOther ==
    ASSUME NEW b, NEW c, NEW t, NEW imp0, NEW imp, MayAges(b, c, t, imp0, imp),
           NEW u \in Tag, u # t
    PROVE  /\ b[u] \in Nat /\ b[u] <= imp0 /\ c[u] \in Nat
           /\ c[u] = IF b[u] <= b[t] /\ b[u] < Assoc THEN b[u] + 1 ELSE b[u]
<1>1. b[u] \in Nat /\ b[u] <= imp0 /\ c[u] \in Nat
  BY AgeFacts DEF MayAges
<1>2. c[u] = IF b[u] <= b[t] /\ b[u] < Assoc THEN b[u] + 1 ELSE b[u]
  BY DEF MayAges
<1>3. QED
  BY <1>1, <1>2

\* grow ages every entry.
LEMMA MayGrow ==
    ASSUME NEW v, NEW b, NEW T, Holds(v, b, T), NEW c,
           \A t \in T : c[t] = b[t] + 1 /\ c[t] <= Assoc - 1
    PROVE  Holds(May!grow(v), c, T)
<1> DEFINE w == [i \in DOMAIN v |-> [v[i] EXCEPT !.age = @ + 1]]
<1>1. Holds(w, c, T)
  BY HoldsGrow
<1>2. May!grow(v) = w
  BY DEF May!grow
<1> HIDE DEF w
<1>3. QED
  BY <1>1, <1>2

\* The access to a line without an entry, or to one of age Assoc-1: all lines
\* age, and those of age Assoc-1 leave.
LEMMA MayAgeAll ==
    ASSUME NEW s, NEW b, NEW c, NEW t, NEW imp0, NEW imp, MayAges(b, c, t, imp0, imp),
           Holds(s, b, Below(b, imp0)), b[t] = imp0 \/ b[t] = Assoc - 1,
           NEW kept, kept = SubSeq(s, 1, Last({k \in 1 .. Len(s) : s[k].age # Assoc - 1}))
    PROVE  \E U : Holds(May!grow(kept), c, U) /\ t \notin U /\ CutAt(c, imp, c, U \cup {t})
<1> DEFINE I == {k \in 1 .. Len(s) : s[k].age < Assoc - 1}
           J == {k \in 1 .. Len(s) : s[k].age # Assoc - 1}
           U == {u \in Below(b, imp0) : b[u] < Assoc - 1}
<1>0. /\ imp \in Nat /\ imp <= Assoc /\ imp > 0 /\ c[t] = 0 /\ t \in Tag
      /\ imp0 \in Nat /\ imp0 <= Assoc /\ Assoc \in Nat /\ Assoc > 0
      /\ imp = IF imp0 <= b[t] /\ imp0 < Assoc THEN imp0 + 1 ELSE imp0
      /\ b[t] \in Nat /\ b[t] <= imp0
      /\ \A u \in Tag : c[u] <= imp
  BY MayAgesFacts
<1>1. /\ Assoc - 1 \in Nat /\ Assoc - 1 \in Int
      /\ \A k \in 1 .. Len(s) : s[k].age \in Nat /\ s[k].age <= Assoc - 1
  BY <1>0, HoldsFacts
<1>2. I = J
  BY <1>1
<1>3. Holds(SubSeq(s, 1, Last(I)), b, U)
  BY ONLY <1>1, Holds(s, b, Below(b, imp0)), HoldsYounger
<1>4. Holds(kept, b, U)
  <2> HIDE DEF I, J
  <2>1. QED
    BY <1>2, <1>3 DEF J
<1>5. ASSUME NEW u \in U PROVE c[u] = b[u] + 1 /\ c[u] <= Assoc - 1 /\ u # t
  <2>1. u \in Tag /\ b[u] < imp0 /\ b[u] < Assoc - 1
    BY DEF Below
  <2>2. u # t
    BY <1>0, <2>1
  <2>3. /\ b[u] \in Nat /\ c[u] \in Nat
        /\ c[u] = IF b[u] <= b[t] /\ b[u] < Assoc THEN b[u] + 1 ELSE b[u]
    BY <2>1, <2>2, MayAgesOther
  <2>4. QED
    BY ONLY <1>0, <2>1, <2>2, <2>3, b[t] = imp0 \/ b[t] = Assoc - 1
<1>6. Holds(May!grow(kept), c, U)
  <2> HIDE DEF U
  <2>1. QED
    BY <1>4, <1>5, MayGrow
<1>7. ASSUME NEW u \in Tag, u # t, c[u] < imp PROVE u \in U
  <2>1. /\ b[u] \in Nat /\ c[u] \in Nat /\ b[u] <= imp0
        /\ c[u] = IF b[u] <= b[t] /\ b[u] < Assoc THEN b[u] + 1 ELSE b[u]
    BY <1>7, MayAgesOther
  <2>2. b[u] < imp0 /\ b[u] < Assoc - 1
    BY ONLY <1>0, <1>7, <2>1, b[t] = imp0 \/ b[t] = Assoc - 1
  <2>3. QED
    BY <2>2 DEF Below
<1> HIDE DEF U
<1>8. t \notin U
  BY <1>5
<1>9. CutAt(c, imp, c, U \cup {t})
  <2>1. \A u \in Tag : c[u] < imp => u \in U \cup {t}
    BY <1>7
  <2>2. QED
    BY <1>0, <2>1 DEF CutAt
<1>10. QED
  BY <1>6, <1>8, <1>9

\* The entries lower .. upper of s are those of age a.
IsSegment(s, lower, upper, a) ==
    /\ lower \in 1 .. Len(s) /\ upper \in 1 .. Len(s)
    /\ \A k \in 1 .. Len(s) : /\ k < lower => s[k].age < a
                              /\ upper < k => s[k].age > a
                              /\ lower <= k /\ k <= upper => s[k].age = a

LEMMA EqualAges ==
    ASSUME NEW s, NEW b, NEW T, Holds(s, b, T), NEW a \in Nat, NEW i \in 1 .. Len(s), s[i].age = a
    PROVE  LET I == {k \in 1 .. Len(s) : s[k].age = a} IN
           First(I) <= i /\ i <= Last(I) /\ IsSegment(s, First(I), Last(I), a)
<1> DEFINE L == Len(s)
           I == {k \in 1 .. L : s[k].age = a}
           lower == First(I)
           upper == Last(I)
<1>1. /\ L \in Nat
      /\ \A k \in 1 .. L : s[k].age \in Nat /\ s[k].tag \in Nat
      /\ \A k, l \in 1 .. L : k < l => Less(s[k], s[l])
  BY HoldsFacts
<1>2. i \in I /\ I \subseteq 1 .. L
  OBVIOUS
<1>3. lower \in I /\ upper \in I /\ \A k \in I : lower <= k /\ k <= upper
  <2> HIDE DEF I, L
  <2>1. /\ lower \in 0 .. L /\ (lower > 0 => lower \in I) /\ (lower = 0 <=> I = {})
        /\ \A y \in I : lower <= y
    BY <1>1, <1>2, FirstFacts
  <2>2. /\ upper \in 0 .. L /\ (upper > 0 => upper \in I) /\ (upper = 0 <=> I = {})
        /\ \A y \in I : y <= upper
    BY <1>1, <1>2, LastFacts
  <2> HIDE DEF lower, upper
  <2>3. lower # 0 /\ upper # 0
    BY <1>2, <2>1, <2>2
  <2>4. lower > 0 /\ upper > 0
    BY <1>1, <2>1, <2>2, <2>3
  <2>5. QED
    BY <2>1, <2>2, <2>4
<1> HIDE DEF lower, upper
<1>4. /\ lower \in 1 .. L /\ upper \in 1 .. L /\ lower <= i /\ i <= upper
      /\ s[lower].age = a /\ s[upper].age = a
  BY <1>2, <1>3
<1>5. ASSUME NEW k \in 1 .. L
      PROVE  /\ k < lower => s[k].age < a
             /\ upper < k => s[k].age > a
             /\ lower <= k /\ k <= upper => s[k].age = a
  <2>1. /\ k < lower => s[k].age <= a
        /\ lower < k => s[k].age >= a
        /\ k < upper => s[k].age <= a
        /\ upper < k => s[k].age >= a
    BY ONLY <1>1, <1>4, k \in 1 .. L DEF Less
  <2>2. s[k].age = a => lower <= k /\ k <= upper
    BY <1>3
  <2>3. s[k].age \in Nat /\ lower \in Nat /\ upper \in Nat /\ k \in Nat
    BY ONLY <1>1, <1>4, k \in 1 .. L
  <2>4. k = lower \/ k = upper => s[k].age = a
    BY <1>4
  <2>5. QED
    BY ONLY <2>1, <2>2, <2>3, <2>4, a \in Nat
<1>6. QED
  BY <1>4, <1>5 DEF lower, upper, IsSegment, L

\* The access to a line with an entry of a lesser age.
LEMMA MayAgeYounger ==
    ASSUME NEW s, NEW b, NEW c, NEW t, NEW imp0, NEW imp, MayAges(b, c, t, imp0, imp),
           Holds(s, b, Below(b, imp0)), b[t] < Assoc - 1,
           NEW i \in 1 .. Len(s), s[i].tag = t,
           NEW lower, NEW upper, IsSegment(s, lower, upper, b[t]), lower <= i, i <= upper
    PROVE  LET same == SubSeq(s, lower, i - 1) \o SubSeq(s, i + 1, upper)
               aged == May!grow(SubSeq(s, 1, lower - 1))
                         \o May!mergeAll(May!grow(same), SubSeq(s, upper + 1, Len(s)), b[t] + 1)
           IN  \E U : Holds(aged, c, U) /\ t \notin U /\ CutAt(c, imp, c, U \cup {t})
<1> DEFINE acc == b[t]
           L == Len(s)
           young == SubSeq(s, 1, lower - 1)
           rest == SubSeq(s, upper + 1, L)
           same == SubSeq(s, lower, i - 1) \o SubSeq(s, i + 1, upper)
           merged == May!mergeAll(May!grow(same), rest, acc + 1)
           TP == Tags(s, 1, lower - 1)
           TS == Tags(s, lower, i - 1) \cup Tags(s, i + 1, upper)
           TR == Tags(s, upper + 1, L)
<1>1. /\ imp \in Nat /\ imp <= Assoc /\ imp > 0 /\ c[t] = 0 /\ t \in Tag
      /\ imp0 \in Nat /\ imp0 <= Assoc /\ Assoc \in Nat /\ Assoc > 0
      /\ imp = IF imp0 <= acc /\ imp0 < Assoc THEN imp0 + 1 ELSE imp0
      /\ acc \in Nat /\ acc <= imp0
      /\ \A u \in Tag : c[u] <= imp
  BY MayAgesFacts
<1>2. /\ L \in Nat /\ s \in Seq(Entry)
      /\ \A k \in 1 .. L : /\ s[k].tag \in Below(b, imp0) /\ s[k].tag \in Tag /\ s[k].age = b[s[k].tag]
                           /\ s[k].age \in Nat /\ s[k].age < imp0
      /\ \A k, l \in 1 .. L : k < l => Less(s[k], s[l]) /\ s[k].tag # s[l].tag
      /\ \A u \in Below(b, imp0) : \E k \in 1 .. L : s[k].tag = u
  <2>1. /\ L \in Nat /\ s \in Seq(Entry)
        /\ \A k \in 1 .. L : s[k].tag \in Below(b, imp0) /\ s[k].age = b[s[k].tag] /\ s[k].age \in Nat
        /\ \A k, l \in 1 .. L : k < l => Less(s[k], s[l]) /\ s[k].tag # s[l].tag
        /\ \A u \in Below(b, imp0) : \E k \in 1 .. L : s[k].tag = u
    BY ONLY Holds(s, b, Below(b, imp0)), HoldsFacts
  <2>2. \A k \in 1 .. L : s[k].tag \in Tag /\ s[k].age < imp0
    BY <2>1 DEF Below
  <2>3. QED
    BY <2>1, <2>2
<1>3. s[i].age = acc /\ acc < imp0 /\ imp = imp0
  <2>1. s[i].age = acc /\ acc < imp0
    BY ONLY <1>2, i \in 1 .. L, s[i].tag = t
  <2>2. QED
    BY ONLY <1>1, <2>1
<1> HIDE DEF L
<1>4. /\ lower \in 1 .. L /\ upper \in 1 .. L /\ lower <= i /\ i <= upper /\ i \in 1 .. L
  BY DEF IsSegment, L
<1>5. \A k \in 1 .. L : /\ k < lower => s[k].age < acc
                        /\ upper < k => s[k].age > acc
                        /\ lower <= k /\ k <= upper => s[k].age = acc
  BY DEF IsSegment, L
<1>6. /\ \A k \in 1 .. lower - 1 : k \in 1 .. L /\ k < lower /\ k # i
      /\ \A k \in upper + 1 .. L : k \in 1 .. L /\ upper < k /\ k # i
      /\ \A k \in lower .. i - 1 : k \in 1 .. L /\ lower <= k /\ k <= upper /\ k < i /\ k # i
      /\ \A k \in i + 1 .. upper : k \in 1 .. L /\ lower <= k /\ k <= upper /\ i < k /\ k # i
      /\ \A k \in 1 .. L : k # i => \/ k \in 1 .. lower - 1 \/ k \in upper + 1 .. L
                                    \/ k \in lower .. i - 1 \/ k \in i + 1 .. upper
  BY ONLY <1>2, <1>4
<1>7. ASSUME NEW k \in 1 .. L, k # i
      PROVE  LET u == s[k].tag IN
             /\ u \in Tag /\ u # t /\ b[u] = s[k].age /\ b[u] \in Nat /\ c[u] \in Nat
             /\ c[u] = IF b[u] <= acc THEN b[u] + 1 ELSE b[u]
  <2> DEFINE u == s[k].tag
  <2>1. u \in Tag /\ u # t /\ b[u] = s[k].age /\ b[u] < imp0
    BY ONLY <1>2, <1>4, <1>7, s[i].tag = t, k \in 1 .. L
  <2>2. /\ b[u] \in Nat /\ c[u] \in Nat
        /\ c[u] = IF b[u] <= acc /\ b[u] < Assoc THEN b[u] + 1 ELSE b[u]
    BY ONLY <2>1, MayAges(b, c, t, imp0, imp), MayAgesOther
  <2> HIDE DEF u
  <2>3. c[u] = IF b[u] <= acc THEN b[u] + 1 ELSE b[u]
    BY ONLY <1>1, <2>1, <2>2
  <2>4. QED
    BY <2>1, <2>2, <2>3 DEF u
<1>8. \A u \in TP : u # t /\ c[u] = b[u] + 1 /\ c[u] <= acc /\ c[u] \in Nat
  <2> SUFFICES ASSUME NEW k \in 1 .. lower - 1
               PROVE  LET u == s[k].tag IN u # t /\ c[u] = b[u] + 1 /\ c[u] <= acc /\ c[u] \in Nat
    BY DEF Tags
  <2>1. k \in 1 .. L /\ k < lower /\ k # i
    BY ONLY <1>6
  <2>2. s[k].age < acc
    BY ONLY <1>5, <2>1
  <2> DEFINE u == s[k].tag
  <2>3. u # t /\ b[u] = s[k].age /\ b[u] \in Nat /\ c[u] \in Nat /\ c[u] = IF b[u] <= acc THEN b[u] + 1 ELSE b[u]
    BY ONLY <1>7, <2>1
  <2> HIDE DEF u
  <2>4. u # t /\ c[u] = b[u] + 1 /\ c[u] <= acc /\ c[u] \in Nat
    BY ONLY <1>1, <2>2, <2>3
  <2>5. QED
    BY <2>4 DEF u
<1>9. \A u \in TS : u # t /\ b[u] = acc /\ c[u] = acc + 1
  <2>1. ASSUME NEW k \in 1 .. L, lower <= k, k <= upper, k # i
        PROVE  LET u == s[k].tag IN u # t /\ b[u] = acc /\ c[u] = acc + 1
    <3> DEFINE u == s[k].tag
    <3>1. s[k].age = acc
      BY ONLY <1>5, <2>1
    <3>2. u # t /\ b[u] = s[k].age /\ b[u] \in Nat /\ c[u] = IF b[u] <= acc THEN b[u] + 1 ELSE b[u]
      BY ONLY <1>7, <2>1
    <3> HIDE DEF u
    <3>3. u # t /\ b[u] = acc /\ c[u] = acc + 1
      BY ONLY <1>1, <3>1, <3>2
    <3>4. QED
      BY <3>3 DEF u
  <2>2. ASSUME NEW u \in TS PROVE \E k \in 1 .. L : lower <= k /\ k <= upper /\ k # i /\ u = s[k].tag
    <3>1. u \in Tags(s, lower, i - 1) \/ u \in Tags(s, i + 1, upper)
      OBVIOUS
    <3>2. QED
      BY ONLY <1>6, <3>1 DEF Tags
  <2> HIDE DEF TS
  <2>3. QED
    BY <2>1, <2>2
<1>10. \A u \in TR : u # t /\ b[u] = c[u] /\ c[u] >= acc + 1 /\ c[u] \in Nat
  <2> SUFFICES ASSUME NEW k \in upper + 1 .. L
               PROVE  LET u == s[k].tag IN u # t /\ b[u] = c[u] /\ c[u] >= acc + 1 /\ c[u] \in Nat
    BY DEF Tags
  <2>1. k \in 1 .. L /\ upper < k /\ k # i
    BY ONLY <1>6
  <2>2. s[k].age > acc
    BY ONLY <1>5, <2>1
  <2> DEFINE u == s[k].tag
  <2>3. u # t /\ b[u] = s[k].age /\ b[u] \in Nat /\ c[u] \in Nat /\ c[u] = IF b[u] <= acc THEN b[u] + 1 ELSE b[u]
    BY ONLY <1>7, <2>1
  <2> HIDE DEF u
  <2>4. u # t /\ b[u] = c[u] /\ c[u] >= acc + 1 /\ c[u] \in Nat
    BY ONLY <1>1, <2>2, <2>3
  <2>5. QED
    BY <2>4 DEF u
<1>d. acc < Assoc - 1 /\ acc \in Nat /\ Assoc \in Nat
  BY ONLY <1>1, b[t] < Assoc - 1
<1>h. Holds(s, b, Below(b, imp0))
  OBVIOUS
<1>i. lower - 1 \in Int /\ i - 1 \in Int /\ i + 1 \in Int /\ upper + 1 \in Int /\ L \in Int
      /\ lower - 1 <= L /\ i - 1 <= L /\ upper <= L /\ L <= L
      /\ 1 <= lower /\ 1 <= i + 1 /\ 1 <= upper + 1 /\ lower \in Int /\ upper \in Int
  BY ONLY <1>2, <1>4
<1> HIDE DEF acc
<1>11. Holds(May!grow(young), c, TP)
  <2>1. Holds(young, b, TP)
    BY ONLY <1>h, <1>i, HoldsSegment DEF L
  <2>2. ASSUME NEW u \in TP PROVE c[u] = b[u] + 1 /\ c[u] <= Assoc - 1
    <3>1. c[u] = b[u] + 1 /\ c[u] <= acc /\ c[u] \in Nat
      BY <1>8
    <3>2. QED
      BY ONLY <1>d, <3>1
  <2> HIDE DEF young, TP
  <2>3. QED
    BY ONLY <2>1, <2>2, MayGrow
<1>12. Holds(May!grow(same), c, TS)
  <2> DEFINE x == SubSeq(s, lower, i - 1)
             y == SubSeq(s, i + 1, upper)
             X == Tags(s, lower, i - 1)
             Y == Tags(s, i + 1, upper)
  <2>1. /\ Holds(x, b, X)
        /\ \A k \in 1 .. Len(x) : x[k] = s[lower + k - 1] /\ lower + k - 1 \in lower .. i - 1
    BY ONLY <1>h, <1>i, HoldsSegment DEF L
  <2>2. /\ Holds(y, b, Y)
        /\ \A k \in 1 .. Len(y) : y[k] = s[i + 1 + k - 1] /\ i + 1 + k - 1 \in i + 1 .. upper
    BY ONLY <1>h, <1>i, HoldsSegment DEF L
  <2> HIDE DEF x, y
  <2>3. ASSUME NEW k \in 1 .. Len(x), NEW l \in 1 .. Len(y)
        PROVE  Less(x[k], y[l]) /\ x[k].tag # y[l].tag
    <3> DEFINE p == lower + k - 1
               r == i + 1 + l - 1
    <3>1. x[k] = s[p] /\ p \in lower .. i - 1 /\ y[l] = s[r] /\ r \in i + 1 .. upper
      BY ONLY <2>1, <2>2, k \in 1 .. Len(x), l \in 1 .. Len(y)
    <3> HIDE DEF p, r
    <3>2. p \in 1 .. L /\ p < i /\ r \in 1 .. L /\ i < r
      BY ONLY <1>6, <3>1
    <3>3. p < r
      BY ONLY <1>2, <1>4, <3>2
    <3>4. QED
      BY ONLY <1>2, <3>1, <3>2, <3>3
  <2> HIDE DEF X, Y
  <2>4. Holds(x \o y, b, X \cup Y)
    BY ONLY <2>1, <2>2, <2>3, HoldsConcat
  <2>5. ASSUME NEW u \in X \cup Y PROVE c[u] = b[u] + 1 /\ c[u] <= Assoc - 1
    <3>1. b[u] = acc /\ c[u] = acc + 1
      BY <1>9 DEF X, Y
    <3>2. QED
      BY ONLY <1>d, <3>1
  <2>6. Holds(May!grow(x \o y), c, X \cup Y)
    BY ONLY <2>4, <2>5, MayGrow
  <2>7. QED
    BY <2>6 DEF x, y, X, Y
<1>13. Holds(rest, c, TR)
  <2>1. Holds(rest, b, TR)
    BY ONLY <1>h, <1>i, HoldsSegment DEF L
  <2> HIDE DEF rest, TR
  <2>2. QED
    BY ONLY <1>10, <2>1, HoldsSame
<1>14. Holds(merged, c, TS \cup TR)
  <2> HIDE DEF TS, TR, rest, same
  <2>1. TS \cap TR = {}
    <3> SUFFICES ASSUME NEW u \in TS, u \in TR PROVE FALSE
      OBVIOUS
    <3>1. b[u] = acc /\ b[u] = c[u] /\ c[u] >= acc + 1
      BY <1>9, <1>10
    <3>2. QED
      BY ONLY <1>d, <3>1
  <2>2. \A u \in TS : c[u] = acc + 1
    BY <1>9
  <2>3. \A u \in TR : c[u] >= acc + 1
    BY <1>10
  <2>4. acc + 1 \in Int
    BY ONLY <1>d
  <2>5. QED
    BY ONLY <1>12, <1>13, <2>1, <2>2, <2>3, <2>4, MayMergeAll
<1>15. Holds(May!grow(young) \o merged, c, TP \cup (TS \cup TR))
  <2> DEFINE x == May!grow(young)
             T == TS \cup TR
  <2>1. Holds(x, c, TP) /\ Holds(merged, c, T)
    BY <1>11, <1>14
  <2> HIDE DEF x, merged, TP, TS, TR
  <2>2. \A u \in T : c[u] >= acc + 1
    <3> SUFFICES ASSUME NEW u \in T PROVE c[u] >= acc + 1
      OBVIOUS
    <3>1. c[u] = acc + 1 \/ c[u] >= acc + 1
      BY <1>9, <1>10
    <3>2. QED
      BY ONLY <1>d, <3>1
  <2>3. ASSUME NEW k \in 1 .. Len(x), NEW l \in 1 .. Len(merged)
        PROVE  Less(x[k], merged[l]) /\ x[k].tag # merged[l].tag
    <3>1. x[k].tag \in TP /\ x[k].age = c[x[k].tag] /\ x[k].age \in Nat
      BY ONLY <2>1, HoldsFacts, k \in 1 .. Len(x)
    <3>2. merged[l].tag \in T /\ merged[l].age = c[merged[l].tag] /\ merged[l].age \in Nat
      <4> HIDE DEF T
      <4>1. Holds(merged, c, T)
        BY <2>1
      <4>2. \A j \in 1 .. Len(merged) :
              merged[j].tag \in T /\ merged[j].age = c[merged[j].tag] /\ merged[j].age \in Nat
        BY ONLY <4>1, HoldsFacts
      <4>3. QED
        BY <4>2
    <3> HIDE DEF T
    <3>3. x[k].age <= acc
      BY <1>8, <3>1
    <3>4. merged[l].age >= acc + 1
      BY <2>2, <3>2
    <3>5. x[k].age < merged[l].age
      BY ONLY <1>d, <3>1, <3>2, <3>3, <3>4
    <3>6. x[k].tag # merged[l].tag
      BY ONLY <3>1, <3>2, <3>5
    <3>7. QED
      BY <3>5, <3>6 DEF Less
  <2> HIDE DEF T
  <2>4. Holds(x \o merged, c, TP \cup T)
    BY ONLY <2>1, <2>3, HoldsConcat
  <2>5. QED
    BY <2>4 DEF x, T
<1>16. t \notin TP \cup (TS \cup TR)
  <2> HIDE DEF TP, TS, TR
  <2>1. QED
    BY ONLY <1>8, <1>9, <1>10
<1>17. CutAt(c, imp, c, (TP \cup (TS \cup TR)) \cup {t})
  <2>1. ASSUME NEW u \in Tag, c[u] < imp, u # t PROVE u \in TP \cup (TS \cup TR)
    <3>1. /\ b[u] \in Nat /\ c[u] \in Nat
          /\ c[u] = IF b[u] <= b[t] /\ b[u] < Assoc THEN b[u] + 1 ELSE b[u]
      BY ONLY <2>1, MayAges(b, c, t, imp0, imp), MayAgesOther
    <3>2. b[u] < imp0
      BY ONLY <1>1, <1>3, <2>1, <3>1
    <3>3. PICK k \in 1 .. L : s[k].tag = u
      <4>1. u \in Below(b, imp0)
        BY <3>2 DEF Below
      <4>2. QED
        BY ONLY <1>2, <4>1
    <3>4. k # i
      BY <2>1, <3>3
    <3>5. \/ k \in 1 .. lower - 1 \/ k \in upper + 1 .. L
          \/ k \in lower .. i - 1 \/ k \in i + 1 .. upper
      BY ONLY <1>6, <3>4, k \in 1 .. L
    <3>6. QED
      BY ONLY <3>3, <3>5 DEF Tags
  <2>2. \A u \in Tag : c[u] <= imp
    BY <1>1
  <2> HIDE DEF TP, TS, TR
  <2>3. \A u \in Tag : c[u] < imp => u \in (TP \cup (TS \cup TR)) \cup {t}
    BY ONLY <2>1
  <2>4. QED
    BY ONLY <2>2, <2>3 DEF CutAt
<1>18. QED
  <2>1. \E U : Holds(May!grow(young) \o merged, c, U) /\ t \notin U /\ CutAt(c, imp, c, U \cup {t})
    <3> HIDE DEF TP, TS, TR
    <3>1. QED
      BY <1>15, <1>16, <1>17
  <2>2. QED
    BY ONLY <2>1 DEF L, acc, same, merged, young, rest

\* update sets the bound of the accessed line to 0 and ages the lines that may
\* be as young as it.
LEMMA MayUpdate ==
    ASSUME NEW m, NEW b, MayRep(m, b), NEW t \in Tag, NEW c, c \in [Tag -> Age],
           \A u \in Tag : c[u] = IF u = t THEN 0
                                 ELSE IF b[u] <= b[t] /\ b[u] < Assoc THEN b[u] + 1 ELSE b[u]
    PROVE  MayRep(May!update(m, t), c)
<1> DEFINE s == m.explicitTags
           imp0 == m.ageOfImplicitTags
           i == May!find(m, t)
           acc == b[t]
           imp == IF imp0 <= acc /\ imp0 < Assoc THEN imp0 + 1 ELSE imp0
           kept == SubSeq(s, 1, Last({k \in 1 .. Len(s) : s[k].age # Assoc - 1}))
           lower == First({k \in 1 .. Len(s) : s[k].age = acc})
           upper == Last({k \in 1 .. Len(s) : s[k].age = acc})
           same == SubSeq(s, lower, i - 1) \o SubSeq(s, i + 1, upper)
           young == May!grow(SubSeq(s, 1, lower - 1))
                      \o May!mergeAll(May!grow(same), SubSeq(s, upper + 1, Len(s)), acc + 1)
           aged == IF i = 0 \/ acc = Assoc - 1 THEN May!grow(kept) ELSE young
<1>1. /\ imp0 \in Age /\ Holds(s, b, Below(b, imp0)) /\ b \in [Tag -> Age]
      /\ \A u \in Tag : b[u] <= imp0
      /\ acc \in Nat /\ acc <= imp0 /\ Assoc \in Nat /\ imp0 \in Nat /\ imp0 <= Assoc
  BY MayFacts DEF MayRep
<1>2. /\ May!getMinAge(m, t) = acc
      /\ i > 0 <=> acc < imp0
      /\ i \in 0 .. Len(s)
      /\ i > 0 => s[i].tag = t /\ s[i].age = acc
  BY MayMinAge
<1>3. May!update(m, t) = May!removeRedundantTags(
                           [explicitTags |-> <<[tag |-> t, age |-> 0]>> \o aged,
                            ageOfImplicitTags |-> imp])
  BY <1>2 DEF May!update, May!SelectInSeq, May!SelectLastInSeq, May!Min, May!Max, First, Last
<1>4. MayAges(b, c, t, imp0, imp)
  BY <1>1 DEF MayAges
<1> HIDE DEF s, imp0, imp, i, kept, lower, upper, same, young
<1>5. imp \in Age /\ c[t] = 0 /\ \A u \in Tag : u # t => c[u] # 0
  BY ONLY <1>4, MayAgesFacts
<1>6. \E U : Holds(aged, c, U) /\ t \notin U /\ CutAt(c, imp, c, U \cup {t})
  <2>1. CASE i = 0 \/ acc = Assoc - 1
    <3>1. b[t] = imp0 \/ b[t] = Assoc - 1
      BY ONLY <1>1, <1>2, <2>1
    <3>2. kept = SubSeq(s, 1, Last({k \in 1 .. Len(s) : s[k].age # Assoc - 1}))
      BY DEF kept
    <3>3. \E U : Holds(May!grow(kept), c, U) /\ t \notin U /\ CutAt(c, imp, c, U \cup {t})
      BY ONLY <1>1, <1>4, <3>1, <3>2, MayAgeAll
    <3>4. QED
      BY <2>1, <3>3
  <2>2. CASE ~(i = 0 \/ acc = Assoc - 1)
    <3>1. i \in 1 .. Len(s) /\ s[i].tag = t /\ s[i].age = acc /\ Len(s) \in Nat
      BY ONLY <1>1, <1>2, <2>2, HoldsFacts
    <3>2. b[t] < Assoc - 1
      BY ONLY <1>1, <1>2, <2>2, <3>1
    <3>3. lower <= i /\ i <= upper /\ IsSegment(s, lower, upper, acc)
      BY ONLY <1>1, <3>1, EqualAges DEF lower, upper
    <3> HIDE DEF acc
    <3>4. \E U : Holds(young, c, U) /\ t \notin U /\ CutAt(c, imp, c, U \cup {t})
      BY ONLY <1>1, <1>4, <3>1, <3>2, <3>3, MayAgeYounger DEF young, same, acc
    <3>5. QED
      BY <2>2, <3>4
  <2>3. QED
    BY <2>1, <2>2
<1>7. PICK U : Holds(aged, c, U) /\ t \notin U /\ CutAt(c, imp, c, U \cup {t})
  BY <1>6
<1> HIDE DEF aged
<1>8. MayRep(May!removeRedundantTags([explicitTags |-> <<[tag |-> t, age |-> 0]>> \o aged,
                                      ageOfImplicitTags |-> imp]), c)
  BY ONLY <1>5, <1>7, t \in Tag, c \in [Tag -> Age], MayAccess
<1>9. QED
  BY <1>3, <1>8

\* Two vectors, every tag of the first before every tag of the second.
LEMMA HoldsConcatTags ==
    ASSUME NEW v, NEW w, NEW b, NEW S, NEW T, Holds(v, b, S), Holds(w, b, T),
           \A u \in S, r \in T : b[u] < b[r] \/ (b[u] = b[r] /\ u < r)
    PROVE  Holds(v \o w, b, S \cup T)
<1>1. ASSUME NEW i \in 1 .. Len(v), NEW j \in 1 .. Len(w)
      PROVE  Less(v[i], w[j]) /\ v[i].tag # w[j].tag
  <2>1. v[i].tag \in S /\ v[i].tag \in Nat /\ v[i].age = b[v[i].tag] /\ v[i].age \in Nat
    BY HoldsFacts
  <2>2. w[j].tag \in T /\ w[j].tag \in Nat /\ w[j].age = b[w[j].tag] /\ w[j].age \in Nat
    BY HoldsFacts
  <2>3. v[i].age < w[j].age \/ (v[i].age = w[j].age /\ v[i].tag < w[j].tag)
    BY <2>1, <2>2
  <2>4. QED
    BY ONLY <2>1, <2>2, <2>3 DEF Less
<1>2. QED
  BY <1>1, HoldsConcat

\* The entries of the tags lo .. hi, all of age 0.
LEMMA FreshHolds ==
    ASSUME NEW lo \in Tag, NEW hi \in Tag, lo <= hi, lo .. hi \subseteq Tag,
           NEW c, \A u \in lo .. hi : c[u] = 0
    PROVE  Holds([k \in 1 .. hi - lo + 1 |-> [tag |-> lo + k - 1, age |-> 0]], c, lo .. hi)
<1> DEFINE n == hi - lo + 1
           new1(k) == [tag |-> lo + k - 1, age |-> 0]
           f == [k \in 1 .. n |-> new1(k)]
<1>1. lo \in Nat /\ hi \in Nat /\ lo .. hi \subseteq Tag /\ Assoc \in Nat /\ Assoc > 0
  BY TagAssumption, AssocAssumption
<1>2. ASSUME NEW k \in 1 .. n
      PROVE  /\ new1(k) \in Entry /\ new1(k).tag = lo + k - 1 /\ new1(k).age = 0
             /\ lo + k - 1 \in lo .. hi
  <2>1. lo + k - 1 \in lo .. hi
    BY ONLY <1>1, k \in 1 .. n
  <2>2. lo + k - 1 \in Tag
    BY ONLY <1>1, <2>1
  <2>3. 0 \in 0 .. Assoc - 1
    BY ONLY <1>1
  <2>4. new1(k) \in Entry
    BY ONLY <2>2, <2>3 DEF Entry
  <2>5. QED
    BY <2>1, <2>4
<1> HIDE DEF new1
<1>3. n \in Nat
  BY ONLY <1>1, lo <= hi
<1>4. f \in Seq(Entry) /\ Len(f) = n /\ \A k \in 1 .. n : f[k] = new1(k)
  <2> HIDE DEF n
  <2>1. QED
    BY <1>2, <1>3
<1> HIDE DEF f
<1>5. ASSUME NEW i \in 1 .. n, NEW j \in 1 .. n, i < j
      PROVE  Less(f[i], f[j]) /\ f[i].tag # f[j].tag
  BY <1>1, <1>2, <1>4, <1>5 DEF Less
<1>6. ASSUME NEW u \in lo .. hi PROVE \E i \in 1 .. n : f[i].tag = u
  <2>1. u - lo + 1 \in 1 .. n /\ lo + (u - lo + 1) - 1 = u
    BY <1>1
  <2> HIDE DEF n
  <2>2. QED
    BY <1>2, <1>4, <2>1
<1> HIDE DEF n
<1>7. \A k \in 1 .. n : f[k].tag \in lo .. hi /\ f[k].age = c[f[k].tag]
  BY <1>2, <1>4
<1>8. Holds(f, c, lo .. hi)
  BY ONLY <1>4, <1>5, <1>6, <1>7 DEF Holds, Canonical
<1>9. QED
  BY <1>8 DEF f, n, new1

\* potentialUpdate puts the tags lo .. hi in front and keeps all other bounds;
\* for a range of more than MaxWorthwhileTags tags it forgets everything.
LEMMA MayPotentialUpdate ==
    ASSUME NEW m, NEW b, MayRep(m, b), NEW lo \in Tag, NEW hi \in Tag, lo <= hi,
           lo .. hi \subseteq Tag, NEW c, c \in [Tag -> Age],
           \A u \in Tag : c[u] = IF hi - lo + 1 > MaxWorthwhileTags THEN 0
                                 ELSE IF lo <= u /\ u <= hi THEN 0 ELSE b[u]
    PROVE  MayRep(May!potentialUpdate(m, lo, hi), c)
<1> DEFINE s == m.explicitTags
           imp == m.ageOfImplicitTags
           L == Len(s)
<1>1. /\ imp \in Age /\ Holds(s, b, Below(b, imp)) /\ b \in [Tag -> Age]
      /\ \A u \in Tag : b[u] \in Nat /\ b[u] <= imp
      /\ Assoc \in Nat /\ Assoc > 0 /\ imp \in Nat /\ imp <= Assoc
  BY MayFacts DEF MayRep
<1>2. m = [explicitTags |-> s, ageOfImplicitTags |-> imp]
  BY DEF MayRep
<1>3. lo \in Nat /\ hi \in Nat /\ lo .. hi \subseteq Tag /\ Tag \subseteq Nat
  BY TagAssumption
<1>4. /\ L \in Nat
      /\ \A k \in 1 .. L : /\ s[k].tag \in Below(b, imp) /\ s[k].tag \in Nat
                           /\ s[k].age \in Nat /\ s[k].age = b[s[k].tag]
      /\ \A k, j \in 1 .. L : k < j => Less(s[k], s[j])
      /\ \A u \in Below(b, imp) : \E k \in 1 .. L : s[k].tag = u
  <2>1. Holds(s, b, Below(b, imp))
    BY <1>1
  <2> HIDE DEF s, imp
  <2>2. QED
    BY ONLY <2>1, HoldsFacts
<1> HIDE DEF s, imp, L
<1>5. CASE imp = 0
  <2>1. May!potentialUpdate(m, lo, hi) = m
    BY <1>5 DEF May!potentialUpdate, imp
  <2>2. ASSUME NEW u \in Tag PROVE b[u] = 0 /\ c[u] = 0
    BY <1>1, <1>5
  <2>3. Below(b, imp) = Below(c, imp)
    BY <1>1, <1>5, <2>2 DEF Below
  <2>4. Holds(s, c, Below(b, imp))
    <3>1. \A u \in Below(b, imp) : b[u] = c[u]
      BY <2>2 DEF Below
    <3>2. QED
      BY ONLY <1>1, <3>1, HoldsSame
  <2>5. \A u \in Tag : c[u] <= imp
    <3> SUFFICES ASSUME NEW u \in Tag PROVE c[u] <= imp
      OBVIOUS
    <3>1. c[u] = 0
      BY <2>2
    <3>2. QED
      BY ONLY <1>5, <3>1
  <2>6. QED
    BY <1>1, <1>2, <2>1, <2>3, <2>4, <2>5 DEF MayRep, s, imp
<1>6. CASE imp # 0 /\ hi - lo + 1 > MaxWorthwhileTags
  <2>1. May!potentialUpdate(m, lo, hi) = [explicitTags |-> <<>>, ageOfImplicitTags |-> 0]
    BY <1>6 DEF May!potentialUpdate, imp
  <2>2. ASSUME NEW u \in Tag PROVE c[u] = 0
    BY <1>6
  <2>3. Below(c, 0) = {}
    BY <2>2 DEF Below
  <2>4. Holds(<<>>, c, {})
    BY HoldsEmpty
  <2>5. 0 \in Age
    BY <1>1 DEF Age
  <2>6. \A u \in Tag : c[u] <= 0
    <3> SUFFICES ASSUME NEW u \in Tag PROVE c[u] <= 0
      OBVIOUS
    <3>1. c[u] = 0
      BY <2>2
    <3>2. QED
      BY ONLY <3>1
  <2> DEFINE r == [explicitTags |-> <<>>, ageOfImplicitTags |-> 0]
  <2>7. r.explicitTags = <<>> /\ r.ageOfImplicitTags = 0 /\ r = [explicitTags |-> r.explicitTags,
                                                ageOfImplicitTags |-> r.ageOfImplicitTags]
    OBVIOUS
  <2> HIDE DEF r
  <2>8. MayRep(r, c)
    BY ONLY <2>3, <2>4, <2>5, <2>6, <2>7, c \in [Tag -> Age] DEF MayRep
  <2>9. QED
    BY <2>1, <2>8 DEF r
<1>7. CASE imp # 0 /\ ~(hi - lo + 1 > MaxWorthwhileTags)
  <2> DEFINE front == First({k \in 1 .. L : s[k].age > 0 \/ s[k].tag >= lo})
             cut == IF front = 0 THEN L ELSE front - 1
             A == Tags(s, 1, cut)
             B == Tags(s, cut + 1, L)
             R == lo .. hi
             X == {u \in A : u < lo \/ u > hi}
             Y == {u \in B : u < lo \/ u > hi}
             x == May!copyOther(SubSeq(s, 1, cut), lo, hi)
             y == May!copyOther(SubSeq(s, cut + 1, L), lo, hi)
             f == [k \in 1 .. hi - lo + 1 |-> [tag |-> lo + k - 1, age |-> 0]]
  <2>1. May!potentialUpdate(m, lo, hi) = [m EXCEPT !.explicitTags = (x \o f) \o y]
    BY <1>7 DEF May!potentialUpdate, May!SelectInSeq, May!Min, First, s, imp, L
  <2>2. /\ front \in 0 .. L
        /\ front > 0 => s[front].age > 0 \/ s[front].tag >= lo
        /\ \A k \in 1 .. L : s[k].age > 0 \/ s[k].tag >= lo => front <= k /\ front > 0
    <3> DEFINE I == {k \in 1 .. L : s[k].age > 0 \/ s[k].tag >= lo}
    <3>1. I \subseteq 1 .. L
      OBVIOUS
    <3>2. \A k \in I : k \in 1 .. L /\ (s[k].age > 0 \/ s[k].tag >= lo)
      OBVIOUS
    <3>3. \A k \in 1 .. L : s[k].age > 0 \/ s[k].tag >= lo => k \in I
      OBVIOUS
    <3> HIDE DEF I
    <3>4. /\ First(I) \in 0 .. L /\ (First(I) = 0 <=> I = {})
          /\ First(I) > 0 => First(I) \in I
          /\ \A k \in I : First(I) <= k
      BY ONLY <1>4, <3>1, FirstFacts
    <3>5. front = First(I)
      BY DEF I
    <3> HIDE DEF front
    <3>6. front > 0 => s[front].age > 0 \/ s[front].tag >= lo
      BY ONLY <3>2, <3>4, <3>5
    <3>7. ASSUME NEW k \in 1 .. L, s[k].age > 0 \/ s[k].tag >= lo PROVE front <= k /\ front > 0
      <4>1. k \in I
        BY <3>3, <3>7
      <4>2. QED
        BY ONLY <1>4, <3>4, <3>5, <4>1
    <3>8. QED
      BY ONLY <3>4, <3>5, <3>6, <3>7
  <2> HIDE DEF front
  <2>3. cut \in 0 .. L /\ cut \in Int /\ cut + 1 \in Int
    BY <1>4, <2>2
  <2>4. ASSUME NEW u \in A PROVE u \in Below(b, imp) /\ u \in Nat /\ b[u] = 0 /\ u < lo
    <3>1. PICK k \in 1 .. cut : s[k].tag = u
      BY DEF Tags
    <3>2. k \in 1 .. L /\ ~(front <= k /\ front > 0)
      BY ONLY <1>4, <2>2, <2>3, k \in 1 .. cut
    <3>3. ~(s[k].age > 0 \/ s[k].tag >= lo)
      BY ONLY <2>2, <3>2
    <3>4. s[k].tag \in Below(b, imp) /\ s[k].tag \in Nat /\ s[k].age \in Nat /\ s[k].age = b[u]
      BY ONLY <1>4, <3>1, <3>2
    <3>5. QED
      BY ONLY <1>3, <3>1, <3>3, <3>4
  <2>5. ASSUME NEW u \in B
        PROVE  u \in Below(b, imp) /\ u \in Nat /\ b[u] \in Nat /\ (b[u] > 0 \/ u >= lo)
    <3>1. PICK k \in cut + 1 .. L : s[k].tag = u
      BY DEF Tags
    <3>2. front > 0 /\ front \in 1 .. L /\ k \in 1 .. L /\ front <= k
      BY ONLY <1>4, <2>2, <2>3, k \in cut + 1 .. L
    <3>3. s[k].tag \in Below(b, imp) /\ s[k].tag \in Nat /\ s[k].age \in Nat /\ s[k].age = b[u]
      BY ONLY <1>4, <3>1, <3>2
    <3>4. s[front].age \in Nat /\ s[front].tag \in Nat /\ (front = k \/ Less(s[front], s[k]))
      BY ONLY <1>4, <3>2
    <3>5. s[k].age > 0 \/ s[k].tag >= lo
      BY ONLY <1>3, <2>2, <3>2, <3>3, <3>4 DEF Less
    <3>6. QED
      BY ONLY <3>1, <3>3, <3>5
  <2>6. ASSUME NEW u \in Below(b, imp) PROVE u \in A \cup B
    <3>1. PICK k \in 1 .. L : s[k].tag = u
      BY <1>4
    <3>2. k \in 1 .. cut \/ k \in cut + 1 .. L
      BY ONLY <1>4, <2>3, k \in 1 .. L
    <3>3. QED
      BY ONLY <3>1, <3>2 DEF A, B, Tags
  <2>7. Holds(SubSeq(s, 1, cut), b, A) /\ Holds(SubSeq(s, cut + 1, L), b, B)
    <3>1. 1 <= cut + 1 /\ cut <= L /\ L <= L /\ L \in Int
      BY ONLY <1>4, <2>3
    <3> HIDE DEF cut
    <3>2. QED
      BY ONLY <1>1, <2>3, <3>1, HoldsSegment DEF L, A, B
  <2> HIDE DEF A, B, cut
  <2>8. ASSUME NEW u \in Tag, u < lo \/ u > hi PROVE b[u] = c[u]
    BY ONLY <1>3, <1>7, <2>8, \A r \in Tag : c[r] = IF hi - lo + 1 > MaxWorthwhileTags THEN 0
                                 ELSE IF lo <= r /\ r <= hi THEN 0 ELSE b[r]
  <2>9. ASSUME NEW u \in R PROVE u \in Tag /\ c[u] = 0
    BY <1>3
  <2>10. \A u \in X : u \in Tag /\ u < lo /\ b[u] = c[u] /\ c[u] = 0
    <3> SUFFICES ASSUME NEW u \in X PROVE u \in Tag /\ u < lo /\ b[u] = c[u] /\ c[u] = 0
      OBVIOUS
    <3>1. u \in Tag /\ u < lo /\ b[u] = 0
      BY <2>4 DEF Below
    <3>2. QED
      BY ONLY <2>8, <3>1
  <2>11. \A u \in Y : u \in Tag /\ b[u] = c[u] /\ c[u] \in Nat /\ (c[u] > 0 \/ u > hi)
    <3> SUFFICES ASSUME NEW u \in Y
                 PROVE  u \in Tag /\ b[u] = c[u] /\ c[u] \in Nat /\ (c[u] > 0 \/ u > hi)
      OBVIOUS
    <3>1. /\ u \in Tag /\ b[u] \in Nat /\ (b[u] > 0 \/ u >= lo) /\ u \in Nat
          /\ u < lo \/ u > hi
      BY <2>5 DEF Below
    <3>2. b[u] = c[u]
      BY ONLY <2>8, <3>1
    <3>3. QED
      BY ONLY <1>3, <3>1, <3>2
  <2>12. Holds(x, c, X)
    <3>1. Holds(x, b, X)
      BY ONLY <1>3, <2>7, CopyHolds
    <3> HIDE DEF x, X
    <3>2. QED
      BY ONLY <2>10, <3>1, HoldsSame
  <2>13. Holds(y, c, Y)
    <3>1. Holds(y, b, Y)
      BY ONLY <1>3, <2>7, CopyHolds
    <3> HIDE DEF y, Y
    <3>2. QED
      BY ONLY <2>11, <3>1, HoldsSame
  <2>14. Holds(f, c, R)
    BY <2>9, FreshHolds
  <2>15. \A u \in Below(c, imp) : u \in (X \cup R) \cup Y
    <3> SUFFICES ASSUME NEW u \in Below(c, imp), u \notin R PROVE u \in X \cup Y
      OBVIOUS
    <3>1. u \in Tag /\ c[u] < imp /\ (u < lo \/ u > hi)
      BY <1>3 DEF Below
    <3>2. b[u] = c[u]
      BY ONLY <2>8, <3>1
    <3>3. u \in A \cup B
      BY <2>6, <3>1, <3>2 DEF Below
    <3>4. QED
      BY ONLY <3>1, <3>3 DEF X, Y
  <2>16. \A u \in (X \cup R) \cup Y : u \in Below(c, imp)
    <3> SUFFICES ASSUME NEW u \in (X \cup R) \cup Y PROVE u \in Tag /\ c[u] < imp
      BY DEF Below
    <3>1. CASE u \in R
      BY ONLY <1>1, <1>7, <2>9, <3>1
    <3>2. CASE u \in X \cup Y
      <4>1. u \in Tag /\ b[u] = c[u]
        BY <2>10, <2>11, <3>2
      <4>2. b[u] < imp
        BY <2>4, <2>5, <3>2 DEF Below
      <4>3. QED
        BY ONLY <4>1, <4>2
    <3>3. QED
      BY <3>1, <3>2
  <2>17. \A u \in Tag : c[u] <= imp
    <3> SUFFICES ASSUME NEW u \in Tag PROVE c[u] <= imp
      OBVIOUS
    <3>1. b[u] <= imp /\ imp \in Nat
      BY ONLY <1>1, u \in Tag
    <3>2. c[u] = 0 \/ c[u] = b[u]
      BY <1>7
    <3>3. QED
      BY ONLY <3>1, <3>2
  <2>18. R \subseteq Int /\ \A u \in R : c[u] = 0 /\ lo <= u /\ u <= hi /\ u \in Tag
    BY <1>3, <2>9
  <2> HIDE DEF x, y, f, X, Y, R
  <2>19. Holds(x \o f, c, X \cup R)
    <3>1. ASSUME NEW u \in X, NEW r \in R PROVE c[u] < c[r] \/ (c[u] = c[r] /\ u < r)
      <4>1. c[u] = 0 /\ u < lo /\ c[r] = 0 /\ lo <= r /\ u \in Nat /\ r \in Nat
        BY <1>3, <2>10, <2>18
      <4>2. QED
        BY ONLY <1>3, <4>1
    <3>2. QED
      BY ONLY <2>12, <2>14, <3>1, HoldsConcatTags
  <2>20. Holds((x \o f) \o y, c, (X \cup R) \cup Y)
    <3>1. ASSUME NEW u \in X \cup R, NEW r \in Y PROVE c[u] < c[r] \/ (c[u] = c[r] /\ u < r)
      <4>1. c[u] = 0 /\ u <= hi /\ u \in Nat
        <5>1. CASE u \in X
          <6>1. c[u] = 0 /\ u < lo /\ u \in Nat
            BY <1>3, <2>10, <5>1
          <6>2. QED
            BY ONLY <1>3, <6>1, lo <= hi
        <5>2. CASE u \in R
          BY <1>3, <2>18, <5>2
        <5>3. QED
          BY <5>1, <5>2
      <4>2. r \in Nat /\ c[r] \in Nat /\ (c[r] > 0 \/ r > hi)
        BY <1>3, <2>11
      <4>3. QED
        BY ONLY <1>3, <4>1, <4>2
    <3> DEFINE w == x \o f
               W == X \cup R
    <3>2. Holds(w, c, W) /\ \A u \in W, r \in Y : c[u] < c[r] \/ (c[u] = c[r] /\ u < r)
      BY <2>19, <3>1
    <3> HIDE DEF w, W
    <3>3. Holds(w \o y, c, W \cup Y)
      BY ONLY <2>13, <3>2, HoldsConcatTags
    <3>4. QED
      BY <3>3 DEF w, W
  <2>21. Below(c, imp) = (X \cup R) \cup Y
    BY <2>15, <2>16
  <2> DEFINE z == (x \o f) \o y
  <2>22. [m EXCEPT !.explicitTags = z] = [explicitTags |-> z, ageOfImplicitTags |-> imp]
    <3> HIDE DEF z
    <3>1. QED
      BY ONLY <1>2
  <2>23. Holds(z, c, Below(c, imp))
    BY <2>20, <2>21
  <2> HIDE DEF z
  <2>24. QED
    BY <1>1, <2>1, <2>17, <2>22, <2>23 DEF MayRep, z
<1>8. QED
  BY <1>5, <1>6, <1>7

-----------------------------------------------------------------------------
(* The join of two may vectors.                                            *)

\* The bounds e of the tags with an entry, the lesser one where both have one.
LesserOf(e, bx, by, S, T) ==
    \A u \in S \cup T : /\ u \in S => e[u] <= bx[u]
                        /\ u \in T => e[u] <= by[u]
                        /\ (u \in S /\ e[u] = bx[u]) \/ (u \in T /\ e[u] = by[u])

\* The tags that are left to put out when i entries of x and j of y are shown.
Left(x, i, y, j) == (Tags(x, i + 1, Len(x)) \ Tags(y, 1, j))
                      \cup (Tags(y, j + 1, Len(y)) \ Tags(x, 1, i))

\* One step of the merge: the i-th entry of x comes before what is left.
LEMMA MayJoinStep ==
    ASSUME NEW x, NEW y, NEW bx, NEW by, NEW S, NEW T, Holds(x, bx, S), Holds(y, by, T), NEW e,
           LesserOf(e, bx, by, S, T),
           NEW i \in 1 .. Len(x), NEW j \in 0 .. Len(y),
           j < Len(y) => NotBefore(x[i], y[j + 1]),
           NEW w, Holds(w, e, Left(x, i, y, j))
    PROVE  Holds((IF \E k \in 1 .. j : y[k].tag = x[i].tag THEN <<>> ELSE <<x[i]>>) \o w, e,
                 Left(x, i - 1, y, j))
<1> DEFINE f == x[i]
<1>1. /\ Len(x) \in Nat
      /\ \A k \in 1 .. Len(x) : /\ x[k] \in Entry /\ x[k].tag \in S /\ x[k].age = bx[x[k].tag]
                                /\ x[k].age \in Nat /\ x[k].tag \in Nat
      /\ \A k, l \in 1 .. Len(x) : k < l => Less(x[k], x[l]) /\ x[k].tag # x[l].tag
      /\ \A k, l \in 1 .. Len(x) : x[k].tag = x[l].tag => k = l
      /\ \A u \in S : \E k \in 1 .. Len(x) : x[k].tag = u
  BY ONLY Holds(x, bx, S), HoldsFacts
<1>2. /\ Len(y) \in Nat
      /\ \A k \in 1 .. Len(y) : /\ y[k] \in Entry /\ y[k].tag \in T /\ y[k].age = by[y[k].tag]
                                /\ y[k].age \in Nat /\ y[k].tag \in Nat
      /\ \A k, l \in 1 .. Len(y) : k < l => Less(y[k], y[l]) /\ y[k].tag # y[l].tag
      /\ \A k, l \in 1 .. Len(y) : y[k].tag = y[l].tag => k = l
      /\ \A u \in T : \E k \in 1 .. Len(y) : y[k].tag = u
  BY ONLY Holds(y, by, T), HoldsFacts
<1>3. /\ w \in Seq(Entry) /\ Len(w) \in Nat
      /\ \A k \in 1 .. Len(w) : /\ w[k] \in Entry /\ w[k].tag \in Left(x, i, y, j)
                                /\ w[k].age = e[w[k].tag]
  BY ONLY Holds(w, e, Left(x, i, y, j)), HoldsFacts
<1>i. i \in 1 .. Len(x) /\ j \in 0 .. Len(y)
  OBVIOUS
<1>4. Tags(x, 1, i) = Tags(x, 1, i - 1) \cup {f.tag}
  <2>1. \A k : k \in 1 .. i <=> k = i \/ k \in 1 .. i - 1
    BY ONLY <1>1, <1>i
  <2>2. QED
    BY <2>1 DEF Tags
<1>5. Tags(x, (i - 1) + 1, Len(x)) = Tags(x, i + 1, Len(x)) \cup {f.tag}
  <2>1. \A k : k \in (i - 1) + 1 .. Len(x) <=> k = i \/ k \in i + 1 .. Len(x)
    BY ONLY <1>1, <1>i
  <2>2. QED
    BY <2>1 DEF Tags
<1>6. CASE \E k \in 1 .. j : y[k].tag = f.tag
  <2>1. PICK k \in 1 .. j : y[k].tag = f.tag
    BY <1>6
  <2>2. f.tag \in Tags(y, 1, j)
    BY <2>1 DEF Tags
  <2>3. f.tag \notin Tags(y, j + 1, Len(y))
    <3> SUFFICES ASSUME NEW l \in j + 1 .. Len(y) PROVE y[l].tag # y[k].tag
      BY <2>1 DEF Tags
    <3>1. k \in 1 .. Len(y) /\ l \in 1 .. Len(y) /\ k # l
      BY ONLY <1>2, <1>i, k \in 1 .. j, l \in j + 1 .. Len(y)
    <3>2. QED
      BY ONLY <1>2, <3>1
  <2>4. Left(x, i - 1, y, j) = Left(x, i, y, j)
    BY <1>4, <1>5, <2>2, <2>3 DEF Left
  <2>5. <<>> \o w = w
    BY <1>3
  <2>6. QED
    BY <1>6, <2>4, <2>5
<1>7. CASE ~ \E k \in 1 .. j : y[k].tag = f.tag
  <2>1. f.tag \notin Tags(y, 1, j)
    BY <1>7 DEF Tags
  <2>2. Left(x, i - 1, y, j) = Left(x, i, y, j) \cup {f.tag}
    <3>1. f.tag \notin Tags(x, 1, i - 1)
      <4> SUFFICES ASSUME NEW l \in 1 .. i - 1 PROVE x[l].tag # f.tag
        BY DEF Tags
      <4>1. l \in 1 .. Len(x) /\ l # i
        BY ONLY <1>1, <1>i, l \in 1 .. i - 1
      <4>2. QED
        BY ONLY <1>1, <1>i, <4>1
    <3>2. QED
      BY <1>4, <1>5, <2>1, <3>1 DEF Left
  <2>3. ASSUME NEW l \in 1 .. Len(y), l > j PROVE NotBefore(f, y[l])
    <3>1. j < Len(y) /\ j + 1 \in 1 .. Len(y) /\ (l = j + 1 \/ j + 1 < l)
      BY ONLY <1>2, <1>i, <2>3, l \in 1 .. Len(y)
    <3>2. NotBefore(f, y[j + 1])
      BY <3>1
    <3>3. y[l] = y[j + 1] \/ Less(y[j + 1], y[l])
      BY <1>2, <3>1
    <3>4. f \in Entry /\ y[l] \in Entry /\ y[j + 1] \in Entry
      BY <1>1, <1>2, <3>1
    <3> DEFINE g == y[l]
               h == y[j + 1]
    <3> HIDE DEF f, g, h
    <3>5. NotBefore(f, h) /\ (g = h \/ Less(h, g)) /\ f \in Entry /\ g \in Entry /\ h \in Entry
      BY <3>2, <3>3, <3>4 DEF g, h
    <3>6. NotBefore(f, g)
      BY ONLY <3>5, EntryFacts DEF NotBefore, Less
    <3>7. QED
      BY <3>6 DEF g
  <2>4. /\ f \in Entry /\ f.tag \in S /\ f.age = bx[f.tag] /\ f.age \in Nat /\ f.tag \in Nat
    BY <1>1
  <2>5. f.age = e[f.tag]
    <3>1. f.tag \in S \cup T /\ (f.tag \in T => f.age <= by[f.tag] /\ by[f.tag] \in Nat)
      <4> SUFFICES ASSUME f.tag \in T PROVE f.age <= by[f.tag] /\ by[f.tag] \in Nat
        BY <2>4
      <4>1. PICK l \in 1 .. Len(y) : y[l].tag = f.tag
        BY <1>2
      <4>2. ~ (l \in 1 .. j)
        BY <1>7, <4>1
      <4>3. l > j
        BY ONLY <1>2, <1>i, <4>2, l \in 1 .. Len(y)
      <4>4. NotBefore(f, y[l]) /\ y[l].age = by[f.tag] /\ y[l].age \in Nat
        BY <1>2, <2>3, <4>1, <4>3
      <4>5. QED
        BY ONLY <2>4, <4>4 DEF NotBefore, Less
    <3>2. /\ f.tag \in T => e[f.tag] <= by[f.tag]
          /\ e[f.tag] <= bx[f.tag]
          /\ e[f.tag] = bx[f.tag] \/ (f.tag \in T /\ e[f.tag] = by[f.tag])
      BY <2>4, <3>1 DEF LesserOf
    <3>3. QED
      BY ONLY <2>4, <3>1, <3>2
  <2>6. ASSUME NEW u \in Left(x, i, y, j)
        PROVE  /\ u # f.tag /\ u \in S \cup T
               /\ u \in S => Less(f, [tag |-> u, age |-> bx[u]])
               /\ u \in T => Less(f, [tag |-> u, age |-> by[u]])
    <3>1. /\ u \in Tags(x, i + 1, Len(x)) \/ u \in Tags(y, j + 1, Len(y))
          /\ u \in Tags(x, i + 1, Len(x)) => u \notin Tags(y, 1, j) \/ u \in Tags(y, j + 1, Len(y))
          /\ u \in Tags(y, j + 1, Len(y)) => u \notin Tags(x, 1, i) \/ u \in Tags(x, i + 1, Len(x))
      BY DEF Left
    <3>2. ASSUME NEW p \in 1 .. Len(x), x[p].tag = u PROVE p > i
      <4>1. CASE u \in Tags(x, i + 1, Len(x))
        <5>1. PICK l \in i + 1 .. Len(x) : x[l].tag = u
          BY <4>1 DEF Tags
        <5>2. l \in 1 .. Len(x) /\ l > i
          BY ONLY <1>1, <1>i, l \in i + 1 .. Len(x)
        <5>3. p = l
          BY ONLY <1>1, <3>2, <5>1, <5>2, p \in 1 .. Len(x)
        <5>4. QED
          BY <5>2, <5>3
      <4>2. CASE u \notin Tags(x, i + 1, Len(x))
        <5>1. u \notin Tags(x, 1, i)
          BY <3>1, <4>2
        <5>2. ~(p \in 1 .. i)
          BY <3>2, <5>1 DEF Tags
        <5>3. QED
          BY ONLY <1>1, <1>i, <5>2, p \in 1 .. Len(x)
      <4>3. QED
        BY <4>1, <4>2
    <3>3. ASSUME NEW q \in 1 .. Len(y), y[q].tag = u PROVE q > j
      <4>1. CASE u \in Tags(y, j + 1, Len(y))
        <5>1. PICK l \in j + 1 .. Len(y) : y[l].tag = u
          BY <4>1 DEF Tags
        <5>2. l \in 1 .. Len(y) /\ l > j
          BY ONLY <1>2, <1>i, l \in j + 1 .. Len(y)
        <5>3. q = l
          BY ONLY <1>2, <3>3, <5>1, <5>2, q \in 1 .. Len(y)
        <5>4. QED
          BY <5>2, <5>3
      <4>2. CASE u \notin Tags(y, j + 1, Len(y))
        <5>1. u \notin Tags(y, 1, j)
          BY <3>1, <4>2
        <5>2. ~(q \in 1 .. j)
          BY <3>3, <5>1 DEF Tags
        <5>3. QED
          BY ONLY <1>2, <1>i, <5>2, q \in 1 .. Len(y)
      <4>3. QED
        BY <4>1, <4>2
    <3>4. u # f.tag
      BY ONLY <1>1, <1>i, <3>2
    <3>5. u \in S \cup T
      <4>1. CASE u \in Tags(x, i + 1, Len(x))
        <5>1. PICK l \in i + 1 .. Len(x) : x[l].tag = u
          BY <4>1 DEF Tags
        <5>2. l \in 1 .. Len(x)
          BY ONLY <1>1, <1>i, l \in i + 1 .. Len(x)
        <5>3. QED
          BY <1>1, <5>1, <5>2
      <4>2. CASE u \in Tags(y, j + 1, Len(y))
        <5>1. PICK l \in j + 1 .. Len(y) : y[l].tag = u
          BY <4>2 DEF Tags
        <5>2. l \in 1 .. Len(y)
          BY ONLY <1>2, <1>i, l \in j + 1 .. Len(y)
        <5>3. QED
          BY <1>2, <5>1, <5>2
      <4>3. QED
        BY <3>1, <4>1, <4>2
    <3>6. ASSUME u \in S PROVE Less(f, [tag |-> u, age |-> bx[u]])
      <4>1. PICK p \in 1 .. Len(x) : x[p].tag = u
        BY <1>1, <3>6
      <4>2. Less(f, x[p]) /\ x[p].age = bx[u]
        BY <1>1, <1>i, <3>2, <4>1
      <4>3. QED
        BY <4>1, <4>2 DEF Less
    <3>7. ASSUME u \in T PROVE Less(f, [tag |-> u, age |-> by[u]])
      <4>1. PICK q \in 1 .. Len(y) : y[q].tag = u
        BY <1>2, <3>7
      <4>2. NotBefore(f, y[q]) /\ y[q].age = by[u]
        BY <1>2, <2>3, <3>3, <4>1
      <4>3. QED
        BY <3>4, <4>1, <4>2 DEF Less, NotBefore
    <3>8. QED
      BY <3>4, <3>5, <3>6, <3>7
  <2>7. ASSUME NEW k \in 1 .. Len(w) PROVE Less(f, w[k]) /\ f.tag # w[k].tag
    <3> DEFINE u == w[k].tag
    <3>1. u \in Left(x, i, y, j) /\ w[k].age = e[u]
      BY <1>3
    <3> HIDE DEF f
    <3>2. /\ u # f.tag /\ u \in S \cup T
          /\ u \in S => Less(f, [tag |-> u, age |-> bx[u]])
          /\ u \in T => Less(f, [tag |-> u, age |-> by[u]])
      BY <2>6, <3>1
    <3>3. (u \in S /\ e[u] = bx[u]) \/ (u \in T /\ e[u] = by[u])
      BY <3>2 DEF LesserOf
    <3>4. QED
      BY <3>1, <3>2, <3>3 DEF Less
  <2> HIDE DEF f
  <2>8. Holds(<<f>> \o w, e, Left(x, i, y, j) \cup {f.tag})
    BY ONLY <2>4, <2>5, <2>7, Holds(w, e, Left(x, i, y, j)), HoldsFront
  <2>9. Holds(<<f>> \o w, e, Left(x, i - 1, y, j))
    BY <2>2, <2>8
  <2>10. QED
    BY <1>7, <2>9 DEF f
<1>8. QED
  BY <1>6, <1>7

\* join takes the lesser bound of both vectors.
LEMMA MayJoin ==
    ASSUME NEW x, NEW bx, MayRep(x, bx), NEW y, NEW by, MayRep(y, by), NEW c, c \in [Tag -> Age],
           \A u \in Tag : c[u] = IF bx[u] <= by[u] THEN bx[u] ELSE by[u]
    PROVE  MayRep(May!join(x, y), c)
<1> DEFINE v == x.explicitTags
           w == y.explicitTags
           m == Len(v)
           n == Len(w)
           ix == x.ageOfImplicitTags
           iy == y.ageOfImplicitTags
           imp == IF ix <= iy THEN ix ELSE iy
           D == (0 .. m) \X (0 .. n)
           V == Seq(Entry)
           xLesser(i, j) == /\ i < m
                            /\ \/ j = n
                               \/ v[i + 1].age < w[j + 1].age
                               \/ v[i + 1].age = w[j + 1].age /\ v[i + 1].tag <= w[j + 1].tag
           xs(i, j) == IF \E k \in 1 .. j : w[k].tag = v[i + 1].tag THEN <<>> ELSE <<v[i + 1]>>
           ys(i, j) == IF \E k \in 1 .. i : v[k].tag = w[j + 1].tag THEN <<>> ELSE <<w[j + 1]>>
           Is(o) == o = [shown \in D |->
                           IF shown[1] = m /\ shown[2] = n THEN <<>>
                           ELSE IF xLesser(shown[1], shown[2])
                           THEN xs(shown[1], shown[2]) \o o[<<shown[1] + 1, shown[2]>>]
                           ELSE ys(shown[1], shown[2]) \o o[<<shown[1], shown[2] + 1>>]]
           S == Below(bx, ix)
           T == Below(by, iy)
<1>1. May!join(x, y) = May!removeRedundantTags(
                         [explicitTags |-> (CHOOSE o : Is(o))[<<0, 0>>], ageOfImplicitTags |-> imp])
  BY DEF May!join
<1>2. /\ Holds(v, bx, S) /\ ix \in Nat /\ ix \in Age
      /\ Holds(w, by, T) /\ iy \in Nat /\ iy \in Age
  BY MayFacts
<1>3. ASSUME NEW u \in Tag
      PROVE  /\ bx[u] \in Nat /\ bx[u] <= ix /\ (u \in S <=> bx[u] < ix)
             /\ by[u] \in Nat /\ by[u] <= iy /\ (u \in T <=> by[u] < iy)
             /\ c[u] = IF bx[u] <= by[u] THEN bx[u] ELSE by[u]
  <2>1. bx[u] \in Nat /\ bx[u] <= ix
    BY MayFacts
  <2>2. by[u] \in Nat /\ by[u] <= iy
    BY MayFacts
  <2>3. QED
    BY <2>1, <2>2 DEF Below
<1> HIDE DEF v, w, ix, iy
<1>4. /\ m \in Nat
      /\ \A k \in 1 .. m : /\ v[k] \in Entry /\ v[k].age \in Nat /\ v[k].tag \in Nat
                           /\ v[k].tag \in S
      /\ \A u \in S : \E k \in 1 .. m : v[k].tag = u
  BY ONLY <1>2, HoldsFacts
<1>5. /\ n \in Nat
      /\ \A k \in 1 .. n : /\ w[k] \in Entry /\ w[k].age \in Nat /\ w[k].tag \in Nat
                           /\ w[k].tag \in T
      /\ \A u \in T : \E k \in 1 .. n : w[k].tag = u
  BY ONLY <1>2, HoldsFacts
<1> HIDE DEF m, n
<1>6. ASSUME NEW i \in 0 .. m, NEW j \in 0 .. n
      PROVE  /\ xLesser(i, j) => i < m /\ xs(i, j) \in V
             /\ ~ xLesser(i, j) /\ ~ (i = m /\ j = n) => j < n /\ ys(i, j) \in V
             /\ xLesser(i, j) /\ j < n => NotBefore(v[i + 1], w[j + 1])
             /\ ~ xLesser(i, j) /\ i < m /\ j < n => NotBefore(w[j + 1], v[i + 1])
  <2>1. <<>> \in V /\ \A e \in Entry : <<e>> \in V
    OBVIOUS
  <2>2. i < m => i + 1 \in 1 .. m
    BY <1>4
  <2>3. j < n => j + 1 \in 1 .. n
    BY <1>5
  <2>4. i <= m /\ j <= n
    BY <1>4, <1>5
  <2>5. i < m => v[i + 1] \in Entry /\ v[i + 1].age \in Nat /\ v[i + 1].tag \in Nat
    BY <1>4, <2>2
  <2>6. j < n => w[j + 1] \in Entry /\ w[j + 1].age \in Nat /\ w[j + 1].tag \in Nat
    BY <1>5, <2>3
  <2> DEFINE p == i + 1
             q == j + 1
  <2> HIDE DEF V, p, q
  <2>7. QED
    BY <1>4, <1>5, <2>1, <2>4, <2>5, <2>6 DEF NotBefore, Less
<1>7. \E o : Is(o)
  <2> DEFINE rank == [d \in D |-> (m - d[1]) + (n - d[2])]
             pred == [d \in D |-> IF xLesser(d[1], d[2]) THEN <<d[1] + 1, d[2]>>
                                  ELSE <<d[1], d[2] + 1>>]
             step == [z \in D \X V |-> IF rank[z[1]] = 0 THEN <<>>
                                       ELSE IF xLesser(z[1][1], z[1][2])
                                       THEN xs(z[1][1], z[1][2]) \o z[2]
                                       ELSE ys(z[1][1], z[1][2]) \o z[2]]
             max == m + n
  <2>1. \A r, s \in V : r \o s \in V
    OBVIOUS
  <2>2. <<>> \in V
    OBVIOUS
  <2> HIDE DEF V, xLesser, xs, ys
  <2>3. \A d \in D : /\ d[1] \in 0 .. m /\ d[2] \in 0 .. n /\ d = <<d[1], d[2]>>
                     /\ rank[d] = (m - d[1]) + (n - d[2]) /\ rank[d] \in Nat /\ rank[d] <= max
                     /\ rank[d] = 0 <=> d[1] = m /\ d[2] = n
    BY <1>4, <1>5
  <2>4. rank \in [D -> Nat] /\ max \in Nat
    BY <1>4, <1>5
  <2>5. \A d \in D : rank[d] > 0 => pred[d] \in D /\ rank[pred[d]] < rank[d]
    <3> SUFFICES ASSUME NEW d \in D, rank[d] > 0
                 PROVE  pred[d] \in D /\ rank[pred[d]] < rank[d]
      OBVIOUS
    <3>1. /\ d[1] \in 0 .. m /\ d[2] \in 0 .. n /\ rank[d] = (m - d[1]) + (n - d[2])
          /\ ~ (d[1] = m /\ d[2] = n)
      BY <2>3
    <3>2. CASE xLesser(d[1], d[2])
      <4>1. d[1] < m /\ pred[d] = <<d[1] + 1, d[2]>>
        BY <1>6, <3>1, <3>2
      <4>2. <<d[1] + 1, d[2]>> \in D /\ rank[<<d[1] + 1, d[2]>>] = (m - (d[1] + 1)) + (n - d[2])
        BY <1>4, <1>5, <3>1, <4>1
      <4> HIDE DEF D, rank, pred
      <4>3. QED
        BY <1>4, <1>5, <3>1, <4>1, <4>2
    <3>3. CASE ~ xLesser(d[1], d[2])
      <4>1. d[2] < n /\ pred[d] = <<d[1], d[2] + 1>>
        BY <1>6, <3>1, <3>3
      <4>2. <<d[1], d[2] + 1>> \in D /\ rank[<<d[1], d[2] + 1>>] = (m - d[1]) + (n - (d[2] + 1))
        BY <1>4, <1>5, <3>1, <4>1
      <4> HIDE DEF D, rank, pred
      <4>3. QED
        BY <1>4, <1>5, <3>1, <4>1, <4>2
    <3>4. QED
      BY <3>2, <3>3
  <2>6. step \in [D \X V -> V]
    <3>1. ASSUME NEW d \in D, NEW s \in V
          PROVE  (IF rank[d] = 0 THEN <<>>
                  ELSE IF xLesser(d[1], d[2]) THEN xs(d[1], d[2]) \o s
                  ELSE ys(d[1], d[2]) \o s) \in V
      <4>1. d[1] \in 0 .. m /\ d[2] \in 0 .. n /\ (rank[d] = 0 <=> d[1] = m /\ d[2] = n)
        BY <2>3
      <4> HIDE DEF rank, D
      <4>2. QED
        BY <1>6, <2>1, <2>2, <4>1
    <3> HIDE DEF rank, D
    <3>2. QED
      BY <3>1
  <2>7. PICK g : IsRecursive(g, D, V, <<>>, rank, pred, step)
    <3> HIDE DEF rank, pred, step, D, max
    <3>1. QED
      BY <2>2, <2>3, <2>4, <2>5, <2>6, RecursionExists
  <2>8. g \in [D -> V] /\ \A d \in D : g[d] = IF rank[d] = 0 THEN <<>> ELSE step[<<d, g[pred[d]]>>]
    <3> HIDE DEF rank, pred, step, D
    <3>1. QED
      BY <2>7 DEF IsRecursive
  <2>9. ASSUME NEW d \in D
        PROVE  g[d] = IF d[1] = m /\ d[2] = n THEN <<>>
                      ELSE IF xLesser(d[1], d[2]) THEN xs(d[1], d[2]) \o g[<<d[1] + 1, d[2]>>]
                      ELSE ys(d[1], d[2]) \o g[<<d[1], d[2] + 1>>]
    <3>1. rank[d] \in Nat /\ (rank[d] = 0 <=> d[1] = m /\ d[2] = n)
      BY <2>3
    <3>2. CASE d[1] = m /\ d[2] = n
      <4>1. rank[d] = 0
        BY <3>1, <3>2
      <4> HIDE DEF rank, D, step
      <4>2. QED
        BY <2>8, <3>2, <4>1
    <3>3. CASE ~ (d[1] = m /\ d[2] = n)
      <4>1. rank[d] # 0 /\ rank[d] > 0
        <5> HIDE DEF rank
        <5>1. QED
          BY <3>1, <3>3
      <4>2. pred[d] = IF xLesser(d[1], d[2]) THEN <<d[1] + 1, d[2]>> ELSE <<d[1], d[2] + 1>>
        OBVIOUS
      <4> DEFINE p == pred[d]
                 z == <<d, g[p]>>
      <4>3. z \in D \X V /\ z[1] = d /\ z[2] = g[p]
        <5>1. p \in D
          BY <2>5, <4>1
        <5> HIDE DEF D, p, rank, step
        <5>2. QED
          BY <2>8, <5>1
      <4>4. step[z] = IF xLesser(d[1], d[2]) THEN xs(d[1], d[2]) \o g[p]
                      ELSE ys(d[1], d[2]) \o g[p]
        <5> HIDE DEF z, p, rank, D
        <5>1. QED
          BY <4>1, <4>3
      <4>5. g[d] = step[z]
        <5> HIDE DEF step, rank, D, pred
        <5>1. QED
          BY <2>8, <4>1
      <4> HIDE DEF D, rank, step, pred
      <4>6. QED
        BY <3>3, <4>2, <4>4, <4>5 DEF p
    <3>4. QED
      BY <3>2, <3>3
  <2>10. Is(g)
    <3> HIDE DEF D
    <3>1. QED
      BY <2>8, <2>9
  <2>11. QED
    BY <2>10
<1>8. PICK o : Is(o) /\ May!join(x, y) = May!removeRedundantTags(
                          [explicitTags |-> o[<<0, 0>>], ageOfImplicitTags |-> imp])
  BY <1>1, <1>7
<1>9. /\ o[<<m, n>>] = <<>>
      /\ \A i \in 0 .. m, j \in 0 .. n :
            ~ (i = m /\ j = n) => o[<<i, j>>] = IF xLesser(i, j) THEN xs(i, j) \o o[<<i + 1, j>>]
                                                ELSE ys(i, j) \o o[<<i, j + 1>>]
  <2> HIDE DEF xLesser, xs, ys
  <2>1. \A d \in D : o[d] = IF d[1] = m /\ d[2] = n THEN <<>>
                            ELSE IF xLesser(d[1], d[2]) THEN xs(d[1], d[2]) \o o[<<d[1] + 1, d[2]>>]
                            ELSE ys(d[1], d[2]) \o o[<<d[1], d[2] + 1>>]
    <3> HIDE DEF D
    <3>1. QED
      BY <1>8
  <2>2. <<m, n>> \in D
    BY <1>4, <1>5
  <2>3. ASSUME NEW i \in 0 .. m, NEW j \in 0 .. n, ~ (i = m /\ j = n)
        PROVE  o[<<i, j>>] = IF xLesser(i, j) THEN xs(i, j) \o o[<<i + 1, j>>]
                             ELSE ys(i, j) \o o[<<i, j + 1>>]
    <3>1. <<i, j>> \in D
      OBVIOUS
    <3> HIDE DEF D
    <3>2. QED
      BY <2>1, <2>3, <3>1
  <2> HIDE DEF D
  <2>4. QED
    BY <2>1, <2>2, <2>3
<1> HIDE DEF D, Is
<1> DEFINE e == [u \in Tag |-> IF u \in S /\ u \in T THEN IF bx[u] <= by[u] THEN bx[u] ELSE by[u]
                               ELSE IF u \in S THEN bx[u] ELSE by[u]]
           Good(i, j) == Holds(o[<<i, j>>], e, Left(v, i, w, j))
           G == {r \in Nat : \A i \in 0 .. m, j \in 0 .. n : (m - i) + (n - j) = r => Good(i, j)}
<1>10. LesserOf(e, bx, by, S, T) /\ LesserOf(e, by, bx, T, S)
  <2>1. ASSUME NEW u \in S \cup T
        PROVE  /\ u \in S => e[u] <= bx[u]
               /\ u \in T => e[u] <= by[u]
               /\ (u \in S /\ e[u] = bx[u]) \/ (u \in T /\ e[u] = by[u])
    <3>1. u \in Tag
      BY DEF Below
    <3>2. e[u] = IF u \in S /\ u \in T THEN IF bx[u] <= by[u] THEN bx[u] ELSE by[u]
                 ELSE IF u \in S THEN bx[u] ELSE by[u]
      BY <3>1
    <3>3. bx[u] \in Nat /\ by[u] \in Nat
      BY <1>3, <3>1
    <3> HIDE DEF e, S, T
    <3>4. QED
      BY ONLY <3>2, <3>3, u \in S \cup T
  <2> HIDE DEF e, S, T
  <2>2. QED
    BY <2>1 DEF LesserOf
<1> HIDE DEF e
<1>11. 0 \in G
  <2>1. ASSUME NEW i \in 0 .. m, NEW j \in 0 .. n, (m - i) + (n - j) = 0 PROVE i = m /\ j = n
    BY <1>4, <1>5, <2>1
  <2>2. Left(v, m, w, n) = {}
    <3>1. m + 1 .. m = {} /\ n + 1 .. n = {}
      BY ONLY <1>4, <1>5
    <3>2. QED
      BY <3>1 DEF Left, Tags, m, n
  <2>3. Good(m, n)
    BY <1>9, <2>2, HoldsEmpty
  <2> HIDE DEF Good
  <2>4. QED
    BY <2>1, <2>3
<1>12. ASSUME NEW r \in Nat, r \in G PROVE r + 1 \in G
  <2> SUFFICES ASSUME NEW i \in 0 .. m, NEW j \in 0 .. n, (m - i) + (n - j) = r + 1
               PROVE  Good(i, j)
    <3> HIDE DEF Good
    <3>1. QED
      OBVIOUS
  <2>1. ~ (i = m /\ j = n)
    BY <1>4, <1>5
  <2>2. CASE xLesser(i, j)
    <3>1. i + 1 \in 1 .. m /\ i + 1 \in 0 .. m /\ (m - (i + 1)) + (n - j) = r /\ (i + 1) - 1 = i
      <4>1. i < m
        BY <1>6, <2>2
      <4>2. QED
        BY <1>4, <1>5, <4>1
    <3>2. Good(i + 1, j)
      <4> HIDE DEF Good
      <4>1. QED
        BY <1>12, <3>1
    <3>3. j < n => NotBefore(v[i + 1], w[j + 1])
      BY <1>6, <2>2
    <3>4. o[<<i, j>>] = xs(i, j) \o o[<<i + 1, j>>]
      <4> HIDE DEF xLesser, xs, ys
      <4>1. QED
        BY <1>9, <2>1, <2>2
    <3> DEFINE z == o[<<i + 1, j>>]
               k == i + 1
    <3>5. Holds(z, e, Left(v, k, w, j)) /\ k \in 1 .. m /\ (j < n => NotBefore(v[k], w[j + 1]))
      BY <3>1, <3>2, <3>3
    <3> HIDE DEF z, k
    <3>6. Holds((IF \E l \in 1 .. j : w[l].tag = v[k].tag THEN <<>> ELSE <<v[k]>>) \o z, e,
                Left(v, k - 1, w, j))
      <4> HIDE DEF S, T
      <4>1. QED
        BY ONLY <1>2, <1>10, <3>5, MayJoinStep, j \in 0 .. n DEF m, n
    <3>7. QED
      BY <3>1, <3>4, <3>6 DEF z, k
  <2>3. CASE ~ xLesser(i, j)
    <3>1. j + 1 \in 1 .. n /\ j + 1 \in 0 .. n /\ (m - i) + (n - (j + 1)) = r /\ (j + 1) - 1 = j
      <4>1. j < n
        BY <1>6, <2>1, <2>3
      <4>2. QED
        BY <1>4, <1>5, <4>1
    <3>2. Good(i, j + 1)
      <4> HIDE DEF Good
      <4>1. QED
        BY <1>12, <3>1
    <3>3. i < m => NotBefore(w[j + 1], v[i + 1])
      <4>1. j < n
        BY <1>6, <2>1, <2>3
      <4>2. QED
        BY <1>6, <2>3, <4>1
    <3>4. o[<<i, j>>] = ys(i, j) \o o[<<i, j + 1>>]
      <4> HIDE DEF xLesser, xs, ys
      <4>1. QED
        BY <1>9, <2>1, <2>3
    <3> DEFINE z == o[<<i, j + 1>>]
               k == j + 1
    <3>5. Holds(z, e, Left(w, k, v, i)) /\ k \in 1 .. n /\ (i < m => NotBefore(w[k], v[i + 1]))
      <4>1. Left(v, i, w, k) = Left(w, k, v, i)
        BY DEF Left
      <4>2. QED
        BY <3>1, <3>2, <3>3, <4>1
    <3> HIDE DEF z, k
    <3>6. Holds((IF \E l \in 1 .. i : v[l].tag = w[k].tag THEN <<>> ELSE <<w[k]>>) \o z, e,
                Left(w, k - 1, v, i))
      <4> HIDE DEF S, T
      <4>1. QED
        BY ONLY <1>2, <1>10, <3>5, MayJoinStep, i \in 0 .. m DEF m, n
    <3>7. Left(w, k - 1, v, i) = Left(v, i, w, k - 1)
      BY DEF Left
    <3>8. QED
      BY <3>1, <3>4, <3>6, <3>7 DEF z, k
  <2>4. QED
    BY <2>2, <2>3
<1>13. Good(0, 0)
  <2> HIDE DEF Good
  <2>1. Nat \subseteq G
    <3> HIDE DEF G
    <3>1. QED
      BY <1>11, <1>12, NatInductionOn
  <2>2. (m - 0) + (n - 0) \in Nat /\ 0 \in 0 .. m /\ 0 \in 0 .. n
    BY <1>4, <1>5
  <2>3. (m - 0) + (n - 0) \in G
    <3> HIDE DEF G
    <3>1. QED
      BY <2>1, <2>2
  <2>4. QED
    BY <2>2, <2>3
<1> HIDE DEF G, xLesser, xs, ys
<1>14. Left(v, 0, w, 0) = S \cup T
  <2>1. Tags(v, 1, m) = S /\ Tags(v, 1, 0) = {}
    BY <1>4 DEF Tags
  <2>2. Tags(w, 1, n) = T /\ Tags(w, 1, 0) = {}
    BY <1>5 DEF Tags
  <2>3. 0 + 1 = 1
    OBVIOUS
  <2> HIDE DEF S, T
  <2>4. QED
    BY ONLY <2>1, <2>2, <2>3 DEF Left, m, n
<1>15. CutAt(c, imp, e, S \cup T)
  <2>1. imp \in Nat /\ imp <= ix /\ imp <= iy /\ (imp = ix \/ imp = iy)
    BY ONLY <1>2
  <2>2. ASSUME NEW u \in Tag
        PROVE  /\ c[u] <= imp
               /\ u \in S \cup T /\ e[u] < imp => c[u] = e[u]
               /\ c[u] < imp => u \in S \cup T /\ e[u] < imp
    <3>1. e[u] = IF u \in S /\ u \in T THEN IF bx[u] <= by[u] THEN bx[u] ELSE by[u]
                 ELSE IF u \in S THEN bx[u] ELSE by[u]
      BY DEF e
    <3>2. /\ bx[u] \in Nat /\ bx[u] <= ix /\ (u \in S <=> bx[u] < ix)
          /\ by[u] \in Nat /\ by[u] <= iy /\ (u \in T <=> by[u] < iy)
          /\ c[u] = IF bx[u] <= by[u] THEN bx[u] ELSE by[u]
      BY <1>3
    <3> HIDE DEF S, T, imp
    <3>3. QED
      BY ONLY <1>2, <2>1, <3>1, <3>2
  <2>3. S \subseteq Tag /\ T \subseteq Tag
    BY DEF Below
  <2> HIDE DEF S, T, imp
  <2>4. QED
    BY ONLY <2>2, <2>3 DEF CutAt
<1>16. imp \in Age
  BY <1>2
<1> DEFINE s == o[<<0, 0>>]
           U == S \cup T
<1>17. Holds(s, e, U)
  BY <1>13, <1>14
<1>18. CutAt(c, imp, e, U)
  BY <1>15
<1> HIDE DEF s, U, imp
<1>19. MayRep(May!removeRedundantTags([explicitTags |-> s, ageOfImplicitTags |-> imp]), c)
  BY ONLY <1>16, <1>17, <1>18, c \in [Tag -> Age], MayClean
<1>20. QED
  BY <1>8, <1>19 DEF s

-----------------------------------------------------------------------------
(* The operations on a state of the combined analysis are those of LruAges *)
(* on its bounds.                                                          *)

\* The operators of LruAges, which do not read its variables.
Lru == INSTANCE LruAges WITH Path <- {}, age <- <<>>, ub <- <<>>, lb <- <<>>

\* The analysis state s has the bounds b and l.
Represents(s, b, l) == s = <<s[1], s[2]>> /\ MustRep(s[1], b) /\ MayRep(s[2], l)

\* classify reads the bounds as LruAges does.
LEMMA VectorClassify ==
    ASSUME NEW s, NEW b, NEW l, Represents(s, b, l), NEW t \in Tag
    PROVE  /\ classify(s, t, 0) = Lru!Classify(b, l, t)
           /\ classify(s, t, 0) \in Classification
           /\ classify(s, t, 0) = CL_HIT <=> b[t] < Assoc
           /\ classify(s, t, 0) = CL_UNKNOWN => Cardinality(Below(b, Assoc)) # Assoc
<1>1. MustRep(s[1], b) /\ MayRep(s[2], l)
  BY DEF Represents
<1>2. b[t] \in Nat /\ l[t] \in Nat /\ Assoc \in Nat /\ b[t] + 0 = b[t]
  BY ONLY <1>1, t \in Tag, AgeFacts DEF MustRep, MayRep
<1>3. Must!classify(s[1], t, 0) =
        IF b[t] < Assoc THEN IF b[t] + 0 >= Assoc THEN CL_MISS ELSE CL_HIT
        ELSE IF Cardinality(Below(b, Assoc)) = Assoc THEN CL_MISS ELSE CL_UNKNOWN
  BY ONLY <1>1, t \in Tag, 0 \in Nat, MustClassify
<1>4. May!classify(s[2], t, 0) = IF l[t] = Assoc THEN CL_MISS ELSE CL_UNKNOWN
  BY ONLY <1>1, t \in Tag, MayClassify
<1>5. classify(s, t, 0) = IF b[t] < Assoc THEN CL_HIT
                          ELSE IF Cardinality(Below(b, Assoc)) = Assoc \/ l[t] = Assoc THEN CL_MISS
                          ELSE CL_UNKNOWN
  BY ONLY <1>2, <1>3, <1>4 DEF classify, CL_HIT, CL_MISS, CL_UNKNOWN
<1>6. Lru!Cardinality(Lru!Known(b)) = Cardinality(Below(b, Assoc))
  BY DEF Lru!Cardinality, Cardinality, Lru!Known, Below
<1>7. QED
  BY ONLY <1>5, <1>6 DEF Lru!Classify, Classification, CL_HIT, CL_MISS, CL_UNKNOWN,
     Lru!CL_HIT, Lru!CL_MISS, Lru!CL_UNKNOWN

\* removeRedundantTags keeps the age of the implicit tags.
LEMMA CleanImplicit ==
    ASSUME NEW s, NEW imp
    PROVE  May!removeRedundantTags([explicitTags |-> s, ageOfImplicitTags |-> imp]).ageOfImplicitTags
             = imp
<1> DEFINE r == [explicitTags |-> s, ageOfImplicitTags |-> imp]
           n == May!SelectLastInSeq(r.explicitTags, LAMBDA e : e.age < r.ageOfImplicitTags)
<1>1. May!removeRedundantTags(r) = [r EXCEPT !.explicitTags = SubSeq(@, 1, n)]
  BY DEF May!removeRedundantTags
<1> HIDE DEF n
<1>2. QED
  BY <1>1

\* The age of the implicit tags after an operation.
LEMMA MayImplicit ==
    ASSUME NEW m, NEW b, MayRep(m, b), NEW t \in Tag
    PROVE  May!update(m, t).ageOfImplicitTags =
             IF m.ageOfImplicitTags <= b[t] /\ m.ageOfImplicitTags < Assoc
             THEN m.ageOfImplicitTags + 1 ELSE m.ageOfImplicitTags
<1>1. May!getMinAge(m, t) = b[t]
  BY MayMinAge
<1>2. QED
  BY <1>1, CleanImplicit DEF May!update

LEMMA MayImplicitPotential ==
    ASSUME NEW m, NEW lo, NEW hi, NEW b, MayRep(m, b)
    PROVE  May!potentialUpdate(m, lo, hi).ageOfImplicitTags =
             IF m.ageOfImplicitTags # 0 /\ hi - lo + 1 > MaxWorthwhileTags
             THEN 0 ELSE m.ageOfImplicitTags
<1> DEFINE imp == m.ageOfImplicitTags
<1>1. m = [explicitTags |-> m.explicitTags, ageOfImplicitTags |-> imp]
  BY DEF MayRep
<1>2. \A z : [m EXCEPT !.explicitTags = z].ageOfImplicitTags = imp
  <2> HIDE DEF imp
  <2>1. QED
    BY <1>1
<1>3. \/ May!potentialUpdate(m, lo, hi) = m /\ imp = 0
      \/ /\ May!potentialUpdate(m, lo, hi) = [explicitTags |-> <<>>, ageOfImplicitTags |-> 0]
         /\ imp # 0 /\ hi - lo + 1 > MaxWorthwhileTags
      \/ /\ \E z : May!potentialUpdate(m, lo, hi) = [m EXCEPT !.explicitTags = z]
         /\ ~(imp # 0 /\ hi - lo + 1 > MaxWorthwhileTags)
  BY DEF May!potentialUpdate
<1>4. CASE May!potentialUpdate(m, lo, hi) = m /\ imp = 0
  BY <1>4
<1>5. CASE /\ May!potentialUpdate(m, lo, hi) = [explicitTags |-> <<>>, ageOfImplicitTags |-> 0]
           /\ imp # 0 /\ hi - lo + 1 > MaxWorthwhileTags
  BY <1>5
<1>6. CASE /\ \E z : May!potentialUpdate(m, lo, hi) = [m EXCEPT !.explicitTags = z]
           /\ ~(imp # 0 /\ hi - lo + 1 > MaxWorthwhileTags)
  <2>1. May!potentialUpdate(m, lo, hi).ageOfImplicitTags = imp
    <3> HIDE DEF imp
    <3>1. QED
      BY ONLY <1>2, <1>6
  <2>2. QED
    BY <1>6, <2>1
<1>7. QED
  BY <1>3, <1>4, <1>5, <1>6

LEMMA MayImplicitJoin ==
    ASSUME NEW x, NEW y
    PROVE  May!join(x, y).ageOfImplicitTags =
             IF x.ageOfImplicitTags <= y.ageOfImplicitTags
             THEN x.ageOfImplicitTags ELSE y.ageOfImplicitTags
  BY CleanImplicit DEF May!join

\* Before the first access nothing is known, or the set is empty.
LEMMA VectorNew ==
    ASSUME NEW e \in BOOLEAN
    PROVE  Represents(new(e), [t \in Tag |-> Assoc], [t \in Tag |-> IF e THEN Assoc ELSE 0])
<1> DEFINE b == [t \in Tag |-> Assoc]
           imp == IF e THEN Assoc ELSE 0
           l == [t \in Tag |-> imp]
           m == [explicitTags |-> <<>>, ageOfImplicitTags |-> imp]
<1>1. new(e) = <<<<>>, m>>
  BY DEF new, Must!new, May!new
<1>2. Assoc \in Nat /\ Assoc \in Age /\ imp \in Age /\ imp \in Nat
  BY AssocAssumption DEF Age
<1> HIDE DEF imp
<1>3. b \in [Tag -> Age] /\ l \in [Tag -> Age]
  BY <1>2
<1>4. Below(b, Assoc) = {} /\ Below(l, imp) = {}
  BY <1>2 DEF Below
<1>5. MustRep(<<>>, b)
  BY <1>3, <1>4, HoldsEmpty DEF MustRep
<1>6. MayRep(m, l)
  <2>1. m.explicitTags = <<>> /\ m.ageOfImplicitTags = imp
    OBVIOUS
  <2>2. \A t \in Tag : l[t] <= imp
    BY <1>2
  <2>3. QED
    BY <1>2, <1>3, <1>4, <2>1, <2>2, HoldsEmpty DEF MayRep
<1> HIDE DEF m, b, l
<1>7. Represents(new(e), b, l)
  BY <1>1, <1>5, <1>6 DEF Represents
<1>8. QED
  BY <1>7 DEF b, l, imp

\* No line but the accessed one gets the bound 0: in a real set with at most
\* these ages only one line is at the front.
LEMMA OneAtFront ==
    ASSUME NEW c \in [Tag -> Age], Lru!Injective(c), NEW b \in [Tag -> Age],
           \A u \in Tag : c[u] <= b[u],
           NEW t \in Tag, NEW cl,
           cl = CL_HIT /\ b[t] = Assoc => Cardinality(Below(b, Assoc)) # Assoc,
           NEW u \in Tag, u # t
    PROVE  Lru!MustUpdate(b, t, cl)[u] # 0
<1>1. \A w \in Tag : c[w] \in Nat /\ c[w] <= Assoc /\ b[w] \in Nat /\ b[w] <= Assoc
  BY AgeFacts
<1>2. Assoc \in Nat /\ Assoc > 0
  BY AssocAssumption
<1> DEFINE acc == Lru!MustAccessedAge(b, t, cl)
<1>3. SUFFICES ASSUME (IF b[u] < acc THEN b[u] + 1 ELSE b[u]) = 0 PROVE FALSE
  BY DEF Lru!MustUpdate
<1>4. acc = IF b[t] = Assoc /\ cl = CL_HIT THEN Assoc - 1 ELSE b[t]
  BY DEF Lru!MustAccessedAge, Lru!CL_HIT, CL_HIT
<1> HIDE DEF acc
<1>5. b[u] \in Nat /\ b[t] \in Nat /\ c[u] \in Nat /\ c[t] \in Nat /\ c[u] <= b[u] /\ c[t] <= b[t]
  BY <1>1
<1>6. b[u] = 0 /\ c[u] = 0 /\ acc <= 0
  BY ONLY <1>2, <1>3, <1>4, <1>5
<1>7. ASSUME NEW w \in Tag, b[w] = 0 PROVE w = u
  <2>1. c[w] \in Nat /\ c[w] <= b[w]
    BY <1>1
  <2>2. c[w] = c[u] /\ c[w] # Assoc
    BY ONLY <1>2, <1>6, <1>7, <2>1
  <2>3. QED
    BY <2>2 DEF Lru!Injective
<1>8. b[t] # 0
  BY <1>7
<1>9. b[t] = Assoc /\ cl = CL_HIT /\ Assoc = 1
  BY ONLY <1>2, <1>4, <1>5, <1>6, <1>8
<1>10. Below(b, Assoc) = {u}
  <2>1. \A w \in Tag : b[w] < Assoc => b[w] = 0
    BY <1>1, <1>9
  <2>2. QED
    BY <1>2, <1>6, <1>7, <2>1 DEF Below
<1>11. Cardinality(Below(b, Assoc)) = 1
  BY <1>10, FS_Singleton
<1>12. QED
  BY <1>9, <1>11

\* An access to a known line: classify decides what is assumed of it, unless
\* the caller has split an unclassified access.
LEMMA VectorUpdate ==
    ASSUME NEW s, NEW b, NEW l, Represents(s, b, l),
           NEW c \in [Tag -> Age], Lru!Injective(c), \A u \in Tag : c[u] <= b[u],
           NEW t \in Tag, NEW a \in Classification,
           a # CL_UNKNOWN => classify(s, t, 0) = CL_UNKNOWN
    PROVE  LET cl == IF a = CL_UNKNOWN THEN classify(s, t, 0) ELSE a IN
           /\ cl \in Classification
           /\ Represents(update(s, t, 0, a), Lru!MustUpdate(b, t, cl), Lru!MayUpdate(l, t))
           /\ Lru!MustUpdate(b, t, cl) = Lru!MustUpdate(b, t, a)
<1> DEFINE cl == IF a = CL_UNKNOWN THEN classify(s, t, 0) ELSE a
           d == Lru!MustUpdate(b, t, cl)
           k == Lru!MayUpdate(l, t)
           acc == Lru!MustAccessedAge(b, t, cl)
<1>1. MustRep(s[1], b) /\ MayRep(s[2], l) /\ b \in [Tag -> Age] /\ l \in [Tag -> Age]
  BY DEF Represents, MustRep, MayRep
<1>2. /\ cl \in Classification
      /\ cl = CL_HIT /\ b[t] = Assoc => Cardinality(Below(b, Assoc)) # Assoc
      /\ cl = CL_HIT /\ b[t] = Assoc => a = CL_HIT
  <2>1. /\ classify(s, t, 0) \in Classification
        /\ classify(s, t, 0) = CL_HIT <=> b[t] < Assoc
        /\ classify(s, t, 0) = CL_UNKNOWN => Cardinality(Below(b, Assoc)) # Assoc
    BY VectorClassify
  <2>2. b[t] \in Nat /\ Assoc \in Nat
    BY <1>1, AgeFacts
  <2>3. QED
    BY <2>1, <2>2 DEF CL_HIT, CL_UNKNOWN
<1>3. update(s, t, 0, a) = <<Must!update(s[1], t, cl), May!update(s[2], t)>>
  BY DEF update
<1> HIDE DEF cl
<1>4. acc = IF b[t] = Assoc /\ cl = CL_HIT THEN Assoc - 1 ELSE b[t]
  BY DEF Lru!MustAccessedAge, Lru!CL_HIT, CL_HIT
<1>5. \A u \in Tag : b[u] \in Nat /\ b[u] <= Assoc /\ l[u] \in Nat /\ l[u] <= Assoc
  BY <1>1, AgeFacts
<1>6. Assoc \in Nat /\ Assoc > 0 /\ acc \in Int /\ acc <= Assoc
  BY <1>4, <1>5, AssocAssumption
<1>7. ASSUME NEW u \in Tag
      PROVE  /\ d[u] = IF u = t THEN 0 ELSE IF b[u] < acc THEN b[u] + 1 ELSE b[u]
             /\ k[u] = IF u = t THEN 0 ELSE IF l[u] <= l[t] /\ l[u] < Assoc THEN l[u] + 1 ELSE l[u]
  BY DEF Lru!MustUpdate, Lru!MayUpdate
<1>8. d \in [Tag -> Age] /\ k \in [Tag -> Age]
  <2>1. d = [u \in Tag |-> d[u]] /\ k = [u \in Tag |-> k[u]]
    BY DEF Lru!MustUpdate, Lru!MayUpdate
  <2> HIDE DEF d, k, acc
  <2>2. ASSUME NEW u \in Tag PROVE d[u] \in Age /\ k[u] \in Age
    <3>1. b[u] \in Nat /\ b[u] <= Assoc /\ l[u] \in Nat /\ l[u] <= Assoc
      BY <1>5
    <3>2. QED
      BY ONLY <1>6, <1>7, <3>1, u \in Tag DEF Age
  <2>3. QED
    BY <2>1, <2>2
<1>9. \A u \in Tag : u # t => d[u] # 0
  BY <1>1, <1>2, OneAtFront
<1> HIDE DEF d, k, acc
<1>10. MustRep(Must!update(s[1], t, cl), d)
  <2>1. \A u \in Tag : d[u] = IF u = t THEN 0 ELSE IF b[u] < acc THEN b[u] + 1 ELSE b[u]
    BY <1>7
  <2>2. QED
    BY ONLY <1>1, <1>4, <1>8, <1>9, <2>1, t \in Tag, MustUpdate
<1>11. MayRep(May!update(s[2], t), k)
  <2>1. \A u \in Tag : k[u] = IF u = t THEN 0
                              ELSE IF l[u] <= l[t] /\ l[u] < Assoc THEN l[u] + 1 ELSE l[u]
    BY <1>7
  <2>2. QED
    BY ONLY <1>1, <1>8, <2>1, t \in Tag, MayUpdate
<1>12. Represents(update(s, t, 0, a), d, k)
  BY <1>3, <1>10, <1>11 DEF Represents
<1>13. d = Lru!MustUpdate(b, t, a)
  <2>1. Lru!MustAccessedAge(b, t, cl) = Lru!MustAccessedAge(b, t, a)
    <3>1. b[t] = Assoc => (cl = CL_HIT <=> a = CL_HIT)
      <4>1. a = CL_HIT => cl = CL_HIT
        BY DEF cl, CL_HIT, CL_UNKNOWN
      <4>2. QED
        BY <1>2, <4>1
    <3>2. QED
      BY <3>1 DEF Lru!MustAccessedAge, Lru!CL_HIT, CL_HIT
  <2>2. QED
    BY <2>1 DEF d, Lru!MustUpdate
<1>14. QED
  BY <1>2, <1>12, <1>13 DEF cl, d, k

\* An access to an address known only as an interval.
LEMMA VectorPotentialUpdate ==
    ASSUME NEW s, NEW b, NEW l, Represents(s, b, l),
           NEW lo \in Tag, NEW hi \in Tag, lo <= hi, lo .. hi \subseteq Tag
    PROVE  Represents(potentialUpdate(s, lo, hi),
                      Lru!MustPotentialUpdate(b), Lru!MayPotentialUpdate(l, lo, hi))
<1> DEFINE d == Lru!MustPotentialUpdate(b)
           k == Lru!MayPotentialUpdate(l, lo, hi)
<1>1. MustRep(s[1], b) /\ MayRep(s[2], l) /\ b \in [Tag -> Age] /\ l \in [Tag -> Age]
  BY DEF Represents, MustRep, MayRep
<1>2. \A u \in Tag : b[u] \in Nat /\ b[u] <= Assoc /\ l[u] \in Nat /\ l[u] <= Assoc
  BY <1>1, AgeFacts
<1>3. Assoc \in Nat /\ Assoc > 0
  BY AssocAssumption
<1>4. ASSUME NEW u \in Tag
      PROVE  /\ d[u] = IF b[u] < Assoc THEN b[u] + 1 ELSE b[u]
             /\ k[u] = IF hi - lo + 1 > MaxWorthwhileTags THEN 0
                       ELSE IF lo <= u /\ u <= hi THEN 0 ELSE l[u]
  BY DEF Lru!MustPotentialUpdate, Lru!MayPotentialUpdate
<1>5. d \in [Tag -> Age] /\ k \in [Tag -> Age]
  <2>1. d = [u \in Tag |-> d[u]] /\ k = [u \in Tag |-> k[u]]
    BY DEF Lru!MustPotentialUpdate, Lru!MayPotentialUpdate
  <2> HIDE DEF d, k
  <2>2. ASSUME NEW u \in Tag PROVE d[u] \in Age /\ k[u] \in Age
    <3>1. b[u] \in Nat /\ b[u] <= Assoc /\ l[u] \in Nat /\ l[u] <= Assoc
      BY <1>2
    <3>2. QED
      BY ONLY <1>3, <1>4, <3>1, u \in Tag DEF Age
  <2>3. QED
    BY <2>1, <2>2
<1> HIDE DEF d, k
<1>6. MustRep(Must!potentialUpdate(s[1]), d)
  BY <1>1, <1>4, <1>5, MustPotentialUpdate
<1>7. MayRep(May!potentialUpdate(s[2], lo, hi), k)
  <2>1. \A u \in Tag : k[u] = IF hi - lo + 1 > MaxWorthwhileTags THEN 0
                              ELSE IF lo <= u /\ u <= hi THEN 0 ELSE l[u]
    BY <1>4
  <2>2. QED
    BY ONLY <1>1, <1>5, <2>1, lo \in Tag, hi \in Tag, lo <= hi, lo .. hi \subseteq Tag,
       MayPotentialUpdate
<1>8. Represents(potentialUpdate(s, lo, hi), d, k)
  BY <1>6, <1>7 DEF Represents, potentialUpdate
<1>9. QED
  BY <1>8 DEF d, k

\* The meeting of two paths.
LEMMA VectorJoin ==
    ASSUME NEW s, NEW b, NEW l, Represents(s, b, l), NEW r, NEW d, NEW k, Represents(r, d, k)
    PROVE  Represents(join(s, r), Lru!MustJoin(b, d), Lru!MayJoin(l, k))
<1> DEFINE f == Lru!MustJoin(b, d)
           g == Lru!MayJoin(l, k)
<1>1. /\ MustRep(s[1], b) /\ MayRep(s[2], l) /\ b \in [Tag -> Age] /\ l \in [Tag -> Age]
      /\ MustRep(r[1], d) /\ MayRep(r[2], k) /\ d \in [Tag -> Age] /\ k \in [Tag -> Age]
  BY DEF Represents, MustRep, MayRep
<1>2. ASSUME NEW u \in Tag
      PROVE  /\ f[u] = IF b[u] >= d[u] THEN b[u] ELSE d[u]
             /\ g[u] = IF l[u] <= k[u] THEN l[u] ELSE k[u]
             /\ f[u] \in Age /\ g[u] \in Age
  BY <1>1 DEF Lru!MustJoin, Lru!MayJoin
<1>3. f \in [Tag -> Age] /\ g \in [Tag -> Age]
  <2>1. f = [u \in Tag |-> f[u]] /\ g = [u \in Tag |-> g[u]]
    BY DEF Lru!MustJoin, Lru!MayJoin
  <2> HIDE DEF f, g
  <2>2. QED
    BY <1>2, <2>1
<1> HIDE DEF f, g
<1> DEFINE v == s[1]
           w == r[1]
           m == s[2]
           n == r[2]
<1>3a. /\ MustRep(v, b) /\ MustRep(w, d) /\ f \in [Tag -> Age]
       /\ MayRep(m, l) /\ MayRep(n, k) /\ g \in [Tag -> Age]
  BY ONLY <1>1, <1>3
<1> HIDE DEF v, w, m, n
<1>4. MustRep(Must!join(v, w), f)
  <2>1. \A u \in Tag : f[u] = IF d[u] <= b[u] THEN b[u] ELSE d[u]
    <3> SUFFICES ASSUME NEW u \in Tag PROVE f[u] = IF d[u] <= b[u] THEN b[u] ELSE d[u]
      OBVIOUS
    <3>1. b[u] \in Nat /\ d[u] \in Nat
      BY <1>1, AgeFacts
    <3>2. QED
      BY ONLY <1>2, <3>1, u \in Tag
  <2>2. MustRep(v, b) /\ MustRep(w, d) /\ f \in [Tag -> Age]
    BY <1>3a
  <2>3. QED
    BY ONLY <2>1, <2>2, MustJoin
<1>5. MayRep(May!join(m, n), g)
  <2>1. \A u \in Tag : g[u] = IF l[u] <= k[u] THEN l[u] ELSE k[u]
    BY <1>2
  <2>2. QED
    BY ONLY <1>3a, <2>1, MayJoin
<1>6. Represents(join(s, r), f, g)
  BY <1>4, <1>5 DEF Represents, join, v, w, m, n
<1>7. QED
  BY <1>6 DEF f, g
=============================================================================
