------------------------------ MODULE CacheSet ------------------------------
(***************************************************************************)
(* The analysis of one cache set along program paths: the states of        *)
(* CompositionalAbstractCache next to the real content of the set.         *)
(*                                                                         *)
(* The real set is a history variable: no analysis reads it. It restricts  *)
(* which assumption a split analysis state covers, and the properties      *)
(* compare the analysis with it.                                           *)
(***************************************************************************)
EXTENDS CompositionalAbstractCache, Sequences, TLC

CONSTANT Path   \* program paths whose analysis states may be joined

\* Every value of the tag bits is the tag of some line.
ASSUME TagRange == /\ MaxWorthwhileTags \in Nat
                   /\ \A lo, hi \in Tag : lo .. hi \subseteq Tag

\* No operation tells the paths apart.
PathSymmetry == Permutations(Path)

VARIABLES
    age,       \* age[p][t]: LRU age of t in the real cache on path p
    analysis   \* analysis[p]: the combined analysis state of path p

vars == <<age, analysis>>

\* What the analysis says about the ages of the lines.
maxAge(s, t) == Must!getMaxAge(s[1], t)
minAge(s, t) == May!getMinAge(s[2], t)

Bounds == INSTANCE LruAges WITH
    ub <- [p \in Path |-> [t \in Tag |-> maxAge(analysis[p], t)]],
    lb <- [p \in Path |-> [t \in Tag |-> minAge(analysis[p], t)]]

TypeOK ==
    LET Entry == [tag : Tag, age : 0 .. Assoc - 1] IN
    /\ age \in [Path -> [Tag -> Age]]
    /\ \A p \in Path :
         /\ analysis[p][1] \in Seq(Entry) /\ Len(analysis[p][1]) <= Assoc
         /\ analysis[p][2].explicitTags \in Seq(Entry)
         /\ analysis[p][2].ageOfImplicitTags \in Age

Init ==
    /\ age \in [Path -> [Tag -> Age]]
    /\ \A p \in Path : Bounds!Injective(age[p])
    /\ \E assumeAnEmptyCache \in BOOLEAN :
         /\ assumeAnEmptyCache => \A p \in Path : age[p] = Bounds!EmptySet
         /\ analysis = [p \in Path |-> new(assumeAnEmptyCache)]

\* Path p accesses tag. A caller that splits its state on an unclassified
\* access assumes a hit in one half and a miss in the other; the half in
\* question covers only the executions in which its assumption holds.
Update(p, tag, assumption) ==
    /\ assumption # CL_UNKNOWN => classify(analysis[p], tag, 0) = CL_UNKNOWN
    /\ assumption = CL_HIT  => age[p][tag] < Assoc
    /\ assumption = CL_MISS => age[p][tag] = Assoc
    /\ age' = [age EXCEPT ![p] = Bounds!Touch(@, tag)]
    /\ analysis' = [analysis EXCEPT ![p] = update(@, tag, 0, assumption)]

\* Path p accesses an address known only as an interval: one of the tags
\* lowTag..highTag of this set, or a line of another set.
PotentialUpdate(p, lowTag, highTag) ==
    /\ \/ \E tag \in Tag : /\ lowTag <= tag /\ tag <= highTag
                           /\ age' = [age EXCEPT ![p] = Bounds!Touch(@, tag)]
       \/ UNCHANGED age
    /\ analysis' = [analysis EXCEPT ![p] = potentialUpdate(@, lowTag, highTag)]

\* The paths p and q meet and both continue from the joined state.
Join(p, q) ==
    /\ analysis' = [analysis EXCEPT ![p] = join(analysis[p], analysis[q]),
                                    ![q] = join(analysis[p], analysis[q])]
    /\ UNCHANGED age

Next ==
    \/ \E p \in Path, tag \in Tag, assumption \in Classification :
         Update(p, tag, assumption)
    \/ \E p \in Path, lowTag, highTag \in Tag :
         lowTag <= highTag /\ PotentialUpdate(p, lowTag, highTag)
    \/ \E p, q \in Path : p # q /\ Join(p, q)

Spec == Init /\ [][Next]_vars

-----------------------------------------------------------------------------
(* Properties.                                                             *)

\* A classification is right for every real execution the state stands for:
\* an access classified as a hit hits, one classified as a miss misses,
\* also the miss derived from a set that is full of other known lines.
ClassificationSound ==
    \A p \in Path, tag \in Tag :
        LET cl == classify(analysis[p], tag, 0) IN
        /\ cl = CL_HIT  => age[p][tag] < Assoc
        /\ cl = CL_MISS => age[p][tag] = Assoc

\* The entries stay sorted by age and then by tag, no tag has two entries,
\* and the may analysis keeps no entry as old as the implicit tags, after
\* every sequence of shifts, merges and joins: equal knowledge has one
\* representation, which operator== and the set sharing rely on.
VectorsCanonical ==
    LET less(a, b) == a.age < b.age \/ (a.age = b.age /\ a.tag < b.tag)
        canonical(v) == \A i, j \in DOMAIN v :
            i < j => less(v[i], v[j]) /\ v[i].tag # v[j].tag
    IN  \A p \in Path :
          /\ canonical(analysis[p][1])
          /\ canonical(analysis[p][2].explicitTags)
          /\ \A i \in DOMAIN analysis[p][2].explicitTags :
               analysis[p][2].explicitTags[i].age
                 < analysis[p][2].ageOfImplicitTags

\* r stands for every real state that s stands for.
Covers(r, s) ==
    /\ r[2].ageOfImplicitTags <= s[2].ageOfImplicitTags
    /\ \A t \in Tag : minAge(r, t) <= minAge(s, t) /\ maxAge(s, t) <= maxAge(r, t)

\* lessequal, which decides when the fixpoint iteration of the analysis
\* stops, is exactly "knows at least as much about every line", and the
\* joined state knows what both sides know and nothing less.
LessequalIsPrecision ==
    \A p, q \in Path : p # q =>
        LET s == analysis[p]
            r == analysis[q]
            j == join(s, r)
        IN  /\ lessequal(s, r) <=> Covers(r, s)
            /\ lessequal(s, j) /\ lessequal(r, j)
            /\ \A t \in Tag : /\ maxAge(j, t) \in {maxAge(s, t), maxAge(r, t)}
                              /\ minAge(j, t) \in {minAge(s, t), minAge(r, t)}

\* The transfer functions are monotone: from a state that knows more, an
\* access never leads to a state that knows less. The fixpoint iteration of
\* the analysis driver relies on it.
TransferMonotone ==
    \A p, q \in Path :
        p # q /\ lessequal(analysis[p], analysis[q]) =>
            /\ \A t \in Tag : lessequal(update(analysis[p], t, 0, CL_UNKNOWN),
                                        update(analysis[q], t, 0, CL_UNKNOWN))
            /\ \A l, h \in Tag : l <= h =>
                 lessequal(potentialUpdate(analysis[p], l, h),
                           potentialUpdate(analysis[q], l, h))

\* The vectors implement the age bounds of module LruAges: in every state
\* that sequences of accesses and joins lead to, every operation on the
\* vectors changes the bounds exactly as the operation of that module, and
\* classify reads them alike: what is proved of the bounds holds of the vectors.
ImplementsBounds ==
    LET ub(s) == [t \in Tag |-> maxAge(s, t)]
        lb(s) == [t \in Tag |-> minAge(s, t)]
        \* The bounds of the new states S are the given ones.
        Have(S, must, may) == \A s \in S : ub(s) = must /\ lb(s) = may
    IN  \A p \in Path : \A s \in {analysis[p]} : \A b \in {ub(s)}, l \in {lb(s)} :
          /\ \A t \in Tag : classify(s, t, 0) = Bounds!Classify(b, l, t)
          /\ \A t \in Tag, cl \in Classification :
               cl = CL_UNKNOWN \/ classify(s, t, 0) = CL_UNKNOWN =>
               Have({update(s, t, 0, cl)}, Bounds!MustUpdate(b, t, cl), Bounds!MayUpdate(l, t))
          /\ \A lo, hi \in Tag : lo <= hi =>
               Have({potentialUpdate(s, lo, hi)},
                    Bounds!MustPotentialUpdate(b), Bounds!MayPotentialUpdate(l, lo, hi))
          /\ \A q \in Path \ {p} :
               Have({join(s, analysis[q])},
                    Bounds!MustJoin(b, ub(analysis[q])), Bounds!MayJoin(l, lb(analysis[q])))
=============================================================================
