----------------------- MODULE LruMinAgeAbstractCache -----------------------
(***************************************************************************)
(* The LRU may analysis of one cache set,                                  *)
(* include/Memory/LruMinAgeAbstractCache.h.                                *)
(*                                                                         *)
(* Its state is a record: explicitTags, a sequence of [tag, age] entries   *)
(* sorted by age and then by tag (the tag has at least that age), and      *)
(* ageOfImplicitTags, the minimal age of every tag that has no entry.      *)
(***************************************************************************)
EXTENDS CacheTraits, SequencesExt

CONSTANT MaxWorthwhileTags   \* maxWorthwhileTags in potentialUpdate

new(assumeAnEmptyCache) ==
    [explicitTags |-> <<>>,
     ageOfImplicitTags |-> IF assumeAnEmptyCache THEN Assoc ELSE 0]

find(m, tag) == SelectInSeq(m.explicitTags, LAMBDA e : e.tag = tag)

getMinAge(m, tag) ==
    LET i == find(m, tag) IN
    IF i > 0 THEN m.explicitTags[i].age ELSE m.ageOfImplicitTags

classify(m, tag, CNN) ==
    IF m.ageOfImplicitTags + CNN < Assoc THEN CL_UNKNOWN
    ELSE IF find(m, tag) > 0 /\ getMinAge(m, tag) + CNN < Assoc THEN CL_UNKNOWN
    ELSE CL_MISS

\* Mutant: entries one younger than the implicit tags are cut as well.
removeRedundantTagsTooMany(m) ==
    LET n == SelectLastInSeq(m.explicitTags,
                             LAMBDA e : e.age + 1 < m.ageOfImplicitTags)
    IN  [m EXCEPT !.explicitTags = SubSeq(@, 1, n)]

\* Mutant: the redundant entries stay.
removeNothing(m) == m

\* Entries that say no more than ageOfImplicitTags are cut from the tail.
removeRedundantTags(m) ==
    LET n == SelectLastInSeq(m.explicitTags,
                             LAMBDA e : e.age < m.ageOfImplicitTags)
    IN  [m EXCEPT !.explicitTags = SubSeq(@, 1, n)]

\* An entry of the accessed age that grows to age a merges into the entries
\* of age a behind it, which are sorted by tag.
mergeInto(e, rest, a) ==
    LET smaller(r) == r.age <= a /\ r.tag < e.tag
        n == CHOOSE k \in 0 .. Len(rest) :
               /\ \A j \in 1 .. k : smaller(rest[j])
               /\ k < Len(rest) => ~ smaller(rest[k + 1])
    IN  InsertAt(rest, n + 1, e)

mergeAll(same, rest, a) == FoldRight(LAMBDA e, r : mergeInto(e, r, a), same, rest)

\* Mutant: the entries keep their age.
growNot(s) == s

grow(s) == [k \in DOMAIN s |-> [s[k] EXCEPT !.age = @ + 1]]

\* a1) all entries age, those of age Assoc-1 leave; a2) the entries of the
\* accessed age join the next age, the younger ones age, the older ones stay.
update(m, tag) ==
    LET s     == m.explicitTags
        i     == find(m, tag)
        acc   == getMinAge(m, tag)
        imp   == IF m.ageOfImplicitTags <= acc /\ m.ageOfImplicitTags < Assoc
                 THEN m.ageOfImplicitTags + 1 ELSE m.ageOfImplicitTags
        kept  == SubSeq(s, 1, SelectLastInSeq(s, LAMBDA e : e.age # Assoc - 1))
        lower == SelectInSeq(s, LAMBDA e : e.age = acc)
        upper == SelectLastInSeq(s, LAMBDA e : e.age = acc)
        same  == SubSeq(s, lower, i - 1) \o SubSeq(s, i + 1, upper)
        aged  == IF i = 0 \/ acc = Assoc - 1
                 THEN grow(kept)
                 ELSE grow(SubSeq(s, 1, lower - 1))
                        \o mergeAll(grow(same), SubSeq(s, upper + 1, Len(s)), acc + 1)
    IN  removeRedundantTags(
            [explicitTags |-> <<[tag |-> tag, age |-> 0]>> \o aged,
             ageOfImplicitTags |-> imp])

\* The entries of other tags than lowTag..highTag are copied.
copyOther(s, lowTag, highTag) ==
    FoldLeft(LAMBDA newTags, e : IF e.tag < lowTag \/ e.tag > highTag
                                 THEN Append(newTags, e) ELSE newTags, <<>>, s)

\* Any tag of lowTag..highTag may now be at the front; no other tag ages, for
\* the access may as well have gone to another set.
potentialUpdate(m, lowTag, highTag) ==
    LET s     == m.explicitTags
        front == SelectInSeq(s, LAMBDA e : e.age > 0 \/ e.tag >= lowTag)
        cut   == IF front = 0 THEN Len(s) ELSE front - 1
        fresh == [k \in 1 .. highTag - lowTag + 1 |->
                    [tag |-> lowTag + k - 1, age |-> 0]]
    IN  IF m.ageOfImplicitTags = 0 THEN m
        ELSE IF highTag - lowTag + 1 > MaxWorthwhileTags
        THEN [explicitTags |-> <<>>, ageOfImplicitTags |-> 0]
        ELSE [m EXCEPT !.explicitTags =
                copyOther(SubSeq(s, 1, cut), lowTag, highTag) \o fresh
                  \o copyOther(SubSeq(s, cut + 1, Len(s)), lowTag, highTag)]

\* Both vectors are consumed from the least entry up; an entry is put out
\* unless the other vector has already shown its tag.
join(x, y) ==
    LET xs == x.explicitTags
        ys == y.explicitTags
        seen(s, n, tag) == \E k \in 1 .. n : s[k].tag = tag
        xElemIsLesser(i, j) ==
            /\ i < Len(xs)
            /\ \/ j = Len(ys)
               \/ xs[i + 1].age < ys[j + 1].age
               \/ xs[i + 1].age = ys[j + 1].age /\ xs[i + 1].tag <= ys[j + 1].tag
        res[shown \in (0 .. Len(xs)) \X (0 .. Len(ys))] ==
            LET i == shown[1]
                j == shown[2]
            IN  IF i = Len(xs) /\ j = Len(ys) THEN <<>>
                ELSE IF xElemIsLesser(i, j)
                THEN (IF seen(ys, j, xs[i + 1].tag) THEN <<>> ELSE <<xs[i + 1]>>)
                       \o res[<<i + 1, j>>]
                ELSE (IF seen(xs, i, ys[j + 1].tag) THEN <<>> ELSE <<ys[j + 1]>>)
                       \o res[<<i, j + 1>>]
        imp == IF x.ageOfImplicitTags <= y.ageOfImplicitTags
               THEN x.ageOfImplicitTags ELSE y.ageOfImplicitTags
    IN  removeRedundantTags([explicitTags |-> res[<<0, 0>>], ageOfImplicitTags |-> imp])

lessequal(x, y) == join(x, y) = y
=============================================================================
