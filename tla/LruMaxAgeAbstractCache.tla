----------------------- MODULE LruMaxAgeAbstractCache -----------------------
(***************************************************************************)
(* The LRU must analysis of one cache set,                                 *)
(* include/Memory/LruMaxAgeAbstractCache.h.                                *)
(*                                                                         *)
(* Its state is the used part of the parallel vectors tags and ages, here  *)
(* a sequence of [tag, age] entries (size is its length): the tag has at   *)
(* most that age. A tag without an entry has age Assoc at most.            *)
(***************************************************************************)
EXTENDS CacheTraits, SequencesExt

\* The constructor: nothing is known, whatever assumeAnEmptyCache says.
new(assumeAnEmptyCache) == <<>>

find(v, tag) == SelectInSeq(v, LAMBDA e : e.tag = tag)

\* CNN: number of lines of other cores that compete for this set (0 unless
\* the cache is a shared second level).
classify(v, tag, CNN) ==
    LET i == find(v, tag) IN
    IF i > 0 THEN IF v[i].age + CNN >= Assoc THEN CL_MISS ELSE CL_HIT
    ELSE IF Len(v) = Assoc THEN CL_MISS ELSE CL_UNKNOWN

getMaxAge(v, tag) ==
    LET i == find(v, tag) IN IF i > 0 THEN v[i].age ELSE Assoc

\* Mutant: the entries that leave the cache are kept.
dropNothing(v) == v

\* The entries of age Assoc-1 form the tail of the vector.
dropOldest(v) ==
    SubSeq(v, 1, SelectLastInSeq(v, LAMBDA e : e.age # Assoc - 1))

\* Mutant: lines age only if the set is full.
potentialUpdateIfFull(v) ==
    IF Len(v) < Assoc THEN v
    ELSE LET w == dropOldest(v) IN [i \in DOMAIN w |-> [w[i] EXCEPT !.age = @ + 1]]

potentialUpdate(v) ==
    LET w == dropOldest(v) IN [i \in DOMAIN w |-> [w[i] EXCEPT !.age = @ + 1]]

\* An entry shifted to the right that just reached age a merges into the
\* entries of that age behind it, which are sorted by tag.
shiftRight(e, rest, a) ==
    LET n == IF e.age # a THEN 0
             ELSE CHOOSE k \in 0 .. Len(rest) :
                    /\ \A j \in 1 .. k : rest[j].age = a /\ rest[j].tag < e.tag
                    /\ k < Len(rest) =>
                         ~ (rest[k + 1].age = a /\ rest[k + 1].tag < e.tag)
    IN  InsertAt(rest, n + 1, e)

older(e, accAge) == [e EXCEPT !.age = IF @ < accAge THEN @ + 1 ELSE @]

\* The entries in front of the accessed one, the last one first.
shiftAll(left, right, accAge) ==
    FoldRight(LAMBDA e, rest : shiftRight(older(e, accAge), rest, accAge), left, right)

update(v, tag, assumption) ==
    LET i      == find(v, tag)
        found  == i > 0
        accAge == IF found THEN v[i].age
                  ELSE IF assumption = CL_HIT THEN Assoc - 1 ELSE Assoc
        left   == IF found THEN SubSeq(v, 1, i - 1)
                  ELSE IF assumption = CL_HIT THEN v ELSE dropOldest(v)
        right  == IF found THEN SubSeq(v, i + 1, Len(v)) ELSE <<>>
    IN  <<[tag |-> tag, age |-> 0]>> \o shiftAll(left, right, accAge)

\* Both vectors are consumed from the greatest entry down; a tag survives iff
\* the other vector still has it among its smaller entries.
join(x, y) ==
    LET knows(v, n, tag) == \E k \in 1 .. n : v[k].tag = tag
        xElemIsGreater(i, j) ==
            /\ i > 0
            /\ \/ j = 0
               \/ x[i].age > y[j].age
               \/ x[i].age = y[j].age /\ x[i].tag >= y[j].tag
        out[left \in (0 .. Len(x)) \X (0 .. Len(y))] ==
            LET i == left[1]
                j == left[2]
            IN  IF i = 0 /\ j = 0 THEN <<>>
                ELSE IF xElemIsGreater(i, j)
                THEN out[<<i - 1, j>>] \o (IF knows(y, j, x[i].tag) THEN <<x[i]>> ELSE <<>>)
                ELSE out[<<i, j - 1>>] \o (IF knows(x, i, y[j].tag) THEN <<y[j]>> ELSE <<>>)
    IN  out[<<Len(x), Len(y)>>]

\* Mutant: the operands are swapped.
lessequalSwapped(x, y) == join(x, y) = x

lessequal(x, y) == join(x, y) = y
=============================================================================
