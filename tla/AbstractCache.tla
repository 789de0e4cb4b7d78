---------------------------- MODULE AbstractCache ----------------------------
(***************************************************************************)
(* The analysis of a whole set-associative cache, class AbstractCacheImpl  *)
(* of include/Memory/AbstractCache.h: an access, whose address may be      *)
(* known only as an interval, is distributed to the analyses of the sets.  *)
(***************************************************************************)
EXTENDS CompositionalAbstractCache, Sequences

CONSTANTS
    LINE_SIZE,   \* bytes of a cache line
    N_SETS,      \* number of cache sets
    AddressSpace,\* number of addresses: Address is an unsigned integer
    Interval     \* the intervals <<lower, upper>> the program accesses

\* A line holds a word of four bytes, and every address has a tag.
ASSUME GeometryAssumption ==
    /\ LINE_SIZE \in Nat /\ LINE_SIZE >= 4
    /\ N_SETS \in Nat \ {0}
    /\ AddressSpace \in Nat \ {0}
    /\ AddressSpace % (LINE_SIZE * N_SETS) = 0
    /\ \A addr \in 0 .. AddressSpace - 1 : (addr \div LINE_SIZE) \div N_SETS \in Tag
    /\ Interval \subseteq { i \in (0 .. AddressSpace - 1) \X (0 .. AddressSpace - 1) :
                              i[1] <= i[2] }

\* Every value of the tag bits is the tag of some line.
ASSUME TagRange == /\ MaxWorthwhileTags \in Nat
                   /\ \A lo, hi \in Tag : lo .. hi \subseteq Tag

VARIABLES
    age,        \* age[index][tag]: LRU age of the line in the real cache
    cacheSets,  \* cacheSets[index]: analysis state of the set
    aborted     \* an assertion of update has failed

vars == <<age, cacheSets, aborted>>

Index == 0 .. N_SETS - 1
Real  == INSTANCE LruAges WITH Path <- Index, ub <- age, lb <- age

UnknownAddress == <<0, AddressSpace - 1>>

alignToCacheline(addr) == addr - (addr % LINE_SIZE)
getCacheSet(addr)      == (addr \div LINE_SIZE) % N_SETS
getTag(addr)           == (addr \div LINE_SIZE) \div N_SETS

\* The cache lines that have an address in the interval, by their address.
Lines(itv) == { a \in alignToCacheline(itv[1]) .. itv[2] : a % LINE_SIZE = 0 }

\* The size test is done in unsigned arithmetic: for the unknown address it
\* wraps around, and the sets of the first and the last byte are taken.
getCacheSetInterval(itv) ==
    IF (itv[2] + 4 - itv[1]) % AddressSpace >= N_SETS * LINE_SIZE
    THEN <<0, N_SETS - 1>>
    ELSE <<getCacheSet(itv[1]), getCacheSet(itv[2])>>

precise(itv) == alignToCacheline(itv[1]) = alignToCacheline(itv[2])

\* The classifications of all lines joined.
classifyAddress(itv) ==
    LET cls == { classify(cacheSets[getCacheSet(a)], getTag(a), 0) : a \in Lines(itv) }
    IN  IF itv = UnknownAddress \/ cls = {CL_HIT, CL_MISS} THEN CL_UNKNOWN
        ELSE IF CL_UNKNOWN \in cls THEN CL_UNKNOWN
        ELSE CHOOSE c \in cls : TRUE

\* Mutant: the sets of an interval that wraps around are forgotten.
unknownSetsNoWrap(itv) ==
    LET s == getCacheSetInterval(itv) IN s[1] .. s[2]

\* The sets that an imprecise update ages; they may wrap around.
unknownSets(itv) ==
    LET s == getCacheSetInterval(itv) IN
    IF s[1] <= s[2] THEN s[1] .. s[2] ELSE (s[1] .. N_SETS - 1) \cup (0 .. s[2])

\* assert((T->N_SETS == 1 || lower != upper) && ...)
assertImprecise(itv) ==
    N_SETS = 1 \/ getCacheSetInterval(itv)[1] # getCacheSetInterval(itv)[2]

-----------------------------------------------------------------------------
Init ==
    /\ age \in [Index -> [Tag -> Age]]
    /\ \A i \in Index : Real!Injective(age[i])
    /\ aborted = FALSE
    /\ \E assumeAnEmptyCache \in BOOLEAN :
         /\ assumeAnEmptyCache => \A i \in Index : age[i] = Real!EmptySet
         /\ cacheSets = [i \in Index |-> new(assumeAnEmptyCache)]

\* The real access goes to some address of the interval.
RealAccess(a) ==
    age' = [age EXCEPT ![getCacheSet(a)] = Real!Touch(@, getTag(a))]

\* update with an address within one cache line; the assumption of a split
\* state holds in the executions this half covers.
UpdatePrecise(itv, assumption) ==
    LET i == getCacheSet(itv[1])
        t == getTag(itv[1])
    IN  /\ ~aborted /\ precise(itv)
        /\ assumption # CL_UNKNOWN => classifyAddress(itv) = CL_UNKNOWN
        /\ assumption = CL_HIT  => age[i][t] < Assoc
        /\ assumption = CL_MISS => age[i][t] = Assoc
        /\ RealAccess(itv[1])
        /\ cacheSets' = [cacheSets EXCEPT ![i] = update(@, t, 0, assumption)]
        /\ UNCHANGED aborted

UpdateImprecise(itv) ==
    /\ ~aborted /\ ~precise(itv)
    /\ IF assertImprecise(itv)
       THEN /\ \E a \in Lines(itv) : RealAccess(a)
            /\ cacheSets' = [i \in Index |->
                 IF i \in unknownSets(itv)
                 THEN potentialUpdate(cacheSets[i], getTag(itv[1]), getTag(itv[2]))
                 ELSE cacheSets[i]]
            /\ UNCHANGED aborted
       ELSE aborted' = TRUE /\ UNCHANGED <<age, cacheSets>>

Next ==
    \E itv \in Interval : \/ \E assumption \in Classification :
                               UpdatePrecise(itv, assumption)
                          \/ UpdateImprecise(itv)

Spec == Init /\ [][Next]_vars

-----------------------------------------------------------------------------
\* An access to an interval that is classified as a hit (a miss) hits
\* (misses) whatever line of the interval it goes to: imprecise updates have
\* aged the knowledge about every set the access can fall into.
IntervalClassificationSound ==
    \A itv \in Interval :
        LET cl == classifyAddress(itv) IN
        \A a \in Lines(itv) :
            /\ cl = CL_HIT  => age[getCacheSet(a)][getTag(a)] < Assoc
            /\ cl = CL_MISS => age[getCacheSet(a)][getTag(a)] = Assoc

\* "Could have performed precise update": the assertion in update says that
\* an interval of more than one line never begins and ends in the same set.
\* It is not an invariant: see README.md, "What disagrees".
ImpreciseUpdateSpansSets == ~aborted
=============================================================================
