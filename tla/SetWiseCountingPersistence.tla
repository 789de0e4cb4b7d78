--------------------- MODULE SetWiseCountingPersistence ---------------------
(***************************************************************************)
(* Set-wise conflict counting, one scope, one cache set:                   *)
(* include/Memory/SetWiseCountingPersistence.h.                            *)
(*                                                                         *)
(* A state collects the lines, and with the array extension the unknown    *)
(* lines of arrays, that were accessed since the scope was entered. As     *)
(* long as they fit into the set nothing can have been evicted.            *)
(***************************************************************************)
EXTENDS CacheTraits, FiniteSetsExt, Functions

CONSTANTS
    Array,         \* arrays that have lines in this set
    arrayTags,     \* arrayTags[a]: tags of the lines of a in this set
    perSetSize,    \* perSetSize[a]: getPerSetSize, lines of a in any set
    arrayAware,    \* ArrayPersistenceAnalysis # NONE
    sharedLevel,   \* SPersistenceA && CoreNums > 0 && T->LEVEL > 1 (LiangY)
    addrlists      \* addrlists[f]: <<index, tag>> of the lines of function f
                   \* of another core

NoArray == "no array"

\* r is the set of the address the state belongs to; the default address 0
\* lies in set 0.
new(r) ==
    [top |-> FALSE, r |-> r, accessedBlocks |-> {},
     accessedArrays |-> [a \in Array |-> 0]]

gotoTop(s) == [new(s.r) EXCEPT !.top = TRUE]

conflicts(s) ==
    Cardinality(s.accessedBlocks) + SumFunctionOnSet(s.accessedArrays, Array)

topIfFull(s) == IF conflicts(s) > Assoc THEN gotoTop(s) ELSE s

\* Accesses to the array that may still touch a line not counted yet.
getPerArrayBound(s, array) ==
    perSetSize[array] - Cardinality(s.accessedBlocks \cap arrayTags[array])

\* Mutant: an access to an unknown line is forgotten.
potentialUpdateIgnored(s, array) == s

\* An access to an unknown line: of an array, or of anything (NoArray). The
\* array is counted after the comparison with the associativity.
potentialUpdate(s, array) ==
    IF s.top THEN s
    ELSE IF ~arrayAware \/ array = NoArray THEN gotoTop(s)
    ELSE IF s.accessedArrays[array] >= getPerArrayBound(s, array) THEN s
    ELSE IF conflicts(s) > Assoc THEN gotoTop(s)
    ELSE [s EXCEPT !.accessedArrays[array] = @ + 1]

update(s, tag) ==
    IF s.top \/ tag \in s.accessedBlocks THEN s
    ELSE topIfFull([s EXCEPT !.accessedBlocks = @ \cup {tag}])

\* Arrays are matched up, and those whose lines are all known are dropped.
join(s, y) ==
    LET u == [s EXCEPT !.accessedBlocks = @ \cup y.accessedBlocks]
        arrays == [a \in Array |->
                     Min({ getPerArrayBound(u, a),
                           Max({s.accessedArrays[a], y.accessedArrays[a]}) })]
    IN  IF s.top \/ y.top THEN gotoTop(s)
        ELSE topIfFull(IF arrayAware THEN [u EXCEPT !.accessedArrays = arrays]
                                     ELSE u)

lessequal(s, y) == join(s, y) = y

\* Lines of the other cores in set index; one that two functions use counts
\* twice.
CNN(index, tag) ==
    LET others == [f \in DOMAIN addrlists |->
                     Cardinality({ l \in addrlists[f] : l[1] = index /\ l[2] # tag })]
    IN  SumFunctionOnSet(others, DOMAIN addrlists)

isPersistent(s, tag) ==
    ~s.top /\ (sharedLevel => conflicts(s) + CNN(s.r, tag) <= Assoc)

isPersistentArray(s, array) == ~s.top
=============================================================================
