--------------------- MODULE CompositionalAbstractCache ---------------------
(***************************************************************************)
(* The combined must and may analysis of one cache set,                    *)
(* include/Memory/CompositionalAbstractCache.h. A state is the pair        *)
(* <<analysis1, analysis2>> of the must and the may analysis.              *)
(***************************************************************************)
EXTENDS CacheTraits

CONSTANT MaxWorthwhileTags   \* maxWorthwhileTags of the may analysis

Must == INSTANCE LruMaxAgeAbstractCache
May  == INSTANCE LruMinAgeAbstractCache

new(assumeAnEmptyCache) ==
    <<Must!new(assumeAnEmptyCache), May!new(assumeAnEmptyCache)>>

\* CNN: number of competing lines of other cores (shared second level only).
classify(s, tag, CNN) ==
    LET cl == Must!classify(s[1], tag, CNN) IN
    IF cl # CL_UNKNOWN THEN cl ELSE May!classify(s[2], tag, CNN)

\* An access nothing is assumed about is treated as it is classified.
update(s, tag, CNN, assumption) ==
    LET cl == IF assumption = CL_UNKNOWN THEN classify(s, tag, CNN) ELSE assumption
    IN  <<Must!update(s[1], tag, cl), May!update(s[2], tag)>>

potentialUpdate(s, lowTag, highTag) ==
    <<Must!potentialUpdate(s[1]), May!potentialUpdate(s[2], lowTag, highTag)>>

join(s, r) == <<Must!join(s[1], r[1]), May!join(s[2], r[2])>>

lessequal(s, r) == Must!lessequal(s[1], r[1]) /\ May!lessequal(s[2], r[2])
=============================================================================
