-------------------------- MODULE MCPersistenceSet --------------------------
(* Model-checking instances of the persistence analyses of one set.        *)
EXTENDS PersistenceSet, TLC

CONSTANTS p1, p2,     \* program paths
          outer, inner, \* scopes
          xs          \* an array

MCTag       == 0 .. 2
MCArrayTags == [a \in {xs} |-> {2}]
MCPerSetSize == [a \in {xs} |-> 1]
\* One function of another core with a line in every set, which the own
\* program uses, too.
MCAddrlists == [f \in {"f"} |-> {<<0, 2>>, <<1, 2>>}]

Counting == {"setwise", "elementwise"}
cache(analyses, arrays, shared, index) ==
    [analyses |-> analyses, arrayAware |-> arrays, sharedLevel |-> shared,
     SetIndex |-> index]
program(paths, scopes, enters) ==
    [paths |-> paths, scopes |-> scopes, MaxEnter |-> enters]

\* Two paths that meet, in one loop; one path through nested loops; and a
\* shared set, in which the lines of the other cores come on top.
MCConfig == {cache(Counting, FALSE, FALSE, 0) @@ program({p1, p2}, {outer}, 1),
             cache(Counting, FALSE, FALSE, 0) @@ program({p1}, {outer, inner}, 2),
             cache(Counting, FALSE, TRUE, 0)  @@ program({p1}, {outer}, 2),
             cache(Counting, FALSE, TRUE, 1)  @@ program({p1}, {outer, inner}, 1)}
MCConditionalMust ==
    {cache({"conditionalmust"}, FALSE, FALSE, 0) @@ program({p1, p2}, {outer}, 2)}
MCArrays == {cache({"setwise"}, TRUE, FALSE, 0) @@ program({p1, p2}, {outer}, 2)}
=============================================================================
