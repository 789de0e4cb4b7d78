--------------------- MODULE ConditionalMustPersistence ---------------------
(***************************************************************************)
(* Conditional must analysis, one scope, one cache set:                    *)
(* include/Memory/ConditionalMustPersistence.h.                            *)
(*                                                                         *)
(* A state conflicts is a function from the tags that were accessed in the *)
(* scope to a bound on their conflicts since.                              *)
(***************************************************************************)
EXTENDS CacheTraits, FiniteSetsExt

new == [t \in {} |-> 0]

older(n) == IF n > 0 /\ n <= Assoc THEN n + 1 ELSE n

potentialUpdate(c, array) == [t \in DOMAIN c |-> older(c[t])]

\* The first access to a tag leaves the other tags as they are.
update(c, tag) ==
    IF tag \notin DOMAIN c
    THEN [t \in DOMAIN c \cup {tag} |-> IF t = tag THEN 1 ELSE c[t]]
    ELSE [t \in DOMAIN c |-> IF t = tag THEN 1 ELSE older(c[t])]

\* A tag that one side has not accessed has no conflicts there.
join(c, y) ==
    LET bound(d, t) == IF t \in DOMAIN d THEN d[t] ELSE 0 IN
    [t \in DOMAIN c \cup DOMAIN y |-> Max({bound(c, t), bound(y, t)})]

lessequal(c, y) == join(c, y) = y

\* A tag that was not accessed yet is persistent: this is its first access.
isPersistent(c, tag) == tag \in DOMAIN c => c[tag] <= Assoc

isPersistentArray(c, array) == FALSE
=============================================================================
