------------------- MODULE ElementWiseCountingPersistence -------------------
(***************************************************************************)
(* Element-wise conflict counting, one scope, one cache set:               *)
(* include/Memory/ElementWiseCountingPersistence.h.                        *)
(*                                                                         *)
(* A state ele2conflicts is a function from the tags that were accessed in *)
(* the scope to what was accessed since their last access.                 *)
(***************************************************************************)
EXTENDS CacheTraits

CONSTANTS
    Array, arrayTags, perSetSize, arrayAware, sharedLevel, addrlists,
    SetIndex       \* the index of this set

SetWise == INSTANCE SetWiseCountingPersistence

new == [t \in {} |-> SetWise!new(SetIndex)]

potentialUpdate(e, array) ==
    [t \in DOMAIN e |-> SetWise!potentialUpdate(e[t], array)]

update(e, tag) ==
    [t \in DOMAIN e \cup {tag} |->
        SetWise!update(IF t = tag THEN SetWise!new(SetIndex) ELSE e[t], tag)]

\* A tag that only one side has accessed keeps that side's conflicts.
join(e, y) ==
    [t \in DOMAIN e \cup DOMAIN y |->
        IF t \in DOMAIN e \cap DOMAIN y THEN SetWise!join(e[t], y[t])
        ELSE IF t \in DOMAIN e THEN e[t] ELSE y[t]]

lessequal(e, y) ==
    \A t \in DOMAIN e : t \in DOMAIN y /\ SetWise!lessequal(e[t], y[t])

\* Mutant: the line itself is counted besides its conflicts.
isPersistentBesides(e, tag) ==
    tag \in DOMAIN e /\ SetWise!isPersistent(e[tag], tag) /\ SetWise!conflicts(e[tag]) < Assoc

isPersistent(e, tag) == tag \in DOMAIN e /\ SetWise!isPersistent(e[tag], tag)

isPersistentArray(e, array) == FALSE
=============================================================================
