------------------------ MODULE MultiScopePersistence ------------------------
(***************************************************************************)
(* A persistence analysis P for every scope that has been entered:         *)
(* include/Memory/MultiScopePersistence.h, without STRICT_SCOPE_           *)
(* CONSISTENCY. The parameters P... are the class parameter P.             *)
(***************************************************************************)
EXTENDS Integers

CONSTANTS
    Pnew, Pupdate(_, _), PpotentialUpdate(_, _), Pjoin(_, _),
    PisPersistent(_, _), PisPersistentArray(_, _)

new == [info |-> [s \in {} |-> Pnew], entercount |-> [s \in {} |-> 0]]

Scopes(m) == DOMAIN m.info

onAll(m, f(_)) == [m EXCEPT !.info = [s \in Scopes(m) |-> f(m.info[s])]]

update(m, tag) == onAll(m, LAMBDA i : Pupdate(i, tag))

potentialUpdate(m, array) == onAll(m, LAMBDA i : PpotentialUpdate(i, array))

\* The assertions of join.
assertJoin(m, y) == m.entercount = y.entercount

join(m, y) ==
    [m EXCEPT !.info = [s \in Scopes(m) |-> Pjoin(m.info[s], y.info[s])]]

\* Mutant: the counter of a scope that is entered again is not raised.
enterScopeOnce(m, scope) ==
    IF scope \in Scopes(m) THEN m
    ELSE [info |-> [s \in Scopes(m) \cup {scope} |->
                      IF s = scope THEN Pnew ELSE m.info[s]],
          entercount |-> [s \in Scopes(m) \cup {scope} |->
                            IF s = scope THEN 1 ELSE m.entercount[s]]]

\* A scope that is entered again before it was left is only counted.
enterScope(m, scope) ==
    IF scope \in Scopes(m) THEN [m EXCEPT !.entercount[scope] = @ + 1]
    ELSE [info |-> [s \in Scopes(m) \cup {scope} |->
                      IF s = scope THEN Pnew ELSE m.info[s]],
          entercount |-> [s \in Scopes(m) \cup {scope} |->
                            IF s = scope THEN 1 ELSE m.entercount[s]]]

\* "Left scope already"
assertLeave(m, scope) == scope \in Scopes(m)

leaveScope(m, scope) ==
    LET rest == Scopes(m) \ {scope} IN
    IF m.entercount[scope] > 1 THEN [m EXCEPT !.entercount[scope] = @ - 1]
    ELSE [info |-> [s \in rest |-> m.info[s]],
          entercount |-> [s \in rest |-> m.entercount[s]]]

getPersistentScopes(m, tag) ==
    { s \in Scopes(m) : PisPersistent(m.info[s], tag) }

getPersistentScopesOfArray(m, array) ==
    { s \in Scopes(m) : PisPersistentArray(m.info[s], array) }
=============================================================================
