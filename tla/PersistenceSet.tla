--------------------------- MODULE PersistenceSet ---------------------------
(***************************************************************************)
(* The persistence analyses of one cache set along program paths, next to  *)
(* the real content of the set.                                            *)
(*                                                                         *)
(* config.analyses are the analyses of the cache that makePersistenceCache *)
(* builds; they see the same accesses. A path enters and                   *)
(* leaves scopes (loops); a scope may be entered again before its first    *)
(* entry is left, since the pipeline enters on fetch and leaves on write   *)
(* back. In a shared second-level set other cores access their own lines.  *)
(*                                                                         *)
(* One of the paths is the one a real execution takes; the others only     *)
(* meet it at joins. age, accessed and open are history: no analysis reads *)
(* them.                                                                   *)
(***************************************************************************)
EXTENDS CacheTraits, FiniteSets

CONSTANTS
    Path,        \* program paths whose states may be joined
    Taken,       \* the path of the real execution
    Scope,       \* persistence scopes
    OwnTag,      \* tags the analysed program accesses
    Array, arrayTags, perSetSize,
    addrlists,   \* lines of the other cores, <<index, tag>>
    Config       \* [analyses, arrayAware, sharedLevel, SetIndex], and of the
                 \* program: paths, scopes and the bound MaxEnter on nested
                 \* entries of one scope

\* Arrays, functions and their lines are finite lists of the code.
ASSUME PersistenceAssumption ==
    /\ Taken \in Path /\ OwnTag \subseteq Tag
    /\ IsFiniteSet(Array) /\ IsFiniteSet(DOMAIN addrlists)
    /\ \A f \in DOMAIN addrlists : IsFiniteSet(addrlists[f])
    /\ \A a \in Array : /\ arrayTags[a] \subseteq OwnTag
                        /\ Cardinality(arrayTags[a]) <= perSetSize[a]
    /\ \A c \in Config : /\ c.paths \subseteq Path /\ Taken \in c.paths
                         /\ c.scopes \subseteq Scope /\ c.MaxEnter \in Nat \ {0}

VARIABLES
    config,     \* the configuration of the analysed cache
    age,        \* age[t]: LRU age of t in the real set
    open,       \* open[p][s]: how often s was entered and not left yet
    accessed,   \* accessed[s]: tags accessed, by an address the analysis
                \* knows, since s is open
    setwise,    \* setwise[p], elewise[p], condmust[p]: analysis states
    elewise,
    condmust

vars == <<config, age, open, accessed, setwise, elewise, condmust>>

Real == INSTANCE LruAges WITH
    Path <- {Taken}, MaxWorthwhileTags <- 0, ub <- <<>>, lb <- <<>>

SW == INSTANCE SetWiseCountingPersistence WITH
    arrayAware <- config.arrayAware, sharedLevel <- config.sharedLevel
Ele == INSTANCE ElementWiseCountingPersistence WITH
    arrayAware <- config.arrayAware, sharedLevel <- config.sharedLevel,
    SetIndex <- config.SetIndex
CM == INSTANCE ConditionalMustPersistence

\* An analysis of a scope is default-constructed: its address is 0.
SWPersis == INSTANCE MultiScopePersistence WITH
    Pnew <- SW!new(0), Pupdate <- SW!update,
    PpotentialUpdate <- SW!potentialUpdate, Pjoin <- SW!join,
    PisPersistent <- SW!isPersistent, PisPersistentArray <- SW!isPersistentArray
ElePersis == INSTANCE MultiScopePersistence WITH
    Pnew <- Ele!new, Pupdate <- Ele!update,
    PpotentialUpdate <- Ele!potentialUpdate, Pjoin <- Ele!join,
    PisPersistent <- Ele!isPersistent, PisPersistentArray <- Ele!isPersistentArray
CMPersis == INSTANCE MultiScopePersistence WITH
    Pnew <- CM!new, Pupdate <- CM!update,
    PpotentialUpdate <- CM!potentialUpdate, Pjoin <- CM!join,
    PisPersistent <- CM!isPersistent, PisPersistentArray <- CM!isPersistentArray

NoArray == SW!NoArray
Interfering == { t \in Tag : \E f \in DOMAIN addrlists :
                                <<config.SetIndex, t>> \in addrlists[f] }

\* The assertions of leaveScope and join in the three analyses.
assertLeave(p, scope) ==
    /\ "setwise" \in config.analyses => SWPersis!assertLeave(setwise[p], scope)
    /\ "elementwise" \in config.analyses => ElePersis!assertLeave(elewise[p], scope)
    /\ "conditionalmust" \in config.analyses => CMPersis!assertLeave(condmust[p], scope)

assertJoin(p, q) ==
    /\ SWPersis!assertJoin(setwise[p], setwise[q])
    /\ ElePersis!assertJoin(elewise[p], elewise[q])
    /\ CMPersis!assertJoin(condmust[p], condmust[q])

-----------------------------------------------------------------------------
Init ==
    /\ config \in Config
    /\ age \in { c \in [Tag -> Age] : Real!Injective(c) }
    /\ open     = [p \in Path |-> [s \in Scope |-> 0]]
    /\ accessed = [s \in Scope |-> {}]
    /\ setwise  = [p \in Path |-> SWPersis!new]
    /\ elewise  = [p \in Path |-> ElePersis!new]
    /\ condmust = [p \in Path |-> CMPersis!new]

\* The real access; known ones are noted for every open scope.
RealAccess(p, tag, known) ==
    IF p # Taken THEN UNCHANGED <<age, accessed>>
    ELSE /\ age' = Real!Touch(age, tag)
         /\ accessed' = [s \in Scope |->
              IF known /\ open[p][s] > 0 THEN accessed[s] \cup {tag} ELSE accessed[s]]

\* Every analysis of the cache changes its state on path p.
Analyse(p, sw(_), ele(_), cm(_)) ==
    LET on(kind, a, f(_)) ==
          IF kind \in config.analyses THEN [a EXCEPT ![p] = f(a[p])] ELSE a
    IN  /\ setwise'  = on("setwise", setwise, sw)
        /\ elewise'  = on("elementwise", elewise, ele)
        /\ condmust' = on("conditionalmust", condmust, cm)

\* Path p accesses a known line.
Update(p, tag) ==
    /\ RealAccess(p, tag, TRUE)
    /\ Analyse(p, LAMBDA m : SWPersis!update(m, tag), LAMBDA m : ElePersis!update(m, tag),
                  LAMBDA m : CMPersis!update(m, tag))
    /\ UNCHANGED <<config, open>>

\* Path p accesses an unknown line of an array, or any line (NoArray); the
\* access may fall into another set.
PotentialUpdate(p, array) ==
    /\ \/ \E tag \in IF array = NoArray THEN OwnTag ELSE arrayTags[array] :
            RealAccess(p, tag, config.arrayAware /\ array # NoArray)
       \/ UNCHANGED <<age, accessed>>
    /\ Analyse(p, LAMBDA m : SWPersis!potentialUpdate(m, array), LAMBDA m : ElePersis!potentialUpdate(m, array),
                  LAMBDA m : CMPersis!potentialUpdate(m, array))
    /\ UNCHANGED <<config, open>>

\* Another core accesses one of its lines in a shared set.
OtherCoreAccess(tag) ==
    /\ config.sharedLevel /\ tag \in Interfering
    /\ age' = Real!Touch(age, tag)
    /\ UNCHANGED <<config, open, accessed, setwise, elewise, condmust>>

EnterScope(p, scope) ==
    /\ open[p][scope] < config.MaxEnter
    /\ open' = [open EXCEPT ![p][scope] = @ + 1]
    /\ Analyse(p, LAMBDA m : SWPersis!enterScope(m, scope), LAMBDA m : ElePersis!enterScope(m, scope),
                  LAMBDA m : CMPersis!enterScope(m, scope))
    /\ UNCHANGED <<config, age, accessed>>

LeaveScope(p, scope) ==
    /\ open[p][scope] > 0 /\ assertLeave(p, scope)
    /\ open' = [open EXCEPT ![p][scope] = @ - 1]
    /\ accessed' = [accessed EXCEPT ![scope] =
                      IF p = Taken /\ open[p][scope] = 1 THEN {} ELSE @]
    /\ Analyse(p, LAMBDA m : SWPersis!leaveScope(m, scope), LAMBDA m : ElePersis!leaveScope(m, scope),
                  LAMBDA m : CMPersis!leaveScope(m, scope))
    /\ UNCHANGED <<config, age>>

\* Paths meet where they have entered the same scopes equally often.
Join(p, q) ==
    LET both(a, j(_, _)) == [a EXCEPT ![p] = j(a[p], a[q]), ![q] = j(a[p], a[q])] IN
    /\ open[p] = open[q] /\ assertJoin(p, q)
    /\ setwise'  = both(setwise, SWPersis!join)
    /\ elewise'  = both(elewise, ElePersis!join)
    /\ condmust' = both(condmust, CMPersis!join)
    /\ UNCHANGED <<config, age, open, accessed>>

Next ==
    \/ \E p \in config.paths, tag \in OwnTag : Update(p, tag)
    \/ \E p \in config.paths, array \in Array \cup {NoArray} : PotentialUpdate(p, array)
    \/ \E tag \in Tag : OtherCoreAccess(tag)
    \/ \E p \in config.paths, scope \in config.scopes : EnterScope(p, scope) \/ LeaveScope(p, scope)
    \/ \E p, q \in config.paths : p # q /\ Join(p, q)

Spec == Init /\ [][Next]_vars

-----------------------------------------------------------------------------
(* Properties.                                                             *)

\* Lines that are persistent in scope still sit in the cache once they were
\* accessed in it: an access may miss once after the scope was entered, and
\* StateGraphCacheMissProvider lets it miss no more often than that.
StaysCached(persistentScopes(_)) ==
    \A tag \in OwnTag : \A s \in persistentScopes(tag) :
        tag \in accessed[s] => age[tag] < Assoc

\* The set-wise analysis of a shared set counts the lines of the other cores
\* in set 0, whichever set it belongs to.
SWCountsItsSet == config.sharedLevel => config.SetIndex = 0

\* Without the array extension, a line that the element-wise (the default) or
\* the set-wise analysis calls persistent in an open scope is never evicted
\* between its first access in the scope and the next one, on any path, after
\* joins, unknown accesses and nested entries, and whatever the other cores
\* access in a shared set.
PersistentStaysCached ==
    ~config.arrayAware =>
        /\ StaysCached(LAMBDA t : ElePersis!getPersistentScopes(elewise[Taken], t))
        /\ SWCountsItsSet =>
             StaysCached(LAMBDA t : SWPersis!getPersistentScopes(setwise[Taken], t))

\* The element-wise analysis knows every accessed line persistent that the
\* set-wise analysis knows: it resets a line's conflicts with every access.
ElementWiseRefinesSetWise ==
    \A p \in Path : ~config.arrayAware /\ SWCountsItsSet => \A tag \in OwnTag :
        \A s \in SWPersis!getPersistentScopes(setwise[p], tag) :
            s \in ElePersis!Scopes(elewise[p]) /\ tag \in DOMAIN elewise[p].info[s] =>
                s \in ElePersis!getPersistentScopes(elewise[p], tag)

\* Scopes are left as often as they are entered: no assertion of leaveScope or
\* join fails on a path that enters and leaves properly.
ScopesBalanced ==
    /\ \A p \in Path, s \in Scope : open[p][s] > 0 => assertLeave(p, s)
    /\ \A p, q \in Path : open[p] = open[q] => assertJoin(p, q)

\* What isPersistent says of the conditional must analysis: "the size of the
\* conflict set for this tag is <= ASSOCIATIVITY".
ConditionalMustStaysCached ==
    StaysCached(LAMBDA t : CMPersis!getPersistentScopes(condmust[Taken], t))

\* With the array extension: the lines of an array that is persistent stay
\* cached once they were accessed. It is not an invariant: see README.md,
\* "What disagrees".
PersistentArrayStaysCached ==
    \A a \in Array :
        \A s \in SWPersis!getPersistentScopesOfArray(setwise[Taken], a) :
            \A tag \in arrayTags[a] \cap accessed[s] : age[tag] < Assoc
=============================================================================
