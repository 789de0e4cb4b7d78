------------------------ MODULE PersistenceSetProofs ------------------------
(***************************************************************************)
(* The counting persistence analyses are sound, and the element-wise one   *)
(* is at least as precise as the set-wise one, for every associativity,    *)
(* every set of tags, any number of paths and scopes, any nesting of       *)
(* entries and any lines of the other cores.                               *)
(***************************************************************************)
EXTENDS PersistenceSet, CacheLemmas

\* The scopes that an analysis has a state for on path p: none if the cache
\* does not have the analysis.
Opened(kind, p) == {s \in Scope : kind \in config.analyses /\ open[p][s] > 0}

\* The scopes and counters of a state of MultiScopePersistence.
Shape(m, D, count) ==
    /\ DOMAIN m = {"info", "entercount"}
    /\ DOMAIN m.info = D
    /\ m.entercount = [s \in D |-> count[s]]

Typed ==
    /\ config \in Config
    /\ age \in [Tag -> Age] /\ Real!Injective(age)
    /\ open \in [Path -> [Scope -> Nat]]
    /\ DOMAIN accessed = Scope
    /\ DOMAIN setwise = Path /\ DOMAIN elewise = Path /\ DOMAIN condmust = Path

Balanced ==
    \A p \in Path : /\ Shape(setwise[p], Opened("setwise", p), open[p])
                    /\ Shape(elewise[p], Opened("elementwise", p), open[p])
                    /\ Shape(condmust[p], Opened("conditionalmust", p), open[p])

\* A set-wise state that has met no array: at most Assoc lines.
Counts(st, r) ==
    /\ st \in [top : BOOLEAN, r : {r}, accessedBlocks : SUBSET OwnTag,
               accessedArrays : {[a \in Array |-> 0]}]
    /\ IsFiniteSet(st.accessedBlocks) /\ Cardinality(st.accessedBlocks) <= Assoc

SWTyped == \A p \in Path : \A s \in Opened("setwise", p) : Counts(setwise[p].info[s], 0)

\* A state of the element-wise analysis.
EleCounts(e, r) == DOMAIN e \subseteq OwnTag /\ \A t \in DOMAIN e : Counts(e[t], r)

EleTyped ==
    \A p \in Path : \A s \in Opened("elementwise", p) :
        EleCounts(elewise[p].info[s], config.SetIndex)

\* The element-wise state e has no conflict that the set-wise one has not.
FinerThan(e, sw) ==
    ~sw.top => \A t \in DOMAIN e :
        ~e[t].top /\ e[t].accessedBlocks \subseteq sw.accessedBlocks

Finer ==
    \A p \in Path : \A s \in Opened("elementwise", p) \cap Opened("setwise", p) :
        FinerThan(elewise[p].info[s], setwise[p].info[s])

\* Lines that other cores may bring into the set.
Others == IF config.sharedLevel THEN Interfering ELSE {}

\* With the ages c, all lines younger than t are among those that st has
\* counted and those of the other cores, O.
Covers(c, O, st, t) ==
    ~st.top => /\ t \in st.accessedBlocks
               /\ \A u \in Tag : c[u] < c[t] => u \in st.accessedBlocks \cup O

\* The state st2 has forgotten nothing of st, and knows of the access to x.
Grows(st, st2) == ~st2.top => ~st.top /\ st.accessedBlocks \subseteq st2.accessedBlocks
Notes(st, x)   == ~st.top => x \in st.accessedBlocks

\* There is a line in every way before that of t: a line only ages when
\* another one takes its place.
Dense(c, t) == \A n \in Age : n < c[t] => \E u \in Tag : c[u] = n

\* What is known of a line t that was accessed in the open scope s.
FollowedIn(s, t) ==
    /\ Dense(age, t)
    /\ s \in Opened("setwise", Taken) =>
         Covers(age, Others, setwise[Taken].info[s], t)
    /\ s \in Opened("elementwise", Taken) =>
         /\ t \in DOMAIN elewise[Taken].info[s]
         /\ Covers(age, Others, elewise[Taken].info[s][t], t)

Followed ==
    \A s \in Scope :
        /\ accessed[s] \subseteq OwnTag
        /\ open[Taken][s] = 0 => accessed[s] = {}
        /\ \A t \in accessed[s] : FollowedIn(s, t)

\* The inductive invariant.
IInv == /\ Typed /\ Balanced
        /\ ~config.arrayAware => SWTyped /\ EleTyped /\ Finer /\ Followed

-----------------------------------------------------------------------------
(* The operations of the set-wise analysis.                                *)

\* The library operators that the instances of the analyses use.
LEMMA SameLibrary ==
    ASSUME NEW S, NEW f
    PROVE  /\ SW!Cardinality(S) = Cardinality(S)
           /\ Ele!SetWise!Cardinality(S) = Cardinality(S)
           /\ SW!SumFunctionOnSet(f, S) = SumFunctionOnSet(f, S)
           /\ Ele!SetWise!SumFunctionOnSet(f, S) = SumFunctionOnSet(f, S)
<1>1. SW!Cardinality(S) = Cardinality(S)
  BY DEF SW!Cardinality, Cardinality
<1>2. Ele!SetWise!Cardinality(S) = Cardinality(S)
  BY DEF Ele!SetWise!Cardinality, Cardinality
<1>3. SW!SumFunctionOnSet(f, S) = SumFunctionOnSet(f, S)
  BY DEF SW!SumFunctionOnSet, SumFunctionOnSet, SW!FoldFunctionOnSet, FoldFunctionOnSet, SW!MapThenFoldSet, MapThenFoldSet
<1>4. Ele!SetWise!SumFunctionOnSet(f, S) = SumFunctionOnSet(f, S)
  BY DEF Ele!SetWise!SumFunctionOnSet, SumFunctionOnSet, Ele!SetWise!FoldFunctionOnSet, FoldFunctionOnSet, Ele!SetWise!MapThenFoldSet, MapThenFoldSet
<1>5. QED
  BY <1>1, <1>2, <1>3, <1>4

\* The element-wise analysis uses the set-wise one for every tag.
LEMMA SameSetWise ==
    ASSUME NEW st, NEW y, NEW tag, NEW array
    PROVE  /\ Ele!SetWise!update(st, tag) = SW!update(st, tag)
           /\ ~config.arrayAware =>
                /\ Ele!SetWise!potentialUpdate(st, array) = SW!potentialUpdate(st, array)
                /\ Ele!SetWise!join(st, y) = SW!join(st, y)
           /\ Ele!SetWise!isPersistent(st, tag) = SW!isPersistent(st, tag)
           /\ Ele!SetWise!new(st) = SW!new(st)
<1>1. \A z : Ele!SetWise!conflicts(z) = SW!conflicts(z)
  BY SameLibrary DEF Ele!SetWise!conflicts, SW!conflicts
<1>2. \A z : Ele!SetWise!gotoTop(z) = SW!gotoTop(z)
  BY DEF Ele!SetWise!gotoTop, SW!gotoTop, Ele!SetWise!new, SW!new
<1>3. \A z : Ele!SetWise!topIfFull(z) = SW!topIfFull(z)
  BY <1>1, <1>2 DEF Ele!SetWise!topIfFull, SW!topIfFull
<1>4. Ele!SetWise!update(st, tag) = SW!update(st, tag)
  BY <1>3 DEF Ele!SetWise!update, SW!update
<1>5. ~config.arrayAware => Ele!SetWise!potentialUpdate(st, array) = SW!potentialUpdate(st, array)
  BY <1>2 DEF Ele!SetWise!potentialUpdate, SW!potentialUpdate
<1>6. ~config.arrayAware => Ele!SetWise!join(st, y) = SW!join(st, y)
  BY <1>2, <1>3 DEF Ele!SetWise!join, SW!join
<1>7. ASSUME NEW r PROVE Ele!SetWise!CNN(r, tag) = SW!CNN(r, tag)
  <2> DEFINE L(f) == { l \in addrlists[f] : l[1] = r /\ l[2] # tag }
             A == [f \in DOMAIN addrlists |-> SW!Cardinality(L(f))]
             B == [f \in DOMAIN addrlists |-> Ele!SetWise!Cardinality(L(f))]
  <2>1. A = B
    <3> HIDE DEF L
    <3>1. QED
      BY SameLibrary
  <2>2. SW!CNN(r, tag) = SW!SumFunctionOnSet(A, DOMAIN addrlists)
    BY DEF SW!CNN
  <2>3. Ele!SetWise!CNN(r, tag) = Ele!SetWise!SumFunctionOnSet(B, DOMAIN addrlists)
    BY DEF Ele!SetWise!CNN
  <2> HIDE DEF A, B
  <2>4. QED
    BY <2>1, <2>2, <2>3, SameLibrary
<1>8. Ele!SetWise!isPersistent(st, tag) = SW!isPersistent(st, tag)
  BY <1>1, <1>7 DEF Ele!SetWise!isPersistent, SW!isPersistent
<1>9. Ele!SetWise!new(st) = SW!new(st)
  BY DEF Ele!SetWise!new, SW!new
<1>10. QED
  BY <1>4, <1>5, <1>6, <1>8, <1>9

\* Without arrays the conflicts are the accessed lines.
LEMMA ConflictsAreBlocks ==
    ASSUME NEW st, NEW r, Counts(st, r)
    PROVE  SW!conflicts(st) = Cardinality(st.accessedBlocks)
<1> DEFINE zero == [a \in Array |-> 0]
<1>1. st.accessedArrays = zero
  BY DEF Counts
<1>2. SumFunctionOnSet(zero, Array) = 0
  <2>1. zero \in [Array -> Nat] /\ \A a \in Array : zero[a] = 0
    OBVIOUS
  <2> HIDE DEF zero
  <2>2. QED
    BY <2>1, SumZero, PersistenceAssumption
<1>3. Cardinality(st.accessedBlocks) \in Nat
  BY FS_CardinalityType DEF Counts
<1> HIDE DEF zero
<1>4. QED
  BY <1>1, <1>2, <1>3, SameLibrary DEF SW!conflicts

\* A state on top stays there.
LEMMA GotoTopCounts ==
    ASSUME NEW st, NEW r, Counts(st, r)
    PROVE  Counts(SW!gotoTop(st), r) /\ SW!gotoTop(st).top
<1>1. st.r = r
  BY DEF Counts
<1> DEFINE zero == [a \in Array |-> 0]
           z == [top |-> TRUE, r |-> r, accessedBlocks |-> {}, accessedArrays |-> zero]
<1>2. SW!gotoTop(st) = z
  <2>1. SW!new(r) = [top |-> FALSE, r |-> r, accessedBlocks |-> {}, accessedArrays |-> zero]
    BY DEF SW!new
  <2> HIDE DEF zero
  <2>2. SW!gotoTop(st) = [SW!new(r) EXCEPT !.top = TRUE]
    BY <1>1 DEF SW!gotoTop
  <2>3. SW!gotoTop(st) = [[top |-> FALSE, r |-> r, accessedBlocks |-> {}, accessedArrays |-> zero]
                             EXCEPT !.top = TRUE]
    BY <2>1, <2>2, Zenon
  <2>4. QED
    BY <2>3
<1>3. Counts(z, r) /\ z.top
  BY FS_EmptySet, AssocAssumption DEF Counts
<1> HIDE DEF z
<1>4. QED
  BY <1>2, <1>3

\* A fresh state counts nothing.
LEMMA NewCounts ==
    ASSUME NEW r
    PROVE  Counts(SW!new(r), r) /\ ~SW!new(r).top /\ SW!new(r).accessedBlocks = {}
BY FS_EmptySet, AssocAssumption DEF Counts, SW!new

\* More lines than ways go to the top.
LEMMA TopIfFullCounts ==
    ASSUME NEW st, NEW r, NEW blocks \in SUBSET OwnTag, IsFiniteSet(blocks), Counts(st, r), ~st.top
    PROVE  LET res == SW!topIfFull([st EXCEPT !.accessedBlocks = blocks]) IN
           /\ Counts(res, r)
           /\ ~res.top <=> Cardinality(blocks) <= Assoc
           /\ ~res.top => res.accessedBlocks = blocks
<1> DEFINE z == [st EXCEPT !.accessedBlocks = blocks]
           res == SW!topIfFull(z)
           R == [top : BOOLEAN, r : {r}, accessedBlocks : SUBSET OwnTag,
                 accessedArrays : {[a \in Array |-> 0]}]
<1>1. /\ z \in R /\ z.accessedBlocks = blocks /\ ~z.top /\ z.r = r
      /\ z.accessedArrays = [a \in Array |-> 0]
  BY DEF Counts
<1>2. SW!conflicts(z) = Cardinality(blocks)
  <2> DEFINE zero == [a \in Array |-> 0]
  <2>1. SumFunctionOnSet(zero, Array) = 0
    <3>1. zero \in [Array -> Nat] /\ \A a \in Array : zero[a] = 0
      OBVIOUS
    <3> HIDE DEF zero
    <3>2. QED
      BY <3>1, SumZero, PersistenceAssumption
  <2>2. SW!conflicts(z) = SW!Cardinality(blocks) + SW!SumFunctionOnSet(zero, Array)
    BY <1>1 DEF SW!conflicts
  <2>3. Cardinality(blocks) \in Nat
    BY FS_CardinalityType
  <2> HIDE DEF zero, z
  <2>4. QED
    BY <2>1, <2>2, <2>3, SameLibrary
<1>3. Cardinality(blocks) \in Nat
  BY FS_CardinalityType
<1> DEFINE Goal == /\ Counts(res, r)
                   /\ ~res.top <=> Cardinality(blocks) <= Assoc
                   /\ ~res.top => res.accessedBlocks = blocks
<1>4. ASSUME Cardinality(blocks) <= Assoc PROVE Goal
  <2>1. res = z
    BY <1>2, <1>3, <1>4, AssocAssumption DEF SW!topIfFull
  <2> HIDE DEF z, res
  <2>2. QED
    BY <1>1, <1>4, <2>1 DEF Counts
<1>5. ASSUME Cardinality(blocks) > Assoc PROVE Goal
  <2>1. res = SW!gotoTop(z) /\ SW!gotoTop(z) = SW!gotoTop(st)
    BY <1>1, <1>2, <1>5 DEF SW!topIfFull, SW!gotoTop, Counts
  <2> HIDE DEF z, res
  <2>2. QED
    BY <1>3, <1>5, <2>1, GotoTopCounts, AssocAssumption
<1>6. Goal
  <2> HIDE DEF Goal
  <2>1. QED
    BY <1>3, <1>4, <1>5, AssocAssumption
<1>7. QED
  BY <1>6

\* What an access to a known line does to a set-wise state.
LEMMA SWUpdate ==
    ASSUME NEW st, NEW r, NEW tag \in OwnTag, Counts(st, r)
    PROVE  /\ Counts(SW!update(st, tag), r)
           /\ ~SW!update(st, tag).top <=>
                 ~st.top /\ Cardinality(st.accessedBlocks \cup {tag}) <= Assoc
           /\ ~SW!update(st, tag).top =>
                 SW!update(st, tag).accessedBlocks = st.accessedBlocks \cup {tag}
<1> DEFINE blocks == st.accessedBlocks \cup {tag}
<1>1. blocks \in SUBSET OwnTag /\ IsFiniteSet(blocks) /\ st.top \in BOOLEAN
  BY FS_AddElement DEF Counts
<1>2. CASE st.top \/ tag \in st.accessedBlocks
  <2>1. SW!update(st, tag) = st
    BY <1>2 DEF SW!update
  <2>2. tag \in st.accessedBlocks => blocks = st.accessedBlocks
    OBVIOUS
  <2> HIDE DEF blocks
  <2>3. QED
    BY <1>1, <1>2, <2>1, <2>2 DEF Counts, blocks
<1>3. CASE ~st.top /\ tag \notin st.accessedBlocks
  <2>1. SW!update(st, tag) = SW!topIfFull([st EXCEPT !.accessedBlocks = blocks])
    BY <1>3 DEF SW!update
  <2> HIDE DEF blocks
  <2>2. QED
    BY <1>1, <1>3, <2>1, TopIfFullCounts DEF blocks
<1>4. QED
  BY <1>1, <1>2, <1>3

\* In short: the accessed line is counted and none is forgotten.
LEMMA SWUpdateGrows ==
    ASSUME NEW st, NEW r, NEW tag \in OwnTag, Counts(st, r)
    PROVE  /\ Counts(SW!update(st, tag), r)
           /\ Grows(st, SW!update(st, tag)) /\ Notes(SW!update(st, tag), tag)
<1> DEFINE st2 == SW!update(st, tag)
<1>1. /\ Counts(st2, r)
      /\ ~st2.top => ~st.top
      /\ ~st2.top => st2.accessedBlocks = st.accessedBlocks \cup {tag}
  BY SWUpdate
<1> HIDE DEF st2
<1>2. Counts(st2, r) /\ Grows(st, st2) /\ Notes(st2, tag)
  BY <1>1 DEF Grows, Notes
<1>3. QED
  BY <1>2 DEF st2

\* What an access to an unknown line does without the array extension.
LEMMA SWPotentialUpdate ==
    ASSUME NEW st, NEW r, NEW array, Counts(st, r), ~config.arrayAware
    PROVE  Counts(SW!potentialUpdate(st, array), r) /\ SW!potentialUpdate(st, array).top
<1>1. SW!potentialUpdate(st, array) = IF st.top THEN st ELSE SW!gotoTop(st)
  BY DEF SW!potentialUpdate
<1>2. QED
  BY <1>1, GotoTopCounts

\* What the join of two set-wise states has counted.
LEMMA SWJoin ==
    ASSUME NEW st, NEW y, NEW r, Counts(st, r), Counts(y, r), ~config.arrayAware
    PROVE  /\ Counts(SW!join(st, y), r)
           /\ ~SW!join(st, y).top <=>
                 /\ ~st.top /\ ~y.top
                 /\ Cardinality(st.accessedBlocks \cup y.accessedBlocks) <= Assoc
           /\ ~SW!join(st, y).top =>
                 SW!join(st, y).accessedBlocks = st.accessedBlocks \cup y.accessedBlocks
<1> DEFINE blocks == st.accessedBlocks \cup y.accessedBlocks
<1>1. blocks \in SUBSET OwnTag /\ IsFiniteSet(blocks) /\ st.top \in BOOLEAN /\ y.top \in BOOLEAN
  BY FS_Union DEF Counts
<1>2. SW!join(st, y) = IF st.top \/ y.top THEN SW!gotoTop(st)
                       ELSE SW!topIfFull([st EXCEPT !.accessedBlocks = blocks])
  BY DEF SW!join, Counts
<1> HIDE DEF blocks
<1>3. CASE st.top \/ y.top
  BY <1>2, <1>3, GotoTopCounts
<1>4. CASE ~st.top /\ ~y.top
  BY <1>1, <1>2, <1>4, TopIfFullCounts DEF blocks
<1>5. QED
  BY <1>1, <1>3, <1>4

\* In short: the join forgets nothing of either side.
LEMMA SWJoinGrows ==
    ASSUME NEW st, NEW y, NEW r, Counts(st, r), Counts(y, r), ~config.arrayAware
    PROVE  /\ Counts(SW!join(st, y), r)
           /\ Grows(st, SW!join(st, y)) /\ Grows(y, SW!join(st, y))
<1> DEFINE j == SW!join(st, y)
<1>1. /\ Counts(j, r)
      /\ ~j.top => ~st.top /\ ~y.top
      /\ ~j.top => j.accessedBlocks = st.accessedBlocks \cup y.accessedBlocks
  BY SWJoin
<1> HIDE DEF j
<1>2. Counts(j, r) /\ Grows(st, j) /\ Grows(y, j)
  BY <1>1 DEF Grows
<1>3. QED
  BY <1>2 DEF j

-----------------------------------------------------------------------------
(* The scopes of MultiScopePersistence, for the three analyses.            *)

\* An access changes the states of all scopes and nothing else.
LEMMA UpdateShape ==
    ASSUME NEW m, NEW D, NEW c, Shape(m, D, c), NEW tag
    PROVE  /\ Shape(SWPersis!update(m, tag), D, c)
           /\ \A s \in D : SWPersis!update(m, tag).info[s] = SW!update(m.info[s], tag)
           /\ Shape(ElePersis!update(m, tag), D, c)
           /\ \A s \in D : ElePersis!update(m, tag).info[s] = Ele!update(m.info[s], tag)
           /\ Shape(CMPersis!update(m, tag), D, c)
<1>1. /\ Shape(SWPersis!update(m, tag), D, c)
      /\ \A s \in D : SWPersis!update(m, tag).info[s] = SW!update(m.info[s], tag)
  BY DEF Shape, SWPersis!update, SWPersis!onAll, SWPersis!Scopes
<1>2. /\ Shape(ElePersis!update(m, tag), D, c)
      /\ \A s \in D : ElePersis!update(m, tag).info[s] = Ele!update(m.info[s], tag)
  BY DEF Shape, ElePersis!update, ElePersis!onAll, ElePersis!Scopes
<1>3. Shape(CMPersis!update(m, tag), D, c)
  BY DEF Shape, CMPersis!update, CMPersis!onAll, CMPersis!Scopes
<1>4. QED
  BY <1>1, <1>2, <1>3

\* So does an access to an unknown line.
LEMMA PotentialUpdateShape ==
    ASSUME NEW m, NEW D, NEW c, Shape(m, D, c), NEW array
    PROVE  /\ Shape(SWPersis!potentialUpdate(m, array), D, c)
           /\ \A s \in D : SWPersis!potentialUpdate(m, array).info[s] =
                              SW!potentialUpdate(m.info[s], array)
           /\ Shape(ElePersis!potentialUpdate(m, array), D, c)
           /\ \A s \in D : ElePersis!potentialUpdate(m, array).info[s] =
                              Ele!potentialUpdate(m.info[s], array)
           /\ Shape(CMPersis!potentialUpdate(m, array), D, c)
<1>1. /\ Shape(SWPersis!potentialUpdate(m, array), D, c)
      /\ \A s \in D : SWPersis!potentialUpdate(m, array).info[s] =
                         SW!potentialUpdate(m.info[s], array)
  BY DEF Shape, SWPersis!potentialUpdate, SWPersis!onAll, SWPersis!Scopes
<1>2. /\ Shape(ElePersis!potentialUpdate(m, array), D, c)
      /\ \A s \in D : ElePersis!potentialUpdate(m, array).info[s] =
                         Ele!potentialUpdate(m.info[s], array)
  BY DEF Shape, ElePersis!potentialUpdate, ElePersis!onAll, ElePersis!Scopes
<1>3. Shape(CMPersis!potentialUpdate(m, array), D, c)
  BY DEF Shape, CMPersis!potentialUpdate, CMPersis!onAll, CMPersis!Scopes
<1>4. QED
  BY <1>1, <1>2, <1>3

\* Joined states have the same scopes.
LEMMA JoinShape ==
    ASSUME NEW m, NEW y, NEW D, NEW c, Shape(m, D, c)
    PROVE  /\ Shape(SWPersis!join(m, y), D, c)
           /\ \A s \in D : SWPersis!join(m, y).info[s] = SW!join(m.info[s], y.info[s])
           /\ Shape(ElePersis!join(m, y), D, c)
           /\ \A s \in D : ElePersis!join(m, y).info[s] = Ele!join(m.info[s], y.info[s])
           /\ Shape(CMPersis!join(m, y), D, c)
<1>1. /\ Shape(SWPersis!join(m, y), D, c)
      /\ \A s \in D : SWPersis!join(m, y).info[s] = SW!join(m.info[s], y.info[s])
  BY DEF Shape, SWPersis!join, SWPersis!Scopes
<1>2. /\ Shape(ElePersis!join(m, y), D, c)
      /\ \A s \in D : ElePersis!join(m, y).info[s] = Ele!join(m.info[s], y.info[s])
  BY DEF Shape, ElePersis!join, ElePersis!Scopes
<1>3. Shape(CMPersis!join(m, y), D, c)
  BY DEF Shape, CMPersis!join, CMPersis!Scopes
<1>4. QED
  BY <1>1, <1>2, <1>3

\* The open scopes, and how the numbers of entries change.
OpenIn(c) == {s \in Scope : c[s] > 0}
Entered(c, scope) == [c EXCEPT ![scope] = @ + 1]
Exited(c, scope)  == [c EXCEPT ![scope] = @ - 1]

\* A scope is entered with a fresh state, or counted.
LEMMA EnterShape ==
    ASSUME NEW m, NEW c \in [Scope -> Nat], NEW scope \in Scope,
           Shape(m, OpenIn(c), c)
    PROVE  LET D == OpenIn(c)
               e == Entered(c, scope)
               E == OpenIn(e)
           IN  /\ Shape(SWPersis!enterScope(m, scope), E, e)
               /\ \A s \in E : SWPersis!enterScope(m, scope).info[s] =
                                  IF s \in D THEN m.info[s] ELSE SW!new(0)
               /\ Shape(ElePersis!enterScope(m, scope), E, e)
               /\ \A s \in E : ElePersis!enterScope(m, scope).info[s] =
                                  IF s \in D THEN m.info[s] ELSE Ele!new
               /\ Shape(CMPersis!enterScope(m, scope), E, e)
<1> DEFINE D == OpenIn(c)
           e == Entered(c, scope)
           E == OpenIn(e)
<1>1. /\ E = D \cup {scope} /\ \A s \in E : e[s] = IF s = scope THEN c[s] + 1 ELSE c[s]
      /\ scope \notin D => c[scope] = 0
  BY DEF OpenIn, Entered
<1>2. /\ Shape(m, D, c) /\ \A s \in D : c[s] \in Nat
  BY DEF Shape, OpenIn
<1> HIDE DEF D, E, e
<1>3. /\ Shape(SWPersis!enterScope(m, scope), E, e)
      /\ \A s \in E : SWPersis!enterScope(m, scope).info[s] =
                         IF s \in D THEN m.info[s] ELSE SW!new(0)
  <2>1. CASE scope \in D
    BY <1>1, <1>2, <2>1 DEF Shape, SWPersis!enterScope, SWPersis!Scopes
  <2>2. CASE scope \notin D
    BY <1>1, <1>2, <2>2 DEF Shape, SWPersis!enterScope, SWPersis!Scopes
  <2>3. QED
    BY <2>1, <2>2
<1>4. /\ Shape(ElePersis!enterScope(m, scope), E, e)
      /\ \A s \in E : ElePersis!enterScope(m, scope).info[s] =
                         IF s \in D THEN m.info[s] ELSE Ele!new
  <2>1. CASE scope \in D
    BY <1>1, <1>2, <2>1 DEF Shape, ElePersis!enterScope, ElePersis!Scopes
  <2>2. CASE scope \notin D
    BY <1>1, <1>2, <2>2 DEF Shape, ElePersis!enterScope, ElePersis!Scopes
  <2>3. QED
    BY <2>1, <2>2
<1>5. Shape(CMPersis!enterScope(m, scope), E, e)
  <2>1. CASE scope \in D
    BY <1>1, <1>2, <2>1 DEF Shape, CMPersis!enterScope, CMPersis!Scopes
  <2>2. CASE scope \notin D
    BY <1>1, <1>2, <2>2 DEF Shape, CMPersis!enterScope, CMPersis!Scopes
  <2>3. QED
    BY <2>1, <2>2
<1>6. QED
  BY <1>3, <1>4, <1>5 DEF D, E, e

\* The state of a scope is dropped when it was left as often as entered.
LEMMA LeaveShape ==
    ASSUME NEW m, NEW c \in [Scope -> Nat], NEW scope \in Scope, c[scope] > 0,
           Shape(m, OpenIn(c), c)
    PROVE  LET e == Exited(c, scope)
               E == OpenIn(e)
           IN  /\ Shape(SWPersis!leaveScope(m, scope), E, e)
               /\ \A s \in E : SWPersis!leaveScope(m, scope).info[s] = m.info[s]
               /\ Shape(ElePersis!leaveScope(m, scope), E, e)
               /\ \A s \in E : ElePersis!leaveScope(m, scope).info[s] = m.info[s]
               /\ Shape(CMPersis!leaveScope(m, scope), E, e)
<1> DEFINE D == OpenIn(c)
           e == Exited(c, scope)
           E == OpenIn(e)
<1>1. /\ E = IF c[scope] > 1 THEN D ELSE D \ {scope}
      /\ \A s \in E : e[s] = IF s = scope THEN c[s] - 1 ELSE c[s]
      /\ scope \in D
  BY DEF OpenIn, Exited
<1>2. /\ Shape(m, D, c) /\ \A s \in D : c[s] \in Nat
  BY DEF Shape, OpenIn
<1>3. m.entercount[scope] = c[scope]
  BY <1>1, <1>2 DEF Shape
<1> HIDE DEF D, E, e
<1>4. /\ Shape(SWPersis!leaveScope(m, scope), E, e)
      /\ \A s \in E : SWPersis!leaveScope(m, scope).info[s] = m.info[s]
  BY <1>1, <1>2, <1>3 DEF Shape, SWPersis!leaveScope, SWPersis!Scopes
<1>5. /\ Shape(ElePersis!leaveScope(m, scope), E, e)
      /\ \A s \in E : ElePersis!leaveScope(m, scope).info[s] = m.info[s]
  BY <1>1, <1>2, <1>3 DEF Shape, ElePersis!leaveScope, ElePersis!Scopes
<1>6. CMPersis!leaveScope(m, scope) = SWPersis!leaveScope(m, scope)
  BY DEF CMPersis!leaveScope, CMPersis!Scopes, SWPersis!leaveScope, SWPersis!Scopes
<1>7. QED
  BY <1>4, <1>5, <1>6 DEF E, e

-----------------------------------------------------------------------------
(* The real set.                                                           *)

\* An access keeps the ages those of an LRU set, adds only the accessed line
\* to the lines younger than another one, and leaves no way before it empty.
LEMMA TouchFacts ==
    ASSUME NEW c \in [Tag -> Age], Real!Injective(c), NEW x \in Tag
    PROVE  LET d == Real!Touch(c, x) IN
           /\ d \in [Tag -> Age] /\ Real!Injective(d)
           /\ d[x] = 0
           /\ \A t, u \in Tag : d[u] < d[t] => u = x \/ c[u] < c[t]
           /\ \A t \in Tag : (\A n \in Age : n < c[t] => \E u \in Tag : c[u] = n)
                          => (\A n \in Age : n < d[t] => \E u \in Tag : d[u] = n)
<1> DEFINE d == Real!Touch(c, x)
<1>1. \A t \in Tag : c[t] \in 0 .. Assoc
  BY DEF Age
<1>2. \A t \in Tag : d[t] = IF t = x THEN 0 ELSE IF c[t] < c[x] THEN c[t] + 1 ELSE c[t]
  BY DEF Real!Touch
<1>3. \A t, u \in Tag : t # u /\ c[t] = c[u] => c[t] = Assoc
  BY DEF Real!Injective
<1>4. d \in [Tag -> Age]
  <2>1. DOMAIN d = Tag /\ \A t \in Tag : d[t] \in 0 .. Assoc
    BY <1>1, <1>2, AssocAssumption DEF Real!Touch
  <2>2. QED
    BY <2>1 DEF Age, Real!Touch
<1> HIDE DEF d
<1>5. Real!Injective(d)
  <2> SUFFICES ASSUME NEW t \in Tag, NEW u \in Tag, t # u, d[t] = d[u]
               PROVE  d[t] = Assoc
    BY DEF Real!Injective
  <2>1. c[t] \in 0 .. Assoc /\ c[u] \in 0 .. Assoc /\ c[x] \in 0 .. Assoc
    BY <1>1
  <2>2. /\ t # u /\ c[t] = c[u] => c[t] = Assoc
        /\ t # x /\ c[t] = c[x] => c[t] = Assoc
        /\ u # x /\ c[u] = c[x] => c[u] = Assoc
    BY <1>3
  <2>3. QED
    BY <1>2, <2>1, <2>2, AssocAssumption
<1>6. d[x] = 0
  BY <1>2
<1>7. ASSUME NEW t \in Tag, NEW u \in Tag, d[u] < d[t], u # x
      PROVE  c[u] < c[t]
  <2>1. c[t] \in 0 .. Assoc /\ c[u] \in 0 .. Assoc /\ c[x] \in 0 .. Assoc
    BY <1>1
  <2>2. t # x /\ c[t] = c[x] => c[t] = Assoc
    BY <1>3
  <2>3. QED
    BY <1>2, <1>7, <2>1, <2>2, AssocAssumption
<1>8. ASSUME NEW t \in Tag, \A n \in Age : n < c[t] => \E u \in Tag : c[u] = n,
             NEW n \in Age, n < d[t]
      PROVE  \E u \in Tag : d[u] = n
  <2>1. /\ c[t] \in 0 .. Assoc /\ c[x] \in 0 .. Assoc /\ n \in 0 .. Assoc
        /\ t # x /\ (c[t] = c[x] => c[t] = Assoc)
        /\ d[t] = IF c[t] < c[x] THEN c[t] + 1 ELSE c[t]
    BY <1>1, <1>2, <1>3, <1>8, AssocAssumption DEF Age
  <2>2. CASE n = 0
    BY <1>6, <2>2
  <2>3. CASE n > 0 /\ n <= c[x]
    <3>1. n - 1 \in Age /\ n - 1 < c[t]
      BY <1>8, <2>1, <2>3, AssocAssumption DEF Age
    <3>2. PICK u \in Tag : c[u] = n - 1
      BY <1>8, <3>1
    <3>3. u # x /\ d[u] = n
      BY <1>2, <2>1, <2>3, <3>2
    <3>4. QED
      BY <3>3
  <2>4. CASE n > c[x]
    <3>1. n < c[t]
      BY <1>8, <2>1, <2>4
    <3>2. PICK u \in Tag : c[u] = n
      BY <1>8, <3>1
    <3>3. u # x /\ d[u] = n
      BY <1>2, <2>1, <2>4, <3>2
    <3>4. QED
      BY <3>3
  <2>5. QED
    BY <2>1, <2>2, <2>3, <2>4
<1>9. \A t, u \in Tag : d[u] < d[t] => u = x \/ c[u] < c[t]
  BY <1>7
<1>10. \A t \in Tag : (\A n \in Age : n < c[t] => \E u \in Tag : c[u] = n)
                   => (\A n \in Age : n < d[t] => \E u \in Tag : d[u] = n)
  BY <1>8
<1>11. QED
  BY <1>4, <1>5, <1>6, <1>9, <1>10 DEF d

\* A state that counts the accessed line, or a line of another core, still
\* covers what it covered.
LEMMA CoversTouch ==
    ASSUME NEW c \in [Tag -> Age], Real!Injective(c), NEW x \in Tag, NEW O, NEW t \in Tag,
           NEW st, NEW st2, Covers(c, O, st, t),
           Grows(st, st2), Notes(st2, x) \/ x \in O
    PROVE  Covers(Real!Touch(c, x), O, st2, t)
BY TouchFacts DEF Covers, Grows, Notes

\* The accessed line itself has no younger line.
LEMMA CoversAccessed ==
    ASSUME NEW c \in [Tag -> Age], Real!Injective(c), NEW x \in Tag, NEW O,
           NEW st, Notes(st, x)
    PROVE  Covers(Real!Touch(c, x), O, st, x)
<1>1. /\ Real!Touch(c, x)[x] = 0
      /\ \A u \in Tag : Real!Touch(c, x)[u] \in Age
  BY TouchFacts
<1>2. QED
  BY <1>1 DEF Covers, Notes, Age

\* Nor is there a way before it.
LEMMA DenseAccessed ==
    ASSUME NEW c \in [Tag -> Age], Real!Injective(c), NEW x \in Tag
    PROVE  Dense(Real!Touch(c, x), x)
BY TouchFacts DEF Dense, Age

\* No way before a line is emptied by an access.
LEMMA DenseTouch ==
    ASSUME NEW c \in [Tag -> Age], Real!Injective(c), NEW x \in Tag, NEW t \in Tag, Dense(c, t)
    PROVE  Dense(Real!Touch(c, x), t)
BY TouchFacts DEF Dense

-----------------------------------------------------------------------------
(* The operations of the element-wise analysis.                            *)

\* A tag is accessed: its own conflicts start anew, the others count it.
LEMMA EleUpdate ==
    ASSUME NEW e, NEW tag \in OwnTag, EleCounts(e, config.SetIndex)
    PROVE  LET f == Ele!update(e, tag) IN
           /\ EleCounts(f, config.SetIndex)
           /\ DOMAIN f = DOMAIN e \cup {tag}
           /\ \A t \in DOMAIN f : Notes(f[t], tag)
           /\ \A t \in DOMAIN e \ {tag} : Grows(e[t], f[t]) /\ f[t] = SW!update(e[t], tag)
           /\ ~f[tag].top /\ f[tag].accessedBlocks = {tag}
<1> DEFINE r0 == config.SetIndex
           f == Ele!update(e, tag)
<1>1. /\ DOMAIN f = DOMAIN e \cup {tag}
      /\ \A t \in DOMAIN e \ {tag} : f[t] = SW!update(e[t], tag)
      /\ f[tag] = SW!update(SW!new(r0), tag)
  BY SameSetWise DEF Ele!update
<1> HIDE DEF f
<1>2. \A t \in DOMAIN e : Counts(e[t], r0)
  BY DEF EleCounts
<1>3. Counts(SW!new(r0), r0) /\ ~SW!new(r0).top /\ SW!new(r0).accessedBlocks = {}
  BY NewCounts
<1>4. Counts(f[tag], r0) /\ ~f[tag].top /\ f[tag].accessedBlocks = {tag}
  <2>1. SW!new(r0).accessedBlocks \cup {tag} = {tag} /\ Cardinality({tag}) = 1
    BY <1>3, FS_Singleton
  <2>2. QED
    BY <1>1, <1>3, <2>1, SWUpdate, AssocAssumption
<1>5. ASSUME NEW t \in DOMAIN e \ {tag}
      PROVE  Counts(f[t], r0) /\ Grows(e[t], f[t]) /\ Notes(f[t], tag)
  <2>1. Counts(e[t], r0) /\ f[t] = SW!update(e[t], tag)
    BY <1>1, <1>2
  <2>2. QED
    BY <2>1, SWUpdateGrows
<1>6. EleCounts(f, r0)
  BY <1>1, <1>4, <1>5 DEF EleCounts
<1>7. Notes(f[tag], tag)
  BY <1>4 DEF Notes
<1>8. QED
  BY <1>1, <1>4, <1>5, <1>6, <1>7 DEF f

\* It stays finer than the set-wise analysis.
LEMMA EleUpdateFiner ==
    ASSUME NEW e, NEW tag \in OwnTag, EleCounts(e, config.SetIndex),
           NEW sw, NEW r, Counts(sw, r), FinerThan(e, sw)
    PROVE  FinerThan(Ele!update(e, tag), SW!update(sw, tag))
<1> DEFINE r0 == config.SetIndex
           f == Ele!update(e, tag)
           blocks == sw.accessedBlocks \cup {tag}
<1>1. /\ DOMAIN f = DOMAIN e \cup {tag}
      /\ \A t \in DOMAIN e \ {tag} : f[t] = SW!update(e[t], tag)
      /\ ~f[tag].top /\ f[tag].accessedBlocks = {tag}
  BY EleUpdate
<1>2. \A t \in DOMAIN e : Counts(e[t], r0)
  BY DEF EleCounts
<1> HIDE DEF f
<1> SUFFICES ASSUME ~SW!update(sw, tag).top, NEW t \in DOMAIN f
             PROVE  /\ ~f[t].top
                    /\ f[t].accessedBlocks \subseteq SW!update(sw, tag).accessedBlocks
  BY DEF FinerThan, f
<1>3. /\ ~sw.top /\ SW!update(sw, tag).accessedBlocks = blocks
      /\ Cardinality(blocks) <= Assoc
  BY SWUpdate
<1>4. IsFiniteSet(blocks)
  BY FS_AddElement DEF Counts
<1>5. CASE t = tag
  BY <1>1, <1>3, <1>5
<1>6. CASE t # tag
  <2>1. /\ t \in DOMAIN e \ {tag} /\ f[t] = SW!update(e[t], tag) /\ Counts(e[t], r0)
        /\ ~e[t].top /\ e[t].accessedBlocks \subseteq sw.accessedBlocks
    BY <1>1, <1>2, <1>3, <1>6 DEF FinerThan
  <2> DEFINE mine == e[t].accessedBlocks \cup {tag}
  <2>2. mine \subseteq blocks
    BY <2>1
  <2> HIDE DEF blocks
  <2>3. Cardinality(mine) <= Assoc
    <3>1. Cardinality(mine) <= Cardinality(blocks) /\ IsFiniteSet(mine)
      BY <1>4, <2>2, FS_Subset
    <3>2. Cardinality(mine) \in Nat /\ Cardinality(blocks) \in Nat
      BY <1>4, <3>1, FS_CardinalityType
    <3>3. QED
      BY <1>3, <3>1, <3>2, AssocAssumption
  <2>4. ~SW!update(e[t], tag).top /\ SW!update(e[t], tag).accessedBlocks = mine
    BY <2>1, <2>3, SWUpdate
  <2> HIDE DEF mine
  <2>5. QED
    BY <1>3, <2>1, <2>2, <2>4
<1>7. QED
  BY <1>5, <1>6

\* An unknown access without arrays: everything is lost.
LEMMA ElePotentialUpdate ==
    ASSUME NEW e, NEW array, EleCounts(e, config.SetIndex), ~config.arrayAware
    PROVE  LET f == Ele!potentialUpdate(e, array) IN
           /\ EleCounts(f, config.SetIndex)
           /\ DOMAIN f = DOMAIN e /\ \A t \in DOMAIN e : f[t].top
<1> DEFINE f == Ele!potentialUpdate(e, array)
<1>1. DOMAIN f = DOMAIN e /\ \A t \in DOMAIN e : f[t] = SW!potentialUpdate(e[t], array)
  BY SameSetWise DEF Ele!potentialUpdate
<1> HIDE DEF f
<1>2. QED
  BY <1>1, SWPotentialUpdate DEF EleCounts, f

\* A join keeps the conflicts of both sides.
LEMMA EleJoin ==
    ASSUME NEW e, NEW y, EleCounts(e, config.SetIndex), EleCounts(y, config.SetIndex),
           ~config.arrayAware
    PROVE  LET f == Ele!join(e, y) IN
           /\ EleCounts(f, config.SetIndex)
           /\ DOMAIN f = DOMAIN e \cup DOMAIN y
           /\ \A t \in DOMAIN e : Grows(e[t], f[t])
           /\ \A t \in DOMAIN y : Grows(y[t], f[t])
<1> DEFINE r0 == config.SetIndex
           f == Ele!join(e, y)
<1>1. /\ DOMAIN f = DOMAIN e \cup DOMAIN y
      /\ \A t \in DOMAIN f : f[t] = IF t \in DOMAIN e \cap DOMAIN y THEN SW!join(e[t], y[t])
                                    ELSE IF t \in DOMAIN e THEN e[t] ELSE y[t]
  BY SameSetWise DEF Ele!join
<1> HIDE DEF f
<1>2. /\ \A t \in DOMAIN e : Counts(e[t], r0)
      /\ \A t \in DOMAIN y : Counts(y[t], r0)
      /\ DOMAIN e \subseteq OwnTag /\ DOMAIN y \subseteq OwnTag
  BY DEF EleCounts
<1> DEFINE both == DOMAIN e \cap DOMAIN y
<1>2a. ASSUME NEW t \in both
       PROVE  /\ Counts(f[t], r0)
              /\ ~f[t].top => /\ ~e[t].top /\ ~y[t].top
                              /\ e[t].accessedBlocks \subseteq f[t].accessedBlocks
                              /\ y[t].accessedBlocks \subseteq f[t].accessedBlocks
  <2>1. f[t] = SW!join(e[t], y[t]) /\ Counts(e[t], r0) /\ Counts(y[t], r0)
    BY <1>1, <1>2
  <2> DEFINE j == SW!join(e[t], y[t])
  <2>2. /\ Counts(j, r0)
        /\ ~j.top => ~e[t].top /\ ~y[t].top
        /\ ~j.top => j.accessedBlocks = e[t].accessedBlocks \cup y[t].accessedBlocks
    BY <2>1, SWJoin
  <2> HIDE DEF j
  <2>3. QED
    BY <2>1, <2>2 DEF j
<1>2b. \A t \in DOMAIN f \ both : IF t \in DOMAIN e THEN f[t] = e[t] ELSE f[t] = y[t]
  BY <1>1
<1>3. EleCounts(f, r0)
  BY <1>1, <1>2, <1>2a, <1>2b DEF EleCounts
<1>4. \A t \in DOMAIN e : Grows(e[t], f[t])
  BY <1>1, <1>2a, <1>2b DEF Grows
<1>5. \A t \in DOMAIN y : Grows(y[t], f[t])
  BY <1>1, <1>2a, <1>2b DEF Grows
<1>6. QED
  BY <1>1, <1>3, <1>4, <1>5 DEF f

\* It stays finer than the join of the set-wise states.
LEMMA EleJoinFiner ==
    ASSUME NEW e, NEW y, EleCounts(e, config.SetIndex), EleCounts(y, config.SetIndex),
           ~config.arrayAware, NEW sw, NEW z, NEW r, Counts(sw, r), Counts(z, r),
           FinerThan(e, sw), FinerThan(y, z)
    PROVE  FinerThan(Ele!join(e, y), SW!join(sw, z))
<1> DEFINE r0 == config.SetIndex
           f == Ele!join(e, y)
           j == SW!join(sw, z)
           blocks == sw.accessedBlocks \cup z.accessedBlocks
<1>1. /\ DOMAIN f = DOMAIN e \cup DOMAIN y
      /\ \A t \in DOMAIN f : f[t] = IF t \in DOMAIN e \cap DOMAIN y THEN SW!join(e[t], y[t])
                                    ELSE IF t \in DOMAIN e THEN e[t] ELSE y[t]
  BY SameSetWise DEF Ele!join
<1> HIDE DEF f
<1>2. /\ \A t \in DOMAIN e : Counts(e[t], r0)
      /\ \A t \in DOMAIN y : Counts(y[t], r0)
  BY DEF EleCounts
<1> SUFFICES ASSUME ~j.top, NEW t \in DOMAIN f
             PROVE  ~f[t].top /\ f[t].accessedBlocks \subseteq j.accessedBlocks
  BY DEF FinerThan, f
<1>3. ~sw.top /\ ~z.top /\ j.accessedBlocks = blocks /\ Cardinality(blocks) <= Assoc
  BY SWJoin
<1>4. IsFiniteSet(blocks)
  BY FS_Union DEF Counts
<1> HIDE DEF j
<1>5. CASE t \in DOMAIN e \cap DOMAIN y
  <2> DEFINE mine == e[t].accessedBlocks \cup y[t].accessedBlocks
  <2>1. /\ f[t] = SW!join(e[t], y[t]) /\ Counts(e[t], r0) /\ Counts(y[t], r0)
        /\ ~e[t].top /\ ~y[t].top /\ mine \subseteq blocks
    BY <1>1, <1>2, <1>3, <1>5 DEF FinerThan
  <2> HIDE DEF blocks
  <2>2. Cardinality(mine) <= Assoc
    <3>1. Cardinality(mine) <= Cardinality(blocks) /\ IsFiniteSet(mine)
      BY <1>4, <2>1, FS_Subset
    <3>2. Cardinality(mine) \in Nat /\ Cardinality(blocks) \in Nat
      BY <1>4, <3>1, FS_CardinalityType
    <3>3. QED
      BY <1>3, <3>1, <3>2, AssocAssumption
  <2>3. QED
    BY <1>3, <2>1, <2>2, SWJoin
<1>6. CASE t \notin DOMAIN y
  BY <1>1, <1>3, <1>6 DEF FinerThan
<1>7. CASE t \notin DOMAIN e
  BY <1>1, <1>3, <1>7 DEF FinerThan
<1>8. QED
  BY <1>5, <1>6, <1>7

-----------------------------------------------------------------------------
(* The steps keep the invariant.                                           *)

\* Before a scope is entered no analysis has a state.
LEMMA InitInvariant == Init => IInv
<1> SUFFICES ASSUME Init PROVE IInv
  OBVIOUS
<1>1. Typed
  BY DEF Init, Typed
<1>2. \A kind, p : p \in Path => Opened(kind, p) = {}
  BY DEF Init, Opened
<1>3. Balanced
  BY <1>2 DEF Init, Balanced, Shape, SWPersis!new, ElePersis!new, CMPersis!new
<1>4. SWTyped /\ EleTyped /\ Finer
  BY <1>2 DEF SWTyped, EleTyped, Finer
<1>5. Followed
  BY DEF Init, Followed
<1>6. QED
  BY <1>1, <1>3, <1>4, <1>5 DEF IInv

\* Facts of a configuration and a path of its program.
LEMMA ConfigFacts ==
    ASSUME IInv, NEW p \in config.paths
    PROVE  /\ p \in Path /\ Taken \in Path /\ config.scopes \subseteq Scope
           /\ OwnTag \subseteq Tag
BY PersistenceAssumption DEF IInv, Typed

\* An access to a known line.
LEMMA UpdateInvariant ==
    ASSUME IInv, NEW p \in config.paths, NEW tag \in OwnTag, Update(p, tag)
    PROVE  IInv'
<1>1. p \in Path /\ Taken \in Path /\ tag \in Tag
  BY ConfigFacts
<1>2. /\ config' = config /\ open' = open
      /\ setwise'  = IF "setwise" \in config.analyses
                     THEN [setwise EXCEPT ![p] = SWPersis!update(setwise[p], tag)] ELSE setwise
      /\ elewise'  = IF "elementwise" \in config.analyses
                     THEN [elewise EXCEPT ![p] = ElePersis!update(elewise[p], tag)] ELSE elewise
      /\ condmust' = IF "conditionalmust" \in config.analyses
                     THEN [condmust EXCEPT ![p] = CMPersis!update(condmust[p], tag)] ELSE condmust
  BY DEF Update, Analyse
<1>3. RealAccess(p, tag, TRUE)
  BY DEF Update
<1>4. \A kind, q : Opened(kind, q)' = Opened(kind, q)
  BY <1>2 DEF Opened
<1>5. Typed'
  BY <1>1, <1>2, <1>3, TouchFacts DEF IInv, Typed, RealAccess
<1>6. Balanced'
  <2> SUFFICES ASSUME NEW q \in Path
               PROVE  /\ Shape(setwise'[q], Opened("setwise", q), open[q])
                      /\ Shape(elewise'[q], Opened("elementwise", q), open[q])
                      /\ Shape(condmust'[q], Opened("conditionalmust", q), open[q])
    BY <1>2, <1>4 DEF Balanced
  <2>1. /\ Shape(setwise[q], Opened("setwise", q), open[q])
        /\ Shape(elewise[q], Opened("elementwise", q), open[q])
        /\ Shape(condmust[q], Opened("conditionalmust", q), open[q])
    BY DEF IInv, Balanced
  <2>2. DOMAIN setwise = Path /\ DOMAIN elewise = Path /\ DOMAIN condmust = Path
    BY DEF IInv, Typed
  <2>3. QED
    BY <1>2, <2>1, <2>2, UpdateShape
<1>7. ASSUME ~config.arrayAware PROVE SWTyped' /\ EleTyped' /\ Finer' /\ Followed'
  <2>1. /\ SWTyped /\ EleTyped /\ Finer /\ Followed
        /\ age \in [Tag -> Age] /\ Real!Injective(age)
        /\ DOMAIN setwise = Path /\ DOMAIN elewise = Path /\ DOMAIN accessed = Scope
    BY <1>7 DEF IInv, Typed
  <2>2. \A q \in Path : q # p => setwise'[q] = setwise[q] /\ elewise'[q] = elewise[q]
    BY <1>2, <2>1
  <2>3. \A s \in Opened("setwise", p) :
           /\ setwise'[p].info[s] = SW!update(setwise[p].info[s], tag)
           /\ Counts(setwise[p].info[s], 0)
    <3>1. Shape(setwise[p], Opened("setwise", p), open[p])
      BY <1>1 DEF IInv, Balanced
    <3>2. \A s \in Opened("setwise", p) : setwise'[p] = SWPersis!update(setwise[p], tag)
      BY <1>1, <1>2, <2>1 DEF Opened
    <3>3. QED
      BY <1>1, <2>1, <3>1, <3>2, UpdateShape DEF SWTyped
  <2>4. \A s \in Opened("elementwise", p) :
           /\ elewise'[p].info[s] = Ele!update(elewise[p].info[s], tag)
           /\ EleCounts(elewise[p].info[s], config.SetIndex)
    <3>1. Shape(elewise[p], Opened("elementwise", p), open[p])
      BY <1>1 DEF IInv, Balanced
    <3>2. \A s \in Opened("elementwise", p) : elewise'[p] = ElePersis!update(elewise[p], tag)
      BY <1>1, <1>2, <2>1 DEF Opened
    <3>3. QED
      BY <1>1, <2>1, <3>1, <3>2, UpdateShape DEF EleTyped
  <2>5. SWTyped'
    <3> SUFFICES ASSUME NEW q \in Path, NEW s \in Opened("setwise", q)
                 PROVE  Counts(setwise'[q].info[s], 0)
      BY <1>4 DEF SWTyped
    <3>1. CASE q = p
      BY <2>3, <3>1, SWUpdateGrows
    <3>2. CASE q # p
      BY <2>1, <2>2, <3>2 DEF SWTyped
    <3>3. QED
      BY <3>1, <3>2
  <2>6. EleTyped'
    <3> SUFFICES ASSUME NEW q \in Path, NEW s \in Opened("elementwise", q)
                 PROVE  EleCounts(elewise'[q].info[s], config.SetIndex)
      BY <1>2, <1>4 DEF EleTyped
    <3>1. CASE q = p
      <4> DEFINE e == elewise[p].info[s]
                 f == elewise'[p].info[s]
      <4>1. f = Ele!update(e, tag) /\ EleCounts(e, config.SetIndex)
        BY <2>4, <3>1
      <4> HIDE DEF e, f
      <4>2. EleCounts(f, config.SetIndex)
        BY <4>1, EleUpdate
      <4>3. QED
        BY <3>1, <4>2 DEF f
    <3>2. CASE q # p
      BY <2>1, <2>2, <3>2 DEF EleTyped
    <3>3. QED
      BY <3>1, <3>2
  <2>7. Finer'
    <3> SUFFICES ASSUME NEW q \in Path,
                        NEW s \in Opened("elementwise", q) \cap Opened("setwise", q)
                 PROVE  FinerThan(elewise'[q].info[s], setwise'[q].info[s])
      BY <1>4 DEF Finer
    <3>1. FinerThan(elewise[q].info[s], setwise[q].info[s])
      BY <2>1 DEF Finer
    <3>2. CASE q = p
      BY <2>3, <2>4, <3>1, <3>2, EleUpdateFiner
    <3>3. CASE q # p
      BY <2>2, <3>1, <3>3
    <3>4. QED
      BY <3>2, <3>3
  <2>8. Followed'
    <3>1. CASE p # Taken
      <4>1. UNCHANGED <<age, accessed>> /\ setwise'[Taken] = setwise[Taken] /\ elewise'[Taken] = elewise[Taken]
        BY <1>1, <1>3, <2>2, <3>1 DEF RealAccess
      <4>2. Others' = Others
        BY <1>2 DEF Others, Interfering
      <4>3. QED
        BY <1>2, <1>4, <2>1, <4>1, <4>2 DEF Followed, FollowedIn
    <3>2. CASE p = Taken
      <4>1. /\ age' = Real!Touch(age, tag)
            /\ \A s \in Scope : accessed'[s] = IF open[Taken][s] > 0 THEN accessed[s] \cup {tag} ELSE accessed[s]
        BY <1>3, <3>2 DEF RealAccess
      <4>2. Others' = Others
        BY <1>2 DEF Others, Interfering
      <4> SUFFICES ASSUME NEW s \in Scope
                   PROVE  /\ accessed'[s] \subseteq OwnTag
                          /\ open[Taken][s] = 0 => accessed'[s] = {}
                          /\ \A t \in accessed'[s] : FollowedIn(s, t)'
        BY <1>2 DEF Followed
      <4>3. /\ accessed[s] \subseteq OwnTag /\ (open[Taken][s] = 0 => accessed[s] = {})
            /\ \A t \in accessed[s] : FollowedIn(s, t)
        BY <2>1 DEF Followed
      <4>4. ASSUME NEW t \in accessed'[s] PROVE FollowedIn(s, t)'
        <5>1. t \in Tag /\ (t = tag \/ t \in accessed[s])
          BY <1>1, <4>1, <4>3, PersistenceAssumption
        <5>2. Dense(age', t)
          <6>1. CASE t = tag
            BY <1>1, <2>1, <4>1, <6>1, DenseAccessed
          <6>2. CASE t # tag
            <7>1. Dense(age, t)
              BY <4>3, <5>1, <6>2 DEF FollowedIn
            <7>2. QED
              BY <1>1, <2>1, <4>1, <5>1, <7>1, DenseTouch
          <6>3. QED
            BY <6>1, <6>2
        <5>3. ASSUME s \in Opened("setwise", Taken)
              PROVE  Covers(age', Others, setwise'[Taken].info[s], t)
          <6> DEFINE st == setwise[Taken].info[s]
                     st2 == setwise'[Taken].info[s]
          <6>1. /\ Counts(st, 0) /\ st2 = SW!update(st, tag)
            BY <2>3, <3>2, <5>3
          <6>2. Grows(st, st2) /\ Notes(st2, tag)
            BY <6>1, SWUpdateGrows
          <6>3. t # tag => Covers(age, Others, st, t)
            BY <4>3, <5>1, <5>3 DEF FollowedIn
          <6> HIDE DEF st, st2
          <6>4. CASE t = tag
            BY <1>1, <2>1, <4>1, <6>2, <6>4, CoversAccessed DEF st2
          <6>5. CASE t # tag
            BY <1>1, <2>1, <4>1, <5>1, <6>2, <6>3, <6>5, CoversTouch DEF st2
          <6>6. QED
            BY <6>4, <6>5
        <5>4. ASSUME s \in Opened("elementwise", Taken)
              PROVE  /\ t \in DOMAIN elewise'[Taken].info[s]
                     /\ Covers(age', Others, elewise'[Taken].info[s][t], t)
          <6> DEFINE e == elewise[Taken].info[s]
                     f == elewise'[Taken].info[s]
          <6>1. EleCounts(e, config.SetIndex) /\ f = Ele!update(e, tag)
            BY <2>4, <3>2, <5>4
          <6>2. /\ DOMAIN f = DOMAIN e \cup {tag}
                /\ \A w \in DOMAIN f : Notes(f[w], tag)
                /\ \A w \in DOMAIN e \ {tag} : Grows(e[w], f[w])
            <7> HIDE DEF e, f
            <7>1. QED
              BY <6>1, EleUpdate
          <6>3. t # tag => t \in DOMAIN e /\ Covers(age, Others, e[t], t)
            BY <4>3, <5>1, <5>4 DEF FollowedIn
          <6> HIDE DEF e, f
          <6>4. CASE t = tag
            BY <1>1, <2>1, <4>1, <6>2, <6>4, CoversAccessed DEF f
          <6>5. CASE t # tag
            <7>1. t \in DOMAIN f /\ Grows(e[t], f[t]) /\ Notes(f[t], tag)
              BY <6>2, <6>3, <6>5
            <7>3. Covers(age', Others, f[t], t)
              BY <1>1, <2>1, <4>1, <5>1, <6>3, <6>5, <7>1, CoversTouch
            <7>4. QED
              BY <7>1, <7>3 DEF f
          <6>6. QED
            BY <6>4, <6>5
        <5>5. QED
          BY <1>4, <4>2, <5>2, <5>3, <5>4 DEF FollowedIn
      <4>5. accessed'[s] \subseteq OwnTag /\ (open[Taken][s] = 0 => accessed'[s] = {})
        <5>1. accessed'[s] = IF open[Taken][s] > 0 THEN accessed[s] \cup {tag} ELSE accessed[s]
          BY <4>1
        <5>2. accessed[s] \subseteq OwnTag /\ (open[Taken][s] = 0 => accessed[s] = {})
          BY <4>3
        <5>3. QED
          BY <5>1, <5>2
      <4>6. QED
        BY <4>4, <4>5
    <3>3. QED
      BY <3>1, <3>2
  <2>9. QED
    BY <2>5, <2>6, <2>7, <2>8
<1>8. QED
  BY <1>2, <1>5, <1>6, <1>7 DEF IInv

\* An access to an unknown line.
LEMMA PotentialUpdateInvariant ==
    ASSUME IInv, NEW p \in config.paths, NEW array \in Array \cup {NoArray},
           PotentialUpdate(p, array)
    PROVE  IInv'
<1>1. p \in Path /\ Taken \in Path /\ OwnTag \subseteq Tag
  BY ConfigFacts
<1>2. /\ config' = config /\ open' = open
      /\ setwise'  = IF "setwise" \in config.analyses
                     THEN [setwise EXCEPT ![p] = SWPersis!potentialUpdate(setwise[p], array)]
                     ELSE setwise
      /\ elewise'  = IF "elementwise" \in config.analyses
                     THEN [elewise EXCEPT ![p] = ElePersis!potentialUpdate(elewise[p], array)]
                     ELSE elewise
      /\ condmust' = IF "conditionalmust" \in config.analyses
                     THEN [condmust EXCEPT ![p] = CMPersis!potentialUpdate(condmust[p], array)]
                     ELSE condmust
  BY DEF PotentialUpdate, Analyse
<1>3. \A kind, q : Opened(kind, q)' = Opened(kind, q)
  BY <1>2 DEF Opened
<1> DEFINE Known == config.arrayAware /\ array # NoArray
<1>4. (\E x \in OwnTag : RealAccess(p, x, Known)) \/ UNCHANGED <<age, accessed>>
  <2>1. (IF array = NoArray THEN OwnTag ELSE arrayTags[array]) \subseteq OwnTag
    BY PersistenceAssumption
  <2>2. QED
    BY <2>1 DEF PotentialUpdate
<1>5. /\ age \in [Tag -> Age] /\ Real!Injective(age) /\ DOMAIN accessed = Scope
      /\ DOMAIN setwise = Path /\ DOMAIN elewise = Path /\ DOMAIN condmust = Path
  BY DEF IInv, Typed
<1>6. (\E x \in Tag : age' = Real!Touch(age, x)) \/ age' = age
  BY <1>1, <1>4 DEF RealAccess
<1>7. /\ age' \in [Tag -> Age] /\ Real!Injective(age') /\ DOMAIN accessed' = Scope
  BY <1>4, <1>5, <1>6, TouchFacts DEF RealAccess
<1>8. Typed'
  BY <1>1, <1>2, <1>5, <1>7 DEF IInv, Typed
<1>9. Balanced'
  <2> SUFFICES ASSUME NEW q \in Path
               PROVE  /\ Shape(setwise'[q], Opened("setwise", q), open[q])
                      /\ Shape(elewise'[q], Opened("elementwise", q), open[q])
                      /\ Shape(condmust'[q], Opened("conditionalmust", q), open[q])
    BY <1>2, <1>3 DEF Balanced
  <2>1. /\ Shape(setwise[q], Opened("setwise", q), open[q])
        /\ Shape(elewise[q], Opened("elementwise", q), open[q])
        /\ Shape(condmust[q], Opened("conditionalmust", q), open[q])
    BY DEF IInv, Balanced
  <2>2. QED
    BY <1>2, <1>5, <2>1, PotentialUpdateShape
<1>10. ASSUME ~config.arrayAware PROVE SWTyped' /\ EleTyped' /\ Finer' /\ Followed'
  <2>1. SWTyped /\ EleTyped /\ Finer /\ Followed
    BY <1>10 DEF IInv
  <2>2. \A q \in Path : q # p => setwise'[q] = setwise[q] /\ elewise'[q] = elewise[q]
    BY <1>2, <1>5
  <2>3. ASSUME NEW s \in Opened("setwise", p)
        PROVE  Counts(setwise'[p].info[s], 0) /\ setwise'[p].info[s].top
    <3>1. Shape(setwise[p], Opened("setwise", p), open[p])
      BY <1>1 DEF IInv, Balanced
    <3>2. setwise'[p] = SWPersis!potentialUpdate(setwise[p], array)
      BY <1>1, <1>2, <1>5 DEF Opened
    <3>3. setwise'[p].info[s] = SW!potentialUpdate(setwise[p].info[s], array)
      BY <3>1, <3>2, PotentialUpdateShape
    <3>4. Counts(setwise[p].info[s], 0)
      BY <1>1, <2>1 DEF SWTyped
    <3>5. QED
      BY <1>10, <3>3, <3>4, SWPotentialUpdate
  <2>4. ASSUME NEW s \in Opened("elementwise", p)
        PROVE  /\ EleCounts(elewise'[p].info[s], config.SetIndex)
               /\ DOMAIN elewise'[p].info[s] = DOMAIN elewise[p].info[s]
               /\ \A t \in DOMAIN elewise[p].info[s] : elewise'[p].info[s][t].top
    <3> DEFINE e == elewise[p].info[s]
               f == elewise'[p].info[s]
    <3>1. Shape(elewise[p], Opened("elementwise", p), open[p])
      BY <1>1 DEF IInv, Balanced
    <3>2. elewise'[p] = ElePersis!potentialUpdate(elewise[p], array)
      BY <1>1, <1>2, <1>5 DEF Opened
    <3>3. f = Ele!potentialUpdate(e, array)
      BY <3>1, <3>2, PotentialUpdateShape
    <3>4. EleCounts(e, config.SetIndex)
      BY <1>1, <2>1 DEF EleTyped
    <3> HIDE DEF e, f
    <3>5. EleCounts(f, config.SetIndex) /\ DOMAIN f = DOMAIN e /\ \A t \in DOMAIN e : f[t].top
      BY <1>10, <3>3, <3>4, ElePotentialUpdate
    <3>6. QED
      BY <3>5 DEF e, f
  <2>5. SWTyped'
    <3> SUFFICES ASSUME NEW q \in Path, NEW s \in Opened("setwise", q)
                 PROVE  Counts(setwise'[q].info[s], 0)
      BY <1>3 DEF SWTyped
    <3>1. CASE q = p
      BY <2>3, <3>1
    <3>2. CASE q # p
      BY <2>1, <2>2, <3>2 DEF SWTyped
    <3>3. QED
      BY <3>1, <3>2
  <2>6. EleTyped'
    <3> SUFFICES ASSUME NEW q \in Path, NEW s \in Opened("elementwise", q)
                 PROVE  EleCounts(elewise'[q].info[s], config.SetIndex)
      BY <1>2, <1>3 DEF EleTyped
    <3>1. CASE q = p
      BY <2>4, <3>1
    <3>2. CASE q # p
      BY <2>1, <2>2, <3>2 DEF EleTyped
    <3>3. QED
      BY <3>1, <3>2
  <2>7. Finer'
    <3> SUFFICES ASSUME NEW q \in Path,
                        NEW s \in Opened("elementwise", q) \cap Opened("setwise", q)
                 PROVE  FinerThan(elewise'[q].info[s], setwise'[q].info[s])
      BY <1>3 DEF Finer
    <3>1. CASE q = p
      BY <2>3, <3>1 DEF FinerThan
    <3>2. CASE q # p
      BY <2>1, <2>2, <3>2 DEF Finer
    <3>3. QED
      BY <3>1, <3>2
  <2>8. Followed'
    <3> SUFFICES ASSUME NEW s \in Scope
                 PROVE  /\ accessed'[s] \subseteq OwnTag
                        /\ open[Taken][s] = 0 => accessed'[s] = {}
                        /\ \A t \in accessed'[s] : FollowedIn(s, t)'
      BY <1>2 DEF Followed
    <3>1. accessed'[s] = accessed[s]
      BY <1>4, <1>10 DEF RealAccess
    <3>2. /\ accessed[s] \subseteq OwnTag /\ (open[Taken][s] = 0 => accessed[s] = {})
          /\ \A t \in accessed[s] : FollowedIn(s, t)
      BY <2>1 DEF Followed
    <3>3. ASSUME NEW t \in accessed'[s] PROVE FollowedIn(s, t)'
      <4>1. t \in Tag /\ FollowedIn(s, t)
        BY <1>1, <3>1, <3>2
      <4>2. Others' = Others
        BY <1>2 DEF Others, Interfering
      <4>3. Dense(age', t)
        <5>1. Dense(age, t)
          BY <4>1 DEF FollowedIn
        <5>2. QED
          BY <1>5, <1>6, <4>1, <5>1, DenseTouch
      <4>4. CASE p = Taken
        BY <1>3, <2>3, <2>4, <4>1, <4>3, <4>4 DEF FollowedIn, Covers
      <4>5. CASE p # Taken
        <5>1. /\ age' = age /\ setwise'[Taken] = setwise[Taken]
              /\ elewise'[Taken] = elewise[Taken]
          BY <1>1, <1>4, <2>2, <4>5 DEF RealAccess
        <5>2. QED
          BY <1>3, <4>1, <4>2, <5>1 DEF FollowedIn
      <4>6. QED
        BY <4>4, <4>5
    <3>4. QED
      BY <3>1, <3>2, <3>3
  <2>9. QED
    BY <2>5, <2>6, <2>7, <2>8
<1>11. QED
  BY <1>2, <1>8, <1>9, <1>10 DEF IInv

\* Another core accesses one of its lines.
LEMMA OtherCoreInvariant ==
    ASSUME IInv, NEW tag \in Tag, OtherCoreAccess(tag)
    PROVE  IInv'
<1>1. /\ UNCHANGED <<config, open, accessed, setwise, elewise, condmust>>
      /\ age' = Real!Touch(age, tag) /\ config.sharedLevel /\ tag \in Interfering
  BY DEF OtherCoreAccess
<1>2. \A kind, q : Opened(kind, q)' = Opened(kind, q)
  BY <1>1 DEF Opened
<1>3. age \in [Tag -> Age] /\ Real!Injective(age)
  BY DEF IInv, Typed
<1>4. Typed'
  BY <1>1, <1>3, TouchFacts DEF IInv, Typed
<1>5. Balanced'
  BY <1>1, <1>2 DEF IInv, Balanced
<1>6. ASSUME ~config.arrayAware PROVE SWTyped' /\ EleTyped' /\ Finer' /\ Followed'
  <2>1. SWTyped /\ EleTyped /\ Finer /\ Followed
    BY <1>6 DEF IInv
  <2>2. SWTyped' /\ EleTyped' /\ Finer'
    BY <1>1, <1>2, <2>1 DEF SWTyped, EleTyped, Finer
  <2>3. Others' = Others /\ tag \in Others
    BY <1>1 DEF Others, Interfering
  <2>4. ASSUME NEW s \in Scope, NEW t \in accessed[s] PROVE FollowedIn(s, t)'
    <3>1. FollowedIn(s, t) /\ t \in Tag
      BY <2>1, PersistenceAssumption DEF Followed
    <3>2. Dense(age', t)
      BY <1>1, <1>3, <3>1, DenseTouch DEF FollowedIn
    <3>3. \A st : Grows(st, st)
      BY DEF Grows
    <3>4. \A st : Covers(age, Others, st, t) => Covers(age', Others, st, t)
      BY <1>1, <1>3, <2>3, <3>1, <3>3, CoversTouch
    <3>5. QED
      BY <1>1, <1>2, <2>3, <3>1, <3>2, <3>4 DEF FollowedIn
  <2>5. Followed'
    BY <1>1, <2>1, <2>4 DEF Followed
  <2>6. QED
    BY <2>2, <2>5
<1>7. QED
  BY <1>1, <1>4, <1>5, <1>6 DEF IInv

\* A scope is entered.
LEMMA EnterInvariant ==
    ASSUME IInv, NEW p \in config.paths, NEW scope \in config.scopes, EnterScope(p, scope)
    PROVE  IInv'
<1>1. p \in Path /\ Taken \in Path /\ scope \in Scope /\ OwnTag \subseteq Tag
  BY ConfigFacts
<1>2. /\ config' = config /\ age' = age /\ accessed' = accessed
      /\ open' = [open EXCEPT ![p][scope] = @ + 1]
      /\ setwise'  = IF "setwise" \in config.analyses
                     THEN [setwise EXCEPT ![p] = SWPersis!enterScope(setwise[p], scope)]
                     ELSE setwise
      /\ elewise'  = IF "elementwise" \in config.analyses
                     THEN [elewise EXCEPT ![p] = ElePersis!enterScope(elewise[p], scope)]
                     ELSE elewise
      /\ condmust' = IF "conditionalmust" \in config.analyses
                     THEN [condmust EXCEPT ![p] = CMPersis!enterScope(condmust[p], scope)]
                     ELSE condmust
  BY DEF EnterScope, Analyse
<1>3. /\ open \in [Path -> [Scope -> Nat]] /\ DOMAIN accessed = Scope
      /\ DOMAIN setwise = Path /\ DOMAIN elewise = Path /\ DOMAIN condmust = Path
  BY DEF IInv, Typed
<1> DEFINE c == open[p]
           D == OpenIn(c)
           e == Entered(c, scope)
           E == OpenIn(e)
<1>4. /\ c \in [Scope -> Nat] /\ e \in [Scope -> Nat] /\ D \subseteq E
      /\ open' = [open EXCEPT ![p] = e]
  BY <1>1, <1>2, <1>3 DEF OpenIn, Entered
<1> HIDE DEF c, D, E, e
<1>5. /\ \A q \in Path : q # p => open'[q] = open[q]
      /\ open'[p] = e /\ open' \in [Path -> [Scope -> Nat]]
  BY <1>1, <1>3, <1>4
<1>6. /\ \A kind, q : q \in Path /\ q # p => Opened(kind, q)' = Opened(kind, q)
      /\ \A kind : kind \in config.analyses => Opened(kind, p)' = E /\ Opened(kind, p) = D
      /\ \A kind : kind \notin config.analyses => Opened(kind, p)' = {} /\ Opened(kind, p) = {}
  BY <1>2, <1>5 DEF Opened, OpenIn, D, E, c
<1>7. Typed'
  BY <1>1, <1>2, <1>3, <1>5 DEF IInv, Typed
<1>8. \A q \in Path : q # p => /\ setwise'[q] = setwise[q] /\ elewise'[q] = elewise[q]
                               /\ condmust'[q] = condmust[q]
  BY <1>2, <1>3
<1>9. /\ Shape(setwise[p], Opened("setwise", p), c)
      /\ Shape(elewise[p], Opened("elementwise", p), c)
      /\ Shape(condmust[p], Opened("conditionalmust", p), c)
  BY <1>1 DEF IInv, Balanced, c
<1>10. "setwise" \in config.analyses =>
         /\ Shape(setwise'[p], E, e)
         /\ \A s \in E : setwise'[p].info[s] = IF s \in D THEN setwise[p].info[s] ELSE SW!new(0)
  BY <1>1, <1>2, <1>3, <1>4, <1>6, <1>9, EnterShape DEF D, E, e
<1>11. "elementwise" \in config.analyses =>
         /\ Shape(elewise'[p], E, e)
         /\ \A s \in E : elewise'[p].info[s] = IF s \in D THEN elewise[p].info[s] ELSE Ele!new
  BY <1>1, <1>2, <1>3, <1>4, <1>6, <1>9, EnterShape DEF D, E, e
<1>12. "conditionalmust" \in config.analyses => Shape(condmust'[p], E, e)
  BY <1>1, <1>2, <1>3, <1>4, <1>6, <1>9, EnterShape DEF D, E, e
<1>13. Balanced'
  <2> SUFFICES ASSUME NEW q \in Path
               PROVE  /\ Shape(setwise'[q], Opened("setwise", q)', open'[q])
                      /\ Shape(elewise'[q], Opened("elementwise", q)', open'[q])
                      /\ Shape(condmust'[q], Opened("conditionalmust", q)', open'[q])
    BY DEF Balanced
  <2>1. CASE q # p
    BY <1>5, <1>6, <1>8, <2>1 DEF IInv, Balanced
  <2>2. CASE q = p
    <3>1. \A m : Shape(m, {}, c) => Shape(m, {}, e)
      BY DEF Shape
    <3>2. Shape(setwise'[p], Opened("setwise", p)', e)
      BY <1>2, <1>6, <1>9, <1>10, <3>1
    <3>3. Shape(elewise'[p], Opened("elementwise", p)', e)
      BY <1>2, <1>6, <1>9, <1>11, <3>1
    <3>4. Shape(condmust'[p], Opened("conditionalmust", p)', e)
      BY <1>2, <1>6, <1>9, <1>12, <3>1
    <3>5. QED
      BY <1>5, <2>2, <3>2, <3>3, <3>4
  <2>3. QED
    BY <2>1, <2>2
<1>14. ASSUME ~config.arrayAware PROVE SWTyped' /\ EleTyped' /\ Finer' /\ Followed'
  <2>1. SWTyped /\ EleTyped /\ Finer /\ Followed
    BY <1>14 DEF IInv
  <2>2. EleCounts(Ele!new, config.SetIndex) /\ \A sw : FinerThan(Ele!new, sw)
    BY DEF EleCounts, FinerThan, Ele!new
  <2>3. Counts(SW!new(0), 0)
    BY NewCounts
  <2>4. SWTyped'
    <3> SUFFICES ASSUME NEW q \in Path, NEW s \in Opened("setwise", q)'
                 PROVE  Counts(setwise'[q].info[s], 0)
      BY DEF SWTyped
    <3>1. CASE q = p
      BY <1>6, <1>10, <2>1, <2>3, <3>1 DEF SWTyped
    <3>2. CASE q # p
      BY <1>6, <1>8, <2>1, <3>2 DEF SWTyped
    <3>3. QED
      BY <3>1, <3>2
  <2>5. EleTyped'
    <3> SUFFICES ASSUME NEW q \in Path, NEW s \in Opened("elementwise", q)'
                 PROVE  EleCounts(elewise'[q].info[s], config.SetIndex)
      BY <1>2 DEF EleTyped
    <3>1. CASE q = p
      BY <1>6, <1>11, <2>1, <2>2, <3>1 DEF EleTyped
    <3>2. CASE q # p
      BY <1>6, <1>8, <2>1, <3>2 DEF EleTyped
    <3>3. QED
      BY <3>1, <3>2
  <2>6. Finer'
    <3> SUFFICES ASSUME NEW q \in Path,
                        NEW s \in Opened("elementwise", q)' \cap Opened("setwise", q)'
                 PROVE  FinerThan(elewise'[q].info[s], setwise'[q].info[s])
      BY DEF Finer
    <3>1. CASE q = p
      <4>1. s \in E /\ Opened("elementwise", p) = D /\ Opened("setwise", p) = D
        BY <1>6, <3>1
      <4>2. CASE s \in D
        BY <1>6, <1>10, <1>11, <2>1, <3>1, <4>1, <4>2 DEF Finer
      <4>3. CASE s \notin D
        BY <1>6, <1>11, <2>2, <3>1, <4>1, <4>3
      <4>4. QED
        BY <4>2, <4>3
    <3>2. CASE q # p
      BY <1>6, <1>8, <2>1, <3>2 DEF Finer
    <3>3. QED
      BY <3>1, <3>2
  <2>7. Followed'
    <3> SUFFICES ASSUME NEW s \in Scope
                 PROVE  /\ open'[Taken][s] = 0 => accessed[s] = {}
                        /\ \A t \in accessed[s] : FollowedIn(s, t)'
      BY <1>2, <2>1 DEF Followed
    <3>1. /\ open[Taken][s] = 0 => accessed[s] = {}
          /\ \A t \in accessed[s] : FollowedIn(s, t)
      BY <2>1 DEF Followed
    <3>2. open[Taken][s] > 0 => open'[Taken][s] > 0
      BY <1>1, <1>3, <1>4, <1>5 DEF c, e, Entered
    <3>3. open'[Taken][s] = 0 => accessed[s] = {}
      <4>1. open[Taken][s] \in Nat /\ open'[Taken][s] \in Nat
        BY <1>1, <1>3, <1>5
      <4>2. QED
        BY <3>1, <3>2, <4>1
    <3>4. ASSUME NEW t \in accessed[s] PROVE FollowedIn(s, t)'
      <4>1. FollowedIn(s, t) /\ open[Taken][s] > 0
        BY <1>1, <1>3, <3>1
      <4>2. Others' = Others
        BY <1>2 DEF Others, Interfering
      <4>3. CASE p = Taken
        <5>1. s \in D
          BY <4>1, <4>3 DEF D, OpenIn, c
        <5>2. /\ "setwise" \in config.analyses => setwise'[Taken].info[s] = setwise[Taken].info[s]
              /\ "elementwise" \in config.analyses => elewise'[Taken].info[s] = elewise[Taken].info[s]
          BY <1>4, <1>10, <1>11, <4>3, <5>1
        <5>3. \A kind : s \in Opened(kind, Taken)' => kind \in config.analyses /\ s \in Opened(kind, Taken)
          BY <1>6, <4>3, <5>1
        <5>4. QED
          BY <1>2, <4>1, <4>2, <5>2, <5>3 DEF FollowedIn
      <4>4. CASE p # Taken
        BY <1>1, <1>2, <1>6, <1>8, <4>1, <4>2, <4>4 DEF FollowedIn
      <4>5. QED
        BY <4>3, <4>4
    <3>5. QED
      BY <3>3, <3>4
  <2>8. QED
    BY <2>4, <2>5, <2>6, <2>7
<1>15. QED
  BY <1>2, <1>7, <1>13, <1>14 DEF IInv

\* A scope is left.
LEMMA LeaveInvariant ==
    ASSUME IInv, NEW p \in config.paths, NEW scope \in config.scopes, LeaveScope(p, scope)
    PROVE  IInv'
<1>1. p \in Path /\ Taken \in Path /\ scope \in Scope /\ OwnTag \subseteq Tag
  BY ConfigFacts
<1>2. /\ config' = config /\ age' = age /\ open[p][scope] > 0
      /\ accessed' = [accessed EXCEPT ![scope] = IF p = Taken /\ open[p][scope] = 1 THEN {} ELSE @]
      /\ open' = [open EXCEPT ![p][scope] = @ - 1]
      /\ setwise'  = IF "setwise" \in config.analyses
                     THEN [setwise EXCEPT ![p] = SWPersis!leaveScope(setwise[p], scope)]
                     ELSE setwise
      /\ elewise'  = IF "elementwise" \in config.analyses
                     THEN [elewise EXCEPT ![p] = ElePersis!leaveScope(elewise[p], scope)]
                     ELSE elewise
      /\ condmust' = IF "conditionalmust" \in config.analyses
                     THEN [condmust EXCEPT ![p] = CMPersis!leaveScope(condmust[p], scope)]
                     ELSE condmust
  BY DEF LeaveScope, Analyse
<1>3. /\ open \in [Path -> [Scope -> Nat]] /\ DOMAIN accessed = Scope
      /\ DOMAIN setwise = Path /\ DOMAIN elewise = Path /\ DOMAIN condmust = Path
  BY DEF IInv, Typed
<1> DEFINE c == open[p]
           D == OpenIn(c)
           e == Exited(c, scope)
           E == OpenIn(e)
<1>4. /\ c \in [Scope -> Nat] /\ e \in [Scope -> Nat] /\ E \subseteq D /\ c[scope] > 0
      /\ open' = [open EXCEPT ![p] = e]
  BY <1>1, <1>2, <1>3 DEF OpenIn, Exited
<1> HIDE DEF c, D, E, e
<1>5. /\ \A q \in Path : q # p => open'[q] = open[q]
      /\ open'[p] = e /\ open' \in [Path -> [Scope -> Nat]]
  BY <1>1, <1>3, <1>4
<1>6. /\ \A kind, q : q \in Path /\ q # p => Opened(kind, q)' = Opened(kind, q)
      /\ \A kind : kind \in config.analyses => Opened(kind, p)' = E /\ Opened(kind, p) = D
      /\ \A kind : kind \notin config.analyses => Opened(kind, p)' = {} /\ Opened(kind, p) = {}
  BY <1>2, <1>5 DEF Opened, OpenIn, D, E, c
<1>7. Typed'
  BY <1>1, <1>2, <1>3, <1>5 DEF IInv, Typed
<1>8. \A q \in Path : q # p => /\ setwise'[q] = setwise[q] /\ elewise'[q] = elewise[q]
                               /\ condmust'[q] = condmust[q]
  BY <1>2, <1>3
<1>9. /\ Shape(setwise[p], Opened("setwise", p), c)
      /\ Shape(elewise[p], Opened("elementwise", p), c)
      /\ Shape(condmust[p], Opened("conditionalmust", p), c)
  BY <1>1 DEF IInv, Balanced, c
<1>10. "setwise" \in config.analyses =>
         /\ Shape(setwise'[p], E, e)
         /\ \A s \in E : setwise'[p].info[s] = setwise[p].info[s]
  BY <1>1, <1>2, <1>3, <1>4, <1>6, <1>9, LeaveShape DEF D, E, e
<1>11. "elementwise" \in config.analyses =>
         /\ Shape(elewise'[p], E, e)
         /\ \A s \in E : elewise'[p].info[s] = elewise[p].info[s]
  BY <1>1, <1>2, <1>3, <1>4, <1>6, <1>9, LeaveShape DEF D, E, e
<1>12. "conditionalmust" \in config.analyses => Shape(condmust'[p], E, e)
  BY <1>1, <1>2, <1>3, <1>4, <1>6, <1>9, LeaveShape DEF D, E, e
<1>13. Balanced'
  <2> SUFFICES ASSUME NEW q \in Path
               PROVE  /\ Shape(setwise'[q], Opened("setwise", q)', open'[q])
                      /\ Shape(elewise'[q], Opened("elementwise", q)', open'[q])
                      /\ Shape(condmust'[q], Opened("conditionalmust", q)', open'[q])
    BY DEF Balanced
  <2>1. CASE q # p
    BY <1>5, <1>6, <1>8, <2>1 DEF IInv, Balanced
  <2>2. CASE q = p
    <3>1. \A m : Shape(m, {}, c) => Shape(m, {}, e)
      BY DEF Shape
    <3>2. Shape(setwise'[p], Opened("setwise", p)', e)
      BY <1>2, <1>6, <1>9, <1>10, <3>1
    <3>3. Shape(elewise'[p], Opened("elementwise", p)', e)
      BY <1>2, <1>6, <1>9, <1>11, <3>1
    <3>4. Shape(condmust'[p], Opened("conditionalmust", p)', e)
      BY <1>2, <1>6, <1>9, <1>12, <3>1
    <3>5. QED
      BY <1>5, <2>2, <3>2, <3>3, <3>4
  <2>3. QED
    BY <2>1, <2>2
<1>14. ASSUME ~config.arrayAware PROVE SWTyped' /\ EleTyped' /\ Finer' /\ Followed'
  <2>1. SWTyped /\ EleTyped /\ Finer /\ Followed
    BY <1>14 DEF IInv
  <2>4. SWTyped'
    <3> SUFFICES ASSUME NEW q \in Path, NEW s \in Opened("setwise", q)'
                 PROVE  Counts(setwise'[q].info[s], 0)
      BY DEF SWTyped
    <3>1. CASE q = p
      BY <1>4, <1>6, <1>10, <2>1, <3>1 DEF SWTyped
    <3>2. CASE q # p
      BY <1>6, <1>8, <2>1, <3>2 DEF SWTyped
    <3>3. QED
      BY <3>1, <3>2
  <2>5. EleTyped'
    <3> SUFFICES ASSUME NEW q \in Path, NEW s \in Opened("elementwise", q)'
                 PROVE  EleCounts(elewise'[q].info[s], config.SetIndex)
      BY <1>2 DEF EleTyped
    <3>1. CASE q = p
      BY <1>4, <1>6, <1>11, <2>1, <3>1 DEF EleTyped
    <3>2. CASE q # p
      BY <1>6, <1>8, <2>1, <3>2 DEF EleTyped
    <3>3. QED
      BY <3>1, <3>2
  <2>6. Finer'
    <3> SUFFICES ASSUME NEW q \in Path,
                        NEW s \in Opened("elementwise", q)' \cap Opened("setwise", q)'
                 PROVE  FinerThan(elewise'[q].info[s], setwise'[q].info[s])
      BY DEF Finer
    <3>1. CASE q = p
      <4>1. s \in E /\ s \in D /\ Opened("elementwise", p) = D /\ Opened("setwise", p) = D
        BY <1>4, <1>6, <3>1
      <4>2. QED
        BY <1>6, <1>10, <1>11, <2>1, <3>1, <4>1 DEF Finer
    <3>2. CASE q # p
      BY <1>6, <1>8, <2>1, <3>2 DEF Finer
    <3>3. QED
      BY <3>1, <3>2
  <2>7. Followed'
    <3> SUFFICES ASSUME NEW s \in Scope
                 PROVE  /\ accessed'[s] \subseteq OwnTag
                        /\ open'[Taken][s] = 0 => accessed'[s] = {}
                        /\ \A t \in accessed'[s] : FollowedIn(s, t)'
      BY DEF Followed
    <3>1. /\ accessed[s] \subseteq OwnTag
          /\ open[Taken][s] = 0 => accessed[s] = {}
          /\ \A t \in accessed[s] : FollowedIn(s, t)
      BY <2>1 DEF Followed
    <3>2. accessed'[s] = IF s = scope /\ p = Taken /\ open[p][scope] = 1 THEN {} ELSE accessed[s]
      BY <1>2, <1>3
    <3>3. open[Taken][s] \in Nat /\ open'[Taken][s] \in Nat
      BY <1>1, <1>3, <1>5
    <3>4. open'[Taken][s] = IF s = scope /\ p = Taken THEN open[Taken][s] - 1 ELSE open[Taken][s]
      BY <1>1, <1>3, <1>4, <1>5 DEF c, e, Exited
    <3>5. open'[Taken][s] = 0 => accessed'[s] = {}
      BY <3>1, <3>2, <3>3, <3>4
    <3>6. ASSUME NEW t \in accessed'[s] PROVE FollowedIn(s, t)'
      <4>1. FollowedIn(s, t) /\ open'[Taken][s] > 0
        BY <3>1, <3>2, <3>3, <3>5, <3>6
      <4>2. Others' = Others
        BY <1>2 DEF Others, Interfering
      <4>3. CASE p = Taken
        <5>1. s \in E /\ s \in D
          BY <1>4, <1>5, <4>1, <4>3 DEF E, OpenIn
        <5>2. /\ "setwise" \in config.analyses => setwise'[Taken].info[s] = setwise[Taken].info[s]
              /\ "elementwise" \in config.analyses => elewise'[Taken].info[s] = elewise[Taken].info[s]
          BY <1>10, <1>11, <4>3, <5>1
        <5>3. \A kind : s \in Opened(kind, Taken)' => kind \in config.analyses /\ s \in Opened(kind, Taken)
          BY <1>6, <4>3, <5>1
        <5>4. QED
          BY <1>2, <4>1, <4>2, <5>2, <5>3 DEF FollowedIn
      <4>4. CASE p # Taken
        BY <1>1, <1>2, <1>6, <1>8, <4>1, <4>2, <4>4 DEF FollowedIn
      <4>5. QED
        BY <4>3, <4>4
    <3>7. QED
      BY <3>1, <3>2, <3>5, <3>6
  <2>8. QED
    BY <2>4, <2>5, <2>6, <2>7
<1>15. QED
  BY <1>2, <1>7, <1>13, <1>14 DEF IInv

\* Two paths meet.
LEMMA JoinInvariant ==
    ASSUME IInv, NEW p \in config.paths, NEW q \in config.paths, p # q, Join(p, q)
    PROVE  IInv'
<1>1. p \in Path /\ q \in Path /\ Taken \in Path /\ OwnTag \subseteq Tag
  BY ConfigFacts
<1>2. /\ config' = config /\ age' = age /\ accessed' = accessed /\ open' = open
      /\ open[p] = open[q]
      /\ setwise'  = [setwise EXCEPT ![p] = SWPersis!join(setwise[p], setwise[q]),
                                     ![q] = SWPersis!join(setwise[p], setwise[q])]
      /\ elewise'  = [elewise EXCEPT ![p] = ElePersis!join(elewise[p], elewise[q]),
                                     ![q] = ElePersis!join(elewise[p], elewise[q])]
      /\ condmust' = [condmust EXCEPT ![p] = CMPersis!join(condmust[p], condmust[q]),
                                      ![q] = CMPersis!join(condmust[p], condmust[q])]
  BY DEF Join
<1>3. /\ DOMAIN setwise = Path /\ DOMAIN elewise = Path /\ DOMAIN condmust = Path
  BY DEF IInv, Typed
<1>4. \A kind, w : Opened(kind, w)' = Opened(kind, w)
  BY <1>2 DEF Opened
<1>5. \A kind : Opened(kind, p) = Opened(kind, q)
  BY <1>2 DEF Opened
<1>6. /\ \A w \in Path \ {p, q} : /\ setwise'[w] = setwise[w] /\ elewise'[w] = elewise[w]
                                  /\ condmust'[w] = condmust[w]
      /\ \A w \in {p, q} : /\ setwise'[w] = SWPersis!join(setwise[p], setwise[q])
                           /\ elewise'[w] = ElePersis!join(elewise[p], elewise[q])
                           /\ condmust'[w] = CMPersis!join(condmust[p], condmust[q])
  BY <1>1, <1>2, <1>3
<1>7. Typed'
  BY <1>1, <1>2, <1>3 DEF IInv, Typed
<1>8. \A w \in Path : /\ Shape(setwise[w], Opened("setwise", w), open[w])
                      /\ Shape(elewise[w], Opened("elementwise", w), open[w])
                      /\ Shape(condmust[w], Opened("conditionalmust", w), open[w])
  BY DEF IInv, Balanced
<1>9. Balanced'
  <2> SUFFICES ASSUME NEW w \in Path
               PROVE  /\ Shape(setwise'[w], Opened("setwise", w), open[w])
                      /\ Shape(elewise'[w], Opened("elementwise", w), open[w])
                      /\ Shape(condmust'[w], Opened("conditionalmust", w), open[w])
    BY <1>2, <1>4 DEF Balanced
  <2>1. CASE w \in {p, q}
    <3>1. /\ Shape(setwise'[w], Opened("setwise", p), open[p])
          /\ Shape(elewise'[w], Opened("elementwise", p), open[p])
          /\ Shape(condmust'[w], Opened("conditionalmust", p), open[p])
      BY <1>1, <1>6, <1>8, <2>1, JoinShape
    <3>2. QED
      BY <1>2, <1>5, <2>1, <3>1
  <2>2. CASE w \notin {p, q}
    BY <1>6, <1>8, <2>2
  <2>3. QED
    BY <2>1, <2>2
<1>10. ASSUME ~config.arrayAware PROVE SWTyped' /\ EleTyped' /\ Finer' /\ Followed'
  <2>1. SWTyped /\ EleTyped /\ Finer /\ Followed
    BY <1>10 DEF IInv
  <2>2. ASSUME NEW w \in {p, q}, NEW s \in Opened("setwise", w)
        PROVE  /\ setwise'[w].info[s] = SW!join(setwise[p].info[s], setwise[q].info[s])
               /\ Counts(setwise[p].info[s], 0) /\ Counts(setwise[q].info[s], 0)
    <3>1. s \in Opened("setwise", p) /\ s \in Opened("setwise", q)
      BY <1>5
    <3>2. SWPersis!join(setwise[p], setwise[q]).info[s]
            = SW!join(setwise[p].info[s], setwise[q].info[s])
      <4>1. /\ DOMAIN setwise[p] = {"info", "entercount"}
            /\ s \in DOMAIN setwise[p].info
        BY <1>1, <1>8, <3>1 DEF Shape
      <4>2. QED
        BY <4>1 DEF SWPersis!join, SWPersis!Scopes
    <3>3. QED
      BY <1>1, <1>6, <2>1, <3>1, <3>2 DEF SWTyped
  <2>3. ASSUME NEW w \in {p, q}, NEW s \in Opened("elementwise", w)
        PROVE  /\ elewise'[w].info[s] = Ele!join(elewise[p].info[s], elewise[q].info[s])
               /\ EleCounts(elewise[p].info[s], config.SetIndex)
               /\ EleCounts(elewise[q].info[s], config.SetIndex)
    <3>1. s \in Opened("elementwise", p) /\ s \in Opened("elementwise", q)
      BY <1>5
    <3>2. ElePersis!join(elewise[p], elewise[q]).info[s]
            = Ele!join(elewise[p].info[s], elewise[q].info[s])
      <4>1. /\ DOMAIN elewise[p] = {"info", "entercount"}
            /\ s \in DOMAIN elewise[p].info
        BY <1>1, <1>8, <3>1 DEF Shape
      <4>2. QED
        BY <4>1 DEF ElePersis!join, ElePersis!Scopes
    <3>3. QED
      BY <1>1, <1>6, <2>1, <3>1, <3>2 DEF EleTyped
  <2>4. SWTyped'
    <3> SUFFICES ASSUME NEW w \in Path, NEW s \in Opened("setwise", w)
                 PROVE  Counts(setwise'[w].info[s], 0)
      BY <1>4 DEF SWTyped
    <3>1. CASE w \in {p, q}
      BY <1>10, <2>2, <3>1, SWJoinGrows
    <3>2. CASE w \notin {p, q}
      BY <1>6, <2>1, <3>2 DEF SWTyped
    <3>3. QED
      BY <3>1, <3>2
  <2>5. ASSUME NEW w \in {p, q}, NEW s \in Opened("elementwise", w)
        PROVE  LET e == elewise[p].info[s]
                   y == elewise[q].info[s]
                   f == elewise'[w].info[s]
               IN  /\ EleCounts(f, config.SetIndex)
                   /\ DOMAIN f = DOMAIN e \cup DOMAIN y
                   /\ \A t \in DOMAIN e : Grows(e[t], f[t])
                   /\ \A t \in DOMAIN y : Grows(y[t], f[t])
    <3> DEFINE e == elewise[p].info[s]
               y == elewise[q].info[s]
               f == elewise'[w].info[s]
    <3>1. /\ f = Ele!join(e, y)
          /\ EleCounts(e, config.SetIndex) /\ EleCounts(y, config.SetIndex)
      BY <2>3
    <3> HIDE DEF e, y, f
    <3>2. /\ EleCounts(f, config.SetIndex)
          /\ DOMAIN f = DOMAIN e \cup DOMAIN y
          /\ \A t \in DOMAIN e : Grows(e[t], f[t])
          /\ \A t \in DOMAIN y : Grows(y[t], f[t])
      BY <1>10, <3>1, EleJoin
    <3>3. QED
      BY <3>2 DEF e, y, f
  <2>6. EleTyped'
    <3> SUFFICES ASSUME NEW w \in Path, NEW s \in Opened("elementwise", w)
                 PROVE  EleCounts(elewise'[w].info[s], config.SetIndex)
      BY <1>2, <1>4 DEF EleTyped
    <3>1. CASE w \in {p, q}
      BY <2>5, <3>1
    <3>2. CASE w \notin {p, q}
      BY <1>6, <2>1, <3>2 DEF EleTyped
    <3>3. QED
      BY <3>1, <3>2
  <2>7. Finer'
    <3> SUFFICES ASSUME NEW w \in Path,
                        NEW s \in Opened("elementwise", w) \cap Opened("setwise", w)
                 PROVE  FinerThan(elewise'[w].info[s], setwise'[w].info[s])
      BY <1>4 DEF Finer
    <3>1. CASE w \in {p, q}
      <4>1. /\ FinerThan(elewise[p].info[s], setwise[p].info[s])
            /\ FinerThan(elewise[q].info[s], setwise[q].info[s])
        BY <1>1, <1>5, <2>1, <3>1 DEF Finer
      <4>2. QED
        BY <1>10, <2>2, <2>3, <3>1, <4>1, EleJoinFiner
    <3>2. CASE w \notin {p, q}
      BY <1>6, <2>1, <3>2 DEF Finer
    <3>3. QED
      BY <3>1, <3>2
  <2>8. Followed'
    <3> SUFFICES ASSUME NEW s \in Scope, NEW t \in accessed[s] PROVE FollowedIn(s, t)'
      BY <1>2, <2>1 DEF Followed
    <3>1. FollowedIn(s, t)
      BY <2>1 DEF Followed
    <3>2. Others' = Others
      BY <1>2 DEF Others, Interfering
    <3>3. \A st, st2 : Covers(age, Others, st, t) /\ Grows(st, st2) => Covers(age, Others, st2, t)
      BY DEF Covers, Grows
    <3>4. CASE Taken \in {p, q}
      <4>1. ASSUME s \in Opened("setwise", Taken)
            PROVE  Covers(age, Others, setwise'[Taken].info[s], t)
        <5>1. Grows(setwise[Taken].info[s], setwise'[Taken].info[s])
          BY <1>10, <2>2, <3>4, <4>1, SWJoinGrows
        <5>2. QED
          BY <3>1, <3>3, <4>1, <5>1 DEF FollowedIn
      <4>2. ASSUME s \in Opened("elementwise", Taken)
            PROVE  /\ t \in DOMAIN elewise'[Taken].info[s]
                   /\ Covers(age, Others, elewise'[Taken].info[s][t], t)
        <5>1. t \in DOMAIN elewise[Taken].info[s] /\ Covers(age, Others, elewise[Taken].info[s][t], t)
          BY <3>1, <4>2 DEF FollowedIn
        <5>2. /\ t \in DOMAIN elewise'[Taken].info[s]
              /\ Grows(elewise[Taken].info[s][t], elewise'[Taken].info[s][t])
          BY <2>5, <3>4, <4>2, <5>1
        <5>3. QED
          BY <3>3, <5>1, <5>2
      <4>3. QED
        BY <1>2, <1>4, <3>1, <3>2, <4>1, <4>2 DEF FollowedIn
    <3>5. CASE Taken \notin {p, q}
      BY <1>1, <1>2, <1>4, <1>6, <3>1, <3>2, <3>5 DEF FollowedIn
    <3>6. QED
      BY <3>4, <3>5
  <2>9. QED
    BY <2>4, <2>6, <2>7, <2>8
<1>11. QED
  BY <1>2, <1>7, <1>9, <1>10 DEF IInv

\* Every step keeps the invariant.
LEMMA NextInvariant == IInv /\ [Next]_vars => IInv'
<1> SUFFICES ASSUME IInv, [Next]_vars PROVE IInv'
  OBVIOUS
<1>1. CASE UNCHANGED vars
  BY <1>1 DEF vars, IInv, Typed, Balanced, SWTyped, EleTyped, Finer, Followed,
              FollowedIn, Opened, Others, Interfering
<1>2. CASE Next
  BY <1>2, UpdateInvariant, PotentialUpdateInvariant, OtherCoreInvariant, EnterInvariant,
     LeaveInvariant, JoinInvariant DEF Next
<1>3. QED
  BY <1>1, <1>2

\* The invariant holds in every reachable state.
THEOREM InvariantHolds == Spec => []IInv
<1>1. QED
  BY InitInvariant, NextInvariant, PTL DEF Spec

-----------------------------------------------------------------------------
(* What the invariant says.                                                *)

\* A line that was evicted has been displaced by as many lines as there are
\* ways: the lines B, itself among them, and the lines O were too many.
LEMMA EvictedByMany ==
    ASSUME NEW c \in [Tag -> Age], NEW t \in Tag, NEW B, NEW O,
           IsFiniteSet(B), IsFiniteSet(O), t \in B, t \notin O,
           c[t] = Assoc, Dense(c, t),
           \A u \in Tag : c[u] < c[t] => u \in B \cup O \cup {t}
    PROVE  Cardinality(B) + Cardinality(O) > Assoc
<1> DEFINE Y == {u \in Tag : c[u] < Assoc}
           R == B \ {t}
           h == [u \in Y |-> c[u]]
<1>1. IsFiniteSet(R) /\ Cardinality(R) = Cardinality(B) - 1
  BY FS_RemoveElement
<1>2. /\ IsFiniteSet(R \cup O)
      /\ Cardinality(R \cup O) = Cardinality(R) + Cardinality(O) - Cardinality(R \cap O)
  BY <1>1, FS_Union
<1>3. Y \subseteq R \cup O
  <2> SUFFICES ASSUME NEW u \in Y PROVE u \in R \cup O
    OBVIOUS
  <2>1. u # t
    BY AssocAssumption
  <2>2. QED
    BY <2>1
<1>4. /\ IsFiniteSet(Y) /\ Cardinality(Y) <= Cardinality(R \cup O)
  BY <1>2, <1>3, FS_Subset
<1>5. h \in Surjection(Y, 0..(Assoc - 1))
  <2>1. h \in [Y -> 0..(Assoc - 1)]
    BY AssocAssumption DEF Age
  <2>2. ASSUME NEW n \in 0..(Assoc - 1) PROVE \E u \in Y : h[u] = n
    <3>1. n \in Age /\ n < c[t]
      BY AssocAssumption DEF Age
    <3>2. PICK u \in Tag : c[u] = n
      BY <3>1 DEF Dense
    <3>3. QED
      BY <3>1, <3>2
  <2> HIDE DEF h, Y
  <2>3. QED
    BY <2>1, <2>2 DEF Surjection
<1>6. Cardinality(0..(Assoc - 1)) <= Cardinality(Y)
  <2> HIDE DEF h, Y
  <2>1. QED
    BY <1>4, <1>5, FS_Surjection
<1>7. Cardinality(0..(Assoc - 1)) = Assoc
  BY FS_Interval, AssocAssumption
<1>8. /\ Cardinality(B) \in Nat /\ Cardinality(O) \in Nat /\ Cardinality(Y) \in Nat
      /\ Cardinality(R \cap O) \in Nat /\ Cardinality(R \cup O) \in Nat
  <2>1. IsFiniteSet(R \cap O)
    BY <1>1, FS_Subset
  <2>2. QED
    BY <1>2, <1>4, <2>1, FS_CardinalityType
<1> HIDE DEF Y, R, h
<1>9. QED
  BY <1>1, <1>2, <1>4, <1>6, <1>7, <1>8, AssocAssumption

\* The lines of the other cores besides tag are at most as many as CNN says.
LEMMA InterferingBound ==
    ASSUME NEW tag
    PROVE  /\ IsFiniteSet(Interfering \ {tag})
           /\ Cardinality(Interfering \ {tag}) \in Nat
           /\ SW!CNN(config.SetIndex, tag) \in Nat
           /\ Cardinality(Interfering \ {tag}) <= SW!CNN(config.SetIndex, tag)
<1> DEFINE F == DOMAIN addrlists
           L(f) == {l \in addrlists[f] : l[1] = config.SetIndex /\ l[2] # tag}
           lines == [f \in F |-> L(f)]
           n == [f \in F |-> Cardinality(lines[f])]
           U == UNION {lines[f] : f \in F}
<1>1. \A f \in F : lines[f] = L(f) /\ IsFiniteSet(L(f))
  BY FS_Subset, PersistenceAssumption
<1>2. n \in [F -> Nat] /\ \A f \in F : IsFiniteSet(lines[f]) /\ n[f] = Cardinality(lines[f])
  <2> HIDE DEF L, lines
  <2>1. QED
    BY <1>1, FS_CardinalityType
<1>3. IsFiniteSet(U) /\ Cardinality(U) <= SumFunctionOnSet(n, F)
  <2> HIDE DEF lines, n, F
  <2>1. IsFiniteSet(F)
    BY PersistenceAssumption DEF F
  <2>2. QED
    BY <1>2, <2>1, UnionBound
<1>4. SumFunctionOnSet(n, F) \in Nat
  <2> HIDE DEF lines, n, F
  <2>1. IsFiniteSet(F)
    BY PersistenceAssumption DEF F
  <2>2. PICK g : IsPartialSums(g, n, F) /\ SumFunctionOnSet(n, F) = g[F]
    BY <1>2, <2>1, SumUnfold
  <2>3. QED
    BY <2>2 DEF IsPartialSums
<1>5. SW!CNN(config.SetIndex, tag) = SumFunctionOnSet(n, F)
  <2> DEFINE A == [f \in F |-> SW!Cardinality(L(f))]
  <2>1. A = n
    <3> HIDE DEF L
    <3>1. QED
      BY SameLibrary
  <2>2. SW!CNN(config.SetIndex, tag) = SW!SumFunctionOnSet(A, F)
    BY DEF SW!CNN
  <2> HIDE DEF A, n
  <2>3. QED
    BY <2>1, <2>2, SameLibrary
<1>6. /\ IsFiniteSet({l[2] : l \in U})
      /\ Cardinality({l[2] : l \in U}) <= Cardinality(U)
  <2> HIDE DEF U
  <2> DEFINE h == [l \in U |-> l[2]]
  <2>1. h \in Surjection(U, {l[2] : l \in U})
    BY DEF Surjection
  <2> HIDE DEF h
  <2>2. QED
    BY <1>3, <2>1, FS_Surjection
<1>7. Interfering \ {tag} \subseteq {l[2] : l \in U}
  <2> SUFFICES ASSUME NEW t \in Interfering, t # tag
               PROVE  \E l \in U : l[2] = t
    OBVIOUS
  <2>1. PICK f \in F : <<config.SetIndex, t>> \in addrlists[f]
    BY DEF Interfering
  <2>2. <<config.SetIndex, t>> \in L(f)
    BY <2>1
  <2>3. <<config.SetIndex, t>> \in U
    BY <1>1, <2>1, <2>2
  <2> HIDE DEF U
  <2>4. QED
    BY <2>3
<1>8. /\ IsFiniteSet(Interfering \ {tag})
      /\ Cardinality(Interfering \ {tag}) <= Cardinality({l[2] : l \in U})
  BY <1>6, <1>7, FS_Subset
<1>9. /\ Cardinality(U) \in Nat /\ Cardinality(Interfering \ {tag}) \in Nat
      /\ Cardinality({l[2] : l \in U}) \in Nat
  BY <1>3, <1>6, <1>8, FS_CardinalityType
<1> HIDE DEF n, U, F
<1>10. QED
  BY <1>3, <1>4, <1>5, <1>6, <1>8, <1>9

\* A state that covers an accessed line and calls it persistent: the line is
\* in the cache.
LEMMA CoveredIsCached ==
    ASSUME age \in [Tag -> Age], NEW st, NEW t \in Tag, Counts(st, config.SetIndex) \/ ~config.sharedLevel,
           NEW r, Counts(st, r), Covers(age, Others, st, t), Dense(age, t), SW!isPersistent(st, t)
    PROVE  age[t] < Assoc
<1> SUFFICES ASSUME age[t] = Assoc PROVE FALSE
  BY AssocAssumption DEF Age
<1> DEFINE B == st.accessedBlocks
           O == IF config.sharedLevel THEN Interfering \ {t} ELSE {}
<1>1. IsFiniteSet(B) /\ Cardinality(B) <= Assoc /\ Cardinality(B) \in Nat
  BY FS_CardinalityType DEF Counts
<1>2. ~st.top /\ t \in B /\ \A u \in Tag : age[u] < age[t] => u \in B \cup O \cup {t}
  BY DEF SW!isPersistent, Covers, Others
<1>3. IsFiniteSet(O) /\ Cardinality(O) \in Nat
  BY InterferingBound, FS_EmptySet
<1>4. Cardinality(B) + Cardinality(O) > Assoc
  <2>1. t \notin O
    OBVIOUS
  <2> HIDE DEF B, O
  <2>2. QED
    BY <1>1, <1>2, <1>3, <2>1, EvictedByMany
<1>5. CASE config.sharedLevel
  <2>1. st.r = config.SetIndex
    BY <1>5 DEF Counts
  <2>2. Cardinality(B) + SW!CNN(config.SetIndex, t) <= Assoc
    BY <1>5, <2>1, ConflictsAreBlocks DEF SW!isPersistent
  <2>3. Cardinality(O) <= SW!CNN(config.SetIndex, t) /\ SW!CNN(config.SetIndex, t) \in Nat
    BY <1>5, InterferingBound
  <2> HIDE DEF B, O
  <2>4. QED
    BY <1>1, <1>3, <1>4, <2>2, <2>3, AssocAssumption
<1>6. CASE ~config.sharedLevel
  <2>1. Cardinality(O) = 0
    BY <1>6, FS_EmptySet
  <2> HIDE DEF B, O
  <2>2. QED
    BY <1>1, <1>4, <2>1, AssocAssumption
<1>7. QED
  BY <1>5, <1>6

\* The scopes an analysis has states for are the open ones.
LEMMA OpenScopes ==
    ASSUME IInv, NEW p \in Path
    PROVE  /\ SWPersis!Scopes(setwise[p]) = Opened("setwise", p)
           /\ ElePersis!Scopes(elewise[p]) = Opened("elementwise", p)
           /\ CMPersis!Scopes(condmust[p]) = Opened("conditionalmust", p)
BY DEF IInv, Balanced, Shape, SWPersis!Scopes, ElePersis!Scopes, CMPersis!Scopes

\* A line that the element-wise or the set-wise analysis calls persistent in
\* an open scope is not evicted between its first access in the scope and the
\* next one (isPersistent of SetWiseCountingPersistence and
\* ElementWiseCountingPersistence).
THEOREM PersistentLinesStay == Spec => []PersistentStaysCached
<1>1. ASSUME IInv PROVE PersistentStaysCached
  <2> SUFFICES ASSUME ~config.arrayAware, NEW t \in OwnTag, NEW s, t \in accessed[s]
               PROVE  /\ s \in ElePersis!getPersistentScopes(elewise[Taken], t) => age[t] < Assoc
                      /\ SWCountsItsSet /\ s \in SWPersis!getPersistentScopes(setwise[Taken], t)
                           => age[t] < Assoc
    BY DEF PersistentStaysCached, StaysCached
  <2>1. /\ SWTyped /\ EleTyped /\ Followed /\ age \in [Tag -> Age]
        /\ Taken \in Path /\ t \in Tag
    BY <1>1, PersistenceAssumption DEF IInv, Typed
  <2>2. ASSUME s \in Scope PROVE FollowedIn(s, t)
    BY <2>1, <2>2 DEF Followed
  <2>3. ASSUME s \in ElePersis!getPersistentScopes(elewise[Taken], t) PROVE age[t] < Assoc
    <3> DEFINE e == elewise[Taken].info[s]
    <3>1. s \in Opened("elementwise", Taken) /\ Ele!isPersistent(e, t)
      BY <1>1, <2>1, <2>3, OpenScopes DEF ElePersis!getPersistentScopes
    <3>2. s \in Scope
      BY <3>1 DEF Opened
    <3>3. t \in DOMAIN e /\ Covers(age, Others, e[t], t) /\ Dense(age, t)
      BY <2>2, <3>1, <3>2 DEF FollowedIn
    <3>4. EleCounts(e, config.SetIndex)
      BY <2>1, <3>1 DEF EleTyped
    <3> HIDE DEF e
    <3>5. Counts(e[t], config.SetIndex)
      BY <3>3, <3>4 DEF EleCounts
    <3>6. SW!isPersistent(e[t], t)
      BY <3>1, SameSetWise DEF Ele!isPersistent
    <3>7. QED
      BY <2>1, <3>3, <3>5, <3>6, CoveredIsCached
  <2>4. ASSUME SWCountsItsSet, s \in SWPersis!getPersistentScopes(setwise[Taken], t)
        PROVE  age[t] < Assoc
    <3> DEFINE st == setwise[Taken].info[s]
    <3>1. s \in Opened("setwise", Taken) /\ SW!isPersistent(st, t)
      BY <1>1, <2>1, <2>4, OpenScopes DEF SWPersis!getPersistentScopes
    <3>2. s \in Scope
      BY <3>1 DEF Opened
    <3>3. Covers(age, Others, st, t) /\ Dense(age, t)
      BY <2>2, <3>1, <3>2 DEF FollowedIn
    <3>4. Counts(st, 0)
      BY <2>1, <3>1 DEF SWTyped
    <3> HIDE DEF st
    <3>5. Counts(st, config.SetIndex) \/ ~config.sharedLevel
      BY <2>4, <3>4 DEF SWCountsItsSet
    <3>6. QED
      BY <2>1, <3>1, <3>3, <3>4, <3>5, CoveredIsCached
  <2>5. QED
    BY <2>3, <2>4
<1>2. QED
  BY <1>1, InvariantHolds, PTL

\* Every line the set-wise analysis knows persistent the element-wise one
\* knows persistent, too, once it was accessed.
THEOREM ElementWiseIsFiner == Spec => []ElementWiseRefinesSetWise
<1>1. ASSUME IInv PROVE ElementWiseRefinesSetWise
  <2> SUFFICES ASSUME NEW p \in Path, ~config.arrayAware, SWCountsItsSet, NEW tag \in OwnTag,
                      NEW s \in SWPersis!getPersistentScopes(setwise[p], tag),
                      s \in ElePersis!Scopes(elewise[p]), tag \in DOMAIN elewise[p].info[s]
               PROVE  s \in ElePersis!getPersistentScopes(elewise[p], tag)
    BY DEF ElementWiseRefinesSetWise
  <2> DEFINE st == setwise[p].info[s]
             e  == elewise[p].info[s]
  <2>1. /\ s \in Opened("setwise", p) /\ s \in Opened("elementwise", p)
        /\ SW!isPersistent(st, tag)
    BY <1>1, OpenScopes DEF SWPersis!getPersistentScopes
  <2>2. Counts(st, 0) /\ EleCounts(e, config.SetIndex) /\ FinerThan(e, st)
    BY <1>1, <2>1 DEF IInv, SWTyped, EleTyped, Finer
  <2>3. tag \in DOMAIN e
    OBVIOUS
  <2>4. SW!isPersistent(e[tag], tag) => s \in ElePersis!getPersistentScopes(elewise[p], tag)
    BY <2>3, SameSetWise DEF ElePersis!getPersistentScopes, Ele!isPersistent, ElePersis!Scopes
  <2> HIDE DEF st, e
  <2>5. Counts(e[tag], config.SetIndex) /\ ~st.top
    BY <2>1, <2>2, <2>3 DEF EleCounts, SW!isPersistent
  <2>6. ~e[tag].top /\ e[tag].accessedBlocks \subseteq st.accessedBlocks
    BY <2>2, <2>3, <2>5 DEF FinerThan
  <2>7. /\ Cardinality(e[tag].accessedBlocks) <= Cardinality(st.accessedBlocks)
        /\ Cardinality(e[tag].accessedBlocks) \in Nat /\ Cardinality(st.accessedBlocks) \in Nat
    BY <2>2, <2>5, <2>6, FS_Subset, FS_CardinalityType DEF Counts
  <2>8. /\ SW!conflicts(st) = Cardinality(st.accessedBlocks)
        /\ SW!conflicts(e[tag]) = Cardinality(e[tag].accessedBlocks)
    BY <2>2, <2>5, ConflictsAreBlocks
  <2>9. CASE config.sharedLevel
    <3>1. st.r = 0 /\ e[tag].r = 0 /\ config.SetIndex = 0
      BY <2>2, <2>5, <2>9 DEF Counts, SWCountsItsSet
    <3>2. SW!CNN(0, tag) \in Nat
      BY <3>1, InterferingBound
    <3>3. QED
      BY <2>1, <2>4, <2>6, <2>7, <2>8, <3>1, <3>2, AssocAssumption DEF SW!isPersistent
  <2>10. CASE ~config.sharedLevel
    BY <2>4, <2>6, <2>10 DEF SW!isPersistent
  <2>11. QED
    BY <2>9, <2>10
<1>2. QED
  BY <1>1, InvariantHolds, PTL

\* No assertion of leaveScope ("Left scope already") or of join fails.
THEOREM BalancedScopes == Spec => []ScopesBalanced
<1>1. ASSUME IInv PROVE ScopesBalanced
  <2>1. ASSUME NEW p \in Path, NEW s \in Scope, open[p][s] > 0 PROVE assertLeave(p, s)
    BY <1>1, <2>1, OpenScopes DEF assertLeave, SWPersis!assertLeave, ElePersis!assertLeave,
       CMPersis!assertLeave, Opened
  <2>2. ASSUME NEW p \in Path, NEW q \in Path, open[p] = open[q] PROVE assertJoin(p, q)
    <3>1. \A kind : Opened(kind, p) = Opened(kind, q)
      BY <2>2 DEF Opened
    <3>2. \A w \in Path :
            /\ setwise[w].entercount = [s \in Opened("setwise", w) |-> open[w][s]]
            /\ elewise[w].entercount = [s \in Opened("elementwise", w) |-> open[w][s]]
            /\ condmust[w].entercount = [s \in Opened("conditionalmust", w) |-> open[w][s]]
      BY <1>1 DEF IInv, Balanced, Shape
    <3>3. \A kind : [s \in Opened(kind, p) |-> open[p][s]] = [s \in Opened(kind, q) |-> open[q][s]]
      BY <2>2, <3>1
    <3>4. /\ setwise[p].entercount = setwise[q].entercount
          /\ elewise[p].entercount = elewise[q].entercount
          /\ condmust[p].entercount = condmust[q].entercount
      BY <2>2, <3>2, <3>3
    <3>5. QED
      BY <3>4 DEF assertJoin, SWPersis!assertJoin, ElePersis!assertJoin,
         CMPersis!assertJoin
  <2>3. QED
    BY <2>1, <2>2 DEF ScopesBalanced
<1>2. QED
  BY <1>1, InvariantHolds, PTL
=============================================================================
