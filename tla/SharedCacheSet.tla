--------------------------- MODULE SharedCacheSet ---------------------------
(***************************************************************************)
(* A set of the second-level cache that several cores share, as analysed   *)
(* for one core (multi-core mode LiangY).                                  *)
(*                                                                         *)
(* The analysis sees the accesses of its own core only. The other cores    *)
(* access the lines of their functions at any time; classify accounts for  *)
(* them by adding CNN, the number of their lines that compete with the     *)
(* accessed line, to the age the analysis has computed.                    *)
(***************************************************************************)
EXTENDS CompositionalAbstractCache, Sequences, FiniteSetsExt, Functions

CONSTANT
    addrlists   \* addrlists[f]: tags in this set of the lines of f, for every
                \* pair f of an entry of another core and a function it
                \* reaches; a function of two entries is listed twice

\* The functions and their lines are in containers.
ASSUME AddrlistsAssumption ==
    /\ IsFiniteSet(DOMAIN addrlists)
    /\ \A f \in DOMAIN addrlists : addrlists[f] \subseteq Tag /\ IsFiniteSet(addrlists[f])

VARIABLES
    sharedAge, \* sharedAge[t]: LRU age of t in the shared set
    analysis   \* analysis state of the own core

sharedVars == <<sharedAge, analysis>>

SharedSet == INSTANCE LruAges WITH Path <- {0}, age <- sharedAge, ub <- <<>>, lb <- <<>>

Interfering == UNION { addrlists[f] : f \in DOMAIN addrlists }

\* Mutant: the other cores are forgotten.
CNNZero(tag) == 0

\* A line that two functions share is counted twice.
CNN(tag) ==
    LET others == [f \in DOMAIN addrlists |-> Cardinality(addrlists[f] \ {tag})]
    IN  SumFunctionOnSet(others, DOMAIN addrlists)

SharedInit ==
    /\ sharedAge \in { c \in [Tag -> Age] : SharedSet!Injective(c) }
    /\ \E assumeAnEmptyCache \in BOOLEAN :
         /\ assumeAnEmptyCache => sharedAge = SharedSet!EmptySet
         /\ analysis = new(assumeAnEmptyCache)

\* The own core accesses tag.
Update(tag, assumption) ==
    /\ assumption # CL_UNKNOWN => classify(analysis, tag, CNN(tag)) = CL_UNKNOWN
    /\ assumption = CL_HIT  => sharedAge[tag] < Assoc
    /\ assumption = CL_MISS => sharedAge[tag] = Assoc
    /\ sharedAge' = SharedSet!Touch(sharedAge, tag)
    /\ analysis' = update(analysis, tag, CNN(tag), assumption)

\* The own core accesses an address known only as an interval.
PotentialUpdate(lowTag, highTag) ==
    /\ \/ \E tag \in Tag : /\ lowTag <= tag /\ tag <= highTag
                           /\ sharedAge' = SharedSet!Touch(sharedAge, tag)
       \/ UNCHANGED sharedAge
    /\ analysis' = potentialUpdate(analysis, lowTag, highTag)

\* Another core accesses a line of one of its functions.
OtherCoreAccess(tag) ==
    /\ tag \in Interfering
    /\ sharedAge' = SharedSet!Touch(sharedAge, tag)
    /\ UNCHANGED analysis

SharedNext ==
    \/ \E tag \in Tag, assumption \in Classification : Update(tag, assumption)
    \/ \E lowTag, highTag \in Tag :
         lowTag <= highTag /\ PotentialUpdate(lowTag, highTag)
    \/ \E tag \in Tag : OtherCoreAccess(tag)

SharedSpec == SharedInit /\ [][SharedNext]_sharedVars

-----------------------------------------------------------------------------
\* An access that is classified as a second-level hit hits, however the other
\* cores' accesses interleave with those of the own core, also when cores
\* share lines and when the own core has assumed a hit it owes to another core.
SharedHitSound ==
    \A tag \in Tag :
        classify(analysis, tag, CNN(tag)) = CL_HIT => sharedAge[tag] < Assoc

\* classify's contract for CL_MISS (AbstractCache.h): there is no valid cache
\* line for the address. It is not an invariant: see README.md, "What
\* disagrees".
SharedMissSound ==
    \A tag \in Tag :
        classify(analysis, tag, CNN(tag)) = CL_MISS => sharedAge[tag] = Assoc
=============================================================================
