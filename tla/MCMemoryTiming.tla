--------------------------- MODULE MCMemoryTiming ---------------------------
(* Model-checking instances of the time accounted for memory accesses.     *)
EXTENDS MemoryTiming, TLC

CONSTANTS p1, p2       \* program paths
CONSTANT  MaxForwarded \* bound on the cycles an edge fast-forwards over
CONSTANT  MaxBlocked   \* bound on the cycles an edge is blocked

Bounded ==
    \A p \in Path :
        /\ forwardedCycles(bus[p]).ub + bus[p].fastForwardedBlocking.ub <= MaxForwarded
        /\ blocked[p] <= MaxBlocked

\* No operation tells the paths apart.
PathSymmetry == Permutations({p1, p2})
=============================================================================
