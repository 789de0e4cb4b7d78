------------------------- MODULE PartitioningDomain -------------------------
(***************************************************************************)
(* Analysis information per context                                        *)
(* (include/AnalysisFramework/PartitioningDomain.h).  The labelled tree is *)
(* the function it stands for: its domain are the contexts seen so far.    *)
(* The analysis domain is a set of values: BOTTOM is {}, join is union.    *)
(***************************************************************************)
EXTENDS PartitionUtil

BOTTOM == <<>>

isBottom(pd) == DOMAIN pd = {}

leaf(ctx, ana) == [c \in {ctx} |-> ana]

addContext(pd, ctx, ana) ==
    IF ctx \in DOMAIN pd
    THEN [pd EXCEPT ![ctx] = @ \cup ana]
    ELSE [c \in DOMAIN pd \cup {ctx} |-> IF c = ctx THEN ana ELSE pd[c]]

\* Mutant: every join counts as a change.
alwaysChanges(pd, ctx, ana) == TRUE

\* Mutant: only a new context counts as a change.
newContextOnly(pd, ctx, ana) == ctx \notin DOMAIN pd

(* What addContext returns. *)
changes(pd, ctx, ana) == ctx \notin DOMAIN pd \/ ~ ana \subseteq pd[ctx]

(* Fails an assertion unless the context is known or nothing is reachable. *)
findAnalysisInfo(pd, ctx) == IF isBottom(pd) THEN {} ELSE pd[ctx]
findAssertion(pd, ctx) == isBottom(pd) \/ ctx \in DOMAIN pd

(* An unknown context is not reachable yet.  But the walk down the tree     *)
(* must not end at an inner node: one without a child for NONE fails an     *)
(* assertion, so no known context may go on where an unknown one ends.      *)
findAnalysisInfoEarly(pd, ctx) == IF ctx \in DOMAIN pd THEN pd[ctx] ELSE {}
findEarlyAssertion(pd, ctx) ==
    ctx \in DOMAIN pd \/ \A c \in DOMAIN pd : ~ IsStrictPrefix(ctx, c)

updateContexts(pd, direc) ==
    LET add(c, acc) == addContext(acc, update(c, direc), pd[c])
    IN FoldSet(add, BOTTOM, DOMAIN pd)
=============================================================================
