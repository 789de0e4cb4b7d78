--------------------------- MODULE PartitionUtil ---------------------------
(***************************************************************************)
(* The trace partitioning (lib/PartitionUtil).  A context (Context.cpp) is *)
(* a sequence of tokens, the topmost last; it changes where the directives *)
(* (DirectiveHeuristics.cpp) say.                                          *)
(***************************************************************************)
EXTENDS MachineCode, SequencesExt

CONSTANTS
    NumberLoopTokens,       \* how many tokens of a kind survive a call;
    NumberCalleeTokens,     \* a negative number means all of them
    NumberCallsiteTokens,
    LoopPeel                \* iterations told apart at the start of a loop

ASSUME LoopPeelAssumption == LoopPeel \in Nat
ASSUME NumberOfTokensAssumption ==
    {NumberLoopTokens, NumberCalleeTokens, NumberCallsiteTokens} \subseteq Int

(* A token is of a loop, of an instruction (block and position) or of a    *)
(* function.                                                               *)
PartitionTokenLoopPeel(l, n) == [type |-> "LOOPPEEL", of |-> <<l>>, count |-> n]
PartitionTokenLoopIter(l, n) == [type |-> "LOOPITER", of |-> <<l>>, count |-> n]
PartitionTokenCallSite(i)    == [type |-> "CALLSITE", of |-> i, count |-> 0]
PartitionTokenFunCallee(f)   == [type |-> "FUNCALLEE", of |-> <<f>>, count |-> 0]

Directive(type, tokens) == [type |-> type, tokens |-> tokens]

LoopTokenTypes == {"LOOPPEEL", "LOOPITER"}

(* The tokens that belong to one loop (its enclosing directive). *)
LoopTokens(l) ==
    {PartitionTokenLoopPeel(l, n) : n \in 0..(LoopPeel - 1)}
        \cup {PartitionTokenLoopIter(l, LoopPeel)}

(* A CREATE pushes the token of the first iteration, or its only token; a *)
(* MERGE pops the topmost token if it is one of the directive's.          *)
update(ctx, direc) ==
    IF direc.type = "CREATE"
    THEN LET first == {t \in direc.tokens : t.type \in LoopTokenTypes => t.count = 0}
         IN IF first = {} THEN ctx ELSE Append(ctx, CHOOSE t \in first : TRUE)
    ELSE IF Last(ctx) \in direc.tokens THEN Front(ctx) ELSE ctx

(* The element of a set of one; TLC evaluates what the set is built from once. *)
only(S) == CHOOSE x \in S : TRUE

updateAll(ctx, direcs) == only({FoldLeft(update, c, d) : c \in {ctx}, d \in {direcs}})

(* Taking a back edge of a peeled loop goes on to the next iteration. *)
transfer(ctx, edge) ==
    IF ctx = <<>> THEN ctx
    ELSE LET top == Last(ctx)
         IN IF top.type = "LOOPPEEL" /\ isBackEdgeOfLoop(edge, top.of[1])
            THEN Append(Front(ctx), CHOOSE t \in LoopTokens(top.of[1]) : t.count = top.count + 1)
            ELSE ctx

(* The elements at the given positions, in their order. *)
subsequence(seq, positions) ==
    LET position(S, k) == CHOOSE i \in S : Cardinality({j \in S : j <= i}) = k
    IN only({<<>> \o [k \in 1 .. Cardinality(S) |-> s[position(S, k)]]
              : S \in {positions}, s \in {seq}})

(* How many tokens of the given types lie above the i-th one. *)
tokensAbove(ctx, types, i) == Cardinality({j \in (i + 1)..Len(ctx) : ctx[j].type \in types})

(* Of each kind only the topmost tokens survive a call; the order of the    *)
(* others does not change (reduceOnCall calls clearTokensOlderThan for each *)
(* kind that is limited).                                                   *)
Limits == {[types |-> LoopTokenTypes, number |-> NumberLoopTokens],
           [types |-> {"FUNCALLEE"}, number |-> NumberCalleeTokens],
           [types |-> {"CALLSITE"}, number |-> NumberCallsiteTokens]}

reduceOnCall(ctx) ==
    LET survivors ==
            {i \in DOMAIN ctx : \A k \in Limits : k.number >= 0 /\ ctx[i].type \in k.types
                                   => tokensAbove(ctx, k.types, i) < k.number}
    IN subsequence(ctx, survivors)

(***************************************************************************)
(* Where contexts change (lib/PartitionUtil/DirectiveHeuristics.cpp): at   *)
(* function calls and returns, around call instructions, and on the edges  *)
(* into and out of loops.                                                  *)
(***************************************************************************)

getDirectiveOnCall(f)   == Directive("CREATE", {PartitionTokenFunCallee(f)})
getDirectiveOnReturn(f) == Directive("MERGE", {PartitionTokenFunCallee(f)})

getDirectiveBeforeInstr(i) == Directive("CREATE", {PartitionTokenCallSite(i)})
getDirectiveAfterInstr(i)  == Directive("MERGE", {PartitionTokenCallSite(i)})

(* The loops of a function are annotated outermost first; an edge collects *)
(* its CREATEs in that order and its MERGEs in the opposite one.           *)
loopDirectives(type, nest) == [k \in DOMAIN nest |-> Directive(type, LoopTokens(nest[k]))]

getDirectiveOnEdgeLeave(edge) ==
    LET nest == Blocks[edge[2]].nest
        entered == {k \in DOMAIN nest : LoopPeel > 0 /\ isIncomingEdgeOfLoop(edge, nest[k])}
    IN subsequence(loopDirectives("CREATE", nest), entered)

directivesOfLeft(edge) ==
    LET nest == Blocks[edge[1]].nest
        left == {k \in DOMAIN nest : LoopPeel > 0 /\ isExitingEdgeOfLoop(edge, nest[k])}
    IN subsequence(loopDirectives("MERGE", nest), left)

\* Mutant: MERGEs are put at the end of the list, the outer loop's first.
outerMergedFirst(edge) == directivesOfLeft(edge)

getDirectiveOnEdgeEnter(edge) == Reverse(directivesOfLeft(edge))

(* The context behind an edge, as analyseMachineBasicBlock and              *)
(* handleBranchInstruction compute it.                                      *)
edgeContext(ctx, edge) ==
    updateAll(transfer(updateAll(ctx, getDirectiveOnEdgeEnter(edge)), edge),
              getDirectiveOnEdgeLeave(edge))
=============================================================================
