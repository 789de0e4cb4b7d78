----------------------- MODULE StateExplorationDomain -----------------------
(***************************************************************************)
(* Sets of pipeline states as analysis information: instructions are       *)
(* passed by cycling every state until the instruction has left the        *)
(* pipeline. States that differ in their metrics only are joined           *)
(* (StateExplorationWithJoinDomain in include/MicroarchitecturalAnalysis/  *)
(* StateExplorationDomain.h).                                              *)
(***************************************************************************)
EXTENDS InOrderPipelineState

CONSTANT MaxCycles   \* bound on the cycles of one instruction

\* Mutant: a state without a partner to join is not looked for.
insertPlain(states, mas) == states \cup {mas}

(* The assertion says that isJoinable is commutative; here it is checked    *)
(* for all states, in the code for those in front of the partner.           *)
insertOnInstr(states, mas) ==
    LET partners == {st \in states : isJoinable(st, mas)}
        commutative == \A st \in states : isJoinable(st, mas) = isJoinable(mas, st)
        inserted(state) == [state EXCEPT !.asserts = @ /\ commutative]
    IN IF mas \in states THEN states
       ELSE IF partners = {} THEN states \cup {inserted(mas)}
       ELSE LET st == CHOOSE st \in partners : TRUE
            IN  (states \ {st}) \cup {inserted(join(st, mas))}

RECURSIVE insertAllOnInstr(_, _)
insertAllOnInstr(states, new) ==
    IF new = {} THEN states
    ELSE LET mas == CHOOSE mas \in new : TRUE
         IN  UNION {insertAllOnInstr(result, new \ {mas}) : result \in {insertOnInstr(states, mas)}}

(* States whose memory access just finished wait until all others are final *)
(* or wait, too. The code takes states one by one; here the whole working   *)
(* set makes a cycle, which leads to the same waiting and final states.     *)
RECURSIVE cycleAll(_, _, _, _, _)
cycleAll(workingSet, intermediateResults, resultSet, ee, n) ==
    IF workingSet = {} /\ intermediateResults = {} THEN resultSet
    ELSE IF n = 0 THEN {[st EXCEPT !.asserts = FALSE] : st \in workingSet \cup intermediateResults}
    ELSE IF workingSet = {} THEN cycleAll(intermediateResults, {}, resultSet, ee, n)
    ELSE UNION {cycleAll({st \in succs : ~st.memory.waitingForJoin},
                         insertAllOnInstr(intermediateResults, {st \in succs : st.memory.waitingForJoin}),
                         insertAllOnInstr(resultSet, {clearFinal(st) : st \in {st \in workingSet : isFinal(st, ee)}}),
                         ee, n - 1)
               : succs \in {UNION {cycle(st) : st \in {st \in workingSet : ~isFinal(st, ee)}}}}

cycleUntilFinal(states, ee) == cycleAll(states, {}, {}, ee, MaxCycles)

(* A return from the entry point goes on until the pipeline is empty. *)
endOfProgram(ee) ==
    /\ Blocks[blockOf(ee)].func = config.entry /\ Blocks[blockOf(ee)].succ = {}
    /\ instrOf(ee).op = "return"
transferInstr(states, ee) ==
    IF ~endOfProgram(ee) THEN cycleUntilFinal(states, ee)
    ELSE UNION {LET ends == {st \in final : st.asserts /\ assumedReturnedFromMain(st)}
                IN  insertAllOnInstr(final \ ends,
                        cycleUntilFinal(ends, ExecutionElement(InitialLinkRegister, <<>>)))
               : final \in {cycleUntilFinal(states, ee)}}

\* Mutant: any outcome of the branch will do.
guardAny(states, ee, outcome) == {forgetBranch(st) : st \in states}

guard(states, ee, outcome) ==
    LET aborted == {st \in states : ~assumedBranchOutcomeAssertion(st, ee)}
    IN  {[st EXCEPT !.asserts = FALSE] : st \in aborted}
          \cup {forgetBranch(st) : st \in {st \in states \ aborted : assumedBranchOutcome(st, outcome)}}

(* The states behind a call that returned with calleeOut. "This state has   *)
(* no return assumptions"                                                   *)
returnTo(calleeOut, callsite, ctx) ==
    LET aborted == {st \in calleeOut : st.returnAssumptions = <<>>}
    IN  {[st EXCEPT !.asserts = FALSE] : st \in aborted}
          \cup insertAllOnInstr({}, {resetLocalMetrics(forgetReturn(st)) :
                   st \in {st \in calleeOut \ aborted : assumedReturnedTo(st, callsite, ctx)}})

(* Behind an external function the pipeline is in any state: it restarts.   *)
restart(callsite, ctx) ==
    {newState(ExecutionElement(nextAddr(callsite),
                 beforeInstr(afterInstr(ctx, callsite), nextAddr(callsite))))}

enterBasicBlock(states) == insertAllOnInstr({}, {resetLocalMetrics(st) : st \in states})
=============================================================================
