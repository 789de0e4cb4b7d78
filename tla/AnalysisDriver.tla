-------------------------- MODULE AnalysisDriver --------------------------
(***************************************************************************)
(* The worklist iteration that computes analysis information for every     *)
(* block and context of a program (include/AnalysisFramework/              *)
(* AnalysisDriver.h).  The order in which work items are taken depends on  *)
(* how blocks and contexts compare; the model takes any.                   *)
(*                                                                         *)
(* When the analysis has ended, the program is run: "exec" is a real       *)
(* execution, with the context that the partitioning assigns to it.        *)
(***************************************************************************)
EXTENDS PartitioningDomain

CONSTANTS
    EntryPoints,    \* the functions an analysis may start with
    START,          \* the values possible at the start
    MaxDepth        \* bound on the depth of the call stack of "exec"

ASSUME StartAssumption == START # {} /\ START \subseteq Value
ASSUME EntryAssumption == EntryPoints \subseteq Functions /\ MaxDepth \in Nat

(* The kinds of instructions; a branch goes to successors of its block.     *)
ASSUME InstructionAssumption ==
    \A b \in MBB :
        Blocks[b].instrs \in Seq([op : {"plain"}, effect : [Value -> Value]]
                                \cup [op : {"call"}, callee : Functions] \cup [op : {"external"}]
                                \cup [op : {"branch"}, targets : SUBSET Blocks[b].succ, when : SUBSET Value]
                                \cup [op : {"goto", "jumptable"}, targets : SUBSET Blocks[b].succ]
                                \cup [op : {"return"}, when : SUBSET Value])

VARIABLES
    entrypoint,     \* the analysed function
    mbb2anainfo,    \* block -> information at its entry, per context
    funcIn,         \* func2anainfo: function -> information before a call
    funcOut,        \* func2anainfo: function -> information after its return
    worklist,       \* blocks and contexts to (re)analyse
    anaInfoIn,      \* instruction -> information before it, the result
    phase,          \* "iterate", then "done" or "aborted"
    exec            \* the real execution

vars == <<entrypoint, mbb2anainfo, funcIn, funcOut, worklist, anaInfoIn, phase, exec>>

TOP == Value

(***************************************************************************)
(* The analysis domain, as the driver uses it                              *)
(***************************************************************************)
transferInstr(instr, ana) == {instr.effect[v] : v \in ana}
guardTaken(instr, ana) == IF instr.op = "jumptable" THEN ana ELSE ana \cap instr.when
guardNotTaken(instr, ana) == ana \ instr.when

(***************************************************************************)
(* One block in one context.  "st" is what the methods of the driver work  *)
(* on: the current context and information, the maps and the worklist.     *)
(* They yield the set that holds the new st, or {} if an assertion fails.  *)
(***************************************************************************)
\* Mutant: the directive of the callee is not applied.
calleeContextUnchanged(reducedCtx, f) == reducedCtx

calleeContext(reducedCtx, f) == update(reducedCtx, getDirectiveOnCall(f))

analyseCall(st, f, ctx) ==
    LET reducedCtx == reduceOnCall(ctx)
        calleechanged == changes(st.funcIn[f], reducedCtx, st.newOut)
    IN IF findEarlyAssertion(st.funcOut[f], reducedCtx)
       THEN {[st EXCEPT !.newOut = findAnalysisInfoEarly(st.funcOut[f], reducedCtx),
                        !.funcIn[f] = addContext(@, reducedCtx, st.newOut),
                        !.worklist = IF calleechanged
                                     THEN @ \cup {<<EntryBlock(f), calleeContext(reducedCtx, f)>>}
                                     ELSE @]}
       ELSE {}

analyseInstruction(st, i) ==
    LET instr == InstrAt(i)
        ctx == update(st.ctx, getDirectiveBeforeInstr(i))
    IN CASE instr.op = "plain" -> {[st EXCEPT !.newOut = transferInstr(instr, @)]}
         [] isCall(instr) /\ st.newOut = {} -> {st}
         [] instr.op = "external" /\ st.newOut # {} -> {[st EXCEPT !.newOut = TOP]}
         [] instr.op = "call" /\ st.newOut # {} ->
                {[called EXCEPT !.ctx = update(ctx, getDirectiveAfterInstr(i))]
                     : called \in analyseCall(st, instr.callee, ctx)}
         [] OTHER -> {st}

(* Join the information into a successor and put it into the worklist if   *)
(* that changed something.                                                 *)
propagate(st, edge, ana) ==
    LET target == edge[2]
    IN {[st EXCEPT !.mbb[target] = addContext(@, ctx, ana),
                   !.worklist = IF changes(st.mbb[target], ctx, ana)
                                THEN @ \cup {<<target, ctx>>} ELSE @]
        : ctx \in {edgeContext(st.ctx, edge)}}

propagateAll(st, b, targets, ana) ==
    LET push(target, S) == UNION {propagate(s, <<b, target>>, ana) : s \in S}
    IN FoldSet(push, {st}, targets)

handleBranch(st, b, instr) ==
    LET taken == IF instr.op = "goto" THEN st.newOut ELSE guardTaken(instr, st.newOut)
        nottaken == IF instr.op = "branch" THEN guardNotTaken(instr, st.newOut) ELSE {}
    IN {[s EXCEPT !.newOut = nottaken] : s \in propagateAll(st, b, instr.targets, taken)}

getCallSites(f) == {i \in Instrs : InstrAt(i).op = "call" /\ InstrAt(i).callee = f}

\* Mutant: a context is compared before its loop and callee tokens are dropped.
callsitesUnreduced(mbb, f, ctx) ==
    UNION {{<<i[1], c>> : c \in {c \in DOMAIN mbb[i[1]] :
               update(c, getDirectiveBeforeInstr(i)) = ctx}}
           : i \in getCallSites(f)}

(* The contexts at the entry of a block with a call of f that read f's      *)
(* information in the given context.                                        *)
callsitesAffected(mbb, f, ctx) ==
    UNION {{<<i[1], c>> : c \in {c \in DOMAIN mbb[i[1]] :
               reduceOnCall(update(c, getDirectiveBeforeInstr(i))) = ctx}}
           : i \in getCallSites(f)}

handleReturn(st, b, instr) ==
    LET f == Blocks[b].func
        toJoin == guardTaken(instr, st.newOut)
        targetCtx == update(st.ctx, getDirectiveOnReturn(f))
    IN {[st EXCEPT !.funcOut[f] = addContext(@, targetCtx, toJoin),
                   !.newOut = IF isPredicated(instr) THEN guardNotTaken(instr, @) ELSE {},
                   !.worklist = IF changes(st.funcOut[f], targetCtx, toJoin)
                                THEN @ \cup callsitesAffected(st.mbb, f, targetCtx)
                                ELSE @]}

handleBranchInstruction(st, i) ==
    LET instr == InstrAt(i)
    IN CASE isBranch(instr) -> handleBranch(st, i[1], instr)
         [] instr.op = "return" -> handleReturn(st, i[1], instr)
         [] OTHER -> {st}

analyseMachineBasicBlock(st, b) ==
    LET analyse(S, k) == UNION {analyseInstruction(s, <<b, k>>) : s \in S}
        step(S, k) == UNION {handleBranchInstruction(s, <<b, k>>) : s \in analyse(S, k)}
    IN UNION {propagateAll(s, b, LayoutSuccessors(b), s.newOut)
              : s \in FoldLeftDomain(step, {st}, Blocks[b].instrs)}

(* For the entry block of a function, information comes from its callers. *)
isEntry(b) == Blocks[b].number = 0
enterFunction(mbb, b, ctx) ==
    IF isEntry(b)
    THEN [mbb EXCEPT ![b] = addContext(@, ctx, findAnalysisInfo(funcIn[Blocks[b].func], Front(ctx)))]
    ELSE mbb

analyseWorkItem(b, ctx) ==
    LET begin(mbb) == [ctx |-> ctx, newOut |-> findAnalysisInfo(mbb[b], ctx), mbb |-> mbb,
                       funcIn |-> funcIn, funcOut |-> funcOut,
                       worklist |-> worklist \ {<<b, ctx>>}]
    IN UNION {analyseMachineBasicBlock(begin(mbb), b) : mbb \in {enterFunction(mbb2anainfo, b, ctx)}}

(* The assertions in front of the analysis of a block. *)
blockAssertion(b, ctx) ==
    IF isEntry(b)
    THEN /\ ctx # <<>>
         /\ Last(ctx) = PartitionTokenFunCallee(Blocks[b].func)
         /\ findAssertion(funcIn[Blocks[b].func], Front(ctx))
    ELSE findAssertion(mbb2anainfo[b], ctx)

----------------------------------------------------------------------------
(***************************************************************************)
(* The result: information before every instruction                        *)
(***************************************************************************)
treeCall(pd, f) ==
    [c \in DOMAIN pd |-> IF pd[c] = {} THEN {}
                         ELSE findAnalysisInfoEarly(funcOut[f], reduceOnCall(c))]

treeInstruction(pd, i) ==
    LET instr == InstrAt(i)
    IN CASE instr.op = "plain" -> [c \in DOMAIN pd |-> transferInstr(instr, pd[c])]
         [] instr.op = "external" -> [c \in DOMAIN pd |-> IF pd[c] = {} THEN {} ELSE TOP]
         [] instr.op = "call" ->
                updateContexts(treeCall(updateContexts(pd, getDirectiveBeforeInstr(i)),
                                        instr.callee),
                               getDirectiveAfterInstr(i))
         [] instr.op = "branch" \/ (instr.op = "return" /\ isPredicated(instr)) ->
                [c \in DOMAIN pd |-> guardNotTaken(instr, pd[c])]
         [] OTHER -> BOTTOM

(* Information before the k-th instruction of block b. *)
infoBefore(b, k) ==
    LET step(acc, j) == treeInstruction(acc, <<b, j>>)
    IN FoldLeftDomain(step, mbb2anainfo[b], SubSeq(Blocks[b].instrs, 1, k - 1))

(* What a call instruction looks up while dumping: each of its contexts in *)
(* which it is reachable, reduced for the callee.                          *)
lookups(info, i) ==
    {reduceOnCall(update(c, getDirectiveBeforeInstr(i))) : c \in {c \in DOMAIN info[i] : info[i][c] # {}}}

lookupAssertion(info) ==
    \A i \in Instrs : InstrAt(i).op = "call" =>
        \A ctx \in lookups(info, i) : findEarlyAssertion(funcOut[InstrAt(i).callee], ctx)

(* A call must not add anything any more. *)
changedWhileDumping(info) ==
    \E i \in Instrs :
        /\ InstrAt(i).op = "call"
        /\ \E c \in DOMAIN info[i] :
              /\ info[i][c] # {}
              /\ changes(funcIn[InstrAt(i).callee],
                         reduceOnCall(update(c, getDirectiveBeforeInstr(i))), info[i][c])

----------------------------------------------------------------------------
initialCtx(f) == update(<<>>, getDirectiveOnCall(f))

NotRunning == [at |-> NoBlock]

Init ==
    /\ entrypoint \in EntryPoints
    /\ mbb2anainfo = [b \in MBB |-> BOTTOM]
    /\ funcIn = [f \in Functions |-> IF f = entrypoint THEN leaf(<<>>, START) ELSE BOTTOM]
    /\ funcOut = [f \in Functions |-> BOTTOM]
    /\ worklist = {<<EntryBlock(entrypoint), initialCtx(entrypoint)>>}
    /\ anaInfoIn = BOTTOM
    /\ phase = "iterate"
    /\ exec = NotRunning

(* runAnalysis: one turn of its loop. *)
Analyse(b, ctx) ==
    /\ phase = "iterate"
    /\ <<b, ctx>> \in worklist
    /\ \E ends \in {IF blockAssertion(b, ctx) THEN analyseWorkItem(b, ctx) ELSE {}} :
          IF ends # {}
          THEN \E end \in ends :
                  /\ mbb2anainfo' = end.mbb
                  /\ funcIn' = end.funcIn
                  /\ funcOut' = end.funcOut
                  /\ worklist' = end.worklist
                  /\ UNCHANGED phase
          ELSE phase' = "aborted" /\ UNCHANGED <<mbb2anainfo, funcIn, funcOut, worklist>>
    /\ UNCHANGED <<entrypoint, anaInfoIn, exec>>

getAnalysisResults ==
    /\ phase = "iterate"
    /\ worklist = {}
    /\ LET info == [i \in Instrs |-> infoBefore(i[1], i[2])]
       IN /\ anaInfoIn' = info
          /\ phase' = IF lookupAssertion(info) /\ ~ changedWhileDumping(info)
                      THEN "done" ELSE "aborted"
    /\ UNCHANGED <<entrypoint, mbb2anainfo, funcIn, funcOut, worklist, exec>>

----------------------------------------------------------------------------
(***************************************************************************)
(* A real execution of the analysed program                                *)
(***************************************************************************)
analysis == <<entrypoint, mbb2anainfo, funcIn, funcOut, worklist, anaInfoIn, phase>>

current == InstrAt(<<exec.at, exec.pc>>)
running == exec # NotRunning
atInstr(op) == running /\ exec.pc <= Len(Blocks[exec.at].instrs) /\ current.op = op

Start ==
    /\ phase = "done" /\ exec = NotRunning
    /\ \E v \in START :
          exec' = [at |-> EntryBlock(entrypoint), pc |-> 1, ctx |-> initialCtx(entrypoint),
                   value |-> v, stack |-> <<>>]
    /\ UNCHANGED analysis

goOn(v) == [exec EXCEPT !.pc = @ + 1, !.value = v]
goTo(b) == [exec EXCEPT !.at = b, !.pc = 1, !.ctx = edgeContext(@, <<exec.at, b>>)]

RunPlain ==
    /\ atInstr("plain")
    /\ exec' = goOn(current.effect[exec.value])
    /\ UNCHANGED analysis

RunExternal ==
    /\ atInstr("external")
    /\ \E v \in Value : exec' = goOn(v)
    /\ UNCHANGED analysis

RunBranch ==
    /\ atInstr("branch")
    /\ IF exec.value \in current.when
       THEN \E b \in current.targets : exec' = goTo(b)
       ELSE exec' = goOn(exec.value)
    /\ UNCHANGED analysis

RunJump ==
    /\ atInstr("goto") \/ atInstr("jumptable")
    /\ \E b \in current.targets : exec' = goTo(b)
    /\ UNCHANGED analysis

RunCall ==
    /\ atInstr("call")
    /\ Len(exec.stack) < MaxDepth
    /\ LET f == current.callee
           before == update(exec.ctx, getDirectiveBeforeInstr(<<exec.at, exec.pc>>))
       IN exec' = [exec EXCEPT !.at = EntryBlock(f), !.pc = 1,
                               !.ctx = calleeContext(reduceOnCall(before), f),
                               !.stack = Append(@, [at |-> exec.at, pc |-> exec.pc + 1,
                                                    ctx |-> exec.ctx])]
    /\ UNCHANGED analysis

RunReturn ==
    /\ atInstr("return")
    /\ IF exec.value \in current.when
       THEN /\ exec.stack # <<>>
            /\ exec' = [exec EXCEPT !.at = Last(exec.stack).at, !.pc = Last(exec.stack).pc,
                                    !.ctx = Last(exec.stack).ctx, !.stack = Front(@)]
       ELSE exec' = goOn(exec.value)
    /\ UNCHANGED analysis

FallThrough ==
    /\ running
    /\ exec.pc > Len(Blocks[exec.at].instrs)
    /\ \E b \in LayoutSuccessors(exec.at) : exec' = goTo(b)
    /\ UNCHANGED analysis

Run == Start \/ RunPlain \/ RunExternal \/ RunBranch \/ RunJump \/ RunCall \/ RunReturn \/ FallThrough

Next ==
    \/ \E item \in worklist : Analyse(item[1], item[2])
    \/ getAnalysisResults
    \/ Run

(* The driver is a loop: it goes on as long as there is work. *)
Fairness == WF_vars(\E item \in worklist : Analyse(item[1], item[2])) /\ WF_vars(getAnalysisResults)

Spec == Init /\ [][Next]_vars /\ Fairness
----------------------------------------------------------------------------
(***************************************************************************)
(* Properties                                                              *)
(***************************************************************************)

(* The context of a block ends with the function and then exactly the      *)
(* loops around the block, outermost first: the directives on edges that   *)
(* enter, leave or repeat several loops at once are balanced.              *)
ContextsMatchLoops ==
    \A b \in MBB : \A c \in DOMAIN mbb2anainfo[b] :
        LET nest == IF LoopPeel = 0 THEN <<>> ELSE Blocks[b].nest
            base == Len(c) - Len(nest)
        IN /\ base > 0
           /\ c[base] = PartitionTokenFunCallee(Blocks[b].func)
           /\ \A k \in DOMAIN nest : c[base + k] \in LoopTokens(nest[k])

(* No assertion of the driver fails: blocks are analysed in known contexts *)
(* and the results are a fixpoint when they are written out.               *)
NeverAborted == phase # "aborted"

(* The result covers the program: whatever a real execution does, the      *)
(* information before the instruction it has reached, in the context it    *)
(* has there, contains its value.                                          *)
ResultCoversExecution ==
    running /\ exec.pc \in DOMAIN Blocks[exec.at].instrs =>
        LET info == anaInfoIn[<<exec.at, exec.pc>>]
        IN exec.ctx \in DOMAIN info /\ exec.value \in info[exec.ctx]

(* The iteration ends. *)
Terminates == <>(phase # "iterate")

----------------------------------------------------------------------------
(***************************************************************************)
(* Refinement: the driver is a worklist iteration over facts.  A fact says *)
(* that a context is known (<<kind, place, ctx>>), or that a value is      *)
(* possible in it (<<kind, place, ctx, value>>).                           *)
(***************************************************************************)
FactsOf(kind, map) ==
    UNION {UNION {{<<kind, x, c>>} \cup {<<kind, x, c, v>> : v \in map[x][c]}
                  : c \in DOMAIN map[x]} : x \in DOMAIN map}

facts == FactsOf("mbb", mbb2anainfo) \cup FactsOf("in", funcIn) \cup FactsOf("out", funcOut)

MapOf(kind, places, S) ==
    [x \in places |->
        LET ctxs == {s[3] : s \in {s \in S : s[1] = kind /\ s[2] = x}}
        IN [c \in ctxs |-> {v \in Value : <<kind, x, c, v>> \in S}]]

(* Blocks other than entry blocks are items in the contexts in which they  *)
(* have been reached, entry blocks in those in which they have been called.*)
ItemsIn(S) ==
    {<<s[2], s[3]>> : s \in {s \in S : s[1] = "mbb" /\ ~ isEntry(s[2])}}
        \cup {<<EntryBlock(s[2]), calleeContext(s[3], s[2])>> : s \in {s \in S : s[1] = "in"}}

(* A block reads its own information, an entry block that of the calls,    *)
(* and a block with calls what the callees return in the reduced context.  *)
ReadsFrom(item, S) ==
    LET b == item[1]
        ctx == item[2]
        calls == {i \in Instrs : i[1] = b /\ InstrAt(i).op = "call"}
        returns(i) == <<"out", InstrAt(i).callee,
                        reduceOnCall(update(ctx, getDirectiveBeforeInstr(i)))>>
        input == IF isEntry(b) THEN <<"in", Blocks[b].func, Front(ctx)>> ELSE <<"mbb", b, ctx>>
        places == {input} \cup {returns(i) : i \in calls}
    IN {s \in S : SubSeq(s, 1, 3) \in places}

(* The analysis of a block, on nothing but what it reads. *)
DeriveFrom(item, S) ==
    LET b == item[1]
        ctx == item[2]
        input(read) == {v \in Value : \E s \in read : Len(s) = 4 /\ s[1] # "out" /\ s[4] = v}
        start(read) ==
            [ctx |-> ctx, newOut |-> input(read),
             mbb |-> [x \in MBB |-> IF x = b THEN leaf(ctx, input(read)) ELSE BOTTOM],
             funcIn |-> [f \in Functions |-> BOTTOM],
             funcOut |-> MapOf("out", Functions, read), worklist |-> {}]
        result(end) == FactsOf("mbb", end.mbb) \cup FactsOf("in", end.funcIn)
                           \cup FactsOf("out", end.funcOut)
    IN UNION {result(end) : end \in UNION {analyseMachineBasicBlock(start(read), b)
                                          : read \in {ReadsFrom(item, S)}}}

AllFacts == {"mbb", "in", "out"} \X STRING \X Seq([type : STRING, of : STRING, count : Nat])

InitialFacts(f) == {<<"in", f, <<>> >>} \cup {<<"in", f, <<>>, v>> : v \in START}

Iteration(f) == INSTANCE WorklistIteration
    WITH Fact <- AllFacts, Initial <- InitialFacts(f), Items <- ItemsIn,
         Reads <- ReadsFrom, Derive <- DeriveFrom,
         known <- facts, work <- worklist

(* The driver implements a worklist iteration: it only adds what follows   *)
(* from the information it has read, and it puts back every block whose    *)
(* result may have changed, also across calls and returns.                 *)
IteratesToSolution ==
    /\ \A f \in EntryPoints : entrypoint = f => Iteration(f)!IterationInit
    /\ [][\A f \in EntryPoints : entrypoint = f => Iteration(f)!IterationNext]_<<facts, worklist>>
=============================================================================
