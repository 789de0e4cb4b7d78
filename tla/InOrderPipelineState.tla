------------------------ MODULE InOrderPipelineState ------------------------
(***************************************************************************)
(* The five-stage in-order pipeline with one memory behind a shared bus    *)
(* (include/MicroarchitecturalAnalysis/InOrderPipelineState.h), UnblockStores *)
(* off. A stage holds an execution element or None. The memory never asks  *)
(* the pipeline to stall (PipelineMemory has such memories).               *)
(*                                                                         *)
(* scopes counts how often each persistence scope was entered and not left *)
(* yet, which the analyses of a topology with caches keep                  *)
(* (MultiScopePersistence).                                                *)
(***************************************************************************)
EXTENDS MicroArchitecturalState

CONSTANTS
    IdModulus,
    BackgroundMemoryType, Latency, PerWordLatency, DRAMRefreshLatency,
    MaxBlockingPerAccess

Bus == INSTANCE BlockingCyclingMemory
Mem == INSTANCE SingleMemoryTopology WITH
    StrictInorderDataInstrArbitration <- config.strict,
    MMemory <- Bus!BlockingMemory, Mnew <- Bus!new, MisBusy <- Bus!isBusy,
    Mcycle <- Bus!cycle, MannounceAccess <- LAMBDA m : Bus!announceAccess(m, 1),
    MfastForward <- Bus!fastForward, MshouldPipelineStall <- LAMBDA m : FALSE,
    MisJoinable <- Bus!isJoinable, Mjoin <- Bus!join,
    MresetLocalMetrics <- Bus!resetLocalMetrics

None == [addr |-> <<"none", 0>>, ctx |-> <<>>]

(* Stages, the oldest instruction first *)
Stages == <<"WB_FIN", "MEM_WB", "EX_MEM", "ID_EX", "IF_ID">>

isMemoryInstr(ee) == instrOf(ee).load \/ instrOf(ee).store

(* InOrderPipelineState(pl) *)
accessInstr(s) == [s EXCEPT !.instructionAccessId = s.memory.currentId,
                            !.memory = Mem!accessInstr(@)]
newState(pl) ==
    accessInstr([time |-> IC!counter(0), pc |-> pl, asserts |-> TRUE,
         condBranchAssumptions |-> <<>>, returnAssumptions |-> <<>>,
         IF_ID |-> None, ID_EX |-> None, EX_MEM |-> None, MEM_WB |-> None, WB_FIN |-> None,
         remainingExecutionTimes |-> {}, stallMemory |-> FALSE, interlock |-> FALSE,
         flushedFetchStage |-> FALSE, memory |-> Mem!new, instructionAccessId |-> Mem!NoId,
         instructionAccessFinished |-> FALSE, currMemoryAccess |-> 0, dataAccessIds |-> <<>>,
         scopes |-> [l \in DOMAIN Loops |-> 0]])

resetLocalMetrics(s) == [s EXCEPT !.time = IC!counter(0), !.memory = Mem!resetLocalMetrics(@)]

-----------------------------------------------------------------------------
(* Persistence scopes: loops that call neither external functions nor       *)
(* functions that call others (with call sites in contexts of length 1).    *)
callsIn(blocks) == {InstrAt(i) : i \in {i \in Instrs : i[1] \in blocks /\ isCall(InstrAt(i))}}
isLoopGoodScope(l) ==
    \A call \in callsIn(Loops[l].blocks) :
        call.op = "call" /\ callsIn({b \in MBB : Blocks[b].func = call.callee}) = {}

(* Between instructions of different blocks. *)
getEnteringScopes(b, c) ==
    {l \in DOMAIN Loops : /\ isLoopGoodScope(l) /\ c = Loops[l].header
                          /\ b \notin Loops[l].blocks /\ getEdgesBetween(b, c) # {}}
getLeavingScopes(b, c) ==
    {l \in DOMAIN Loops : /\ isLoopGoodScope(l) /\ b \in Loops[l].blocks
                          /\ \E path \in getEdgesBetween(b, c) : Head(path)[2] \notin Loops[l].blocks}

scopesBetween(from, to, get(_, _)) ==
    IF /\ config.scopes /\ hasMachineInstrByAddr(from.addr) /\ hasMachineInstrByAddr(to.addr)
       /\ blockOf(from) # blockOf(to)
    THEN get(blockOf(from), blockOf(to)) ELSE {}

enterScopes(s, from, to) ==
    LET entered == scopesBetween(from, to, getEnteringScopes)
    IN  [s EXCEPT !.scopes = [l \in DOMAIN Loops |-> IF l \in entered THEN @[l] + 1 ELSE @[l]]]

(* "Left scope already" *)
leaveScopes(s, scopes) ==
    [s EXCEPT !.asserts = @ /\ \A l \in scopes : s.scopes[l] > 0,
              !.scopes = [l \in DOMAIN Loops |-> IF l \in scopes THEN @[l] - 1 ELSE @[l]]]

(* The youngest instruction that is at least as old as the given stage, and *)
(* the oldest one that is younger than MEM_WB (or the program counter).     *)
olderThan(s, last) ==
    LET k == CHOOSE k \in 1 .. last : /\ s[Stages[k]] # None
                                      /\ \A j \in k + 1 .. last : s[Stages[j]] = None
    IN  s[Stages[k]]
youngerThanWriteBack(s) ==
    CASE s.EX_MEM # None -> s.EX_MEM
      [] s.EX_MEM = None /\ s.ID_EX # None -> s.ID_EX
      [] s.EX_MEM = None /\ s.ID_EX = None /\ s.IF_ID # None -> s.IF_ID
      [] OTHER -> s.pc

-----------------------------------------------------------------------------
(* "Data access could not be processed by the memory topology!" *)
accessDataFromMemoryTopology(s) ==
    IF isMemoryInstr(s.EX_MEM) /\ s.currMemoryAccess < instrOf(s.EX_MEM).accesses
    THEN [s EXCEPT !.asserts = @ /\ Mem!acceptsData(s.memory),
                   !.memory = Mem!accessData(@), !.currMemoryAccess = @ + 1,
                   !.dataAccessIds = <<s.memory.currentId>>]
    ELSE s

(* Strictly in order, an instruction access waits for the data accesses of  *)
(* older instructions. The question whether the access in EX_MEM finished   *)
(* comes before the topology is cycled, where the last answer was used up.  *)
potentialDataMissesPending(s) ==
    /\ config.strict
    /\ \/ s.IF_ID # None /\ (hasMachineInstrByAddr(s.IF_ID.addr) => isMemoryInstr(s.IF_ID))
       \/ s.ID_EX # None /\ isMemoryInstr(s.ID_EX)
       \/ /\ s.EX_MEM # None /\ isMemoryInstr(s.EX_MEM) /\ s.dataAccessIds # <<>>
          /\ ~Mem!finished(s.memory, Head(s.dataAccessIds))

cycleMemoryTopology(s) ==
    {[s EXCEPT !.memory = m] : m \in Mem!cycle(s.memory, potentialDataMissesPending(s))}

\* Mutant: a scope that was entered too early is not left.
flushKeepsScopes(s, oldPc) == [s EXCEPT !.flushedFetchStage = TRUE, !.IF_ID = None]

(* Flush fetch and decode; scopes that were entered there are left.         *)
emptyPipelineDueToBranching(s, oldPc) ==
    LET accessing == s.instructionAccessId # Mem!NoId \/ s.instructionAccessFinished
        fetched == IF accessing THEN scopesBetween(olderThan(s, 5), oldPc, getEnteringScopes) ELSE {}
        decoded == IF s.IF_ID = None THEN {}
                   ELSE scopesBetween(olderThan(s, 4), s.IF_ID, getEnteringScopes)
    IN  [leaveScopes(leaveScopes(s, fetched), decoded) EXCEPT
           !.flushedFetchStage = TRUE, !.IF_ID = None]

(* A branch that loads the program counter happens in the memory stage, any *)
(* other one in the execute stage.                                          *)
checkForBranches(s, stage) ==
    LET ee == s[stage]
        here == /\ instrOf(ee).op # "plain"
                /\ instrOf(ee).load <=> stage = "EX_MEM"
        t == [s EXCEPT !.asserts = @ /\ (stage = "EX_MEM" => s.ID_EX = None)]
    IN  IF ~here THEN {s}
        ELSE {IF o.flush THEN emptyPipelineDueToBranching(o.state, s.pc)
              ELSE IF config.strict THEN accessInstr(o.state)
              ELSE o.state : o \in handleBranching(t, ee)}

processWriteBackStage(s) ==
    IF s.MEM_WB = None THEN s
    ELSE leaveScopes([s EXCEPT !.WB_FIN = s.MEM_WB, !.MEM_WB = None],
                     scopesBetween(s.MEM_WB, youngerThanWriteBack(s), getLeavingScopes))

\* Mutant: a finished access is not followed by the next one.
continueAccessOnce(s) == [s EXCEPT !.memory = Mem!forget(@, Head(s.dataAccessIds)),
                                   !.dataAccessIds = <<>>]

(* A finished access makes room for the next one of the instruction.        *)
continueAccess(s) ==
    accessDataFromMemoryTopology(
        [s EXCEPT !.memory = Mem!forget(@, Head(s.dataAccessIds)), !.dataAccessIds = <<>>])

processMemoryStage(s) ==
    IF s.EX_MEM = None THEN {s}
    ELSE LET t == IF s.dataAccessIds # <<>> /\ Mem!finished(s.memory, Head(s.dataAccessIds))
                  THEN continueAccess(s) ELSE s
             stall == /\ isMemoryInstr(s.EX_MEM)
                      /\ t.dataAccessIds # <<>> \/ t.currMemoryAccess < instrOf(s.EX_MEM).accesses
             interlock == /\ instrOf(s.EX_MEM).load /\ s.ID_EX # None
                          /\ instrOf(s.EX_MEM).defReg \in instrOf(s.ID_EX).uses
         IN  IF stall THEN {[t EXCEPT !.stallMemory = TRUE]}
             ELSE {[u EXCEPT !.EX_MEM = None] : u \in checkForBranches(
                       [t EXCEPT !.interlock = interlock, !.MEM_WB = s.EX_MEM], "EX_MEM")}

(* The instruction may execute for several numbers of cycles: it may leave, *)
(* if the next stage is free, or stay.                                      *)
processExecuteStage(s) ==
    LET longer == {n - 1 : n \in {n \in s.remainingExecutionTimes : n > 1}}
        couldFinish == \E n \in s.remainingExecutionTimes : n <= 1
        advance == accessDataFromMemoryTopology(
                       [s EXCEPT !.EX_MEM = s.ID_EX, !.dataAccessIds = <<>>, !.currMemoryAccess = 0])
    IN  IF s.ID_EX = None \/ s.interlock THEN {s}
        ELSE (IF ~couldFinish THEN {}
              ELSE IF s.EX_MEM # None THEN {[s EXCEPT !.remainingExecutionTimes = {0}]}
              ELSE {[t EXCEPT !.ID_EX = None, !.remainingExecutionTimes = {}]
                    : t \in checkForBranches(advance, "ID_EX")})
             \cup (IF longer = {} THEN {} ELSE {[s EXCEPT !.remainingExecutionTimes = longer]})

(* What is not an instruction goes no further. *)
processInstructionDecodeStage(s) ==
    IF s.IF_ID = None \/ s.ID_EX # None THEN s
    ELSE IF hasMachineInstrByAddr(s.IF_ID.addr)
    THEN [s EXCEPT !.IF_ID = None, !.ID_EX = s.IF_ID,
                   !.remainingExecutionTimes = instrOf(s.IF_ID).execTimes]
    ELSE [s EXCEPT !.IF_ID = None]

(* Nothing is fetched behind instructions whose successor is not known. *)
stopsFetching(ee) ==
    \/ goesExternal(ee.addr)
    \/ instrOf(ee).op \in {"call", "external", "return", "jumptable"}
    \/ config.strict /\ isBranch(instrOf(ee))

fetch(s) ==
    { LET t == enterScopes([s EXCEPT !.IF_ID = s.pc, !.pc = pc, !.instructionAccessFinished = FALSE],
                           s.pc, pc)
      IN  IF stopsFetching(s.pc) THEN t ELSE accessInstr(t) : pc \in nextPc(s.pc) }

processInstructionFetchStage(s) ==
    IF s.flushedFetchStage
    THEN {accessInstr([enterScopes(s, olderThan(s, 5), s.pc) EXCEPT
                         !.instructionAccessFinished = FALSE, !.flushedFetchStage = FALSE])}
    ELSE LET ends == /\ s.instructionAccessId # Mem!NoId
                     /\ Mem!finished(s.memory, s.instructionAccessId)
             t == IF ends THEN [s EXCEPT !.memory = Mem!forget(@, s.instructionAccessId),
                                         !.instructionAccessFinished = TRUE,
                                         !.instructionAccessId = Mem!NoId]
                  ELSE s
         IN  IF t.IF_ID = None /\ t.instructionAccessFinished THEN fetch(t) ELSE {t}

(* One cycle without fast-forwarding: what the hardware can do. "Final      *)
(* should be cleared"                                                       *)
begun(s) == [s EXCEPT !.stallMemory = FALSE, !.interlock = FALSE, !.time = IC!plus(@, 1, 1),
                      !.asserts = @ /\ s.WB_FIN = None]
writtenBack(s) == {processWriteBackStage(t) : t \in cycleMemoryTopology(begun(s))}
executed(s) == UNION {processExecuteStage(t) : t \in UNION {processMemoryStage(u) : u \in writtenBack(s)}}
step(s) == UNION {processInstructionFetchStage(processInstructionDecodeStage(t)) : t \in executed(s)}

-----------------------------------------------------------------------------
(* Everything but the memory and the time. *)
upToMemory(s) == [s EXCEPT !.time = 0, !.memory = 0, !.instructionAccessId = 0,
                           !.dataAccessIds = 0, !.scopes = 0, !.asserts = 0]

isJoinableUpToMemory(s, t) == upToMemory(s) = upToMemory(t)
isJoinable(s, t) == isJoinableUpToMemory(s, t) /\ Mem!isJoinable(s.memory, t.memory)

(* "Joining two same scopes that have been entered differently often." *)
join(s, t) ==
    [s EXCEPT !.time = IC!join(@, t.time), !.memory = Mem!join(@, t.memory),
              !.asserts = /\ @ /\ t.asserts /\ s.scopes = t.scopes
                          /\ (s.instructionAccessId = Mem!NoId) = (t.instructionAccessId = Mem!NoId)
                          /\ Len(s.dataAccessIds) = Len(t.dataAccessIds)]

pipelineEmpty(s) == \A k \in DOMAIN Stages : s[Stages[k]] = None

fastForwardAssertion(s) ==
    /\ Mem!isBusyAccessingInstr(s.memory) \/ Mem!isBusyAccessingData(s.memory) \/ pipelineEmpty(s)
    /\ Mem!fastForwardAssertion(s.memory)
    /\ Bus!isBusy(s.memory.memory) => Bus!fastForwardAssertion(s.memory.memory)

\* Mutant: the end of an access is not awaited.
fastForwardAlways(s, t) == {[t EXCEPT !.memory = m] : m \in Mem!fastForward(t.memory)}

(* Until the memory ends its access, nothing will happen but what happened  *)
(* between s and t.                                                         *)
fastForwardAndInsert(s, t) ==
    IF isJoinableUpToMemory(s, t)
    THEN {[t EXCEPT !.memory = m, !.asserts = @ /\ fastForwardAssertion(t)]
          : m \in Mem!fastForward(t.memory)}
    ELSE {t}

(* States that differ in identifiers, but not in how old they are, are      *)
(* equal: the set holds the one with this identifier.                       *)
CurrentId == IdModulus \div 2
renumber(s) ==
    LET t == s.memory
        new(id) == IF id = Mem!NoId THEN id ELSE (id + CurrentId - t.currentId) % IdModulus
        all(q) == [k \in DOMAIN q |-> new(q[k])]
    IN  [s EXCEPT !.instructionAccessId = new(@), !.dataAccessIds = all(@),
                  !.memory = [t EXCEPT !.currentId = CurrentId, !.instructionQueue = all(@),
                                       !.dataQueue = all(@), !.finishedAccess = new(@),
                                       !.currentIdAccessed = new(@)]]

cycle(s) == {renumber(u) : u \in UNION {fastForwardAndInsert(s, t) : t \in step(s)}}

(* The state behind isFinal no longer holds the final instruction. *)
isFinal(s, ee) ==
    IF goesExternal(ee.addr) THEN pipelineEmpty(s) /\ ~Mem!hasUnfinishedAccesses(s.memory)
                             ELSE s.WB_FIN = ee
clearFinal(s) == [s EXCEPT !.WB_FIN = None]
=============================================================================
