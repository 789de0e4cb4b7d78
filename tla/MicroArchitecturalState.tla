---------------------- MODULE MicroArchitecturalState ----------------------
(***************************************************************************)
(* What every micro-architectural state has: the time since the last block *)
(* began, the program counter, and what was assumed about branches and     *)
(* returns to get here. A pipeline fetches ahead of the instruction that   *)
(* the analysis is at, so the state keeps track of contexts by itself      *)
(* (include/MicroarchitecturalAnalysis/MicroArchitecturalState.h and       *)
(* ProgramCounter.cpp).                                                    *)
(*                                                                         *)
(* Besides the fields of MachineCode, an instruction has load and store    *)
(* (mayLoad, mayStore), accesses (its number of data accesses), execTimes  *)
(* (the cycles it may execute), defReg (the register a load writes) and    *)
(* uses (the registers it reads). Failed assertions clear the field        *)
(* asserts of a state.                                                     *)
(***************************************************************************)
EXTENDS PartitionUtil

CONSTANTS
    config   \* [entry, strict, scopes, ins2ctx]: the entry point, whether the
             \* pipeline is STRICTINORDER, whether some cache analyses
             \* persistence, and the contexts that an earlier analysis found
             \* at the call sites

IC == INSTANCE IntervalCounter

(* Addresses: instructions, the start of an external function, the initial *)
(* link register and what lies behind the code.                            *)
ExternalAddr == <<"external", 0>>
InitialLinkRegister == <<"lr", 0>>
BeyondAddr == <<"beyond", 0>>

hasMachineInstrByAddr(addr) == addr \in Instrs
goesExternal(addr) == ~hasMachineInstrByAddr(addr)

ExecutionElement(addr, ctx) == [addr |-> addr, ctx |-> ctx]
instrOf(ee) == InstrAt(ee.addr)
blockOf(ee) == ee.addr[1]

RECURSIVE firstInstrFrom(_)
firstInstrFrom(b) ==
    IF b = NoBlock THEN BeyondAddr
    ELSE IF Blocks[b].instrs = <<>> THEN firstInstrFrom(Blocks[b].layout)
    ELSE <<b, 1>>

(* addr + 4 *)
nextAddr(addr) ==
    IF ~hasMachineInstrByAddr(addr) THEN BeyondAddr
    ELSE IF addr[2] < Len(Blocks[addr[1]].instrs) THEN <<addr[1], addr[2] + 1>>
    ELSE firstInstrFrom(Blocks[addr[1]].layout)

(* All paths between two blocks on which there are only empty blocks. *)
RECURSIVE getEdgesBetween(_, _)
getEdgesBetween(b, c) ==
    UNION { IF s = c THEN { << <<b, s>> >> }
            ELSE IF Blocks[s].instrs # <<>> THEN {}
            ELSE { << <<b, s>> >> \o path : path \in getEdgesBetween(s, c) }
          : s \in Blocks[b].succ }

(* Only calls have directives of their own. *)
beforeInstr(ctx, addr) ==
    IF isCall(InstrAt(addr)) THEN update(ctx, getDirectiveBeforeInstr(addr)) ELSE ctx
afterInstr(ctx, addr) ==
    IF isCall(InstrAt(addr)) THEN update(ctx, getDirectiveAfterInstr(addr)) ELSE ctx

along(ctx, edges) == FoldLeft(edgeContext, ctx, edges)

\* Mutant: the edge of a fall-through does not change the context.
nextPcNoEdge(pc) ==
    LET next == nextAddr(pc.addr) IN
    IF hasMachineInstrByAddr(pc.addr) /\ hasMachineInstrByAddr(next) /\ pc.ctx # <<>>
    THEN {ExecutionElement(next, beforeInstr(afterInstr(pc.ctx, pc.addr), next))}
    ELSE {ExecutionElement(next, <<>>)}

(* fetchNextInstruction: the program counter behind pc. The set has one     *)
(* element: "Contexts of different paths were different as well!"           *)
nextPc(pc) ==
    LET next == nextAddr(pc.addr) IN
    IF hasMachineInstrByAddr(pc.addr) /\ hasMachineInstrByAddr(next) /\ pc.ctx # <<>>
    THEN LET ctx   == afterInstr(pc.ctx, pc.addr)
             paths == IF pc.addr[1] = next[1] THEN {<<>>}
                                              ELSE getEdgesBetween(pc.addr[1], next[1])
         IN  IF paths = {} THEN {ExecutionElement(next, <<>>)}
             ELSE {ExecutionElement(next, beforeInstr(along(ctx, path), next)) : path \in paths}
    ELSE {ExecutionElement(next, <<>>)}

-----------------------------------------------------------------------------
(* Branches, calls and returns. An outcome is a successor of s and whether  *)
(* the instructions fetched so far are to be flushed. The code makes one of *)
(* the flushed successors the state itself and returns the others; nothing  *)
(* tells them apart.                                                        *)
Taken(target) == [btaken |-> TRUE, target |-> target]
NotTaken == [btaken |-> FALSE, target |-> NoBlock]

assume(s, ee, outcome) ==
    [s EXCEPT !.condBranchAssumptions = Append(@, [branch |-> ee, outcome |-> outcome])]

RECURSIVE firstNonEmpty(_, _)
firstNonEmpty(edges, target) ==
    IF Blocks[target].instrs # <<>> THEN edges
    ELSE LET next == CHOOSE b \in Blocks[target].succ : TRUE
         IN  firstNonEmpty(Append(edges, <<target, next>>), next)

(* The target of a branch: behind it come blocks until one is not empty. *)
handlePCUpdate(s, ee, target) ==
    LET edges == firstNonEmpty(<< <<blockOf(ee), target>> >>, target)
        addr  == <<Last(edges)[2], 1>>
    IN  [s EXCEPT !.pc = ExecutionElement(addr, beforeInstr(along(ee.ctx, edges), addr))]

handleBranch(s, ee) ==
    LET instr == instrOf(ee) IN
    {[state |-> handlePCUpdate(IF instr.op = "goto" THEN s ELSE assume(s, ee, Taken(t)), ee, t),
      flush |-> TRUE] : t \in instr.targets}
    \cup (IF instr.op = "branch"
          THEN {[state |-> assume(s, ee, NotTaken), flush |-> FALSE]} ELSE {})

calleePc(ctx, f) ==
    LET addr == <<EntryBlock(f), 1>>
    IN  ExecutionElement(addr, beforeInstr(update(reduceOnCall(ctx), getDirectiveOnCall(f)), addr))

handleCall(s, ee) ==
    {[state |-> [s EXCEPT !.pc =
         IF instrOf(ee).op = "external" THEN [@ EXCEPT !.addr = ExternalAddr]
                                        ELSE calleePc(ee.ctx, instrOf(ee).callee)],
      flush |-> TRUE]}

getCallSites(f) == {i \in Instrs : InstrAt(i).op = "call" /\ InstrAt(i).callee = f}

(* updateContextOnReturn: where a call continues *)
continuation(callsite, ctx) ==
    ExecutionElement(nextAddr(callsite),
        LET next == nextAddr(callsite)
            after == afterInstr(ctx, callsite)
            path == IF callsite[1] = next[1] THEN <<>>
                    ELSE CHOOSE p \in getEdgesBetween(callsite[1], next[1]) : TRUE
        IN  beforeInstr(along(after, path), next))

(* The call sites and contexts that f may return to in a context. *)
returnLocations(f, ctx) ==
    LET returnCtx == update(ctx, getDirectiveOnReturn(f))
    IN  UNION {{[pc |-> continuation(i, c), to |-> ExecutionElement(nextAddr(i), c)]
                : c \in {c \in config.ins2ctx[i] : reduceOnCall(c) = returnCtx}}
              : i \in getCallSites(f)}
        \cup (IF f = config.entry
              THEN {[pc |-> ExecutionElement(InitialLinkRegister, <<>>),
                     to |-> ExecutionElement(InitialLinkRegister, <<>>)]}
              ELSE {})

(* "We saw a return but have no valid point to return to" *)
returnToAny(s, ee, locs) ==
    LET t == [s EXCEPT !.asserts = @ /\ locs # {}]
    IN  {[state |-> [assume(t, ee, Taken(NoBlock)) EXCEPT
                       !.pc = l.pc, !.returnAssumptions = Append(@, l.to)],
          flush |-> TRUE] : l \in locs}
        \cup (IF locs = {} \/ isPredicated(instrOf(ee))
              THEN {[state |-> assume(t, ee, NotTaken), flush |-> TRUE]} ELSE {})
handleReturn(s, ee) == returnToAny(s, ee, returnLocations(Blocks[blockOf(ee)].func, ee.ctx))

handleBranching(s, ee) ==
    CASE isBranch(instrOf(ee)) -> handleBranch(s, ee)
      [] isCall(instrOf(ee)) -> handleCall(s, ee)
      [] OTHER -> handleReturn(s, ee)

-----------------------------------------------------------------------------
(* Whether the oldest assumption is the given one; asking forgets it.       *)
assumedBranchOutcomeAssertion(s, ee) ==
    s.condBranchAssumptions # <<>> /\ Head(s.condBranchAssumptions).branch = ee

assumedBranchOutcome(s, outcome) ==
    LET assumed == Head(s.condBranchAssumptions).outcome
    IN  IF outcome.btaken /\ outcome.target # NoBlock THEN assumed = outcome
        ELSE assumed.btaken = outcome.btaken

forgetBranch(s) == [s EXCEPT !.condBranchAssumptions = Tail(@)]

assumedReturnedTo(s, callsite, ctx) ==
    Head(s.returnAssumptions) = ExecutionElement(nextAddr(callsite), ctx)
assumedReturnedFromMain(s) ==
    Head(s.returnAssumptions) = ExecutionElement(InitialLinkRegister, <<>>)

forgetReturn(s) == [s EXCEPT !.returnAssumptions = Tail(@)]
=============================================================================
