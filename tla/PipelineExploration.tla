------------------------ MODULE PipelineExploration ------------------------
(***************************************************************************)
(* The micro-architectural analysis of a program: the worklist iteration   *)
(* over blocks and contexts (AnalysisDriver, whose order is not the matter *)
(* here: it takes any item) with sets of pipeline states as information.   *)
(*                                                                         *)
(* When it has ended, the program runs: "real" is a pipeline state that    *)
(* makes one cycle after the other and takes one of the successors that    *)
(* the hardware can have; it is neither fast-forwarded nor joined. "stack" *)
(* are the call sites it will return to, and "expected" the element that   *)
(* is to leave the pipeline next, with the context that the analysis       *)
(* assigns to it.                                                          *)
(***************************************************************************)
EXTENDS PartitionUtil

CONSTANTS
    IdModulus, BackgroundMemoryType, Latency, PerWordLatency, DRAMRefreshLatency,
    MaxBlockingPerAccess, MaxCycles,
    Programs    \* of [entry, strict, scopes]: what is analysed

ASSUME ProgramAssumption ==
    /\ \A p \in Programs : p.entry \in Functions
    /\ \A f \in Functions : Blocks[EntryBlock(f)].instrs # <<>>

VARIABLES config, info, worklist, after, real, stack, expected

vars == <<config, info, worklist, after, real, stack, expected>>

SED == INSTANCE StateExplorationDomain

Element(addr, ctx) == SED!ExecutionElement(addr, ctx)
None == SED!None

(* Where information is kept: at the entry of blocks and behind functions. *)
BlockPoint(b, ctx) == [kind |-> "block", of |-> b, ctx |-> ctx]
OutPoint(f, ctx) == [kind |-> "out", of |-> f, ctx |-> ctx]
at(map, p) == IF p \in DOMAIN map THEN map[p] ELSE {}

initialCtx(f) == update(<<>>, getDirectiveOnCall(f))

-----------------------------------------------------------------------------
(* The contexts of call sites, which an earlier analysis found.             *)
blockContexts(b, ctx) ==
    LET instrs == Blocks[b].instrs
        ends == instrs # <<>> /\ Last(instrs).op \in {"goto", "jumptable", "return"}
        targets == UNION {i.targets : i \in {i \in Range(instrs) : isBranch(i)}}
    IN  {<<c, edgeContext(ctx, <<b, c>>)>> :
            c \in targets \cup (IF ends /\ (Last(instrs).op # "return" \/ ~isPredicated(Last(instrs)))
                                THEN {} ELSE LayoutSuccessors(b))}
        \cup {<<EntryBlock(InstrAt(i).callee),
                update(reduceOnCall(SED!beforeInstr(ctx, i)), getDirectiveOnCall(InstrAt(i).callee))>>
              : i \in {i \in Instrs : i[1] = b /\ InstrAt(i).op = "call"}}

RECURSIVE reachable(_, _)
reachable(seen, new) ==
    IF new = {} THEN seen
    ELSE UNION {reachable(seen \cup new, next \ (seen \cup new))
                : next \in {UNION {blockContexts(item[1], item[2]) : item \in new}}}

ins2ctx(f) ==
    [i \in {i \in Instrs : isCall(InstrAt(i))} |->
        {SED!beforeInstr(item[2], i) :
            item \in {item \in reachable({}, {<<EntryBlock(f), initialCtx(f)>>}) : item[1] = i[1]}}]

-----------------------------------------------------------------------------
(* One block in one context. "st" has the context and the states of the     *)
(* current instruction, what is to be joined where, and what was found      *)
(* behind each instruction.                                                 *)
send(st, point, states) == [st EXCEPT !.sent = Append(@, [to |-> point, states |-> states])]
note(st, ee, states) == [st EXCEPT !.after = (ee :> states) @@ @]

toBlock(st, edge, states) ==
    send(st, BlockPoint(edge[2], edgeContext(st.ctx, edge)), SED!enterBasicBlock(states))

transferred(st, ee) == {[note(st, ee, out) EXCEPT !.newOut = out] : out \in {SED!transferInstr(st.newOut, ee)}}

analyseCall(st, i) ==
    LET ctx == SED!beforeInstr(st.ctx, i)
        f == InstrAt(i).callee
        reduced == reduceOnCall(ctx)
    IN  [send(st, BlockPoint(EntryBlock(f), update(reduced, getDirectiveOnCall(f))),
              SED!enterBasicBlock(st.newOut)) EXCEPT
           !.newOut = SED!returnTo(at(info, OutPoint(f, reduced)), i, ctx)]

analyseExternal(st, i) ==
    LET ctx == SED!beforeInstr(st.ctx, i) IN
    [note(st, Element(SED!ExternalAddr, ctx),
          SED!cycleUntilFinal(st.newOut, Element(SED!ExternalAddr, ctx))) EXCEPT
       !.newOut = SED!restart(i, ctx)]

handleBranch(st, i) ==
    LET instr == InstrAt(i)
        ee == Element(i, st.ctx)
        taken(t) == IF instr.op = "goto" THEN st.newOut
                                         ELSE SED!guard(st.newOut, ee, SED!Taken(t))
        rest == IF instr.op = "branch" THEN SED!guard(st.newOut, ee, SED!NotTaken) ELSE {}
    IN  [FoldSet(LAMBDA t, s : toBlock(s, <<i[1], t>>, taken(t)), st, instr.targets)
           EXCEPT !.newOut = rest]

handleReturn(st, i) ==
    LET f == Blocks[i[1]].func
        ee == Element(i, st.ctx)
    IN  [send(st, OutPoint(f, update(st.ctx, getDirectiveOnReturn(f))),
              SED!guard(st.newOut, ee, SED!Taken(NoBlock))) EXCEPT
           !.newOut = IF isPredicated(InstrAt(i)) THEN SED!guard(@, ee, SED!NotTaken) ELSE {}]

(* Nothing is to be done for unreachable code, or once the analysis has    *)
(* aborted.                                                                *)
analyseInstruction(st, i) ==
    LET op == InstrAt(i).op IN
    IF st.newOut = {} \/ \E s \in st.newOut : ~s.asserts THEN {st}
    ELSE {CASE op = "plain"    -> s
            [] op = "call"     -> analyseCall(s, i)
            [] op = "external" -> analyseExternal(s, i)
            [] op = "return"   -> handleReturn(s, i)
            [] isBranch(InstrAt(i)) -> handleBranch(s, i)
          : s \in transferred(st, Element(i, SED!beforeInstr(st.ctx, i)))}

analyseMachineBasicBlock(b, ctx) ==
    LET begin == [ctx |-> ctx, newOut |-> at(info, BlockPoint(b, ctx)), sent |-> <<>>, after |-> after]
    IN  {FoldSet(LAMBDA c, s : toBlock(s, <<b, c>>, s.newOut), st, LayoutSuccessors(b))
         : st \in FoldLeftDomain(LAMBDA S, k : UNION {analyseInstruction(st, <<b, k>>) : st \in S},
                                 {begin}, Blocks[b].instrs)}

(* What reads a point: the block itself, or the callers of the function.    *)
readers(map, p) ==
    IF p.kind = "block" THEN {<<p.of, p.ctx>>}
    ELSE UNION {{<<i[1], q.ctx>> : q \in {q \in DOMAIN map :
                    /\ q.kind = "block" /\ q.of = i[1]
                    /\ reduceOnCall(SED!beforeInstr(q.ctx, i)) = p.ctx}}
               : i \in SED!getCallSites(p.of)}

(* addContext: join the states, and analyse the readers if one is new. *)
receive(m, msg) ==
    LET old == at(m.info, msg.to)
        new == SED!insertAllOnInstr(old, msg.states)
    IN  IF msg.states \subseteq old THEN m
        ELSE [info |-> (msg.to :> new) @@ m.info,
              worklist |-> m.worklist \cup readers(m.info, msg.to)]

Init ==
    /\ config \in {p @@ [ins2ctx |-> ins2ctx(p.entry)] : p \in Programs}
    /\ LET b == EntryBlock(config.entry)
           ctx == initialCtx(config.entry)
       IN  /\ worklist = {<<b, ctx>>}
           /\ expected = Element(<<b, 1>>, SED!beforeInstr(ctx, <<b, 1>>))
           /\ real = SED!newState(expected)
           /\ info = (BlockPoint(b, ctx) :> {real})
    /\ after = <<>> /\ stack = <<>>

Analyse(item) ==
    /\ \E st \in analyseMachineBasicBlock(item[1], item[2]) :
         \E m \in {FoldLeft(receive, [info |-> info, worklist |-> worklist \ {item}], st.sent)} :
            info' = m.info /\ worklist' = m.worklist /\ after' = st.after
    /\ UNCHANGED <<config, real, stack, expected>>

-----------------------------------------------------------------------------
(* The real execution.                                                      *)

running == worklist = {}

\* Every return goes to the call that was made last.
feasible(s) ==
    \A k \in DOMAIN s.returnAssumptions :
        s.returnAssumptions[k] =
            IF k <= Len(stack) THEN Element(SED!nextAddr(stack[Len(stack) - k + 1].addr), stack[Len(stack) - k + 1].ctx)
                               ELSE Element(SED!InitialLinkRegister, <<>>)

atExternal == running /\ expected.addr \in {SED!ExternalAddr, SED!InitialLinkRegister}
quiet == atExternal /\ SED!isFinal(real, expected)

(* The clock of the real pipeline, bounded by MaxCycles, never stops. *)
limited(time) == [lb |-> time.lb % MaxCycles, ub |-> time.ub % MaxCycles]

Cycle ==
    /\ running /\ real.WB_FIN = None /\ ~quiet
    /\ \E s \in SED!step(real) : feasible(s) /\ real' = SED!renumber([s EXCEPT !.time = limited(@)])
    /\ UNCHANGED <<config, info, worklist, after, stack, expected>>

(* Where the analysis goes on behind instruction i, in context ctx. *)
RECURSIVE through(_, _)
through(ctx, edge) ==
    LET c == edgeContext(ctx, edge)
        b == edge[2]
    IN  IF Blocks[b].instrs = <<>> THEN through(c, <<b, Blocks[b].layout>>)
        ELSE Element(<<b, 1>>, SED!beforeInstr(c, <<b, 1>>))
fallThrough(i, ctx) ==
    LET c == SED!afterInstr(ctx, i) IN
    IF i[2] < Len(Blocks[i[1]].instrs)
    THEN Element(<<i[1], i[2] + 1>>, SED!beforeInstr(c, <<i[1], i[2] + 1>>))
    ELSE through(c, <<i[1], Blocks[i[1]].layout>>)

Retire ==
    /\ running /\ real.WB_FIN # None
    /\ LET ee == real.WB_FIN
           i == ee.addr
           instr == InstrAt(i)
           outcome == Head(real.condBranchAssumptions).outcome
           cleared == SED!clearFinal(real)
           nextBlock(s) == SED!resetLocalMetrics(s)
           goOn(s) == /\ stack' = stack /\ expected' = fallThrough(i, ee.ctx)
                      /\ real' = IF i[2] < Len(Blocks[i[1]].instrs) THEN s ELSE nextBlock(s)
       IN  CASE instr.op = "plain" -> goOn(cleared)
             [] instr.op = "goto" ->
                  /\ real' = nextBlock(cleared) /\ stack' = stack
                  /\ \E t \in instr.targets : expected' = through(ee.ctx, <<i[1], t>>)
             [] instr.op = "call" ->
                  /\ real' = nextBlock(cleared) /\ stack' = Append(stack, ee)
                  /\ expected' = SED!calleePc(ee.ctx, instr.callee)
             [] instr.op = "external" ->
                  /\ real' = cleared /\ stack' = Append(stack, ee)
                  /\ expected' = Element(SED!ExternalAddr, ee.ctx)
             [] instr.op \in {"branch", "jumptable"} /\ outcome.btaken ->
                  /\ real' = nextBlock(SED!forgetBranch(cleared)) /\ stack' = stack
                  /\ expected' = through(ee.ctx, <<i[1], outcome.target>>)
             [] instr.op \in {"branch", "return"} /\ ~outcome.btaken ->
                  goOn(SED!forgetBranch(cleared))
             [] instr.op = "return" /\ outcome.btaken /\ stack # <<>> ->
                  /\ real' = nextBlock(SED!forgetReturn(SED!forgetBranch(cleared)))
                  /\ stack' = Front(stack)
                  /\ expected' = fallThrough(Last(stack).addr, Last(stack).ctx)
             [] instr.op = "return" /\ outcome.btaken /\ stack = <<>> ->
                  /\ real' = cleared /\ stack' = stack
                  /\ expected' = Element(SED!InitialLinkRegister, <<>>)
    /\ UNCHANGED <<config, info, worklist, after>>

ExternalReturn ==
    /\ quiet /\ expected.addr = SED!ExternalAddr
    /\ \E s \in SED!restart(Last(stack).addr, Last(stack).ctx) : real' = s /\ expected' = s.pc
    /\ stack' = Front(stack)
    /\ UNCHANGED <<config, info, worklist, after>>

(* The program has returned and the pipeline is empty. *)
ended == quiet /\ expected.addr = SED!InitialLinkRegister
Ended == ended /\ UNCHANGED vars

Next == (\E item \in worklist : Analyse(item)) \/ Cycle \/ Retire \/ ExternalReturn \/ Ended

(* Weak fairness of Next: the analysis goes on as long as there is work, and *)
(* the hardware has a clock. It is written out, with ~ended for ENABLED Next *)
(* (that there is always a step is what the deadlock check shows).           *)
Fairness == []<>ended \/ []<><<TRUE>>_vars
Spec == Init /\ [][Next]_vars /\ Fairness

-----------------------------------------------------------------------------
(* Properties.                                                             *)

States == UNION {info[p] : p \in DOMAIN info} \cup UNION {after[ee] : ee \in DOMAIN after}

metricsFree(s) ==
    [s EXCEPT !.time = 0, !.asserts = TRUE,
              !.memory.waitingForJoin = FALSE, !.memory.memory = SED!Bus!resetLocalMetrics(@)]
covers(a, r) ==
    LET bus == a.memory.memory
        forwarded == bus.memory.fastForwardedAccessCycles
    IN  /\ metricsFree(a) = metricsFree(r)
        /\ a.time.lb + forwarded.lb + bus.fastForwardedBlocking.lb <= r.time.lb
        /\ r.time.ub <= a.time.ub + forwarded.ub + bus.fastForwardedBlocking.ub

\* Whenever an instruction leaves the real pipeline, the analysis has a state
\* behind that instruction, in its context, that equals the real one, and the
\* real time since the block began is within the bounds of that state: no
\* execution is lost to fast-forwarding, joins, guards, filtered returns or
\* contexts.
ExplorationCovers ==
    /\ real.WB_FIN # None /\ ~(SED!endOfProgram(real.WB_FIN) /\ stack = <<>>) =>
         \E a \in at(after, real.WB_FIN) : covers(a, SED!clearFinal(real))
    /\ quiet =>
         \E a \in at(after, IF expected.addr = SED!ExternalAddr THEN expected
                            ELSE Head(real.condBranchAssumptions).branch) : covers(a, real)

\* Instructions leave the real pipeline in program order, and with the
\* contexts that the analysis gives them, though fetch runs ahead of branches.
RetiresProgramOrder == real.WB_FIN # None => real.WB_FIN = expected

\* No assertion of the pipeline, the memory or the domain fails, and every
\* instruction is final after at most MaxCycles cycles.
NeverAborted ==
    /\ \A s \in States : s.asserts
    /\ real.asserts

\* "the set of states never contains two states that could be joined. This
\* invariant is re-established after each transfer und join."
SetsMinimal ==
    \A S \in {info[p] : p \in DOMAIN info} \cup {after[ee] : ee \in DOMAIN after} :
        \A s, t \in S : SED!isJoinable(s, t) => s = t

\* The real pipeline is in the persistence scope of a loop exactly once while
\* it holds nothing but instructions of the loop or runs a call of the loop,
\* and it is in none while the loop is neither in the pipeline nor where a
\* call will return to: every speculative entry is undone.
inLoop(ee, l) == SED!hasMachineInstrByAddr(ee.addr) /\ ee.addr[1] \in Loops[l].blocks
inflight == {ee \in {real.pc} \cup {real[SED!Stages[k]] : k \in DOMAIN SED!Stages} : ee # None}
awaited ==
    LET calls == Range(stack) \cup
                   {ee \in inflight : SED!hasMachineInstrByAddr(ee.addr) /\ isCall(InstrAt(ee.addr))}
    IN  Range(stack) \cup {fallThrough(ee.addr, ee.ctx) : ee \in calls}
ScopesFollowProgram ==
    config.scopes =>
        \A l \in {l \in DOMAIN Loops : SED!isLoopGoodScope(l)} :
            /\ (\A ee \in inflight : inLoop(ee, l)) \/ (\E ee \in Range(stack) : inLoop(ee, l))
                  => real.scopes[l] = 1
            /\ (\A ee \in inflight \cup awaited : ~inLoop(ee, l)) => real.scopes[l] = 0

\* The pipeline never waits forever for its memory or for itself: another
\* instruction leaves it, until the program has ended.
KeepsRetiring == []<>(running /\ (real.WB_FIN # None \/ quiet))
=============================================================================
