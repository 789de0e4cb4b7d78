---------------------------- MODULE MemoryTiming ----------------------------
(***************************************************************************)
(* The time that the analysis accounts for memory accesses: the states of  *)
(* the background memory along program paths next to the real memory and   *)
(* the real bus.                                                           *)
(*                                                                         *)
(* The analysis simulates an access cycle by cycle, except for the cycles  *)
(* it fast-forwards over, of which it only keeps bounds. The real memory   *)
(* and the numbers of cycles are history variables: no analysis reads      *)
(* them. They pick, of the successors that the analysis explores, the one  *)
(* that stands for the real execution.                                     *)
(***************************************************************************)
EXTENDS BlockingCyclingMemory

CONSTANTS Path,      \* program paths whose analysis states may be joined
          NumWords   \* sizes of the accesses

ASSUME NumWordsAssumption == NumWords \subseteq Nat \ {0}

VARIABLES
    bus,      \* bus[p]: the analysis state of the memory on path p
    real,     \* real[p]: the cycles that the real access of p still takes
    skipped,  \* skipped[p]: real cycles that were not simulated
    blocked,  \* blocked[p]: real cycles in which the bus blocked p
    cycled    \* cycled[p]: the last step of p was a cycle

vars == <<bus, real, skipped, blocked, cycled>>

Real == [access : Nat, refresh : Nat, blocking : Nat]

realIdle == [access |-> 0, refresh |-> 0, blocking |-> 0]

realBusy(r) == r.access + r.refresh + r.blocking > 0

realCycle(r) ==
    CASE r.access > 0                     -> [r EXCEPT !.access = @ - 1]
      [] r.access = 0 /\ r.refresh > 0    -> [r EXCEPT !.refresh = @ - 1]
      [] r.access + r.refresh = 0 /\ r.blocking > 0 -> [r EXCEPT !.blocking = @ - 1]
      [] OTHER                            -> r

inBlocking(r) == r.access + r.refresh = 0 /\ r.blocking > 0

\* What the real access looks like when only its last simulated cycle is left.
realLast(r) ==
    CASE r.access > 0 -> [access |-> 1, refresh |-> 0, blocking |-> 0]
      [] r.access = 0 /\ r.refresh > 0 -> [access |-> 0, refresh |-> 1, blocking |-> 0]
      [] OTHER -> [access |-> 0, refresh |-> 0, blocking |-> 1]

\* The analysis state b is the one that stands for the real state r.
Consistent(b, r) ==
    /\ isBusy(b) <=> realBusy(r)
    /\ Mem!isBusy(b.memory) <=> (r.access + r.refresh > 0)
    /\ ~ Mem!isSRAM => ((b.memory.accessPhase = Mem!Dram!REFRESH) <=>
                          (r.access = 0 /\ r.refresh > 0))

Init ==
    /\ bus = [p \in Path |-> new]
    /\ real = [p \in Path |-> realIdle]
    /\ skipped = [p \in Path |-> 0]
    /\ blocked = [p \in Path |-> 0]
    /\ cycled = [p \in Path |-> FALSE]

\* Path p starts an access, which is delayed by a refresh and by accesses of
\* other cores.
Announce(p, numWords, refresh, blocking) ==
    /\ ~ isBusy(bus[p])
    /\ Mem!isSRAM => refresh = 0
    /\ \E b \in announceAccess(bus[p], numWords) : bus' = [bus EXCEPT ![p] = b]
    /\ real' = [real EXCEPT ![p] =
                  [access |-> Latency + numWords * PerWordLatency,
                   refresh |-> refresh, blocking |-> blocking]]
    /\ cycled' = [cycled EXCEPT ![p] = FALSE]
    /\ UNCHANGED <<skipped, blocked>>

Cycle(p) ==
    LET r == realCycle(real[p]) IN
    /\ isBusy(bus[p])
    /\ \E b \in cycle(bus[p]) :
         Consistent(b, r) /\ bus' = [bus EXCEPT ![p] = b]
    /\ real' = [real EXCEPT ![p] = r]
    /\ blocked' = [blocked EXCEPT ![p] = IF inBlocking(r) THEN @ + 1 ELSE @]
    /\ cycled' = [cycled EXCEPT ![p] = TRUE]
    /\ UNCHANGED skipped

\* The pipeline converges: nothing but the memory can move until the access
\* ends. The refresh that a successor accounts for is the one that happens.
FastForward(p) ==
    LET r == real[p] IN
    /\ isBusy(bus[p]) /\ cycled[p]
    /\ \E b \in fastForward(bus[p]) :
         /\ ~ Mem!isSRAM /\ r.access > 0 =>
              (b.memory.justRefreshed <=> r.refresh > 0)
         /\ bus' = [bus EXCEPT ![p] = b]
    /\ real' = [real EXCEPT ![p] = realLast(r)]
    /\ skipped' = [skipped EXCEPT ![p] =
                     @ + r.access + r.refresh + r.blocking - 1]
    /\ blocked' = [blocked EXCEPT ![p] =
                     @ + r.blocking - (IF inBlocking(r) THEN 1 ELSE 0)]
    /\ cycled' = [cycled EXCEPT ![p] = FALSE]

\* The paths p and q meet and both continue from the joined state.
Join(p, q) ==
    /\ isJoinable(bus[p], bus[q])
    /\ bus' = [bus EXCEPT ![p] = join(bus[p], bus[q]),
                          ![q] = join(bus[p], bus[q])]
    /\ cycled' = [cycled EXCEPT ![p] = FALSE, ![q] = FALSE]
    /\ UNCHANGED <<real, skipped, blocked>>

\* An edge of the state graph ends: its metrics are stored and set back.
ResetLocalMetrics(p) ==
    /\ bus' = [bus EXCEPT ![p] = resetLocalMetrics(@)]
    /\ skipped' = [skipped EXCEPT ![p] = 0]
    /\ blocked' = [blocked EXCEPT ![p] = 0]
    /\ cycled' = [cycled EXCEPT ![p] = FALSE]
    /\ UNCHANGED real

Next ==
    \/ \E p \in Path, numWords \in NumWords, refresh \in 0 .. DRAMRefreshLatency,
         blocking \in 0 .. MaxBlockingPerAccess :
           Announce(p, numWords, refresh, blocking)
    \/ \E p \in Path : Cycle(p) \/ FastForward(p) \/ ResetLocalMetrics(p)
    \/ \E p, q \in Path : p # q /\ Join(p, q)

Spec == Init /\ [][Next]_vars

-----------------------------------------------------------------------------
(* Properties.                                                             *)

TypeOK ==
    /\ bus \in [Path -> BlockingMemory]
    /\ real \in [Path -> Real]
    /\ skipped \in [Path -> Nat] /\ blocked \in [Path -> Nat]
    /\ cycled \in [Path -> BOOLEAN]

forwardedCycles(b) == b.memory.fastForwardedAccessCycles

\* The real cycles that were not simulated are within the bounds that the
\* edge's metrics will add to its simulated cycles, whatever mixture of
\* accesses, fast-forwards in each phase of them, and joins the edge has.
TimeCovered ==
    \A p \in Path :
        /\ forwardedCycles(bus[p]).lb + bus[p].fastForwardedBlocking.lb <= skipped[p]
        /\ skipped[p] <= forwardedCycles(bus[p]).ub + bus[p].fastForwardedBlocking.ub

\* The blocking that an edge reports to the iterative co-runner analysis is a
\* lower bound of what the edge really suffers.
BlockingCounted ==
    \A p \in Path : bus[p].blockingCounter <= blocked[p]

\* Of the successors that the analysis explores one always stands for the
\* real execution, however long refresh and blocking take: no execution is
\* lost by a split or a fast-forward.
NoExecutionLost ==
    \A p \in Path :
        /\ Consistent(bus[p], real[p])
        /\ isBusy(bus[p]) => \E b \in cycle(bus[p]) : Consistent(b, realCycle(real[p]))
        /\ isBusy(bus[p]) /\ cycled[p] =>
             \E b \in fastForward(bus[p]) : Consistent(b, realLast(real[p]))

\* No assertion of cycle, announceAccess or fastForward fails.
AssertionsHold ==
    \A p \in Path :
        /\ cycleAssertion(bus[p])
        /\ isBusy(bus[p]) /\ cycled[p] => fastForwardAssertion(bus[p])
        /\ isBusy(bus[p]) /\ cycled[p] /\ ~ Mem!isSRAM =>
             Mem!Dram!fastForwardAssertion(bus[p].memory)
        /\ ~ isBusy(bus[p]) /\ ~ Mem!isSRAM => ~ bus[p].memory.hasSeenRefresh

-----------------------------------------------------------------------------
(* The inductive invariant.                                                *)

\* The memory behind the bus and the real access are in the same phase, with
\* the same number of cycles left where the analysis knows it.
MemoryLink(m, r) ==
    /\ Mem!isSRAM => m.timeBlocked = r.access /\ r.refresh = 0
    /\ ~ Mem!isSRAM =>
         /\ m.accessPhase = Mem!Dram!IDLE => r.access = 0 /\ r.refresh = 0
         /\ m.accessPhase = Mem!Dram!ACCESS =>
              /\ r.access > 0 /\ m.timeBlocked = r.access
              /\ r.refresh <= DRAMRefreshLatency
         /\ m.accessPhase = Mem!Dram!REFRESH =>
              r.access = 0 /\ r.refresh > 0 /\ r.refresh <= m.timeBlocked
         /\ m.hasSeenRefresh =>
              m.accessPhase = Mem!Dram!ACCESS /\ r.access = 1 /\ r.refresh = 0
         /\ m.justRefreshed => m.accessPhase = Mem!Dram!REFRESH \/ m.hasSeenRefresh

\* While the memory works, no blocking is counted yet, unless the access was
\* fast-forwarded, which leaves one cycle; afterwards the blocking still to
\* come is within what the analysis allows.
BlockingLink(b, r, justCycled) ==
    /\ b.delayedAccess <=> realBusy(r)
    /\ IF r.access + r.refresh > 0
       THEN \/ b.addedBlocking = 0 /\ r.blocking <= MaxBlockingPerAccess
            \/ /\ b.addedBlocking = MaxBlockingPerAccess /\ ~ justCycled
               /\ r.access + r.refresh = 1 /\ r.blocking = 0
       ELSE IF r.blocking > 0
            THEN /\ b.addedBlocking > 0 \/ MaxBlockingPerAccess = 0
                 /\ b.addedBlocking + r.blocking <= MaxBlockingPerAccess + 1
            ELSE b.addedBlocking = 0

PathLink(b, r, justCycled) ==
    /\ MemoryLink(b.memory, r)
    /\ BlockingLink(b, r, justCycled)
    /\ ~ Mem!isSRAM /\ justCycled => ~ b.memory.hasSeenRefresh

Link == \A p \in Path : PathLink(bus[p], real[p], cycled[p])

IInv == TypeOK /\ Link /\ TimeCovered /\ BlockingCounted
=============================================================================
