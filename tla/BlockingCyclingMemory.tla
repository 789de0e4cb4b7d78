----------------------- MODULE BlockingCyclingMemory -----------------------
(***************************************************************************)
(* A memory behind a bus that other cores use, too: after the access       *)
(* itself, the end of an access is delayed by up to MaxBlockingPerAccess   *)
(* cycles. blockingCounter is the counter that the subclass                *)
(* BlockingCounterCyclingMemory adds. Compositional analysis of the        *)
(* blocking (an option, off by default) is left out.                       *)
(***************************************************************************)
EXTENDS Integers

CONSTANTS BackgroundMemoryType, Latency, PerWordLatency, DRAMRefreshLatency,
          MaxBlockingPerAccess

Mem == INSTANCE BackgroundMemory
IC  == INSTANCE IntervalCounter

\* Every access takes time. A refresh latency of 0 would leave the memory in
\* its refresh phase forever.
ASSUME LatencyAssumption ==
    /\ BackgroundMemoryType \in {Mem!SRAM, Mem!SIMPLEDRAM}
    /\ Latency \in Nat /\ PerWordLatency \in Nat \ {0}
    /\ DRAMRefreshLatency \in Nat \ {0}
    /\ MaxBlockingPerAccess \in Nat

\* delayedAccess is the address and the type of the access; only its presence
\* matters, except that isJoinable may then join two different accesses.
BlockingMemory ==
    [memory : Mem!Memory, delayedAccess : BOOLEAN, addedBlocking : Nat,
     fastForwardedBlocking : IC!Counter, blockingCounter : Nat]

new == [memory |-> Mem!new, delayedAccess |-> FALSE, addedBlocking |-> 0,
        fastForwardedBlocking |-> IC!counter(0), blockingCounter |-> 0]

resetLocalMetrics(b) ==
    [b EXCEPT !.memory = Mem!resetLocalMetrics(@),
              !.fastForwardedBlocking = IC!counter(0), !.blockingCounter = 0]

isBusy(b) == b.delayedAccess \/ Mem!isBusy(b.memory)

\* Mutant: one cycle of blocking less than the bus may add.
performSplitTooFew(b) ==
    (IF b.delayedAccess /\ b.addedBlocking < MaxBlockingPerAccess - 1
       THEN {[b EXCEPT !.addedBlocking = @ + 1, !.blockingCounter = @ + 1]}
       ELSE {})
      \cup {[b EXCEPT !.delayedAccess = FALSE, !.addedBlocking = 0]}

\* Mutant: the blocking of an access is not set back at its end.
performSplitNoReset(b) ==
    (IF b.delayedAccess /\ b.addedBlocking < MaxBlockingPerAccess
       THEN {[b EXCEPT !.addedBlocking = @ + 1, !.blockingCounter = @ + 1]}
       ELSE {})
      \cup {[b EXCEPT !.delayedAccess = FALSE]}

performSplit(b) ==
    LET longerBlocked == [b EXCEPT !.addedBlocking = @ + 1,
                                   !.blockingCounter = @ + 1]
        noLongerBlocked == [b EXCEPT !.delayedAccess = FALSE,
                                     !.addedBlocking = 0]
    IN  CASE ~ b.delayedAccess -> {b}
          [] b.delayedAccess /\ b.addedBlocking < MaxBlockingPerAccess ->
               {longerBlocked, noLongerBlocked}
          [] OTHER -> {noLongerBlocked}

\* The assertion at the start of cycle.
cycleAssertion(b) ==
    b.addedBlocking <= IF b.delayedAccess THEN MaxBlockingPerAccess ELSE 0

cycle(b) ==
    UNION { LET r == [b EXCEPT !.memory = m]
            IN  IF Mem!isBusy(m) THEN {r} ELSE performSplit(r)
          : m \in Mem!cycle(b.memory) }

\* assert(!isBusy()) guards it. The memory works first, then the bus blocks.
announceAccess(b, numWords) ==
    { [b EXCEPT !.memory = m, !.delayedAccess = TRUE]
        : m \in Mem!announceAccess(b.memory, numWords) }

\* The assertions at the start of fastForward.
fastForwardAssertion(b) ==
    b.delayedAccess /\ (Mem!isBusy(b.memory) => b.addedBlocking = 0)

fastForward(b) ==
    LET forwarded(m) ==
          [b EXCEPT !.memory = m,
                    !.addedBlocking = MaxBlockingPerAccess,
                    !.fastForwardedBlocking =
                        IC!plus(@, 0, MaxBlockingPerAccess - b.addedBlocking)]
    IN  IF Mem!isBusy(b.memory)
        THEN { forwarded(m) : m \in Mem!fastForward(b.memory) }
        ELSE { forwarded(b.memory) }

isJoinable(b, c) == /\ b.addedBlocking = c.addedBlocking
                    /\ b.delayedAccess = c.delayedAccess
                    /\ Mem!isJoinable(b.memory, c.memory)

\* Mutant: the join keeps the larger number of blocked cycles.
joinKeepsLarger(b, c) ==
    [b EXCEPT !.memory = Mem!join(@, c.memory),
              !.fastForwardedBlocking = IC!join(@, c.fastForwardedBlocking),
              !.blockingCounter = IF @ < c.blockingCounter
                                    THEN c.blockingCounter ELSE @]

\* blockingCounter is a lower bound: the join keeps the smaller one.
join(b, c) ==
    [b EXCEPT !.memory = Mem!join(@, c.memory),
              !.fastForwardedBlocking = IC!join(@, c.fastForwardedBlocking),
              !.blockingCounter = IF @ > c.blockingCounter
                                    THEN c.blockingCounter ELSE @]
=============================================================================
