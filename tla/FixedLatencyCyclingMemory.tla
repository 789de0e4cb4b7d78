--------------------- MODULE FixedLatencyCyclingMemory ---------------------
(***************************************************************************)
(* A memory that serves one access at a time in a fixed number of cycles.  *)
(* cycle, announceAccess and fastForward return the set of the possible    *)
(* successors of the memory, as the methods of the code return lists.      *)
(***************************************************************************)
EXTENDS Integers

CONSTANTS Latency, PerWordLatency

IC == INSTANCE IntervalCounter

Memory == [timeBlocked : Nat, fastForwardedAccessCycles : IC!Counter]

new == [timeBlocked |-> 0, fastForwardedAccessCycles |-> IC!counter(0)]

resetLocalMetrics(m) == [m EXCEPT !.fastForwardedAccessCycles = IC!counter(0)]

isBusy(m) == m.timeBlocked > 0

cycle(m) == { [m EXCEPT !.timeBlocked = IF @ > 0 THEN @ - 1 ELSE @] }

\* assert(!isBusy()) guards it.
announceAccess(m, numWords) ==
    { [m EXCEPT !.timeBlocked = Latency + numWords * PerWordLatency] }

\* All remaining cycles but one are only counted.
fastForward(m) ==
    { [m EXCEPT !.timeBlocked = 1,
                !.fastForwardedAccessCycles =
                    IC!plus(@, m.timeBlocked - 1, m.timeBlocked - 1)] }

isJoinable(m, n) == m.timeBlocked = n.timeBlocked

join(m, n) == [m EXCEPT !.fastForwardedAccessCycles =
                            IC!join(@, n.fastForwardedAccessCycles)]
=============================================================================
