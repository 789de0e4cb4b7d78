---------------------------- MODULE CyclingMemory ----------------------------
(***************************************************************************)
(* What a memory topology sees of the memory behind it: an access takes    *)
(* some number of cycles, at most MaxLatency.  The memories that produce    *)
(* the latencies (static and dynamic RAM, the blocking bus) are modelled by *)
(* BackgroundMemory and BlockingCyclingMemory; here only the interface that *)
(* they share is kept.  A memory is the number of cycles that are left and  *)
(* whether it asks the pipeline to stall, which only a busy one does        *)
(* (BlockingCyclingMemory::shouldPipelineStall).                            *)
(***************************************************************************)
EXTENDS Naturals

CONSTANTS
    MaxLatency,          \* bound on the cycles of an access
    StallOnLocalWorst    \* option StallOnLocalWorstType: may it stall at all

Memory == [left : 0 .. MaxLatency, stall : BOOLEAN]

new == [left |-> 0, stall |-> FALSE]

isBusy(m) == m.left > 0

shouldPipelineStall(m) == m.stall

announceAccess(m) == { [left |-> l, stall |-> FALSE] : l \in 1 .. MaxLatency }

(* The last cycle of an access never stalls the pipeline. *)
cycle(m) ==
    LET left == IF isBusy(m) THEN m.left - 1 ELSE 0
    IN  { [left |-> left, stall |-> s] :
             s \in { b \in BOOLEAN : b => StallOnLocalWorst /\ left > 0 } }

(* All cycles but the last one are left out. *)
fastForward(m) == { [m EXCEPT !.left = 1] }

(* There are no metrics here. *)
isJoinable(m, n) == m = n
join(m, n) == m
resetLocalMetrics(m) == m
=============================================================================
