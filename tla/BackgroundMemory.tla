-------------------------- MODULE BackgroundMemory --------------------------
(***************************************************************************)
(* The memory behind the bus: static or dynamic RAM, as the option         *)
(* BackgroundMemoryType says.                                              *)
(***************************************************************************)
EXTENDS Integers

CONSTANTS BackgroundMemoryType, Latency, PerWordLatency, DRAMRefreshLatency

SRAM       == "SRAM"
SIMPLEDRAM == "SIMPLEDRAM"

Sram == INSTANCE FixedLatencyCyclingMemory
Dram == INSTANCE SimpleSDRAMCyclingMemory

isSRAM == BackgroundMemoryType = SRAM

Memory == IF isSRAM THEN Sram!Memory ELSE Dram!Memory

new == IF isSRAM THEN Sram!new ELSE Dram!new
resetLocalMetrics(m) == IF isSRAM THEN Sram!resetLocalMetrics(m)
                                  ELSE Dram!resetLocalMetrics(m)
isBusy(m) == IF isSRAM THEN Sram!isBusy(m) ELSE Dram!isBusy(m)
cycle(m) == IF isSRAM THEN Sram!cycle(m) ELSE Dram!cycle(m)
announceAccess(m, numWords) == IF isSRAM THEN Sram!announceAccess(m, numWords)
                                         ELSE Dram!announceAccess(m, numWords)
fastForward(m) == IF isSRAM THEN Sram!fastForward(m) ELSE Dram!fastForward(m)
isJoinable(m, n) == IF isSRAM THEN Sram!isJoinable(m, n)
                              ELSE Dram!isJoinable(m, n)
join(m, n) == IF isSRAM THEN Sram!join(m, n) ELSE Dram!join(m, n)
=============================================================================
