------------------------- MODULE MemoryTimingProofs -------------------------
(***************************************************************************)
(* Proofs about MemoryTiming: the invariant IInv is inductive for all      *)
(* latencies, sizes of accesses, bounds of the blocking and sets of paths. *)
(*                                                                         *)
(* First the steps of the memory, then those of the bus in front of it     *)
(* keep up with the real access; then each action preserves the invariant  *)
(* of the paths it changes.                                                *)
(***************************************************************************)
EXTENDS MemoryTiming, TLAPS

\* Before the first access nothing is accounted for and nothing has happened.
LEMMA InitInv == Init => IInv
<1> SUFFICES ASSUME Init PROVE IInv
  OBVIOUS
<1> USE DEF Init, new, realIdle, Mem!new, Mem!Sram!new, Mem!Dram!new,
            IC!counter, Mem!Sram!IC!counter, Mem!Dram!IC!counter
<1>1. TypeOK
  BY LatencyAssumption
     DEF TypeOK, BlockingMemory, Real, Mem!Memory, Mem!Sram!Memory, Mem!Dram!Memory,
         Mem!Dram!IDLE, IC!Counter, Mem!Sram!IC!Counter, Mem!Dram!IC!Counter
<1>2. ASSUME NEW p \in Path PROVE MemoryLink(bus[p].memory, real[p])
  <2>1. CASE Mem!isSRAM
    BY <2>1 DEF MemoryLink
  <2>2. CASE ~ Mem!isSRAM
    BY <2>2 DEF MemoryLink, Mem!Dram!IDLE, Mem!Dram!ACCESS, Mem!Dram!REFRESH
  <2>3. QED
    BY <2>1, <2>2
<1>5. ASSUME NEW p \in Path PROVE BlockingLink(bus[p], real[p], cycled[p])
  BY <1>5 DEF BlockingLink, realBusy
<1>6. Link
  BY <1>2, <1>5 DEF Link, PathLink
<1>3. TimeCovered /\ BlockingCounted
  BY LatencyAssumption DEF TimeCovered, BlockingCounted, forwardedCycles
<1>4. QED
  BY <1>1, <1>6, <1>3 DEF IInv

\* Types of the memory states and of the real accesses.
LEMMA MemoryTypes ==
    ASSUME NEW m \in Mem!Memory
    PROVE  /\ m.timeBlocked \in Nat
           /\ m.fastForwardedAccessCycles \in [lb : Nat, ub : Nat]
           /\ Mem!isSRAM => m \in Mem!Sram!Memory
           /\ ~ Mem!isSRAM => /\ m \in Mem!Dram!Memory
                              /\ m.accessPhase \in {"IDLE", "REFRESH", "ACCESS"}
BY DEF Mem!Memory, Mem!Sram!Memory, Mem!Dram!Memory, Mem!Dram!IDLE, Mem!Dram!ACCESS,
       Mem!Dram!REFRESH, Mem!Sram!IC!Counter, Mem!Dram!IC!Counter

\* The memory is busy exactly as long as the access and its refresh last.
LEMMA MemoryBusy ==
    ASSUME NEW m \in Mem!Memory, NEW r \in Real, MemoryLink(m, r)
    PROVE  Mem!isBusy(m) <=> r.access + r.refresh > 0
<1> USE MemoryTypes DEF Real, MemoryLink, Mem!isBusy
<1>1. CASE Mem!isSRAM
  BY <1>1 DEF Mem!Sram!isBusy
<1>2. CASE ~ Mem!isSRAM
  BY <1>2 DEF Mem!Dram!isBusy, Mem!Dram!IDLE, Mem!Dram!ACCESS, Mem!Dram!REFRESH
<1>3. QED
  BY <1>1, <1>2

\* An announced access occupies the memory for the latency of the access.
LEMMA MemoryAnnounce ==
    ASSUME NEW m \in Mem!Memory, NEW r \in Real, NEW q \in Real, NEW numWords \in NumWords,
           MemoryLink(m, r), ~ Mem!isBusy(m),
           q.access = Latency + numWords * PerWordLatency,
           q.refresh <= DRAMRefreshLatency, Mem!isSRAM => q.refresh = 0,
           NEW n \in Mem!announceAccess(m, numWords)
    PROVE  /\ n \in Mem!Memory /\ MemoryLink(n, q)
           /\ n.fastForwardedAccessCycles = m.fastForwardedAccessCycles
<1>1. q.access \in Nat /\ q.access > 0
  <2>1. numWords \in Nat /\ numWords > 0 /\ PerWordLatency \in Nat /\ PerWordLatency > 0
    BY NumWordsAssumption, LatencyAssumption
  <2>2. numWords * PerWordLatency > 0 /\ numWords * PerWordLatency \in Nat
    BY <2>1
  <2>3. QED
    BY <2>2, LatencyAssumption
<1>2. CASE Mem!isSRAM
  BY <1>1, <1>2, MemoryTypes
     DEF Mem!announceAccess, Mem!Sram!announceAccess, Mem!Memory, Mem!Sram!Memory, MemoryLink
<1>3. CASE ~ Mem!isSRAM
  <2>1. /\ m \in Mem!Dram!Memory /\ m.accessPhase = "IDLE"
        /\ ~ m.hasSeenRefresh /\ ~ m.justRefreshed
        /\ n = [m EXCEPT !.accessPhase = "ACCESS", !.timeBlocked = q.access]
    <3>1. m \in Mem!Dram!Memory /\ m.accessPhase = "IDLE"
      BY <1>3, MemoryTypes DEF Mem!isBusy, Mem!Dram!isBusy, Mem!Dram!IDLE
    <3>2. ~ m.hasSeenRefresh /\ ~ m.justRefreshed
      BY <1>3, <3>1 DEF MemoryLink, Mem!Dram!ACCESS, Mem!Dram!REFRESH
    <3>3. n \in Mem!Dram!announceAccess(m, numWords)
      BY <1>3 DEF Mem!announceAccess
    <3>4. PerWordLatency * numWords = numWords * PerWordLatency
      BY NumWordsAssumption, LatencyAssumption
    <3>5. n = [m EXCEPT !.accessPhase = "ACCESS", !.timeBlocked = q.access]
      BY <3>3, <3>4 DEF Mem!Dram!announceAccess, Mem!Dram!ACCESS
    <3>6. QED
      BY <3>1, <3>2, <3>5
  <2>2. n \in Mem!Memory /\ n.fastForwardedAccessCycles = m.fastForwardedAccessCycles
    BY <1>1, <1>3, <2>1 DEF Mem!Memory, Mem!Dram!Memory, Mem!Dram!ACCESS
  <2>3. /\ n.accessPhase = "ACCESS" /\ n.timeBlocked = q.access
        /\ ~ n.hasSeenRefresh /\ ~ n.justRefreshed
    BY <2>1 DEF Mem!Dram!Memory
  <2>4. MemoryLink(n, q)
    BY <1>1, <1>3, <2>3 DEF MemoryLink, Mem!Dram!IDLE, Mem!Dram!ACCESS, Mem!Dram!REFRESH
  <2>5. QED
    BY <2>2, <2>4
<1>4. QED
  BY <1>2, <1>3

\* A cycle of the memory is a cycle of the real access, if it takes the
\* branch that the real access takes.
LEMMA MemoryCycle ==
    ASSUME NEW m \in Mem!Memory, NEW r \in Real, NEW q \in Real,
           MemoryLink(m, r), q = realCycle(r),
           NEW n \in Mem!cycle(m),
           Mem!isBusy(n) <=> q.access + q.refresh > 0,
           ~ Mem!isSRAM => ((n.accessPhase = Mem!Dram!REFRESH) <=>
                              (q.access = 0 /\ q.refresh > 0))
    PROVE  /\ n \in Mem!Memory /\ MemoryLink(n, q)
           /\ n.fastForwardedAccessCycles = m.fastForwardedAccessCycles
           /\ ~ Mem!isSRAM => ~ n.hasSeenRefresh
<1>1. CASE Mem!isSRAM
  <2>1. /\ m \in Mem!Sram!Memory
        /\ n = [m EXCEPT !.timeBlocked = IF @ > 0 THEN @ - 1 ELSE @]
    BY <1>1, MemoryTypes DEF Mem!cycle, Mem!Sram!cycle
  <2>2. QED
    BY <1>1, <2>1, MemoryTypes
       DEF Mem!Memory, Mem!Sram!Memory, MemoryLink, realCycle, Real
<1>2. CASE ~ Mem!isSRAM
  <2> USE MemoryTypes, LatencyAssumption
      DEF Mem!Dram!IDLE, Mem!Dram!ACCESS, Mem!Dram!REFRESH
  <2>1. m \in Mem!Dram!Memory /\ n \in Mem!Dram!cycle(m)
    BY <1>2 DEF Mem!cycle
  <2> DEFINE c == [m EXCEPT !.justRefreshed = FALSE,
                            !.timeBlocked = IF @ > 0 THEN @ - 1 ELSE @]
  <2>2. /\ c \in Mem!Dram!Memory /\ c.accessPhase = m.accessPhase
        /\ c.timeBlocked = (IF m.timeBlocked > 0 THEN m.timeBlocked - 1 ELSE m.timeBlocked)
        /\ c.fastForwardedAccessCycles = m.fastForwardedAccessCycles
        /\ c.hasSeenRefresh = m.hasSeenRefresh /\ ~ c.justRefreshed
    <3> DEFINE left == IF m.timeBlocked > 0 THEN m.timeBlocked - 1 ELSE m.timeBlocked
    <3>1. left \in Nat
      OBVIOUS
    <3>2. c = [m EXCEPT !.justRefreshed = FALSE, !.timeBlocked = left]
      OBVIOUS
    <3> HIDE DEF left
    <3>3. c \in Mem!Dram!Memory
      BY <2>1, <3>1, <3>2 DEF Mem!Dram!Memory
    <3>4. /\ c.accessPhase = m.accessPhase /\ c.timeBlocked = left
          /\ c.fastForwardedAccessCycles = m.fastForwardedAccessCycles
      BY <2>1, <3>1, <3>2 DEF Mem!Dram!Memory
    <3>5. c.hasSeenRefresh = m.hasSeenRefresh
      BY <2>1, <3>2 DEF Mem!Dram!Memory
    <3>6. ~ c.justRefreshed
      BY <2>1, <3>2 DEF Mem!Dram!Memory
    <3>7. QED
      BY <3>3, <3>4, <3>5, <3>6 DEF left
  <2>3. CASE m.accessPhase = "IDLE"
    <3>1. n = c
      BY <2>1, <2>3 DEF Mem!Dram!cycle
    <3>2. q.access = r.access /\ q.refresh = r.refresh
      BY <1>2, <2>3 DEF MemoryLink, realCycle, Real
    <3>3. QED
      BY <1>2, <2>2, <2>3, <3>1, <3>2 DEF Mem!Memory, MemoryLink
  <2>4. CASE m.accessPhase = "ACCESS" /\ r.access > 1
    <3>1. n = c
      BY <1>2, <2>1, <2>4 DEF Mem!Dram!cycle, MemoryLink, Real
    <3>2. q.access = r.access - 1 /\ q.refresh = r.refresh
      BY <2>4 DEF realCycle, Real
    <3>3. QED
      BY <1>2, <2>2, <2>4, <3>1, <3>2 DEF Mem!Memory, MemoryLink
  <2>5. CASE m.accessPhase = "ACCESS" /\ r.access = 1
    <3>1. n \in Mem!Dram!endOfAccess(c)
      BY <1>2, <2>1, <2>5 DEF Mem!Dram!cycle, MemoryLink, Real
    <3>2. q.access = 0 /\ q.refresh = r.refresh
      BY <2>5 DEF realCycle, Real
    <3>3. CASE n = [c EXCEPT !.accessPhase = "IDLE", !.hasSeenRefresh = FALSE]
      <4>1. /\ n \in Mem!Dram!Memory /\ n.accessPhase = "IDLE"
            /\ ~ n.hasSeenRefresh /\ ~ n.justRefreshed
            /\ n.fastForwardedAccessCycles = m.fastForwardedAccessCycles
        BY <2>2, <3>3 DEF Mem!Dram!Memory
      <4>2. q.refresh = 0
        BY <1>2, <3>2, <4>1 DEF Real, Mem!isBusy, Mem!Dram!isBusy
      <4>3. QED
        BY <1>2, <3>2, <4>1, <4>2 DEF Mem!Memory, MemoryLink
    <3>4. CASE /\ ~ c.hasSeenRefresh
               /\ n = [c EXCEPT !.accessPhase = "REFRESH", !.justRefreshed = TRUE,
                                !.timeBlocked = DRAMRefreshLatency]
      <4>1. /\ n \in Mem!Dram!Memory /\ n.accessPhase = "REFRESH"
            /\ n.timeBlocked = DRAMRefreshLatency
            /\ n.fastForwardedAccessCycles = m.fastForwardedAccessCycles
        BY <2>2, <3>4 DEF Mem!Dram!Memory
      <4>2. ~ n.hasSeenRefresh
        BY <2>2, <3>4 DEF Mem!Dram!Memory
      <4>3. q.refresh > 0 /\ q.refresh <= DRAMRefreshLatency
        BY <1>2, <2>5, <3>2, <4>1 DEF MemoryLink
      <4>4. QED
        BY <1>2, <3>2, <4>1, <4>2, <4>3 DEF Mem!Memory, MemoryLink
    <3>5. QED
      BY <3>1, <3>3, <3>4 DEF Mem!Dram!endOfAccess
  <2>6. CASE m.accessPhase = "REFRESH"
    <3>1. n \in Mem!Dram!continueRefresh(c)
      BY <1>2, <2>1, <2>6 DEF Mem!Dram!cycle, MemoryLink, Real
    <3>2. q.access = 0 /\ q.refresh = r.refresh - 1 /\ ~ m.hasSeenRefresh
      BY <1>2, <2>6 DEF realCycle, Real, MemoryLink
    <3>3. CASE n = [c EXCEPT !.accessPhase = "IDLE", !.timeBlocked = 0]
      <4>1. /\ n \in Mem!Dram!Memory /\ n.accessPhase = "IDLE"
            /\ n.fastForwardedAccessCycles = m.fastForwardedAccessCycles
        BY <2>2, <3>3 DEF Mem!Dram!Memory
      <4>2. n.hasSeenRefresh = m.hasSeenRefresh /\ ~ n.justRefreshed
        BY <2>2, <3>3 DEF Mem!Dram!Memory
      <4>3. q.refresh = 0
        BY <1>2, <3>2, <4>1 DEF Real, Mem!isBusy, Mem!Dram!isBusy
      <4>4. QED
        BY <1>2, <3>2, <4>1, <4>2, <4>3 DEF Mem!Memory, MemoryLink
    <3>4. CASE n = c
      <4>1. q.refresh > 0 /\ q.refresh <= c.timeBlocked
        BY <1>2, <2>2, <2>6, <3>2, <3>4 DEF MemoryLink, Real
      <4>2. QED
        BY <1>2, <2>2, <2>6, <3>2, <3>4, <4>1 DEF Mem!Memory, MemoryLink
    <3>5. QED
      BY <3>1, <3>3, <3>4 DEF Mem!Dram!continueRefresh
  <2>7. QED
    BY <1>2, <2>1, <2>3, <2>4, <2>5, <2>6 DEF MemoryLink, Real
<1>3. QED
  BY <1>1, <1>2

\* Some successor of the memory takes the branch that the real access takes.
LEMMA MemoryCycleCovers ==
    ASSUME NEW m \in Mem!Memory, NEW r \in Real, NEW q \in Real,
           MemoryLink(m, r), q = realCycle(r)
    PROVE  \E n \in Mem!cycle(m) :
              /\ Mem!isBusy(n) <=> q.access + q.refresh > 0
              /\ ~ Mem!isSRAM => ((n.accessPhase = Mem!Dram!REFRESH) <=>
                                    (q.access = 0 /\ q.refresh > 0))
<1>1. CASE Mem!isSRAM
  <2> DEFINE n == [m EXCEPT !.timeBlocked = IF @ > 0 THEN @ - 1 ELSE @]
  <2>1. m \in Mem!Sram!Memory
    BY <1>1, MemoryTypes
  <2>2. n.timeBlocked = (IF m.timeBlocked > 0 THEN m.timeBlocked - 1 ELSE m.timeBlocked)
    BY <2>1 DEF Mem!Sram!Memory
  <2>3. Mem!isBusy(n) <=> q.access + q.refresh > 0
    BY <1>1, <2>2, MemoryTypes DEF Mem!isBusy, Mem!Sram!isBusy, MemoryLink, realCycle, Real
  <2>4. n \in Mem!cycle(m)
    BY <1>1 DEF Mem!cycle, Mem!Sram!cycle
  <2>5. QED
    BY <1>1, <2>3, <2>4
<1>2. CASE ~ Mem!isSRAM
  <2> USE MemoryTypes, LatencyAssumption
      DEF Mem!Dram!IDLE, Mem!Dram!ACCESS, Mem!Dram!REFRESH
  <2> DEFINE left == IF m.timeBlocked > 0 THEN m.timeBlocked - 1 ELSE m.timeBlocked
             c == [m EXCEPT !.justRefreshed = FALSE, !.timeBlocked = left]
             idle == [c EXCEPT !.accessPhase = "IDLE", !.hasSeenRefresh = FALSE]
             ref  == [c EXCEPT !.accessPhase = "REFRESH", !.justRefreshed = TRUE,
                               !.timeBlocked = DRAMRefreshLatency]
             endref == [c EXCEPT !.accessPhase = "IDLE", !.timeBlocked = 0]
  <2>1. m \in Mem!Dram!Memory /\ Mem!cycle(m) = Mem!Dram!cycle(m)
    BY <1>2 DEF Mem!cycle
  <2>2. /\ c.accessPhase = m.accessPhase /\ c.timeBlocked = left
        /\ idle.accessPhase = "IDLE" /\ ref.accessPhase = "REFRESH"
        /\ endref.accessPhase = "IDLE"
    BY <2>1 DEF Mem!Dram!Memory
  <2>3. c.hasSeenRefresh = m.hasSeenRefresh
    BY <2>1 DEF Mem!Dram!Memory
  <2>4. Mem!Dram!cycle(m) =
          CASE m.timeBlocked > 0 /\ m.accessPhase = "ACCESS" /\ c.timeBlocked = 0 ->
                 IF c.hasSeenRefresh THEN {idle} ELSE {idle, ref}
            [] m.timeBlocked > 0 /\ m.accessPhase = "REFRESH" ->
                 IF c.timeBlocked = 0 THEN {endref} ELSE {endref, c}
            [] OTHER -> {c}
    BY DEF Mem!Dram!cycle, Mem!Dram!endOfAccess, Mem!Dram!continueRefresh
  <2>a. left = (IF m.timeBlocked > 0 THEN m.timeBlocked - 1 ELSE m.timeBlocked)
    OBVIOUS
  <2> HIDE DEF left, c, idle, ref, endref
  <2>5. CASE m.accessPhase = "IDLE"
    <3>1. c \in Mem!cycle(m)
      BY <2>1, <2>4, <2>5
    <3>2. q.access = 0 /\ q.refresh = 0
      BY <1>2, <2>5 DEF MemoryLink, realCycle, Real
    <3>3. QED
      BY <1>2, <2>2, <2>5, <3>1, <3>2 DEF Mem!isBusy, Mem!Dram!isBusy
  <2>6. CASE m.accessPhase = "ACCESS" /\ r.access > 1
    <3>1. c \in Mem!cycle(m)
      BY <1>2, <2>1, <2>2, <2>4, <2>6, <2>a DEF MemoryLink, Real
    <3>2. q.access > 0
      BY <2>6 DEF realCycle, Real
    <3>3. QED
      BY <1>2, <2>2, <2>6, <3>1, <3>2 DEF Mem!isBusy, Mem!Dram!isBusy, Real
  <2>7. CASE m.accessPhase = "ACCESS" /\ r.access = 1
    <3>1. q.access = 0 /\ q.refresh = r.refresh
      BY <2>7 DEF realCycle, Real
    <3>2. m.timeBlocked = 1 /\ c.timeBlocked = 0
      BY <1>2, <2>2, <2>7, <2>a DEF MemoryLink
    <3>3. CASE r.refresh = 0
      <4>1. idle \in Mem!cycle(m)
        BY <2>1, <2>4, <2>7, <3>2
      <4>2. QED
        BY <1>2, <2>2, <3>1, <3>3, <4>1 DEF Mem!isBusy, Mem!Dram!isBusy
    <3>4. CASE r.refresh > 0
      <4>1. ~ c.hasSeenRefresh
        BY <1>2, <2>3, <3>4 DEF MemoryLink
      <4>2. ref \in Mem!cycle(m)
        BY <2>1, <2>4, <2>7, <3>2, <4>1
      <4>3. QED
        BY <1>2, <2>2, <3>1, <3>4, <4>2 DEF Mem!isBusy, Mem!Dram!isBusy, Real
    <3>5. QED
      BY <3>3, <3>4 DEF Real
  <2>8. CASE m.accessPhase = "REFRESH"
    <3>1. /\ q.access = 0 /\ q.refresh = r.refresh - 1 /\ r.refresh > 0
          /\ r.refresh <= m.timeBlocked
      BY <1>2, <2>8 DEF MemoryLink, realCycle, Real
    <3>2. CASE q.refresh = 0
      <4>1. endref \in Mem!cycle(m)
        BY <2>1, <2>2, <2>4, <2>8, <2>a, <3>1, <3>2 DEF Real
      <4>2. QED
        BY <1>2, <2>2, <3>1, <3>2, <4>1 DEF Mem!isBusy, Mem!Dram!isBusy
    <3>3. CASE q.refresh > 0
      <4>1. c.timeBlocked > 0 /\ m.timeBlocked > 0
        BY <2>2, <2>a, <3>1, <3>3 DEF Real
      <4>2. c \in Mem!cycle(m)
        BY <2>1, <2>4, <2>8, <4>1
      <4>3. QED
        BY <1>2, <2>2, <2>8, <3>1, <3>3, <4>2 DEF Mem!isBusy, Mem!Dram!isBusy, Real
    <3>4. QED
      BY <3>2, <3>3 DEF Real
  <2>9. QED
    BY <1>2, <2>1, <2>5, <2>6, <2>7, <2>8 DEF MemoryLink, Real
<1>3. QED
  BY <1>1, <1>2

\* A fast-forward of the memory leaves the last cycle of the access or of the
\* refresh, and its bounds cover the cycles it leaves out.
LEMMA MemoryFastForward ==
    ASSUME NEW m \in Mem!Memory, NEW r \in Real, NEW q \in Real,
           MemoryLink(m, r), r.access + r.refresh > 0, q = realLast(r),
           NEW n \in Mem!fastForward(m),
           ~ Mem!isSRAM => ~ m.hasSeenRefresh,
           ~ Mem!isSRAM /\ r.access > 0 => (n.justRefreshed <=> r.refresh > 0)
    PROVE  /\ n \in Mem!Memory /\ MemoryLink(n, q) /\ Mem!isBusy(n)
           /\ n.fastForwardedAccessCycles.lb - m.fastForwardedAccessCycles.lb
                <= r.access + r.refresh - 1
           /\ r.access + r.refresh - 1
                <= n.fastForwardedAccessCycles.ub - m.fastForwardedAccessCycles.ub
<1> DEFINE ff == m.fastForwardedAccessCycles
           left == m.timeBlocked - 1
<1>a. ff.lb \in Nat /\ ff.ub \in Nat /\ left = m.timeBlocked - 1
  BY MemoryTypes
<1> HIDE DEF left
<1>1. CASE Mem!isSRAM
  <2>1. m \in Mem!Sram!Memory /\ m.timeBlocked = r.access /\ r.access > 0 /\ r.refresh = 0
    BY <1>1, MemoryTypes DEF MemoryLink, Real
  <2>a. left \in Nat
    BY <1>a, <2>1 DEF Real
  <2> DEFINE f == [lb |-> ff.lb + left, ub |-> ff.ub + left]
  <2>b. f \in [lb : Nat, ub : Nat] /\ f.lb = ff.lb + left /\ f.ub = ff.ub + left
    BY <1>a, <2>a
  <2> HIDE DEF f
  <2>2. n = [m EXCEPT !.timeBlocked = 1, !.fastForwardedAccessCycles = f]
    BY <1>1 DEF Mem!fastForward, Mem!Sram!fastForward, Mem!Sram!IC!plus, left, f
  <2>3. /\ n \in Mem!Sram!Memory /\ n.timeBlocked = 1
        /\ n.fastForwardedAccessCycles = f
    BY <2>1, <2>2, <2>b DEF Mem!Sram!Memory, Mem!Sram!IC!Counter
  <2>4. q.access = 1 /\ q.refresh = 0
    BY <2>1 DEF realLast, Real
  <2>5. n \in Mem!Memory /\ MemoryLink(n, q) /\ Mem!isBusy(n)
    BY <1>1, <2>3, <2>4 DEF Mem!Memory, MemoryLink, Mem!isBusy, Mem!Sram!isBusy
  <2>6. left = r.access + r.refresh - 1
    BY <1>a, <2>1 DEF Real
  <2>7. QED
    BY <1>a, <2>3, <2>5, <2>6, <2>a, <2>b
<1>2. CASE ~ Mem!isSRAM
  <2> USE MemoryTypes, LatencyAssumption
      DEF Mem!Dram!IDLE, Mem!Dram!ACCESS, Mem!Dram!REFRESH
  <2>1. m \in Mem!Dram!Memory /\ n \in Mem!Dram!fastForward(m)
    BY <1>2 DEF Mem!fastForward
  <2>2. CASE m.accessPhase = "ACCESS"
    <3>1. /\ r.access > 0 /\ m.timeBlocked = r.access /\ r.refresh <= DRAMRefreshLatency
          /\ left \in Nat
      BY <1>2, <1>a, <2>2 DEF MemoryLink, Real
    <3>2. q.access = 1 /\ q.refresh = 0
      BY <3>1 DEF realLast, Real
    <3> DEFINE f == [lb |-> ff.lb + left, ub |-> ff.ub + (left + DRAMRefreshLatency)]
               g == [lb |-> ff.lb + left, ub |-> ff.ub + left]
    <3>a. f \in [lb : Nat, ub : Nat] /\ g \in [lb : Nat, ub : Nat]
      BY <1>a, <3>1
    <3>b. /\ f.lb = ff.lb + left /\ f.ub = ff.ub + left + DRAMRefreshLatency
          /\ g.lb = ff.lb + left /\ g.ub = ff.ub + left
      BY <1>a, <3>1
    <3> HIDE DEF f, g
    <3> DEFINE ref == [m EXCEPT !.timeBlocked = 1, !.hasSeenRefresh = TRUE,
                            !.justRefreshed = TRUE,
                            !.fastForwardedAccessCycles = f]
               noref == [m EXCEPT !.timeBlocked = 1, !.hasSeenRefresh = TRUE,
                            !.fastForwardedAccessCycles = g]
    <3>3. n = ref \/ n = noref
      BY <2>1, <2>2 DEF Mem!Dram!fastForward, Mem!Dram!IC!plus, left, f, g
    <3>4. /\ ref \in Mem!Dram!Memory /\ ref.accessPhase = "ACCESS" /\ ref.timeBlocked = 1
          /\ ref.fastForwardedAccessCycles = f
      BY <2>1, <2>2, <3>a DEF Mem!Dram!Memory, Mem!Dram!IC!Counter
    <3>5. /\ noref \in Mem!Dram!Memory /\ noref.accessPhase = "ACCESS" /\ noref.timeBlocked = 1
          /\ noref.fastForwardedAccessCycles = g
      BY <2>1, <2>2, <3>a DEF Mem!Dram!Memory, Mem!Dram!IC!Counter
    <3>6. n \in Mem!Dram!Memory /\ n.accessPhase = "ACCESS" /\ n.timeBlocked = 1
      BY <3>3, <3>4, <3>5
    <3>c. n.hasSeenRefresh
      BY <2>1, <3>3 DEF Mem!Dram!Memory
    <3>7. n \in Mem!Memory /\ MemoryLink(n, q) /\ Mem!isBusy(n)
      BY <1>2, <3>2, <3>6, <3>c DEF Mem!Memory, MemoryLink, Mem!isBusy, Mem!Dram!isBusy
    <3>8. \/ n.fastForwardedAccessCycles = f
          \/ n.fastForwardedAccessCycles = g /\ r.refresh = 0
      <4>1. CASE n = ref
        BY <3>4, <4>1
      <4>2. CASE n = noref
        <5>1. ~ m.justRefreshed
          BY <1>2, <2>2 DEF MemoryLink
        <5>2. ~ n.justRefreshed
          BY <2>1, <4>2, <5>1 DEF Mem!Dram!Memory
        <5>3. r.refresh = 0
          BY <1>2, <3>1, <5>2 DEF Real
        <5>4. QED
          BY <3>5, <4>2, <5>3
      <4>3. QED
        BY <3>3, <4>1, <4>2
    <3>9. QED
      BY <1>a, <3>1, <3>7, <3>8, <3>b DEF Real
  <2>3. CASE m.accessPhase = "REFRESH"
    <3>1. /\ r.access = 0 /\ r.refresh > 0 /\ r.refresh <= m.timeBlocked
          /\ left \in Nat
      BY <1>2, <1>a, <2>3 DEF MemoryLink, Real
    <3>2. q.access = 0 /\ q.refresh = 1
      BY <3>1 DEF realLast, Real
    <3> DEFINE f == [lb |-> ff.lb + 0, ub |-> ff.ub + left]
    <3>a. f \in [lb : Nat, ub : Nat] /\ f.lb = ff.lb /\ f.ub = ff.ub + left
      BY <1>a, <3>1
    <3> HIDE DEF f
    <3>3. n = [m EXCEPT !.timeBlocked = 1, !.fastForwardedAccessCycles = f]
      BY <2>1, <2>3 DEF Mem!Dram!fastForward, Mem!Dram!IC!plus, left, f
    <3>4. /\ n \in Mem!Dram!Memory /\ n.accessPhase = "REFRESH" /\ n.timeBlocked = 1
          /\ n.fastForwardedAccessCycles = f
      BY <2>1, <2>3, <3>3, <3>a DEF Mem!Dram!Memory, Mem!Dram!IC!Counter
    <3>5. ~ n.hasSeenRefresh
      <4>1. n.hasSeenRefresh = m.hasSeenRefresh
        BY <2>1, <3>3 DEF Mem!Dram!Memory
      <4>2. QED
        BY <1>2, <2>3, <4>1 DEF MemoryLink
    <3>6. n \in Mem!Memory /\ MemoryLink(n, q) /\ Mem!isBusy(n)
      BY <1>2, <3>2, <3>4, <3>5 DEF Mem!Memory, MemoryLink, Mem!isBusy, Mem!Dram!isBusy
    <3>7. QED
      BY <1>a, <3>1, <3>4, <3>6, <3>a DEF Real
  <2>4. QED
    BY <1>2, <2>1, <2>2, <2>3 DEF MemoryLink, Real
<1>3. QED
  BY <1>1, <1>2

\* Some fast-forward of the memory accounts for the refresh that happens.
LEMMA MemoryFastForwardCovers ==
    ASSUME NEW m \in Mem!Memory, NEW r \in Real, MemoryLink(m, r),
           r.access + r.refresh > 0, ~ Mem!isSRAM => ~ m.hasSeenRefresh
    PROVE  \E n \in Mem!fastForward(m) :
              ~ Mem!isSRAM /\ r.access > 0 => (n.justRefreshed <=> r.refresh > 0)
<1>1. CASE Mem!isSRAM
  BY <1>1 DEF Mem!fastForward, Mem!Sram!fastForward
<1>2. CASE ~ Mem!isSRAM /\ m.accessPhase = "ACCESS"
  <2> DEFINE f == Mem!Dram!IC!plus(m.fastForwardedAccessCycles, m.timeBlocked - 1,
                                   m.timeBlocked - 1 + DRAMRefreshLatency)
             g == Mem!Dram!IC!plus(m.fastForwardedAccessCycles, m.timeBlocked - 1,
                                   m.timeBlocked - 1)
             ref == [m EXCEPT !.timeBlocked = 1, !.hasSeenRefresh = TRUE,
                              !.justRefreshed = TRUE, !.fastForwardedAccessCycles = f]
             noref == [m EXCEPT !.timeBlocked = 1, !.hasSeenRefresh = TRUE,
                                !.fastForwardedAccessCycles = g]
  <2>1. Mem!fastForward(m) = {ref, noref}
    BY <1>2 DEF Mem!fastForward, Mem!Dram!fastForward, Mem!Dram!ACCESS
  <2> HIDE DEF f, g
  <2>2. m \in Mem!Dram!Memory
    BY <1>2, MemoryTypes
  <2>3. ~ m.justRefreshed
    BY <1>2 DEF MemoryLink, Mem!Dram!REFRESH
  <2>4. ref.justRefreshed /\ ~ noref.justRefreshed
    BY <2>2, <2>3 DEF Mem!Dram!Memory
  <2>5. CASE r.refresh > 0
    BY <2>1, <2>4, <2>5
  <2>6. CASE ~ (r.refresh > 0)
    BY <2>1, <2>4, <2>6
  <2>7. QED
    BY <2>5, <2>6
<1>3. CASE ~ Mem!isSRAM /\ m.accessPhase = "REFRESH"
  <2>1. r.access = 0
    BY <1>3 DEF MemoryLink, Mem!Dram!REFRESH
  <2>2. \E n : n \in Mem!fastForward(m)
    BY <1>3 DEF Mem!fastForward, Mem!Dram!fastForward, Mem!Dram!ACCESS
  <2>3. QED
    BY <2>1, <2>2
<1>4. QED
  BY <1>1, <1>2, <1>3, MemoryTypes DEF MemoryLink, Mem!Dram!IDLE, Real

\* Joinable memories are in the same phase, so that the joined memory stands
\* for both real accesses, and its bounds cover the bounds of both.
LEMMA MemoryJoin ==
    ASSUME NEW m \in Mem!Memory, NEW n \in Mem!Memory, Mem!isJoinable(m, n),
           NEW r \in Real, NEW q \in Real, MemoryLink(m, r), MemoryLink(n, q)
    PROVE  LET j == Mem!join(m, n) IN
           /\ j \in Mem!Memory /\ MemoryLink(j, r) /\ MemoryLink(j, q)
           /\ ~ Mem!isSRAM => j.hasSeenRefresh = m.hasSeenRefresh
           /\ Mem!isBusy(j) <=> Mem!isBusy(m)
           /\ j.fastForwardedAccessCycles.lb <= m.fastForwardedAccessCycles.lb
           /\ j.fastForwardedAccessCycles.lb <= n.fastForwardedAccessCycles.lb
           /\ j.fastForwardedAccessCycles.ub >= m.fastForwardedAccessCycles.ub
           /\ j.fastForwardedAccessCycles.ub >= n.fastForwardedAccessCycles.ub
<1> DEFINE j == Mem!join(m, n)
           mf == m.fastForwardedAccessCycles
           nf == n.fastForwardedAccessCycles
           f == [lb |-> IF mf.lb > nf.lb THEN nf.lb ELSE mf.lb,
                 ub |-> IF mf.ub < nf.ub THEN nf.ub ELSE mf.ub]
<1>1. /\ f \in [lb : Nat, ub : Nat] /\ f.lb <= mf.lb /\ f.lb <= nf.lb
      /\ f.ub >= mf.ub /\ f.ub >= nf.ub
  BY MemoryTypes
<1>2. CASE Mem!isSRAM
  <2>1. j = [m EXCEPT !.fastForwardedAccessCycles = f]
    BY <1>2 DEF Mem!join, Mem!Sram!join, Mem!Sram!IC!join
  <2> HIDE DEF j, f
  <2>2. m \in Mem!Sram!Memory /\ m.timeBlocked = n.timeBlocked
    BY <1>2, MemoryTypes DEF Mem!isJoinable, Mem!Sram!isJoinable
  <2>3. /\ j \in Mem!Sram!Memory /\ j.timeBlocked = m.timeBlocked
        /\ j.fastForwardedAccessCycles = f
    BY <1>1, <2>1, <2>2 DEF Mem!Sram!Memory, Mem!Sram!IC!Counter
  <2>4. j \in Mem!Memory /\ MemoryLink(j, r) /\ MemoryLink(j, q) /\ (Mem!isBusy(j) <=> Mem!isBusy(m))
    BY <1>2, <2>2, <2>3 DEF Mem!Memory, MemoryLink, Mem!isBusy, Mem!Sram!isBusy
  <2>5. QED
    BY <1>1, <1>2, <2>3, <2>4 DEF j
<1>3. CASE ~ Mem!isSRAM
  <2>1. j = [m EXCEPT !.justRefreshed = m.justRefreshed /\ n.justRefreshed,
                      !.fastForwardedAccessCycles = f]
    BY <1>3 DEF Mem!join, Mem!Dram!join, Mem!Dram!IC!join
  <2> HIDE DEF j, f
  <2>2. /\ m \in Mem!Dram!Memory /\ n \in Mem!Dram!Memory
        /\ m.accessPhase = n.accessPhase /\ m.timeBlocked = n.timeBlocked
    BY <1>3, MemoryTypes DEF Mem!isJoinable, Mem!Dram!isJoinable
  <2>3. m.hasSeenRefresh = n.hasSeenRefresh
    BY <1>3 DEF Mem!isJoinable, Mem!Dram!isJoinable
  <2>4. /\ j \in Mem!Dram!Memory /\ j.timeBlocked = m.timeBlocked
        /\ j.accessPhase = m.accessPhase /\ j.fastForwardedAccessCycles = f
    BY <1>1, <2>1, <2>2 DEF Mem!Dram!Memory, Mem!Dram!IC!Counter
  <2>5. j.hasSeenRefresh = m.hasSeenRefresh
    BY <2>1, <2>2 DEF Mem!Dram!Memory
  <2>6. j.justRefreshed => m.justRefreshed /\ n.justRefreshed
    BY <2>1, <2>2 DEF Mem!Dram!Memory
  <2>7. MemoryLink(j, r)
    BY <1>3, <2>4, <2>5, <2>6 DEF MemoryLink
  <2>8. MemoryLink(j, q)
    BY <1>3, <2>2, <2>3, <2>4, <2>5, <2>6 DEF MemoryLink
  <2>9. j \in Mem!Memory /\ (Mem!isBusy(j) <=> Mem!isBusy(m))
    BY <1>3, <2>4 DEF Mem!Memory, Mem!isBusy, Mem!Dram!isBusy
  <2>10. QED
    BY <1>1, <2>4, <2>5, <2>7, <2>8, <2>9 DEF j
<1>4. QED
  BY <1>2, <1>3

\* Setting back the metrics leaves the access as it is.
LEMMA MemoryReset ==
    ASSUME NEW m \in Mem!Memory, NEW r \in Real, MemoryLink(m, r),
           NEW n, n = Mem!resetLocalMetrics(m)
    PROVE  /\ n \in Mem!Memory /\ MemoryLink(n, r)
           /\ ~ Mem!isSRAM => n.hasSeenRefresh = m.hasSeenRefresh
           /\ n.fastForwardedAccessCycles.lb = 0 /\ n.fastForwardedAccessCycles.ub = 0
<1> DEFINE f == [lb |-> 0, ub |-> 0]
<1>1. f \in [lb : Nat, ub : Nat] /\ f.lb = 0 /\ f.ub = 0
  OBVIOUS
<1>2. CASE Mem!isSRAM
  <2>1. m \in Mem!Sram!Memory /\ n = [m EXCEPT !.fastForwardedAccessCycles = f]
    BY <1>2, MemoryTypes DEF Mem!resetLocalMetrics, Mem!Sram!resetLocalMetrics, Mem!Sram!IC!counter
  <2> HIDE DEF f
  <2>2. /\ n \in Mem!Sram!Memory /\ n.timeBlocked = m.timeBlocked
        /\ n.fastForwardedAccessCycles = f
    BY <1>1, <2>1 DEF Mem!Sram!Memory, Mem!Sram!IC!Counter
  <2>3. QED
    BY <1>1, <1>2, <2>2 DEF Mem!Memory, MemoryLink
<1>3. CASE ~ Mem!isSRAM
  <2>1. /\ m \in Mem!Dram!Memory
        /\ n = [m EXCEPT !.justRefreshed = FALSE, !.fastForwardedAccessCycles = f]
    BY <1>3, MemoryTypes DEF Mem!resetLocalMetrics, Mem!Dram!resetLocalMetrics, Mem!Dram!IC!counter
  <2> HIDE DEF f
  <2>2. /\ n \in Mem!Dram!Memory /\ n.timeBlocked = m.timeBlocked
        /\ n.accessPhase = m.accessPhase /\ n.fastForwardedAccessCycles = f
    BY <1>1, <2>1 DEF Mem!Dram!Memory, Mem!Dram!IC!Counter
  <2>3. n.hasSeenRefresh = m.hasSeenRefresh
    BY <2>1 DEF Mem!Dram!Memory
  <2>4. ~ n.justRefreshed
    BY <2>1 DEF Mem!Dram!Memory
  <2>5. n \in Mem!Memory /\ MemoryLink(n, r)
    BY <1>3, <2>2, <2>3, <2>4 DEF Mem!Memory, MemoryLink
  <2>6. QED
    BY <1>1, <2>2, <2>3, <2>5
<1>4. QED
  BY <1>2, <1>3

-----------------------------------------------------------------------------
(* The bus in front of the memory.                                         *)

\* Types of the parts of the bus.
LEMMA BusTypes ==
    ASSUME NEW b \in BlockingMemory
    PROVE  /\ b.memory \in Mem!Memory /\ b.addedBlocking \in Nat
           /\ b.blockingCounter \in Nat /\ b.fastForwardedBlocking \in [lb : Nat, ub : Nat]
           /\ b.delayedAccess \in BOOLEAN
BY DEF BlockingMemory, IC!Counter

\* The phases of the real access that the cycles of the analysis tell apart.
LEMMA RealTypes ==
    ASSUME NEW r \in Real
    PROVE  /\ r.access \in Nat /\ r.refresh \in Nat /\ r.blocking \in Nat
           /\ realCycle(r) \in Real /\ realLast(r) \in Real
           /\ r.access + r.refresh > 0 =>
                /\ realCycle(r).access + realCycle(r).refresh = r.access + r.refresh - 1
                /\ realCycle(r).blocking = r.blocking
                /\ realLast(r).access + realLast(r).refresh = 1 /\ realLast(r).blocking = 0
           /\ r.access + r.refresh = 0 =>
                /\ realCycle(r).access + realCycle(r).refresh = 0
                /\ realCycle(r).blocking = IF r.blocking > 0 THEN r.blocking - 1 ELSE 0
                /\ realLast(r).access + realLast(r).refresh = 0 /\ realLast(r).blocking = 1
<1>1. /\ r.access \in Nat /\ r.refresh \in Nat /\ r.blocking \in Nat
      /\ realCycle(r) \in Real /\ realLast(r) \in Real
  BY DEF Real, realCycle, realLast
<1>2. CASE r.access > 0
  BY <1>1, <1>2 DEF Real, realCycle, realLast
<1>3. CASE r.access = 0 /\ r.refresh > 0
  BY <1>1, <1>3 DEF Real, realCycle, realLast
<1>4. CASE r.access = 0 /\ r.refresh = 0
  BY <1>1, <1>4 DEF Real, realCycle, realLast
<1>5. QED
  BY <1>1, <1>2, <1>3, <1>4

\* The bus is busy exactly as long as the real access is not finished.
LEMMA BusBusy ==
    ASSUME NEW b \in BlockingMemory, NEW r \in Real, NEW c \in BOOLEAN, PathLink(b, r, c)
    PROVE  /\ isBusy(b) <=> realBusy(r)
           /\ b.delayedAccess <=> realBusy(r)
           /\ Mem!isBusy(b.memory) <=> r.access + r.refresh > 0
<1>1. Mem!isBusy(b.memory) <=> r.access + r.refresh > 0
  BY BusTypes, MemoryBusy DEF PathLink
<1>2. b.delayedAccess <=> realBusy(r)
  BY DEF PathLink, BlockingLink
<1>3. realBusy(r) <=> r.access + r.refresh + r.blocking > 0
  BY DEF realBusy
<1>4. r.access + r.refresh > 0 => realBusy(r)
  BY <1>3, RealTypes
<1>5. QED
  BY <1>1, <1>2, <1>4 DEF isBusy

\* An announced access occupies the bus until its blocking is over.
LEMMA BusAnnounce ==
    ASSUME NEW b \in BlockingMemory, NEW r \in Real, NEW c \in BOOLEAN, PathLink(b, r, c),
           ~ isBusy(b), NEW q \in Real, NEW numWords \in NumWords,
           q.access = Latency + numWords * PerWordLatency,
           q.refresh <= DRAMRefreshLatency, Mem!isSRAM => q.refresh = 0,
           q.blocking <= MaxBlockingPerAccess,
           NEW n \in announceAccess(b, numWords)
    PROVE  /\ n \in BlockingMemory /\ PathLink(n, q, FALSE)
           /\ n.memory.fastForwardedAccessCycles = b.memory.fastForwardedAccessCycles
           /\ n.fastForwardedBlocking = b.fastForwardedBlocking
           /\ n.blockingCounter = b.blockingCounter
<1>1. PICK m \in Mem!announceAccess(b.memory, numWords) :
         n = [b EXCEPT !.memory = m, !.delayedAccess = TRUE]
  BY DEF announceAccess
<1>2. ~ Mem!isBusy(b.memory) /\ ~ realBusy(r)
  BY BusBusy DEF isBusy
<1>3. /\ m \in Mem!Memory /\ MemoryLink(m, q)
      /\ m.fastForwardedAccessCycles = b.memory.fastForwardedAccessCycles
  BY <1>2, BusTypes, MemoryAnnounce DEF PathLink
<1>4. /\ n \in BlockingMemory /\ n.memory = m /\ n.addedBlocking = b.addedBlocking
      /\ n.fastForwardedBlocking = b.fastForwardedBlocking
      /\ n.blockingCounter = b.blockingCounter
  BY <1>1, <1>3 DEF BlockingMemory
<1>5. n.delayedAccess
  BY <1>1 DEF BlockingMemory
<1>6. b.addedBlocking = 0
  BY <1>2, RealTypes DEF PathLink, BlockingLink, realBusy
<1>7. q.access > 0
  <2>1. numWords * PerWordLatency > 0 /\ numWords * PerWordLatency \in Nat
    BY NumWordsAssumption, LatencyAssumption
  <2>2. QED
    BY <2>1, LatencyAssumption
<1>8. q.access + q.refresh > 0 /\ q.access + q.refresh + q.blocking > 0
  BY <1>7, RealTypes
<1>9. BlockingLink(n, q, FALSE)
  BY <1>4, <1>5, <1>6, <1>8 DEF BlockingLink, realBusy
<1>10. QED
  BY <1>3, <1>4, <1>9 DEF PathLink

\* A cycle of the bus is a cycle of the real access, if it takes the branch
\* that the real access takes.
LEMMA BusCycle ==
    ASSUME NEW b \in BlockingMemory, NEW r \in Real, NEW c \in BOOLEAN, PathLink(b, r, c),
           isBusy(b), NEW q \in Real, q = realCycle(r),
           NEW n \in cycle(b), Consistent(n, q)
    PROVE  /\ n \in BlockingMemory /\ PathLink(n, q, TRUE)
           /\ n.memory.fastForwardedAccessCycles = b.memory.fastForwardedAccessCycles
           /\ n.fastForwardedBlocking = b.fastForwardedBlocking
           /\ n.blockingCounter <= b.blockingCounter + (IF inBlocking(q) THEN 1 ELSE 0)
<1>1. PICK m \in Mem!cycle(b.memory) :
         n \in IF Mem!isBusy(m) THEN {[b EXCEPT !.memory = m]}
                                ELSE performSplit([b EXCEPT !.memory = m])
  BY DEF cycle
<1> DEFINE r0 == [b EXCEPT !.memory = m]
           longer == [r0 EXCEPT !.addedBlocking = @ + 1, !.blockingCounter = @ + 1]
           noLonger == [r0 EXCEPT !.delayedAccess = FALSE, !.addedBlocking = 0]
<1>2. b.delayedAccess /\ realBusy(r)
  BY BusBusy
<1>3. r0.delayedAccess
  BY <1>2 DEF BlockingMemory
<1>4. r0.addedBlocking = b.addedBlocking
  BY DEF BlockingMemory
<1>5. \/ Mem!isBusy(m) /\ n = r0
      \/ ~ Mem!isBusy(m) /\ b.addedBlocking < MaxBlockingPerAccess /\ n = longer
      \/ ~ Mem!isBusy(m) /\ n = noLonger
  BY <1>1, <1>3, <1>4 DEF performSplit
<1>6. n.memory = m
  BY <1>5 DEF BlockingMemory
<1>7. /\ m \in Mem!Memory /\ MemoryLink(m, q)
      /\ m.fastForwardedAccessCycles = b.memory.fastForwardedAccessCycles
      /\ ~ Mem!isSRAM => ~ m.hasSeenRefresh
  <2>1. Mem!isBusy(m) <=> q.access + q.refresh > 0
    BY <1>6 DEF Consistent
  <2>2. ~ Mem!isSRAM => ((m.accessPhase = Mem!Dram!REFRESH) <=>
                           (q.access = 0 /\ q.refresh > 0))
    BY <1>6 DEF Consistent
  <2>3. b.memory \in Mem!Memory /\ MemoryLink(b.memory, r)
    BY BusTypes DEF PathLink
  <2>4. QED
    BY <2>1, <2>2, <2>3, MemoryCycle
<1>8. Mem!isBusy(m) <=> q.access + q.refresh > 0
  BY <1>7, MemoryBusy
<1>9. isBusy(n) <=> realBusy(q)
  BY DEF Consistent
<1>10. b.addedBlocking \in Nat /\ b.blockingCounter \in Nat /\ MaxBlockingPerAccess \in Nat
  BY BusTypes, LatencyAssumption
<1>11. CASE Mem!isBusy(m) /\ n = r0
  <2>1. /\ n \in BlockingMemory /\ n.addedBlocking = b.addedBlocking
        /\ n.fastForwardedBlocking = b.fastForwardedBlocking
        /\ n.blockingCounter = b.blockingCounter
    BY <1>7, <1>11 DEF BlockingMemory
  <2>2. r.access + r.refresh > 0 /\ q.access + q.refresh > 0 /\ q.blocking = r.blocking
    <3>1. q.access + q.refresh > 0
      BY <1>8, <1>11
    <3>2. ~ (r.access + r.refresh = 0)
      BY <3>1, RealTypes
    <3>3. r.access + r.refresh > 0
      BY <3>2, RealTypes
    <3>4. QED
      BY <3>1, <3>3, RealTypes
  <2>3. b.addedBlocking = 0 /\ r.blocking <= MaxBlockingPerAccess
    BY <2>2, RealTypes DEF PathLink, BlockingLink
  <2>4. n.delayedAccess <=> realBusy(q)
    BY <1>3, <1>9, <1>11 DEF isBusy
  <2>5. BlockingLink(n, q, TRUE)
    BY <2>1, <2>2, <2>3, <2>4 DEF BlockingLink
  <2>6. PathLink(n, q, TRUE)
    BY <1>6, <1>7, <2>5 DEF PathLink
  <2>7. QED
    <3>1. n.memory.fastForwardedAccessCycles = b.memory.fastForwardedAccessCycles
      BY <1>6, <1>7
    <3>2. n.blockingCounter <= b.blockingCounter + (IF inBlocking(q) THEN 1 ELSE 0)
      BY <1>10, <2>1
    <3>3. QED
      BY <2>1, <2>6, <3>1, <3>2
<1>12. CASE ~ Mem!isBusy(m) /\ b.addedBlocking < MaxBlockingPerAccess /\ n = longer
  <2>1. /\ n \in BlockingMemory /\ n.addedBlocking = b.addedBlocking + 1
        /\ n.fastForwardedBlocking = b.fastForwardedBlocking
        /\ n.blockingCounter = b.blockingCounter + 1
    <3>1. b.addedBlocking + 1 \in Nat /\ b.blockingCounter + 1 \in Nat
      BY <1>10
    <3>2. n = [b EXCEPT !.memory = m, !.addedBlocking = b.addedBlocking + 1,
                        !.blockingCounter = b.blockingCounter + 1]
      BY <1>12 DEF BlockingMemory
    <3>3. QED
      BY <1>7, <3>1, <3>2 DEF BlockingMemory
  <2>2. n.delayedAccess
    BY <1>3, <1>12 DEF BlockingMemory
  <2>3. q.access + q.refresh = 0 /\ q.blocking > 0
    <3>1. realBusy(q)
      BY <1>9, <2>2 DEF isBusy
    <3>2. QED
      BY <1>8, <1>12, <3>1, RealTypes DEF realBusy
  <2>4. n.addedBlocking + q.blocking <= MaxBlockingPerAccess + 1
    <3>1. CASE r.access + r.refresh > 0
      BY <1>10, <1>12, <2>1, <3>1, RealTypes DEF PathLink, BlockingLink
    <3>2. CASE r.access + r.refresh = 0
      BY <1>10, <1>12, <2>1, <2>3, <3>2, RealTypes DEF PathLink, BlockingLink
    <3>3. r.access + r.refresh > 0 \/ r.access + r.refresh = 0
      BY RealTypes
    <3>4. QED
      BY <3>1, <3>2, <3>3
  <2>5. inBlocking(q)
    BY <2>3 DEF inBlocking
  <2>6. realBusy(q)
    BY <2>3, RealTypes DEF realBusy
  <2>7. BlockingLink(n, q, TRUE)
    BY <1>10, <2>1, <2>2, <2>3, <2>4, <2>6 DEF BlockingLink
  <2>8. PathLink(n, q, TRUE)
    BY <1>6, <1>7, <2>7 DEF PathLink
  <2>9. QED
    <3>1. n.memory.fastForwardedAccessCycles = b.memory.fastForwardedAccessCycles
      BY <1>6, <1>7
    <3>2. n.blockingCounter <= b.blockingCounter + (IF inBlocking(q) THEN 1 ELSE 0)
      BY <1>10, <2>5, <2>1
    <3>3. QED
      BY <2>1, <2>8, <3>1, <3>2
<1>13. CASE ~ Mem!isBusy(m) /\ n = noLonger
  <2>1. /\ n \in BlockingMemory /\ n.addedBlocking = 0
        /\ n.fastForwardedBlocking = b.fastForwardedBlocking
        /\ n.blockingCounter = b.blockingCounter
    BY <1>7, <1>13 DEF BlockingMemory
  <2>2. ~ n.delayedAccess
    BY <1>13 DEF BlockingMemory
  <2>3. ~ realBusy(q)
    BY <1>6, <1>9, <1>13, <2>2 DEF isBusy
  <2>4. q.access + q.refresh = 0 /\ q.blocking = 0
    BY <2>3, RealTypes DEF realBusy
  <2>5. BlockingLink(n, q, TRUE)
    BY <2>1, <2>2, <2>3, <2>4 DEF BlockingLink
  <2>6. PathLink(n, q, TRUE)
    BY <1>6, <1>7, <2>5 DEF PathLink
  <2>7. QED
    <3>1. n.memory.fastForwardedAccessCycles = b.memory.fastForwardedAccessCycles
      BY <1>6, <1>7
    <3>2. n.blockingCounter <= b.blockingCounter + (IF inBlocking(q) THEN 1 ELSE 0)
      BY <1>10, <2>1
    <3>3. QED
      BY <2>1, <2>6, <3>1, <3>2
<1>14. QED
  BY <1>5, <1>11, <1>12, <1>13

\* A linked analysis state is the one that stands for the real state.
LEMMA BusConsistent ==
    ASSUME NEW b \in BlockingMemory, NEW r \in Real, NEW c \in BOOLEAN, PathLink(b, r, c)
    PROVE  Consistent(b, r)
<1>1. (isBusy(b) <=> realBusy(r)) /\ (Mem!isBusy(b.memory) <=> (r.access + r.refresh > 0))
  BY BusBusy
<1>2. ~ Mem!isSRAM => ((b.memory.accessPhase = Mem!Dram!REFRESH) <=>
                         (r.access = 0 /\ r.refresh > 0))
  BY BusTypes, MemoryTypes, RealTypes
     DEF PathLink, MemoryLink, Mem!Dram!IDLE, Mem!Dram!ACCESS, Mem!Dram!REFRESH
<1>3. QED
  BY <1>1, <1>2 DEF Consistent

\* Some successor of the bus takes the branch that the real access takes.
LEMMA BusCycleCovers ==
    ASSUME NEW b \in BlockingMemory, NEW r \in Real, NEW c \in BOOLEAN, PathLink(b, r, c),
           isBusy(b), NEW q \in Real, q = realCycle(r)
    PROVE  \E n \in cycle(b) : Consistent(n, q)
<1>1. PICK m \in Mem!cycle(b.memory) :
         /\ Mem!isBusy(m) <=> q.access + q.refresh > 0
         /\ ~ Mem!isSRAM => ((m.accessPhase = Mem!Dram!REFRESH) <=>
                               (q.access = 0 /\ q.refresh > 0))
  BY BusTypes, MemoryCycleCovers DEF PathLink
<1> DEFINE r0 == [b EXCEPT !.memory = m]
           longer == [r0 EXCEPT !.addedBlocking = @ + 1, !.blockingCounter = @ + 1]
           noLonger == [r0 EXCEPT !.delayedAccess = FALSE, !.addedBlocking = 0]
<1>2. b.delayedAccess /\ realBusy(r)
  BY BusBusy
<1>3. r0.delayedAccess /\ longer.delayedAccess /\ ~ noLonger.delayedAccess
  BY <1>2 DEF BlockingMemory
<1>4. r0.memory = m /\ longer.memory = m /\ noLonger.memory = m
  BY DEF BlockingMemory
<1>5. r0.addedBlocking = b.addedBlocking
  BY DEF BlockingMemory
<1>6. cycle(b) = UNION { IF Mem!isBusy(k) THEN {[b EXCEPT !.memory = k]}
                                         ELSE performSplit([b EXCEPT !.memory = k])
                         : k \in Mem!cycle(b.memory) }
  BY DEF cycle
<1>7. (IF Mem!isBusy(m) THEN {r0} ELSE performSplit(r0)) \subseteq cycle(b)
  BY <1>6
<1>8. performSplit(r0) = IF b.addedBlocking < MaxBlockingPerAccess
                           THEN {longer, noLonger} ELSE {noLonger}
  BY <1>3, <1>5 DEF performSplit
<1> HIDE DEF r0, longer, noLonger
<1>9. b.addedBlocking \in Nat /\ MaxBlockingPerAccess \in Nat
  BY BusTypes, LatencyAssumption
<1>10. CASE Mem!isBusy(m)
  <2>1. isBusy(r0) /\ realBusy(q)
    BY <1>1, <1>3, <1>10, RealTypes DEF isBusy, realBusy
  <2>2. Consistent(r0, q)
    BY <1>1, <1>4, <2>1 DEF Consistent
  <2>3. QED
    BY <1>7, <1>10, <2>2
<1>11. CASE ~ Mem!isBusy(m) /\ q.blocking > 0
  <2>1. b.addedBlocking < MaxBlockingPerAccess
    <3>1. q.access + q.refresh = 0
      BY <1>1, <1>11, RealTypes
    <3>2. CASE r.access + r.refresh > 0
      BY <1>9, <1>11, <3>2, RealTypes DEF PathLink, BlockingLink
    <3>3. CASE r.access + r.refresh = 0
      BY <1>9, <1>11, <3>3, RealTypes DEF PathLink, BlockingLink
    <3>4. r.access + r.refresh > 0 \/ r.access + r.refresh = 0
      BY RealTypes
    <3>5. QED
      BY <3>2, <3>3, <3>4
  <2>2. isBusy(longer) /\ realBusy(q)
    BY <1>3, <1>11, RealTypes DEF isBusy, realBusy
  <2>3. Consistent(longer, q)
    BY <1>1, <1>4, <2>2 DEF Consistent
  <2>4. QED
    BY <1>7, <1>8, <1>11, <2>1, <2>3
<1>12. CASE ~ Mem!isBusy(m) /\ ~ (q.blocking > 0)
  <2>1. ~ isBusy(noLonger) /\ ~ realBusy(q)
    BY <1>1, <1>3, <1>4, <1>12, RealTypes DEF isBusy, realBusy
  <2>2. Consistent(noLonger, q)
    BY <1>1, <1>4, <2>1 DEF Consistent
  <2>3. QED
    BY <1>7, <1>8, <1>12, <2>2
<1>13. QED
  BY <1>10, <1>11, <1>12

\* A fast-forward leaves the last cycle of the access, its refresh or its
\* blocking, and its bounds cover the cycles it leaves out.
LEMMA BusFastForward ==
    ASSUME NEW b \in BlockingMemory, NEW r \in Real, PathLink(b, r, TRUE),
           isBusy(b), NEW q \in Real, q = realLast(r), NEW n \in fastForward(b),
           ~ Mem!isSRAM /\ r.access > 0 => (n.memory.justRefreshed <=> r.refresh > 0)
    PROVE  /\ n \in BlockingMemory /\ PathLink(n, q, FALSE)
           /\ n.blockingCounter = b.blockingCounter
           /\ forwardedCycles(n).lb + n.fastForwardedBlocking.lb <=
                forwardedCycles(b).lb + b.fastForwardedBlocking.lb
                  + (r.access + r.refresh + r.blocking - 1)
           /\ forwardedCycles(b).ub + b.fastForwardedBlocking.ub
                  + (r.access + r.refresh + r.blocking - 1) <=
                forwardedCycles(n).ub + n.fastForwardedBlocking.ub
<1> DEFINE bf == b.fastForwardedBlocking
           left == MaxBlockingPerAccess - b.addedBlocking
           f == [lb |-> bf.lb, ub |-> bf.ub + left]
<1>1. PICK m : /\ n = [b EXCEPT !.memory = m, !.addedBlocking = MaxBlockingPerAccess,
                                !.fastForwardedBlocking = IC!plus(@, 0, left)]
               /\ IF Mem!isBusy(b.memory) THEN m \in Mem!fastForward(b.memory)
                                          ELSE m = b.memory
  BY DEF fastForward
<1>2. /\ b.addedBlocking \in Nat /\ b.blockingCounter \in Nat
      /\ MaxBlockingPerAccess \in Nat /\ bf \in [lb : Nat, ub : Nat]
  BY BusTypes, LatencyAssumption
<1>3. IC!plus(bf, 0, left) = f
  BY <1>2 DEF IC!plus
<1>4. n = [b EXCEPT !.memory = m, !.addedBlocking = MaxBlockingPerAccess,
                    !.fastForwardedBlocking = f]
  BY <1>1, <1>3 DEF BlockingMemory
<1>5. n.memory = m /\ n.addedBlocking = MaxBlockingPerAccess
      /\ n.fastForwardedBlocking = f /\ n.blockingCounter = b.blockingCounter
  BY <1>4 DEF BlockingMemory
<1>6. n.delayedAccess <=> b.delayedAccess
  BY <1>4 DEF BlockingMemory
<1>7. /\ b.delayedAccess /\ realBusy(r)
      /\ Mem!isBusy(b.memory) <=> r.access + r.refresh > 0
  BY BusBusy
<1>8. n.delayedAccess /\ realBusy(q)
  BY <1>6, <1>7, RealTypes DEF realBusy
<1>9. /\ MemoryLink(b.memory, r) /\ b.memory \in Mem!Memory
      /\ ~ Mem!isSRAM => ~ b.memory.hasSeenRefresh
  BY BusTypes DEF PathLink
<1>10. f.lb = bf.lb /\ f.ub = bf.ub + left
  OBVIOUS
<1>11. ASSUME m \in Mem!Memory, left \in Nat PROVE n \in BlockingMemory
  <2>1. f \in IC!Counter
    BY <1>2, <1>11 DEF IC!Counter
  <2>2. QED
    BY <1>2, <1>4, <1>11, <2>1 DEF BlockingMemory
<1> HIDE DEF f, bf
<1>12. CASE r.access + r.refresh > 0
  <2>1. b.addedBlocking = 0 /\ r.blocking <= MaxBlockingPerAccess
    BY <1>12 DEF PathLink, BlockingLink
  <2>2. ~ Mem!isSRAM /\ r.access > 0 => (m.justRefreshed <=> r.refresh > 0)
    BY <1>5
  <2>3. /\ m \in Mem!Memory /\ MemoryLink(m, q)
        /\ m.fastForwardedAccessCycles.lb - b.memory.fastForwardedAccessCycles.lb
             <= r.access + r.refresh - 1
        /\ r.access + r.refresh - 1
             <= m.fastForwardedAccessCycles.ub - b.memory.fastForwardedAccessCycles.ub
    BY <1>1, <1>7, <1>9, <1>12, <2>2, MemoryFastForward
  <2>4. q.access + q.refresh = 1 /\ q.blocking = 0
    BY <1>12, RealTypes
  <2>5. BlockingLink(n, q, FALSE)
    BY <1>5, <1>8, <2>4 DEF BlockingLink
  <2>6. PathLink(n, q, FALSE)
    BY <1>5, <2>3, <2>5 DEF PathLink
  <2>7. left = MaxBlockingPerAccess /\ n \in BlockingMemory
    BY <1>2, <1>11, <2>1, <2>3
  <2>8. /\ forwardedCycles(n) = m.fastForwardedAccessCycles
        /\ forwardedCycles(b) = b.memory.fastForwardedAccessCycles
    BY <1>5 DEF forwardedCycles
  <2>9. /\ m.fastForwardedAccessCycles \in [lb : Nat, ub : Nat]
        /\ b.memory.fastForwardedAccessCycles \in [lb : Nat, ub : Nat]
    BY <1>9, <2>3, MemoryTypes
  <2>10. n.fastForwardedBlocking.lb = bf.lb /\ n.fastForwardedBlocking.ub = bf.ub + left
    BY <1>5, <1>10
  <2>11. bf = b.fastForwardedBlocking
    BY DEF bf
  <2> HIDE DEF left
  <2>12. forwardedCycles(n).lb + n.fastForwardedBlocking.lb <=
           forwardedCycles(b).lb + b.fastForwardedBlocking.lb
             + (r.access + r.refresh + r.blocking - 1)
    BY <2>3, <2>8, <2>9, <1>2, <2>10, <2>11, RealTypes
  <2>13. forwardedCycles(b).ub + b.fastForwardedBlocking.ub
             + (r.access + r.refresh + r.blocking - 1) <=
           forwardedCycles(n).ub + n.fastForwardedBlocking.ub
    BY <2>1, <2>3, <2>7, <2>8, <2>9, <1>2, <2>10, <2>11, RealTypes
  <2>14. QED
    BY <1>5, <2>6, <2>7, <2>12, <2>13
<1>13. CASE r.access + r.refresh = 0
  <2>1. r.blocking > 0 /\ b.addedBlocking + r.blocking <= MaxBlockingPerAccess + 1
    BY <1>7, <1>13, RealTypes DEF PathLink, BlockingLink, realBusy
  <2>2. m = b.memory
    BY <1>1, <1>7, <1>13
  <2>3. /\ q.access + q.refresh = 0 /\ q.blocking = 1
        /\ q.access = r.access /\ q.refresh = r.refresh
    BY <1>13, RealTypes
  <2>4. MemoryLink(m, q)
    BY <1>9, <2>2, <2>3 DEF MemoryLink
  <2>5. BlockingLink(n, q, FALSE)
    BY <1>2, <1>5, <1>8, <2>3 DEF BlockingLink
  <2>6. PathLink(n, q, FALSE)
    BY <1>5, <2>4, <2>5 DEF PathLink
  <2>7. left \in Nat /\ r.blocking - 1 <= left
    BY <1>2, <2>1, RealTypes
  <2>8. n \in BlockingMemory
    BY <1>9, <1>11, <2>2, <2>7
  <2>9. forwardedCycles(n) = forwardedCycles(b)
    BY <1>5, <2>2 DEF forwardedCycles
  <2>10. forwardedCycles(b) \in [lb : Nat, ub : Nat]
    BY <1>9, MemoryTypes DEF forwardedCycles
  <2>11. /\ n.fastForwardedBlocking.lb = bf.lb /\ n.fastForwardedBlocking.ub = bf.ub + left
         /\ bf = b.fastForwardedBlocking
    BY <1>5, <1>10 DEF bf
  <2> HIDE DEF left
  <2>12. forwardedCycles(n).lb + n.fastForwardedBlocking.lb <=
           forwardedCycles(b).lb + b.fastForwardedBlocking.lb
             + (r.access + r.refresh + r.blocking - 1)
    BY <1>2, <1>13, <2>1, <2>9, <2>10, <2>11, RealTypes
  <2>13. forwardedCycles(b).ub + b.fastForwardedBlocking.ub
             + (r.access + r.refresh + r.blocking - 1) <=
           forwardedCycles(n).ub + n.fastForwardedBlocking.ub
    BY <1>2, <1>13, <2>7, <2>9, <2>10, <2>11, RealTypes
  <2>14. QED
    BY <1>5, <2>6, <2>8, <2>12, <2>13
<1>14. r.access + r.refresh > 0 \/ r.access + r.refresh = 0
  BY RealTypes
<1>15. QED
  BY <1>12, <1>13, <1>14

\* Some successor of a fast-forward accounts for the refresh that happens.
LEMMA BusFastForwardCovers ==
    ASSUME NEW b \in BlockingMemory, NEW r \in Real, PathLink(b, r, TRUE)
    PROVE  \E n \in fastForward(b) :
              ~ Mem!isSRAM /\ r.access > 0 => (n.memory.justRefreshed <=> r.refresh > 0)
<1>1. /\ MemoryLink(b.memory, r) /\ b.memory \in Mem!Memory
      /\ ~ Mem!isSRAM => ~ b.memory.hasSeenRefresh
  BY BusTypes DEF PathLink
<1>2. Mem!isBusy(b.memory) <=> r.access + r.refresh > 0
  BY BusBusy
<1> DEFINE forwarded(m) ==
             [b EXCEPT !.memory = m, !.addedBlocking = MaxBlockingPerAccess,
                       !.fastForwardedBlocking =
                           IC!plus(@, 0, MaxBlockingPerAccess - b.addedBlocking)]
<1>3. CASE Mem!isBusy(b.memory)
  <2>1. PICK m \in Mem!fastForward(b.memory) :
           ~ Mem!isSRAM /\ r.access > 0 => (m.justRefreshed <=> r.refresh > 0)
    BY <1>1, <1>2, <1>3, MemoryFastForwardCovers
  <2>2. forwarded(m) \in fastForward(b)
    BY <1>3 DEF fastForward
  <2>3. forwarded(m).memory = m
    BY DEF BlockingMemory
  <2>4. QED
    BY <2>1, <2>2, <2>3
<1>4. CASE ~ Mem!isBusy(b.memory)
  <2>1. ~ (r.access > 0)
    BY <1>2, <1>4, RealTypes
  <2>2. forwarded(b.memory) \in fastForward(b)
    BY <1>4 DEF fastForward
  <2>3. QED
    BY <2>1, <2>2
<1>5. QED
  BY <1>3, <1>4

\* The metrics of j allow all that the metrics of x allow.
Covers(j, x) ==
    /\ j.blockingCounter <= x.blockingCounter
    /\ forwardedCycles(j).lb + j.fastForwardedBlocking.lb <=
         forwardedCycles(x).lb + x.fastForwardedBlocking.lb
    /\ forwardedCycles(x).ub + x.fastForwardedBlocking.ub <=
         forwardedCycles(j).ub + j.fastForwardedBlocking.ub

\* The joined bus stands for both real accesses, and its bounds cover the
\* bounds of both.
LEMMA BusJoin ==
    ASSUME NEW b \in BlockingMemory, NEW d \in BlockingMemory, isJoinable(b, d),
           NEW r \in Real, NEW q \in Real, PathLink(b, r, FALSE), PathLink(d, q, FALSE)
    PROVE  /\ join(b, d) \in BlockingMemory
           /\ PathLink(join(b, d), r, FALSE) /\ PathLink(join(b, d), q, FALSE)
           /\ Covers(join(b, d), b) /\ Covers(join(b, d), d)
<1> DEFINE j == join(b, d)
           bf == b.fastForwardedBlocking
           df == d.fastForwardedBlocking
           f == [lb |-> IF bf.lb > df.lb THEN df.lb ELSE bf.lb,
                 ub |-> IF bf.ub < df.ub THEN df.ub ELSE bf.ub]
           k == IF b.blockingCounter > d.blockingCounter
                  THEN d.blockingCounter ELSE b.blockingCounter
           m == Mem!join(b.memory, d.memory)
<1>1. /\ f \in [lb : Nat, ub : Nat] /\ f.lb <= bf.lb /\ f.lb <= df.lb
      /\ f.ub >= bf.ub /\ f.ub >= df.ub
      /\ k \in Nat /\ k <= b.blockingCounter /\ k <= d.blockingCounter
  BY BusTypes
<1>2. j = [b EXCEPT !.memory = m, !.fastForwardedBlocking = f, !.blockingCounter = k]
  BY DEF join, IC!join, BlockingMemory
<1>3. /\ MemoryLink(b.memory, r) /\ MemoryLink(d.memory, q)
      /\ b.memory \in Mem!Memory /\ d.memory \in Mem!Memory
      /\ Mem!isJoinable(b.memory, d.memory)
  BY BusTypes DEF PathLink, isJoinable
<1>4. /\ m \in Mem!Memory /\ MemoryLink(m, r) /\ MemoryLink(m, q)
      /\ m.fastForwardedAccessCycles.lb <= b.memory.fastForwardedAccessCycles.lb
      /\ m.fastForwardedAccessCycles.lb <= d.memory.fastForwardedAccessCycles.lb
      /\ m.fastForwardedAccessCycles.ub >= b.memory.fastForwardedAccessCycles.ub
      /\ m.fastForwardedAccessCycles.ub >= d.memory.fastForwardedAccessCycles.ub
  BY <1>3, MemoryJoin
<1> HIDE DEF f, k, m, j
<1>5. /\ j \in BlockingMemory /\ j.memory = m /\ j.fastForwardedBlocking = f
      /\ j.blockingCounter = k /\ j.addedBlocking = b.addedBlocking
  BY <1>1, <1>2, <1>4 DEF BlockingMemory, IC!Counter
<1>6. j.delayedAccess <=> b.delayedAccess
  BY <1>2 DEF BlockingMemory
<1>7. b.addedBlocking = d.addedBlocking
  BY DEF isJoinable
<1>8. b.delayedAccess <=> d.delayedAccess
  BY DEF isJoinable
<1>9. BlockingLink(j, r, FALSE)
  BY <1>5, <1>6 DEF PathLink, BlockingLink
<1>10. BlockingLink(j, q, FALSE)
  BY <1>5, <1>6, <1>7, <1>8 DEF PathLink, BlockingLink
<1>11. PathLink(j, r, FALSE) /\ PathLink(j, q, FALSE)
  BY <1>4, <1>5, <1>9, <1>10 DEF PathLink
<1>12. /\ m.fastForwardedAccessCycles \in [lb : Nat, ub : Nat]
       /\ b.memory.fastForwardedAccessCycles \in [lb : Nat, ub : Nat]
       /\ d.memory.fastForwardedAccessCycles \in [lb : Nat, ub : Nat]
       /\ bf \in [lb : Nat, ub : Nat] /\ df \in [lb : Nat, ub : Nat]
  BY <1>3, <1>4, BusTypes, MemoryTypes
<1>13. /\ forwardedCycles(j).lb + j.fastForwardedBlocking.lb <=
            forwardedCycles(b).lb + b.fastForwardedBlocking.lb
       /\ forwardedCycles(b).ub + b.fastForwardedBlocking.ub <=
            forwardedCycles(j).ub + j.fastForwardedBlocking.ub
  BY <1>1, <1>4, <1>5, <1>12 DEF forwardedCycles
<1>14. /\ forwardedCycles(j).lb + j.fastForwardedBlocking.lb <=
            forwardedCycles(d).lb + d.fastForwardedBlocking.lb
       /\ forwardedCycles(d).ub + d.fastForwardedBlocking.ub <=
            forwardedCycles(j).ub + j.fastForwardedBlocking.ub
  BY <1>1, <1>4, <1>5, <1>12 DEF forwardedCycles
<1>15. j.blockingCounter <= b.blockingCounter /\ j.blockingCounter <= d.blockingCounter
  BY <1>1, <1>5
<1>16. QED
  BY <1>5, <1>11, <1>13, <1>14, <1>15 DEF Covers, j

\* Setting back the metrics leaves the access and its blocking as they are.
LEMMA BusReset ==
    ASSUME NEW b \in BlockingMemory, NEW r \in Real, NEW c \in BOOLEAN, PathLink(b, r, c),
           NEW n, n = resetLocalMetrics(b)
    PROVE  /\ n \in BlockingMemory /\ PathLink(n, r, FALSE) /\ n.blockingCounter = 0
           /\ forwardedCycles(n).lb = 0 /\ forwardedCycles(n).ub = 0
           /\ n.fastForwardedBlocking.lb = 0 /\ n.fastForwardedBlocking.ub = 0
<1> DEFINE m == Mem!resetLocalMetrics(b.memory)
           f == [lb |-> 0, ub |-> 0]
<1>1. f \in [lb : Nat, ub : Nat] /\ f.lb = 0 /\ f.ub = 0
  OBVIOUS
<1>2. n = [b EXCEPT !.memory = m, !.fastForwardedBlocking = f, !.blockingCounter = 0]
  BY DEF resetLocalMetrics, IC!counter, BlockingMemory
<1>3. b.memory \in Mem!Memory /\ MemoryLink(b.memory, r)
  BY BusTypes DEF PathLink
<1>4. /\ m \in Mem!Memory /\ MemoryLink(m, r)
      /\ m.fastForwardedAccessCycles.lb = 0 /\ m.fastForwardedAccessCycles.ub = 0
  BY <1>3, MemoryReset
<1> HIDE DEF f, m
<1>5. /\ n \in BlockingMemory /\ n.memory = m /\ n.fastForwardedBlocking = f
      /\ n.blockingCounter = 0 /\ n.addedBlocking = b.addedBlocking
  BY <1>1, <1>2, <1>4 DEF BlockingMemory, IC!Counter
<1>6. n.delayedAccess <=> b.delayedAccess
  BY <1>2 DEF BlockingMemory
<1>7. BlockingLink(n, r, FALSE)
  BY <1>5, <1>6 DEF PathLink, BlockingLink
<1>8. QED
  BY <1>1, <1>4, <1>5, <1>7 DEF PathLink, forwardedCycles

-----------------------------------------------------------------------------
(* The steps.                                                              *)

\* What IInv says of path p when its variables have the values b, r, s, k, c.
PathInv(b, r, s, k, c) ==
    /\ b \in BlockingMemory /\ r \in Real /\ s \in Nat /\ k \in Nat /\ c \in BOOLEAN
    /\ PathLink(b, r, c)
    /\ forwardedCycles(b).lb + b.fastForwardedBlocking.lb <= s
    /\ s <= forwardedCycles(b).ub + b.fastForwardedBlocking.ub
    /\ b.blockingCounter <= k

\* The invariant is a statement about each path on its own.
LEMMA InvOfPaths ==
    ASSUME /\ bus \in [Path -> BlockingMemory] /\ real \in [Path -> Real]
           /\ skipped \in [Path -> Nat] /\ blocked \in [Path -> Nat]
           /\ cycled \in [Path -> BOOLEAN]
    PROVE  IInv <=> \A p \in Path :
                       PathInv(bus[p], real[p], skipped[p], blocked[p], cycled[p])
BY DEF IInv, TypeOK, Link, TimeCovered, BlockingCounted, PathInv

\* A step that changes path p only preserves the invariant, if the new values
\* of p satisfy its conditions.
LEMMA OnePathStep ==
    ASSUME IInv, NEW p \in Path, NEW b, NEW r, NEW s, NEW k, NEW c,
           PathInv(b, r, s, k, c),
           bus' = [bus EXCEPT ![p] = b], real' = [real EXCEPT ![p] = r],
           skipped' = [skipped EXCEPT ![p] = s], blocked' = [blocked EXCEPT ![p] = k],
           cycled' = [cycled EXCEPT ![p] = c]
    PROVE  IInv'
<1>1. TypeOK
  BY DEF IInv
<1>2. TypeOK'
  BY <1>1 DEF TypeOK, PathInv
<1>3. ASSUME NEW o \in Path
      PROVE  PathInv(bus[o], real[o], skipped[o], blocked[o], cycled[o])'
  <2>1. CASE o = p
    <3>1. /\ bus'[o] = b /\ real'[o] = r /\ skipped'[o] = s /\ blocked'[o] = k
          /\ cycled'[o] = c
      BY <1>1, <2>1 DEF TypeOK
    <3>2. QED
      BY <3>1 DEF PathInv
  <2>2. CASE o # p
    <3>1. /\ bus'[o] = bus[o] /\ real'[o] = real[o] /\ skipped'[o] = skipped[o]
          /\ blocked'[o] = blocked[o] /\ cycled'[o] = cycled[o]
      BY <1>1, <2>2 DEF TypeOK
    <3>2. PathInv(bus[o], real[o], skipped[o], blocked[o], cycled[o])
      BY <1>1, InvOfPaths DEF TypeOK
    <3>3. QED
      BY <3>1, <3>2
  <2>3. QED
    BY <2>1, <2>2
<1>4. QED
  BY <1>2, <1>3 DEF IInv, TypeOK, Link, TimeCovered, BlockingCounted, PathInv

\* What the invariant says of one path.
LEMMA PathFacts ==
    ASSUME IInv, NEW p \in Path
    PROVE  /\ PathInv(bus[p], real[p], skipped[p], blocked[p], cycled[p])
           /\ forwardedCycles(bus[p]) \in [lb : Nat, ub : Nat]
           /\ bus[p].fastForwardedBlocking \in [lb : Nat, ub : Nat]
<1>1. PathInv(bus[p], real[p], skipped[p], blocked[p], cycled[p])
  BY InvOfPaths DEF IInv, TypeOK
<1>2. QED
  BY <1>1, BusTypes, MemoryTypes DEF PathInv, forwardedCycles

\* A path that starts an access keeps its metrics.
LEMMA AnnounceStep ==
    ASSUME IInv, NEW p \in Path, NEW numWords \in NumWords,
           NEW refresh \in 0 .. DRAMRefreshLatency, NEW blocking \in 0 .. MaxBlockingPerAccess,
           Announce(p, numWords, refresh, blocking)
    PROVE  IInv'
<1> DEFINE q == [access |-> Latency + numWords * PerWordLatency,
                 refresh |-> refresh, blocking |-> blocking]
<1>1. PICK n \in announceAccess(bus[p], numWords) : bus' = [bus EXCEPT ![p] = n]
  BY DEF Announce
<1>2. PathInv(bus[p], real[p], skipped[p], blocked[p], cycled[p])
  BY PathFacts
<1>3. /\ q.access = Latency + numWords * PerWordLatency
      /\ q.refresh <= DRAMRefreshLatency /\ q.blocking <= MaxBlockingPerAccess
      /\ Mem!isSRAM => q.refresh = 0
  BY LatencyAssumption DEF Announce
<1>4. q \in Real
  <2>1. Latency + numWords * PerWordLatency \in Nat
    BY NumWordsAssumption, LatencyAssumption
  <2>2. refresh \in Nat /\ blocking \in Nat
    BY LatencyAssumption
  <2>3. QED
    BY <2>1, <2>2 DEF Real
<1>5. real' = [real EXCEPT ![p] = q] /\ ~ isBusy(bus[p])
  BY DEF Announce
<1> HIDE DEF q
<1>6. /\ n \in BlockingMemory /\ PathLink(n, q, FALSE)
      /\ n.memory.fastForwardedAccessCycles = bus[p].memory.fastForwardedAccessCycles
      /\ n.fastForwardedBlocking = bus[p].fastForwardedBlocking
      /\ n.blockingCounter = bus[p].blockingCounter
  <2>1. /\ bus[p] \in BlockingMemory /\ real[p] \in Real /\ cycled[p] \in BOOLEAN
        /\ PathLink(bus[p], real[p], cycled[p])
    BY <1>2 DEF PathInv
  <2> DEFINE b == bus[p]
             r == real[p]
             c == cycled[p]
  <2>2. /\ b \in BlockingMemory /\ r \in Real /\ c \in BOOLEAN /\ PathLink(b, r, c)
        /\ ~ isBusy(b) /\ n \in announceAccess(b, numWords)
    BY <1>1, <1>5, <2>1
  <2> HIDE DEF b, r, c
  <2>3. /\ n \in BlockingMemory /\ PathLink(n, q, FALSE)
        /\ n.memory.fastForwardedAccessCycles = b.memory.fastForwardedAccessCycles
        /\ n.fastForwardedBlocking = b.fastForwardedBlocking
        /\ n.blockingCounter = b.blockingCounter
    BY <1>3, <1>4, <2>2, BusAnnounce
  <2>4. QED
    BY <2>3 DEF b
<1>7. PathInv(n, q, skipped[p], blocked[p], FALSE)
  BY <1>2, <1>4, <1>6 DEF PathInv, forwardedCycles
<1>8. /\ skipped' = [skipped EXCEPT ![p] = skipped[p]]
      /\ blocked' = [blocked EXCEPT ![p] = blocked[p]]
      /\ cycled' = [cycled EXCEPT ![p] = FALSE]
  BY DEF Announce, IInv, TypeOK
<1>9. QED
  BY <1>1, <1>5, <1>7, <1>8, OnePathStep

\* A simulated cycle is not a skipped one, and only a blocked cycle counts as
\* blocked.
LEMMA CycleStep ==
    ASSUME IInv, NEW p \in Path, Cycle(p) PROVE IInv'
<1> DEFINE q == realCycle(real[p])
           k == IF inBlocking(q) THEN blocked[p] + 1 ELSE blocked[p]
<1>1. PICK n \in cycle(bus[p]) : Consistent(n, q) /\ bus' = [bus EXCEPT ![p] = n]
  BY DEF Cycle
<1>2. PathInv(bus[p], real[p], skipped[p], blocked[p], cycled[p])
  BY PathFacts
<1>3. q \in Real /\ isBusy(bus[p])
  BY <1>2, RealTypes DEF PathInv, Cycle
<1>4. /\ real' = [real EXCEPT ![p] = q] /\ blocked' = [blocked EXCEPT ![p] = k]
      /\ skipped' = [skipped EXCEPT ![p] = skipped[p]]
      /\ cycled' = [cycled EXCEPT ![p] = TRUE]
  BY DEF Cycle, IInv, TypeOK
<1>5. /\ n \in BlockingMemory /\ PathLink(n, q, TRUE)
      /\ n.memory.fastForwardedAccessCycles = bus[p].memory.fastForwardedAccessCycles
      /\ n.fastForwardedBlocking = bus[p].fastForwardedBlocking
      /\ n.blockingCounter <= bus[p].blockingCounter + (IF inBlocking(q) THEN 1 ELSE 0)
  BY <1>1, <1>2, <1>3, BusCycle DEF PathInv
<1>6. k \in Nat /\ n.blockingCounter <= k
  BY <1>2, <1>5, BusTypes DEF PathInv
<1> HIDE DEF q, k
<1>7. PathInv(n, q, skipped[p], k, TRUE)
  BY <1>2, <1>3, <1>5, <1>6 DEF PathInv, forwardedCycles
<1>8. QED
  BY <1>1, <1>4, <1>7, OnePathStep

\* A fast-forward skips all cycles of the access but one, and its bounds
\* cover them.
LEMMA FastForwardStep ==
    ASSUME IInv, NEW p \in Path, FastForward(p) PROVE IInv'
<1> DEFINE r == real[p]
           q == realLast(r)
           s == skipped[p] + r.access + r.refresh + r.blocking - 1
           k == blocked[p] + r.blocking - (IF inBlocking(r) THEN 1 ELSE 0)
<1>1. PICK n \in fastForward(bus[p]) :
         /\ ~ Mem!isSRAM /\ r.access > 0 => (n.memory.justRefreshed <=> r.refresh > 0)
         /\ bus' = [bus EXCEPT ![p] = n]
  BY DEF FastForward
<1>2. PathInv(bus[p], real[p], skipped[p], blocked[p], cycled[p])
  BY PathFacts
<1>3. q \in Real /\ isBusy(bus[p]) /\ PathLink(bus[p], r, TRUE)
  <2>1. cycled[p] = TRUE
    BY <1>2 DEF PathInv, FastForward
  <2>2. QED
    BY <1>2, <2>1, RealTypes DEF PathInv, FastForward
<1>4. /\ real' = [real EXCEPT ![p] = q] /\ blocked' = [blocked EXCEPT ![p] = k]
      /\ skipped' = [skipped EXCEPT ![p] = s]
      /\ cycled' = [cycled EXCEPT ![p] = FALSE]
  BY DEF FastForward, IInv, TypeOK
<1>5. /\ n \in BlockingMemory /\ PathLink(n, q, FALSE)
      /\ n.blockingCounter = bus[p].blockingCounter
      /\ forwardedCycles(n).lb + n.fastForwardedBlocking.lb <=
           forwardedCycles(bus[p]).lb + bus[p].fastForwardedBlocking.lb
             + (r.access + r.refresh + r.blocking - 1)
      /\ forwardedCycles(bus[p]).ub + bus[p].fastForwardedBlocking.ub
             + (r.access + r.refresh + r.blocking - 1) <=
           forwardedCycles(n).ub + n.fastForwardedBlocking.ub
  BY <1>1, <1>2, <1>3, BusFastForward DEF PathInv
<1>6. r.access \in Nat /\ r.refresh \in Nat /\ r.blocking \in Nat
      /\ r.access + r.refresh + r.blocking > 0
  <2>1. r \in Real /\ realBusy(r)
    BY <1>2, <1>3, BusBusy DEF PathInv
  <2>2. QED
    BY <2>1, RealTypes DEF realBusy
<1>7. k \in Nat /\ bus[p].blockingCounter <= k
  BY <1>2, <1>6, BusTypes DEF PathInv, inBlocking
<1>8. s \in Nat
  BY <1>2, <1>6 DEF PathInv
<1>9. /\ forwardedCycles(bus[p]).lb \in Nat /\ bus[p].fastForwardedBlocking.lb \in Nat
      /\ forwardedCycles(bus[p]).ub \in Nat /\ bus[p].fastForwardedBlocking.ub \in Nat
      /\ forwardedCycles(n).lb \in Nat /\ n.fastForwardedBlocking.lb \in Nat
      /\ forwardedCycles(n).ub \in Nat /\ n.fastForwardedBlocking.ub \in Nat
  <2>1. n.memory \in Mem!Memory /\ n.fastForwardedBlocking \in [lb : Nat, ub : Nat]
    BY <1>5, BusTypes
  <2>2. QED
    BY <2>1, PathFacts, MemoryTypes DEF forwardedCycles
<1>10. forwardedCycles(n).lb + n.fastForwardedBlocking.lb <= s
  BY <1>2, <1>5, <1>6, <1>9 DEF PathInv
<1>11. s <= forwardedCycles(n).ub + n.fastForwardedBlocking.ub
  BY <1>2, <1>5, <1>6, <1>9 DEF PathInv
<1> HIDE DEF q, k, s
<1>12. PathInv(n, q, s, k, FALSE)
  BY <1>3, <1>5, <1>7, <1>8, <1>10, <1>11 DEF PathInv
<1>13. QED
  BY <1>1, <1>4, <1>12, OnePathStep

\* The metrics of an edge start at 0, whatever the access is doing.
LEMMA ResetStep ==
    ASSUME IInv, NEW p \in Path, ResetLocalMetrics(p) PROVE IInv'
<1> DEFINE n == resetLocalMetrics(bus[p])
<1>1. PathInv(bus[p], real[p], skipped[p], blocked[p], cycled[p])
  BY PathFacts
<1>2. /\ n \in BlockingMemory /\ PathLink(n, real[p], FALSE) /\ n.blockingCounter = 0
      /\ forwardedCycles(n).lb = 0 /\ forwardedCycles(n).ub = 0
      /\ n.fastForwardedBlocking.lb = 0 /\ n.fastForwardedBlocking.ub = 0
  <2>1. /\ bus[p] \in BlockingMemory /\ real[p] \in Real /\ cycled[p] \in BOOLEAN
        /\ PathLink(bus[p], real[p], cycled[p])
    BY <1>1 DEF PathInv
  <2> DEFINE b == bus[p]
             r == real[p]
             c == cycled[p]
  <2>2. /\ b \in BlockingMemory /\ r \in Real /\ c \in BOOLEAN /\ PathLink(b, r, c)
        /\ n = resetLocalMetrics(b)
    BY <2>1
  <2> HIDE DEF b, c, n
  <2>3. QED
    BY <2>2, BusReset DEF r
<1>3. /\ bus' = [bus EXCEPT ![p] = n] /\ real' = [real EXCEPT ![p] = real[p]]
      /\ skipped' = [skipped EXCEPT ![p] = 0] /\ blocked' = [blocked EXCEPT ![p] = 0]
      /\ cycled' = [cycled EXCEPT ![p] = FALSE]
  BY DEF ResetLocalMetrics, IInv, TypeOK
<1> HIDE DEF n
<1>4. PathInv(n, real[p], 0, 0, FALSE)
  <2>1. 0 \in Nat /\ FALSE \in BOOLEAN /\ 0 <= 0
    OBVIOUS
  <2>2. /\ forwardedCycles(n).lb + n.fastForwardedBlocking.lb = 0
        /\ forwardedCycles(n).ub + n.fastForwardedBlocking.ub = 0
    BY <1>2
  <2>3. real[p] \in Real
    BY <1>1 DEF PathInv
  <2>4. QED
    BY <1>2, <2>1, <2>2, <2>3 DEF PathInv
<1>5. QED
  BY <1>3, <1>4, OnePathStep

\* After a join both paths continue from a state that covers what both of
\* them have skipped.
LEMMA JoinStep ==
    ASSUME IInv, NEW p \in Path, NEW q \in Path, p # q, Join(p, q) PROVE IInv'
<1> DEFINE j == join(bus[p], bus[q])
<1>1. /\ PathInv(bus[p], real[p], skipped[p], blocked[p], cycled[p])
      /\ PathInv(bus[q], real[q], skipped[q], blocked[q], cycled[q])
  BY PathFacts
<1>2. /\ j \in BlockingMemory /\ PathLink(j, real[p], FALSE) /\ PathLink(j, real[q], FALSE)
      /\ Covers(j, bus[p]) /\ Covers(j, bus[q])
  <2>1. /\ bus[p] \in BlockingMemory /\ bus[q] \in BlockingMemory
        /\ real[p] \in Real /\ real[q] \in Real /\ isJoinable(bus[p], bus[q])
    BY <1>1 DEF PathInv, Join
  <2>2. PathLink(bus[p], real[p], FALSE) /\ PathLink(bus[q], real[q], FALSE)
    BY <1>1 DEF PathInv, PathLink, BlockingLink
  <2>3. QED
    BY <2>1, <2>2, BusJoin
<1>3. /\ bus' = [bus EXCEPT ![p] = j, ![q] = j]
      /\ cycled' = [cycled EXCEPT ![p] = FALSE, ![q] = FALSE]
      /\ real' = real /\ skipped' = skipped /\ blocked' = blocked
  BY DEF Join
<1> HIDE DEF j
<1>4. TypeOK'
  BY <1>2, <1>3 DEF IInv, TypeOK
<1>5. forwardedCycles(j) \in [lb : Nat, ub : Nat] /\ j.fastForwardedBlocking \in [lb : Nat, ub : Nat]
      /\ j.blockingCounter \in Nat
  BY <1>2, BusTypes, MemoryTypes DEF forwardedCycles
<1>6. ASSUME NEW o \in {p, q} PROVE PathInv(j, real[o], skipped[o], blocked[o], FALSE)
  <2>1. /\ PathInv(bus[o], real[o], skipped[o], blocked[o], cycled[o])
        /\ forwardedCycles(bus[o]) \in [lb : Nat, ub : Nat]
        /\ bus[o].fastForwardedBlocking \in [lb : Nat, ub : Nat]
        /\ bus[o].blockingCounter \in Nat
    BY PathFacts, BusTypes DEF PathInv
  <2>2. /\ forwardedCycles(j).lb + j.fastForwardedBlocking.lb <=
             forwardedCycles(bus[o]).lb + bus[o].fastForwardedBlocking.lb
        /\ forwardedCycles(bus[o]).ub + bus[o].fastForwardedBlocking.ub <=
             forwardedCycles(j).ub + j.fastForwardedBlocking.ub
        /\ j.blockingCounter <= bus[o].blockingCounter /\ PathLink(j, real[o], FALSE)
    BY <1>2 DEF Covers
  <2>3. /\ forwardedCycles(j).lb + j.fastForwardedBlocking.lb <= skipped[o]
        /\ skipped[o] <= forwardedCycles(j).ub + j.fastForwardedBlocking.ub
        /\ j.blockingCounter <= blocked[o]
    BY <1>5, <2>1, <2>2 DEF PathInv
  <2>4. QED
    BY <1>2, <2>1, <2>2, <2>3 DEF PathInv
<1>7. ASSUME NEW o \in Path
      PROVE  PathInv(bus[o], real[o], skipped[o], blocked[o], cycled[o])'
  <2>1. CASE o \in {p, q}
    <3>1. bus'[o] = j /\ cycled'[o] = FALSE
      BY <1>3, <2>1 DEF IInv, TypeOK
    <3>2. QED
      BY <1>3, <1>6, <2>1, <3>1
  <2>2. CASE o \notin {p, q}
    <3>1. bus'[o] = bus[o] /\ cycled'[o] = cycled[o]
      BY <1>3, <2>2 DEF IInv, TypeOK
    <3>2. QED
      BY <1>3, <3>1, PathFacts
  <2>3. QED
    BY <2>1, <2>2
<1>8. QED
  BY <1>4, <1>7 DEF IInv, TypeOK, Link, TimeCovered, BlockingCounted, PathInv

\* Every step preserves the inductive invariant.
LEMMA StepInv == IInv /\ [Next]_vars => IInv'
<1> SUFFICES ASSUME IInv, [Next]_vars PROVE IInv'
  OBVIOUS
<1>1. ASSUME NEW p \in Path, NEW numWords \in NumWords,
             NEW refresh \in 0 .. DRAMRefreshLatency,
             NEW blocking \in 0 .. MaxBlockingPerAccess,
             Announce(p, numWords, refresh, blocking)
      PROVE  IInv'
  BY <1>1, AnnounceStep
<1>2. ASSUME NEW p \in Path, Cycle(p) PROVE IInv'
  BY <1>2, CycleStep
<1>3. ASSUME NEW p \in Path, FastForward(p) PROVE IInv'
  BY <1>3, FastForwardStep
<1>4. ASSUME NEW p \in Path, ResetLocalMetrics(p) PROVE IInv'
  BY <1>4, ResetStep
<1>5. ASSUME NEW p \in Path, NEW q \in Path, p # q, Join(p, q) PROVE IInv'
  BY <1>5, JoinStep
<1>6. CASE UNCHANGED vars
  BY <1>6 DEF vars, IInv, TypeOK, Link, TimeCovered, BlockingCounted
<1>7. QED
  BY <1>1, <1>2, <1>3, <1>4, <1>5, <1>6 DEF Next

\* The inductive invariant holds in every reachable state: cycle, fastForward,
\* announceAccess, join and reset of the memories and of the shared bus keep
\* the analysed state linked to the real execution it stands for.
THEOREM InvHolds == Spec => []IInv
<1>1. QED
  BY InitInv, StepInv, PTL DEF Spec

\* The states of the memories, of the bus and of the counters have their
\* types, for all latencies, sizes of accesses and sets of paths.
THEOREM TimingTypeCorrect == Spec => []TypeOK
<1>1. IInv => TypeOK
  BY DEF IInv
<1>2. QED
  BY <1>1, InvHolds, PTL

\* The cycles that fast-forwards skip are within the bounds that the metrics
\* of the edge keep, for all latencies, sizes of accesses and sets of paths.
THEOREM TimeIsCovered == Spec => []TimeCovered
<1>1. IInv => TimeCovered
  BY DEF IInv
<1>2. QED
  BY <1>1, InvHolds, PTL

\* The blocking that is reported to the co-runner analysis has happened.
THEOREM BlockingIsCounted == Spec => []BlockingCounted
<1>1. IInv => BlockingCounted
  BY DEF IInv
<1>2. QED
  BY <1>1, InvHolds, PTL

\* Cycles and fast-forwards always have a successor that stands for the real
\* execution.
THEOREM NoExecutionIsLost == Spec => []NoExecutionLost
<1>1. ASSUME IInv PROVE NoExecutionLost
  <2> SUFFICES ASSUME NEW p \in Path
               PROVE  /\ Consistent(bus[p], real[p])
                      /\ isBusy(bus[p]) =>
                           \E b \in cycle(bus[p]) : Consistent(b, realCycle(real[p]))
                      /\ isBusy(bus[p]) /\ cycled[p] =>
                           \E b \in fastForward(bus[p]) : Consistent(b, realLast(real[p]))
    BY DEF NoExecutionLost
  <2>1. /\ bus[p] \in BlockingMemory /\ real[p] \in Real /\ cycled[p] \in BOOLEAN
        /\ PathLink(bus[p], real[p], cycled[p])
    BY <1>1, PathFacts DEF PathInv
  <2>2. realCycle(real[p]) \in Real /\ realLast(real[p]) \in Real
    BY <2>1, RealTypes
  <2>3. Consistent(bus[p], real[p])
    BY <2>1, BusConsistent
  <2>4. isBusy(bus[p]) => \E b \in cycle(bus[p]) : Consistent(b, realCycle(real[p]))
    BY <2>1, <2>2, BusCycleCovers
  <2>5. ASSUME isBusy(bus[p]), cycled[p]
        PROVE  \E b \in fastForward(bus[p]) : Consistent(b, realLast(real[p]))
    <3>1. PathLink(bus[p], real[p], TRUE)
      <4>1. cycled[p] = TRUE
        BY <2>1, <2>5
      <4>2. QED
        BY <2>1, <4>1
    <3>2. PICK b \in fastForward(bus[p]) :
             ~ Mem!isSRAM /\ real[p].access > 0 =>
                (b.memory.justRefreshed <=> real[p].refresh > 0)
      BY <2>1, <2>5, <3>1, BusFastForwardCovers
    <3>3. b \in BlockingMemory /\ PathLink(b, realLast(real[p]), FALSE)
      BY <2>1, <2>2, <2>5, <3>1, <3>2, BusFastForward
    <3>4. Consistent(b, realLast(real[p]))
      BY <2>2, <3>3, BusConsistent
    <3>5. QED
      BY <3>2, <3>4
  <2>6. QED
    BY <2>3, <2>4, <2>5
<1>2. QED
  BY <1>1, InvHolds, PTL

\* No assertion in cycle, announceAccess or fastForward of the memories fails.
THEOREM AssertionsNeverFail == Spec => []AssertionsHold
<1>1. ASSUME IInv PROVE AssertionsHold
  <2> SUFFICES ASSUME NEW p \in Path
               PROVE  /\ cycleAssertion(bus[p])
                      /\ isBusy(bus[p]) /\ cycled[p] => fastForwardAssertion(bus[p])
                      /\ isBusy(bus[p]) /\ cycled[p] /\ ~ Mem!isSRAM =>
                           Mem!Dram!fastForwardAssertion(bus[p].memory)
                      /\ ~ isBusy(bus[p]) /\ ~ Mem!isSRAM => ~ bus[p].memory.hasSeenRefresh
    BY DEF AssertionsHold
  <2> DEFINE b == bus[p]
             r == real[p]
  <2>1. /\ b \in BlockingMemory /\ r \in Real /\ cycled[p] \in BOOLEAN
        /\ PathLink(b, r, cycled[p])
    BY <1>1, PathFacts DEF PathInv
  <2> HIDE DEF b, r
  <2>2. /\ isBusy(b) <=> realBusy(r)
        /\ b.delayedAccess <=> realBusy(r)
        /\ Mem!isBusy(b.memory) <=> r.access + r.refresh > 0
    BY <2>1, BusBusy
  <2>3. /\ b.addedBlocking \in Nat /\ MaxBlockingPerAccess \in Nat
        /\ b.memory \in Mem!Memory
    BY <2>1, BusTypes, LatencyAssumption
  <2>4. cycleAssertion(b)
    BY <2>1, <2>2, <2>3, RealTypes DEF cycleAssertion, PathLink, BlockingLink, realBusy
  <2>5. isBusy(b) /\ cycled[p] => fastForwardAssertion(b)
    BY <2>1, <2>2 DEF fastForwardAssertion, PathLink, BlockingLink
  <2>6. isBusy(b) /\ cycled[p] /\ ~ Mem!isSRAM => Mem!Dram!fastForwardAssertion(b.memory)
    BY <2>1, <2>3, MemoryTypes, RealTypes
       DEF Mem!Dram!fastForwardAssertion, PathLink, MemoryLink,
           Mem!Dram!ACCESS, Mem!Dram!REFRESH
  <2>7. ~ isBusy(b) /\ ~ Mem!isSRAM => ~ b.memory.hasSeenRefresh
    BY <2>1
       DEF isBusy, Mem!isBusy, Mem!Dram!isBusy, PathLink, MemoryLink,
           Mem!Dram!ACCESS, Mem!Dram!IDLE
  <2>8. QED
    BY <2>4, <2>5, <2>6, <2>7 DEF b
<1>2. QED
  BY <1>1, InvHolds, PTL
=============================================================================
