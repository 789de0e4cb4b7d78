------------------ MODULE JJYSeparateCachesMemoryTopology ------------------
(***************************************************************************)
(* An instruction cache and a data cache in front of a shared second-level  *)
(* cache in front of a SingleMemoryTopology.  Each of the two components    *)
(* has a queue of at most one waiting access, at most one ongoing access    *)
(* and the identifier of the access that finished last.                     *)
(* What the cache analyses classify an access as is chosen freely: their    *)
(* own behaviour is the subject of CacheSet and SharedCacheSet.  Of the     *)
(* events that the path analysis reads off an edge only justMissed is kept, *)
(* which postpones fast-forwarding; persistence scopes, the miss counters   *)
(* and justDirtifiedLine, which never affect the phases, are left out.      *)
(* An optional value is a sequence of length at most 1.  assertionFailed    *)
(* records that an assertion inside of cycle has failed.                    *)
(***************************************************************************)
EXTENDS Integers, Sequences

CONSTANTS
    InstrHitLatency, DataHitLatency, L2HitLatency,
    WriteBack, WriteAllocate,   \* the write policy of the data cache
    UnblockStores,              \* stores finish when the memory has them
    Persistence,                \* some cache has a persistence analysis
    TimingAnomalyAnalysis, isBCET,
    IdModulus, StrictInorderDataInstrArbitration, MaxLatency, StallOnLocalWorst

Mem == INSTANCE CyclingMemory
BgMem == INSTANCE SingleMemoryTopology WITH
    MMemory <- Mem!Memory, Mnew <- Mem!new, MisBusy <- Mem!isBusy, Mcycle <- Mem!cycle,
    MannounceAccess <- Mem!announceAccess, MfastForward <- Mem!fastForward,
    MshouldPipelineStall <- Mem!shouldPipelineStall, MisJoinable <- Mem!isJoinable,
    Mjoin <- Mem!join, MresetLocalMetrics <- Mem!resetLocalMetrics

NoId == BgMem!NoId
Ids  == BgMem!Ids

CL_HIT   == "CL_HIT"
CL2_HIT  == "CL2_HIT"
CL2_MISS == "CL2_MISS"

WaitForSTART == "WaitForSTART"
WaitForLOAD  == "WaitForLOAD"
WaitForCACHE == "WaitForCACHE"
WaitForSTORE == "WaitForSTORE"

(* bgl2AccessId is only compared with 0 and with -1: no access, or a         *)
(* write-back to the second level.                                           *)
NoL2        == 0
L2Access    == 1
L2WriteBack == -1

Access == [id : Ids, store : BOOLEAN]

OngoingAccess ==
    [access : Access, cl : {CL_HIT, CL2_HIT, CL2_MISS}, bgmemStall : BOOLEAN,
     phase : {WaitForSTART, WaitForLOAD, WaitForCACHE, WaitForSTORE},
     bgMemAccessId : Ids \cup {NoId},
     bgl2AccessId : {NoL2, L2Access, L2WriteBack},
     l1timeBlocked : 0 .. InstrHitLatency + DataHitLatency,
     l2timeBlocked : 0 .. L2HitLatency]

MemoryComponent ==
    [waitingQueue : { <<>> } \cup { << a >> : a \in Access },
     ongoingAccess : { <<>> } \cup { << o >> : o \in OngoingAccess },
     finishedId : Ids \cup {NoId}]

Topology == [memory : BgMem!Topology, currentId : Ids,
             instructionComponent : MemoryComponent,
             dataComponent : MemoryComponent,
             justMissed : BOOLEAN, assertionFailed : BOOLEAN]

newComponent == [waitingQueue |-> <<>>, ongoingAccess |-> <<>>,
                 finishedId |-> NoId]

new == [memory |-> BgMem!new, currentId |-> 1,
        instructionComponent |-> newComponent, dataComponent |-> newComponent,
        justMissed |-> FALSE, assertionFailed |-> FALSE]
-----------------------------------------------------------------------------
(* A new instruction access replaces one that still waits, a data access is  *)
(* rejected then.                                                            *)
accessInstr(t) ==
    [t EXCEPT !.instructionComponent.waitingQueue =
                  << [id |-> t.currentId, store |-> FALSE] >>,
              !.currentId = BgMem!incrementCurrentId(@)]

acceptsData(t) == t.dataComponent.waitingQueue = <<>>

accessData(t, store) ==
    IF acceptsData(t)
    THEN [t EXCEPT !.dataComponent.waitingQueue =
                       << [id |-> t.currentId, store |-> store] >>,
                   !.currentId = BgMem!incrementCurrentId(@)]
    ELSE t

finished(c, id) == c.finishedId = id
forget(c, id)   == IF finished(c, id) THEN [c EXCEPT !.finishedId = NoId] ELSE c

finishedInstrAccess(t, id) == [t EXCEPT !.instructionComponent = forget(@, id)]
finishedDataAccess(t, id)  == [t EXCEPT !.dataComponent = forget(@, id)]

shouldPipelineStall(t) == BgMem!shouldPipelineStall(t.memory)
-----------------------------------------------------------------------------
(* Starting an access.  Where an analysis does not know, the states are      *)
(* split if timing anomalies are to be covered.                              *)
outcomes(L1, L2) ==
    IF L1 = "HIT" \/ (L1 = "UNKNOWN" /\ isBCET) THEN {CL_HIT}
    ELSE IF L2 = "HIT" \/ (L2 = "UNKNOWN" /\ isBCET)
    THEN {CL2_HIT} \cup { h \in {CL_HIT} : L1 = "UNKNOWN" /\ TimingAnomalyAnalysis }
    ELSE {CL2_MISS}
           \cup { h \in {CL2_HIT} : L2 = "UNKNOWN" /\ TimingAnomalyAnalysis }
           \cup { h \in {CL_HIT} : L2 = "UNKNOWN" /\ L1 = "UNKNOWN"
                                     /\ TimingAnomalyAnalysis }

classifications ==
    LET Class == {"HIT", "MISS", "UNKNOWN"}
    IN  UNION { outcomes(L1, L2) : L1 \in Class, L2 \in Class }

newOngoing(a, class) ==
    [access |-> a, cl |-> class, phase |-> WaitForSTART, bgmemStall |-> FALSE,
     bgMemAccessId |-> NoId, bgl2AccessId |-> NoL2,
     l1timeBlocked |-> 0, l2timeBlocked |-> 0]

startComponent(c, o) ==
    [c EXCEPT !.waitingQueue = <<>>, !.ongoingAccess = << o >>]

processInstrCacheAccess(t, cl) ==
    LET o == newOngoing(Head(t.instructionComponent.waitingQueue), cl)
        start(p) == [t EXCEPT !.instructionComponent = startComponent(@, p),
                              !.justMissed = @ \/ (Persistence /\ cl # CL_HIT)]
    IN  CASE cl = CL_HIT  -> start([o EXCEPT !.l1timeBlocked = InstrHitLatency])
          [] cl = CL2_HIT -> start([o EXCEPT !.l2timeBlocked = L2HitLatency,
                                             !.bgl2AccessId = L2Access])
          [] OTHER -> [start([o EXCEPT !.bgMemAccessId = t.memory.currentId])
                         EXCEPT !.memory = BgMem!accessInstr(@)]

(* Hand the ongoing data access o to the memory; phase is what it then waits *)
(* for.  The memory may reject it.                                           *)
accessMemory(t, o, phase) ==
    LET accepted == BgMem!acceptsData(t.memory)
        p == [o EXCEPT !.phase = phase, !.bgmemStall = ~accepted,
                       !.bgMemAccessId = IF accepted THEN t.memory.currentId
                                                     ELSE NoId]
    IN  [t EXCEPT !.dataComponent.ongoingAccess = << p >>,
                  !.memory = BgMem!accessData(@)]

(* Some callers assert that the memory takes the access and never retry. *)
accessMemoryAsserted(t, o, phase) ==
    IF BgMem!acceptsData(t.memory) THEN accessMemory(t, o, phase)
    ELSE [t EXCEPT !.assertionFailed = TRUE,
              !.dataComponent.ongoingAccess = << [o EXCEPT !.phase = phase] >>]

processDataCacheAccess(t, cl) ==
    LET a == Head(t.dataComponent.waitingQueue)
        o == newOngoing(a, cl)
        missed == [t EXCEPT !.justMissed = @ \/ Persistence]
        start(s, p) == [s EXCEPT !.dataComponent = startComponent(@, p)]
    IN  CASE cl = CL_HIT ->
               start(t, [o EXCEPT !.l1timeBlocked = DataHitLatency,
                                  !.phase = WaitForCACHE])
          [] cl = CL2_HIT ->
               start(missed, [o EXCEPT !.l2timeBlocked = L2HitLatency,
                                       !.phase = WaitForCACHE,
                                       !.bgl2AccessId = L2Access])
          [] cl = CL2_MISS /\ a.store /\ ~WriteAllocate ->
               accessMemoryAsserted(start(t, o), o, WaitForSTORE)
          [] OTHER -> accessMemory(start(missed, o), o, WaitForLOAD)

mystartInstructionAccess(t) ==
    IF /\ t.instructionComponent.ongoingAccess = <<>>
       /\ t.instructionComponent.waitingQueue # <<>>
    THEN { processInstrCacheAccess(t, cl) : cl \in classifications }
    ELSE {t}

mystartDataAccess(t) ==
    IF /\ t.dataComponent.ongoingAccess = <<>>
       /\ t.dataComponent.waitingQueue # <<>>
    THEN { processDataCacheAccess(t, cl) : cl \in classifications }
    ELSE {t}
-----------------------------------------------------------------------------
(* Finishing the phases of an access. *)

(* Mutant: the finished access stays the ongoing one. *)
finishKeepsOngoing(c) ==
    [c EXCEPT !.finishedId = Head(c.ongoingAccess).access.id]

finish(c) == [c EXCEPT !.finishedId = Head(c.ongoingAccess).access.id,
                       !.ongoingAccess = <<>>]

countDown(n) == IF n > 0 THEN n - 1 ELSE 0

setInstr(t, o) == [t EXCEPT !.instructionComponent.ongoingAccess = << o >>]
setData(t, o)  == [t EXCEPT !.dataComponent.ongoingAccess = << o >>]
finishData(t)  == [t EXCEPT !.dataComponent = finish(@)]

(* Mutant: the memory's identifier is kept. *)
enterL2KeepsId(o) == [o EXCEPT !.bgl2AccessId = L2Access,
                               !.l2timeBlocked = L2HitLatency]

(* The memory is done, the second level is filled next. *)
enterL2(o) == [o EXCEPT !.bgMemAccessId = NoId, !.bgl2AccessId = L2Access,
                        !.l2timeBlocked = L2HitLatency]

checkInstructionOngoing(t, o) ==
    CASE o.bgMemAccessId # NoId ->
           [setInstr(t, IF BgMem!finished(t.memory, o.bgMemAccessId)
                        THEN enterL2(o) ELSE o)
             EXCEPT !.memory = BgMem!forget(@, o.bgMemAccessId)]
      [] o.bgMemAccessId = NoId /\ o.bgl2AccessId # NoL2 ->
           LET p == [o EXCEPT !.l2timeBlocked = countDown(@)]
           IN  setInstr(t, IF p.l2timeBlocked = 0
                           THEN [p EXCEPT !.bgl2AccessId = NoL2,
                                          !.l1timeBlocked = InstrHitLatency]
                           ELSE p)
      [] OTHER ->
           LET s == setInstr(t, [o EXCEPT !.l1timeBlocked = countDown(@)])
           IN  IF countDown(o.l1timeBlocked) = 0
               THEN [s EXCEPT !.instructionComponent = finish(@)] ELSE s

checkInstructionPart(t) ==
    IF t.instructionComponent.ongoingAccess = <<>> THEN t
    ELSE checkInstructionOngoing(t, Head(t.instructionComponent.ongoingAccess))

(* The end of the second level's work.  The second-level cache is never      *)
(* configured as write-back, so its analysis cannot refute that a dirty line *)
(* is evicted.                                                               *)
finishL2(t, o) ==
    CASE o.access.store /\ ~WriteBack -> {accessMemory(t, o, WaitForSTORE)}
      [] WriteBack /\ o.cl = CL2_MISS ->
           {finishData(setData(t, o)), accessMemoryAsserted(t, o, WaitForSTORE)}
      [] OTHER ->
           {IF o.bgl2AccessId = L2WriteBack THEN finishData(setData(t, o))
            ELSE setData(t, [o EXCEPT !.l1timeBlocked = InstrHitLatency,
                                      !.bgl2AccessId = NoL2])}

(* The end of the first level's work.  A dirtiness analysis that refutes the *)
(* eviction of a dirty line leaves the first of the two successors.          *)
finishL1(t, o) ==
    CASE o.access.store /\ ~WriteBack -> {accessMemory(t, o, WaitForSTORE)}
      [] WriteBack /\ o.cl = CL2_MISS ->
           {finishData(setData(t, o)),
            setData(t, [o EXCEPT !.bgl2AccessId = L2WriteBack])}
      [] OTHER -> {finishData(setData(t, o))}

checkWaitForCACHE(t, o) ==
    IF o.bgl2AccessId # NoL2
    THEN LET blocked == IF o.bgl2AccessId = L2WriteBack THEN L2HitLatency
                                                        ELSE o.l2timeBlocked
             p == [o EXCEPT !.l2timeBlocked = countDown(blocked)]
         IN  IF p.l2timeBlocked = 0 THEN finishL2(t, p) ELSE {setData(t, p)}
    ELSE LET p == [o EXCEPT !.l1timeBlocked = countDown(@)]
         IN  IF p.l1timeBlocked = 0 THEN finishL1(t, p) ELSE {setData(t, p)}

(* What the assertions of checkDataPart say of an ongoing data access. *)
checkDataAssertion(o) ==
    /\ o.bgmemStall => UnblockStores /\ o.phase \in {WaitForLOAD, WaitForSTORE}
    /\ ~o.bgmemStall => /\ o.phase # WaitForSTART
                        /\ (o.phase = WaitForCACHE) <=> (o.bgMemAccessId = NoId)

checkDataOngoing(t, o) ==
    CASE o.bgmemStall -> {accessMemory(t, o, o.phase)}
      [] ~o.bgmemStall /\ o.phase = WaitForLOAD ->
           LET p == IF BgMem!finished(t.memory, o.bgMemAccessId)
                    THEN [enterL2(o) EXCEPT !.phase = WaitForCACHE] ELSE o
           IN  {[setData(t, p) EXCEPT !.memory = BgMem!forget(@, o.bgMemAccessId)]}
      [] ~o.bgmemStall /\ o.phase = WaitForCACHE -> checkWaitForCACHE(t, o)
      [] ~o.bgmemStall /\ o.phase = WaitForSTORE ->
           IF UnblockStores THEN {finishData(t)}
           ELSE LET s == [t EXCEPT !.memory = BgMem!forget(@, o.bgMemAccessId)]
                IN  {IF BgMem!finished(t.memory, o.bgMemAccessId)
                     THEN finishData(s) ELSE s}
      [] OTHER -> {t}

checkDataPart(t) ==
    IF t.dataComponent.ongoingAccess = <<>> THEN {t}
    ELSE LET o == Head(t.dataComponent.ongoingAccess)
         IN  checkDataOngoing([t EXCEPT !.assertionFailed =
                                            @ \/ ~checkDataAssertion(o)], o)
-----------------------------------------------------------------------------
(* Mutant: the topology goes on while the pipeline is stalled. *)
checkPartsDespiteStall(t) == checkDataPart(checkInstructionPart(t))

(* When the memory stalls the pipeline it stalls the topology, too. *)
checkParts(t) == IF shouldPipelineStall(t) THEN {t}
                 ELSE checkDataPart(checkInstructionPart(t))

cycle(t, potentialDataMissesPending) ==
    LET started == UNION { mystartDataAccess(s) :
                  s \in mystartInstructionAccess([t EXCEPT !.justMissed = FALSE]) }
        cycled == UNION { { [s EXCEPT !.memory = m] :
                      m \in BgMem!cycle(s.memory, potentialDataMissesPending) } :
                      s \in started }
    IN  UNION { checkParts(s) : s \in cycled }

isBusyAccessing(c) == c.waitingQueue # <<>> \/ c.ongoingAccess # <<>>

(* Mutant: also while a cache works on the access. *)
instrCompAllowsFastForwardAlways(t) == TRUE

instrCompAllowsFastForward(t) ==
    LET c == t.instructionComponent
    IN  \/ ~isBusyAccessing(c)
        \/ c.ongoingAccess # <<>> /\ Head(c.ongoingAccess).bgMemAccessId # NoId

dataCompAllowsFastForward(t) ==
    LET c == t.dataComponent
    IN  \/ ~isBusyAccessing(c)
        \/ /\ c.ongoingAccess # <<>>
           /\ LET o == Head(c.ongoingAccess)
              IN  \/ o.phase = WaitForLOAD
                  \/ /\ o.phase = WaitForSTORE
                     /\ ~UnblockStores \/ o.bgmemStall

fastForward(t) ==
    IF /\ instrCompAllowsFastForward(t) /\ dataCompAllowsFastForward(t)
       /\ ~t.justMissed
    THEN { [t EXCEPT !.memory = m] : m \in BgMem!fastForward(t.memory) }
    ELSE {t}
=============================================================================
