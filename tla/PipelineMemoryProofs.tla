------------------------ MODULE PipelineMemoryProofs ------------------------
(***************************************************************************)
(* No access that the pipeline waits for is lost in the topology, and the  *)
(* identifiers by which the topology and the memory tell accesses apart    *)
(* are never confused although they wrap around, for every latency, every  *)
(* configuration of the caches and any number of data accesses per fetch.  *)
(***************************************************************************)
EXTENDS PipelineMemory, TLAPS

-----------------------------------------------------------------------------
(* The inductive invariant.                                                *)

\* How many identifiers ago id was given, if cur is the next one.
Dist(id, cur) == IF id < cur THEN cur - id ELSE cur - id + (IdModulus - 1)

\* The identifier in a queue of the memory.
Queued(q) == IF q = <<>> THEN NoId ELSE Head(q)

\* The identifiers of the accesses that the memory works on.
InstrAccessed(m) == IF m.currentIdAccessesInstr THEN m.currentIdAccessed ELSE NoId
DataAccessed(m)  == IF m.currentIdAccessesInstr THEN NoId ELSE m.currentIdAccessed

One(id) == IF id = NoId THEN 0 ELSE 1

\* The accesses in the memory: iq and dq are queued, ia and da are worked on;
\* the components wait for b and c. At most slack identifiers are given to
\* data accesses before the next fetch.
InFlight(iq, dq, ia, da, cur, b, c, slack) ==
    /\ ia = NoId \/ da = NoId
    /\ \/ iq = b /\ ia = NoId
       \/ iq = NoId /\ ia = b
    /\ c # NoId => dq = c \/ (dq = NoId /\ da = c)
    /\ dq # NoId => dq # da
    /\ b # NoId => b # dq /\ b # da
    /\ b # NoId => Dist(b, cur) + slack <= 2 * MaxDataAccesses + 3
    /\ dq # NoId => Dist(dq, cur) <= 1 + One(iq)
    /\ da # NoId => Dist(da, cur) <= 1 + One(iq) + One(dq)

MemoryInv(m, b, c, slack) ==
    /\ m \in T!BgMem!Topology
    /\ (m.memory.left > 0) <=> (m.currentIdAccessed # NoId)
    /\ m.currentIdAccessed # NoId => m.finishedAccess = NoId
    /\ InFlight(Queued(m.instructionQueue), Queued(m.dataQueue), InstrAccessed(m),
                DataAccessed(m), m.currentId, b, c, slack)

\* The access in the memory that a component waits for.
Awaited(c) == IF c.ongoingAccess = <<>> THEN NoId
              ELSE Head(c.ongoingAccess).bgMemAccessId

\* The accesses to the memory that a data access may still make.
RemainingOf(o) == IF o.phase = T!WaitForLOAD /\ o.bgMemAccessId = NoId THEN 2
                  ELSE IF o.phase = T!WaitForSTORE /\ o.bgMemAccessId # NoId THEN 0
                  ELSE 1
Remaining(c) == IF c.waitingQueue # <<>> THEN 2
                ELSE IF c.ongoingAccess = <<>> THEN 0
                ELSE RemainingOf(Head(c.ongoingAccess))

\* The phases of a data access, with configuration u and the memory's queue q
\* of data accesses. Only a store without allocation, when stores do not
\* wait, fails an assertion if the memory rejects it.
MayFail(u) == u.UnblockStores /\ ~u.WriteAllocate
OngoingOK(u, o, q) ==
    /\ o.phase # T!WaitForSTART
    /\ o.bgmemStall => u.UnblockStores /\ o.phase # T!WaitForCACHE /\ o.bgMemAccessId = NoId
    /\ o.phase = T!WaitForCACHE => o.bgMemAccessId = NoId
    /\ ~o.bgmemStall /\ o.phase = T!WaitForLOAD => o.bgMemAccessId # NoId
    /\ ~o.bgmemStall /\ o.phase = T!WaitForSTORE /\ o.bgMemAccessId = NoId => MayFail(u)
    /\ o.phase = T!WaitForCACHE /\ o.cl = T!CL2_MISS => q = <<>>
DataOK(u, c, q) ==
    /\ ~u.UnblockStores /\ Awaited(c) = NoId => q = <<>>
    /\ c.ongoingAccess # <<>> => OngoingOK(u, Head(c.ongoingAccess), q)

\* A rejected access is retried in every cycle in which nothing stalls.
RetriedOK(u, c, q) ==
    c.ongoingAccess # <<>> /\ Head(c.ongoingAccess).bgmemStall /\ ~u.StallOnLocalWorst
        => q # <<>>

\* The fetch id is waiting or ongoing. After a taken branch (fl) the forgotten
\* one may be ongoing or the last one that finished.
InstrTracked(c, id, fl) ==
    IF id = NoId THEN c = T!newComponent /\ ~fl
    ELSE /\ c.finishedId # id /\ (~fl => c.finishedId = NoId)
         /\ \/ /\ c.waitingQueue # <<>> /\ Head(c.waitingQueue).id = id
               /\ c.ongoingAccess # <<>> => fl /\ Head(c.ongoingAccess).access.id # id
            \/ /\ c.waitingQueue = <<>>
               /\ c.ongoingAccess # <<>> /\ Head(c.ongoingAccess).access.id = id
DataTracked(c, id) ==
    IF id = NoId THEN c = T!newComponent
    ELSE /\ c.finishedId = NoId
         /\ \/ /\ c.waitingQueue # <<>> /\ Head(c.waitingQueue).id = id
               /\ c.ongoingAccess = <<>>
            \/ /\ c.waitingQueue = <<>>
               /\ c.ongoingAccess # <<>> /\ Head(c.ongoingAccess).access.id = id

TopologyInv(u, t, n) ==
    /\ t \in T!Topology
    /\ MemoryInv(t.memory, Awaited(t.instructionComponent), Awaited(t.dataComponent),
                 2 * n + Remaining(t.dataComponent))
    /\ DataOK(u, t.dataComponent, t.memory.dataQueue)
    /\ t.assertionFailed => MayFail(u)

\* The state of the pipeline: accesses id and did are outstanding.
PipelineInv(t, id, did, fl, n) ==
    /\ n \in 0 .. MaxDataAccesses /\ fl \in BOOLEAN
    /\ {id, did} \subseteq T!Ids \cup {NoId}
    /\ TopologyInv(config, t, n)
    /\ RetriedOK(config, t.dataComponent, t.memory.dataQueue)
    /\ InstrTracked(t.instructionComponent, id, fl)
    /\ DataTracked(t.dataComponent, did)
    /\ ~fl /\ id # NoId => Dist(id, t.currentId) + n <= MaxDataAccesses + 1

IInv ==
    /\ config \in Configurations /\ oddCycle \in BOOLEAN
    /\ PipelineInv(memory, instructionAccessId, dataAccessId, flushed, dataAccessesLeft)

-----------------------------------------------------------------------------
(* Identifiers.                                                            *)

\* The identifiers are between 1 and IdModulus - 1, more than are in use.
LEMMA ModulusFacts ==
    /\ MaxDataAccesses \in Nat
    /\ IdModulus \in Nat
    /\ IdModulus > 2 * MaxDataAccesses + 3
    /\ MaxLatency \in Nat /\ MaxLatency > 0
BY PipelineMemoryAssumption

\* The identifiers of the topology and of the memory are the same integers.
LEMMA IdFacts ==
    /\ NoId = 0
    /\ T!NoId = 0
    /\ T!BgMem!NoId = 0
    /\ T!Ids = 1 .. IdModulus - 1
    /\ T!BgMem!Ids = 1 .. IdModulus - 1
BY DEF NoId, T!NoId, T!BgMem!NoId, T!Ids, T!BgMem!Ids

\* The identifier after the last one is 1: 0 is skipped.
LEMMA Successor ==
    ASSUME NEW id \in 1 .. IdModulus - 1
    PROVE  T!BgMem!incrementCurrentId(id) = IF id = IdModulus - 1 THEN 1 ELSE id + 1
<1>1. CASE id = IdModulus - 1
  <2>1. id + 1 = IdModulus
    BY <1>1, ModulusFacts
  <2>2. IdModulus % IdModulus = 0
    BY ModulusFacts
  <2> QED
    BY <1>1, <2>1, <2>2 DEF T!BgMem!incrementCurrentId
<1>2. CASE id # IdModulus - 1
  <2>1. (id + 1) % IdModulus = id + 1
    BY <1>2, ModulusFacts
  <2> QED
    BY <1>2, <2>1, ModulusFacts DEF T!BgMem!incrementCurrentId
<1> QED
    BY <1>1, <1>2

\* A distance tells identifiers apart; every new identifier increases it.
LEMMA DistFacts ==
    ASSUME NEW id \in 1 .. IdModulus - 1, NEW cur \in 1 .. IdModulus - 1,
           NEW next, next = IF cur = IdModulus - 1 THEN 1 ELSE cur + 1
    PROVE  /\ next \in 1 .. IdModulus - 1
           /\ Dist(id, cur) \in 1 .. IdModulus - 1
           /\ Dist(id, cur) < IdModulus - 1 => Dist(id, next) = Dist(id, cur) + 1
           /\ Dist(id, cur) < IdModulus - 1 => id # cur
           /\ Dist(cur, next) = 1
BY ModulusFacts DEF Dist

\* A new identifier is not one that was given not long ago.
LEMMA Older ==
    ASSUME NEW id \in 1 .. IdModulus - 1, NEW cur \in 1 .. IdModulus - 1,
           NEW next, next = IF cur = IdModulus - 1 THEN 1 ELSE cur + 1,
           Dist(id, cur) <= 2 * MaxDataAccesses + 2
    PROVE  /\ id # cur
           /\ Dist(id, cur) \in Nat /\ Dist(id, next) \in Nat
           /\ Dist(id, next) = Dist(id, cur) + 1
<1>1. Dist(id, cur) \in 1 .. IdModulus - 1
  BY DistFacts
<1>2. Dist(id, cur) < IdModulus - 1
  BY <1>1, ModulusFacts
<1>3. id # cur /\ Dist(id, next) = Dist(id, cur) + 1
  BY <1>2, DistFacts
<1> QED
  BY <1>1, <1>3, ModulusFacts

\* Of the accesses in the memory, those that matter below are small integers.
IdsInFlight(iq, dq, ia, da, cur, b, c) ==
    /\ {iq, dq, ia, da, b, c} \subseteq 0 .. IdModulus - 1
    /\ cur \in 1 .. IdModulus - 1

\* The memory takes an instruction access when the component waits for none.
LEMMA AcceptInstr ==
    ASSUME NEW dq, NEW da, NEW cur, NEW c, NEW slack \in 0 .. 2 * MaxDataAccesses + 2,
           NEW next, next = IF cur = IdModulus - 1 THEN 1 ELSE cur + 1,
           NEW iq, NEW ia, IdsInFlight(iq, dq, ia, da, cur, 0, c),
           InFlight(iq, dq, ia, da, cur, 0, c, slack)
    PROVE  InFlight(cur, dq, ia, da, next, cur, c, slack)
<1>1. iq = 0 /\ ia = 0
  BY IdFacts DEF InFlight
<1>2. /\ {dq, da, c} \subseteq 0 .. IdModulus - 1
      /\ cur \in 1 .. IdModulus - 1
  BY DEF IdsInFlight
<1>3. Dist(cur, next) = 1
  BY <1>2, DistFacts
<1>4. dq # 0 => dq # cur /\ Dist(dq, next) = Dist(dq, cur) + 1 /\ Dist(dq, cur) <= 1
  <2>1. dq # 0 => Dist(dq, cur) <= 1
    BY <1>1, IdFacts DEF InFlight, One
  <2> QED
    BY <1>2, <2>1, DistFacts, ModulusFacts
<1>5. da # 0 => da # cur /\ Dist(da, next) = Dist(da, cur) + 1
                /\ Dist(da, cur) <= 1 + One(dq)
  <2>1. da # 0 => Dist(da, cur) <= 1 + One(dq)
    BY <1>1, IdFacts DEF InFlight, One
  <2> SUFFICES ASSUME da # 0 PROVE da # cur /\ Dist(da, next) = Dist(da, cur) + 1
                                     /\ Dist(da, cur) <= 1 + One(dq)
    OBVIOUS
  <2>2. da \in 1 .. IdModulus - 1 /\ 1 + One(dq) \in 0 .. 2
    BY <1>2, IdFacts, ModulusFacts DEF One
  <2>3. Dist(da, cur) \in Nat
    BY <1>2, <2>2, DistFacts, ModulusFacts
  <2>4. Dist(da, cur) <= 2 * MaxDataAccesses + 2
    BY <2>1, <2>2, <2>3, ModulusFacts
  <2> QED
    BY <1>2, <2>1, <2>2, <2>4, Older
<1>6. Dist(dq, cur) \in Int \/ dq = 0
  <2>1. dq \in 1 .. IdModulus - 1 \/ dq = 0
    BY <1>2, ModulusFacts
  <2> QED
    BY <1>2, <2>1, DistFacts
<1>7. Dist(da, cur) \in Int \/ da = 0
  <2>1. da \in 1 .. IdModulus - 1 \/ da = 0
    BY <1>2, ModulusFacts
  <2> QED
    BY <1>2, <2>1, DistFacts
<1>8. /\ dq # 0 => Dist(dq, next) <= 1 + One(cur)
      /\ da # 0 => Dist(da, next) <= 1 + One(cur) + One(dq)
  BY <1>2, <1>4, <1>5, <1>6, <1>7, IdFacts DEF One
<1>9. Dist(cur, next) + slack <= 2 * MaxDataAccesses + 3
  BY <1>3, ModulusFacts
<1> QED
  BY <1>1, <1>2, <1>4, <1>5, <1>8, <1>9, IdFacts DEF InFlight

\* The memory takes a data access when its queue for them is empty.
LEMMA AcceptData ==
    ASSUME NEW iq, NEW ia, NEW da, NEW cur, NEW b, NEW c, NEW slack \in Nat,
           NEW next, next = IF cur = IdModulus - 1 THEN 1 ELSE cur + 1,
           IdsInFlight(iq, 0, ia, da, cur, b, c),
           InFlight(iq, 0, ia, da, cur, b, c, slack + 1)
    PROVE  InFlight(iq, cur, ia, da, next, b, cur, slack)
<1>1. /\ {iq, ia, da, b, c} \subseteq 0 .. IdModulus - 1
      /\ cur \in 1 .. IdModulus - 1
  BY DEF IdsInFlight
<1>2. Dist(cur, next) = 1
  BY <1>1, DistFacts
<1>3. da # 0 => da # cur /\ Dist(da, next) = Dist(da, cur) + 1
                /\ Dist(da, cur) <= 1 + One(iq)
  <2>1. da # 0 => Dist(da, cur) <= 1 + One(iq)
    BY <1>1, IdFacts DEF InFlight, One
  <2> SUFFICES ASSUME da # 0 PROVE da # cur /\ Dist(da, next) = Dist(da, cur) + 1
                                     /\ Dist(da, cur) <= 1 + One(iq)
    OBVIOUS
  <2>2. da \in 1 .. IdModulus - 1 /\ 1 + One(iq) \in 0 .. 2
    BY <1>1, IdFacts, ModulusFacts DEF One
  <2>3. Dist(da, cur) \in Nat
    BY <1>1, <2>2, DistFacts, ModulusFacts
  <2>4. Dist(da, cur) <= 2 * MaxDataAccesses + 2
    BY <2>1, <2>2, <2>3, ModulusFacts
  <2> QED
    BY <1>1, <2>1, <2>2, <2>4, Older
<1>4. b # 0 => b # cur /\ Dist(b, next) = Dist(b, cur) + 1
               /\ Dist(b, cur) + slack + 1 <= 2 * MaxDataAccesses + 3
  <2>1. b # 0 => Dist(b, cur) + slack + 1 <= 2 * MaxDataAccesses + 3
    <3>1. b # 0 => Dist(b, cur) + (slack + 1) <= 2 * MaxDataAccesses + 3
      BY IdFacts DEF InFlight
    <3>2. b # 0 => Dist(b, cur) \in Nat
      BY <1>1, DistFacts, ModulusFacts
    <3> QED
      BY <3>1, <3>2
  <2> SUFFICES ASSUME b # 0
               PROVE  b # cur /\ Dist(b, next) = Dist(b, cur) + 1
                      /\ Dist(b, cur) + slack + 1 <= 2 * MaxDataAccesses + 3
    OBVIOUS
  <2>2. b \in 1 .. IdModulus - 1
    BY <1>1, ModulusFacts
  <2>3. Dist(b, cur) \in Nat
    BY <1>1, <2>2, DistFacts, ModulusFacts
  <2>4. Dist(b, cur) <= 2 * MaxDataAccesses + 2
    BY <2>1, <2>3, ModulusFacts
  <2> QED
    BY <1>1, <2>1, <2>2, <2>4, Older
<1>5. Dist(da, cur) \in Int \/ da = 0
  <2>1. da \in 1 .. IdModulus - 1 \/ da = 0
    BY <1>1, ModulusFacts
  <2> QED
    BY <1>1, <2>1, DistFacts
<1>6. Dist(b, cur) \in Int \/ b = 0
  <2>1. b \in 1 .. IdModulus - 1 \/ b = 0
    BY <1>1, ModulusFacts
  <2> QED
    BY <1>1, <2>1, DistFacts
<1>7. /\ Dist(cur, next) <= 1 + One(iq)
      /\ da # 0 => Dist(da, next) <= 1 + One(iq) + One(cur)
  BY <1>1, <1>2, <1>3, <1>5, IdFacts DEF One
<1>8. b # 0 => Dist(b, next) + slack <= 2 * MaxDataAccesses + 3
  BY <1>4, <1>6, ModulusFacts
<1>9. ia = 0 \/ da = 0
  BY IdFacts DEF InFlight
<1>10. (iq = b /\ ia = 0) \/ (iq = 0 /\ ia = b)
  BY IdFacts DEF InFlight
<1>11. (b # 0 => b # da)
  BY IdFacts DEF InFlight
<1> QED
  BY <1>3, <1>4, <1>7, <1>8, <1>9, <1>10, <1>11, IdFacts DEF InFlight

\* Fewer accesses may follow; the data component may give up its access.
LEMMA Weaken ==
    ASSUME NEW iq, NEW dq, NEW ia, NEW da, NEW cur, NEW b, NEW c, NEW e \in {0, c},
           NEW slack \in Nat, NEW few \in 0 .. slack,
           IdsInFlight(iq, dq, ia, da, cur, b, c),
           InFlight(iq, dq, ia, da, cur, b, c, slack)
    PROVE  InFlight(iq, dq, ia, da, cur, b, e, few)
<1>1. {iq, ia, da, b, c} \subseteq 0 .. IdModulus - 1 /\ cur \in 1 .. IdModulus - 1
  BY DEF IdsInFlight
<1>2. b # 0 => Dist(b, cur) + few <= 2 * MaxDataAccesses + 3
  <2>1. b # 0 => Dist(b, cur) \in Nat
    BY <1>1, DistFacts, ModulusFacts
  <2>2. b # 0 => Dist(b, cur) + slack <= 2 * MaxDataAccesses + 3
    BY IdFacts DEF InFlight
  <2> QED
    BY <2>1, <2>2, ModulusFacts
<1> QED
  BY <1>2, IdFacts DEF InFlight

\* The memory starts the queued access, data first.
LEMMA StartData ==
    ASSUME NEW iq, NEW dq, NEW cur, NEW b, NEW c, NEW slack \in Nat, dq # 0,
           IdsInFlight(iq, dq, 0, 0, cur, b, c), InFlight(iq, dq, 0, 0, cur, b, c, slack)
    PROVE  InFlight(iq, 0, 0, dq, cur, b, c, slack)
BY IdFacts DEF InFlight, One, IdsInFlight

\* The memory starts the queued instruction access if no data is queued.
LEMMA StartInstr ==
    ASSUME NEW iq, NEW cur, NEW b, NEW c, NEW slack \in Nat,
           IdsInFlight(iq, 0, 0, 0, cur, b, c), InFlight(iq, 0, 0, 0, cur, b, c, slack)
    PROVE  InFlight(0, 0, iq, 0, cur, b, c, slack)
BY IdFacts DEF InFlight, One, IdsInFlight

\* The memory finishes an access: the component that waits for it is told.
LEMMA FinishData ==
    ASSUME NEW iq, NEW dq, NEW da, NEW cur, NEW b, NEW c, NEW slack \in Nat, da # 0,
           IdsInFlight(iq, dq, 0, da, cur, b, c), InFlight(iq, dq, 0, da, cur, b, c, slack)
    PROVE  /\ da # b
           /\ InFlight(iq, dq, 0, 0, cur, b, IF da = c THEN 0 ELSE c, slack)
           /\ da = c => dq = 0
BY IdFacts DEF InFlight, One, IdsInFlight

\* The same for an instruction access.
LEMMA FinishInstr ==
    ASSUME NEW iq, NEW dq, NEW ia, NEW cur, NEW b, NEW c, NEW slack \in Nat, ia # 0,
           IdsInFlight(iq, dq, ia, 0, cur, b, c), InFlight(iq, dq, ia, 0, cur, b, c, slack)
    PROVE  /\ ia = b /\ ia # c
           /\ InFlight(iq, dq, 0, 0, cur, 0, c, slack)
BY IdFacts DEF InFlight, One, IdsInFlight

-----------------------------------------------------------------------------
(* The memory.                                                             *)

\* The fields of the memory's topology, and of the memory.
LEMMA MemoryTypes ==
    ASSUME NEW m \in T!BgMem!Topology
    PROVE  /\ m.memory \in [left : 0 .. MaxLatency, stall : BOOLEAN]
           /\ m.instructionQueue = <<>> \/ \E i \in 1 .. IdModulus - 1 : m.instructionQueue = << i >>
           /\ m.dataQueue = <<>> \/ \E i \in 1 .. IdModulus - 1 : m.dataQueue = << i >>
           /\ m.currentId \in 1 .. IdModulus - 1
           /\ m.currentIdAccessed \in 0 .. IdModulus - 1
           /\ m.finishedAccess \in 0 .. IdModulus - 1
           /\ m.currentIdAccessesInstr \in BOOLEAN
           /\ m.waitingForJoin \in BOOLEAN
BY IdFacts, ModulusFacts DEF T!BgMem!Topology, T!BgMem!IdQueue, T!Mem!Memory

\* The identifiers in the memory as integers.
LEMMA MemoryIds ==
    ASSUME NEW m \in T!BgMem!Topology,
           NEW b \in 0 .. IdModulus - 1, NEW c \in 0 .. IdModulus - 1
    PROVE  /\ IdsInFlight(Queued(m.instructionQueue), Queued(m.dataQueue),
                          InstrAccessed(m), DataAccessed(m), m.currentId, b, c)
           /\ Queued(m.instructionQueue) = 0 <=> m.instructionQueue = <<>>
           /\ Queued(m.dataQueue) = 0 <=> m.dataQueue = <<>>
           /\ m.dataQueue # <<>> => Queued(m.dataQueue) = Head(m.dataQueue)
           /\ m.instructionQueue # <<>> => Queued(m.instructionQueue) = Head(m.instructionQueue)
           /\ m.currentIdAccessed = 0 => InstrAccessed(m) = 0 /\ DataAccessed(m) = 0
           /\ m.currentIdAccessesInstr => InstrAccessed(m) = m.currentIdAccessed
                                          /\ DataAccessed(m) = 0
           /\ ~m.currentIdAccessesInstr => DataAccessed(m) = m.currentIdAccessed
                                           /\ InstrAccessed(m) = 0
<1>1. /\ Queued(m.instructionQueue) \in 0 .. IdModulus - 1
      /\ Queued(m.instructionQueue) = 0 <=> m.instructionQueue = <<>>
      /\ m.instructionQueue # <<>> => Queued(m.instructionQueue) = Head(m.instructionQueue)
  BY MemoryTypes, IdFacts, ModulusFacts DEF Queued
<1>2. /\ Queued(m.dataQueue) \in 0 .. IdModulus - 1
      /\ Queued(m.dataQueue) = 0 <=> m.dataQueue = <<>>
      /\ m.dataQueue # <<>> => Queued(m.dataQueue) = Head(m.dataQueue)
  BY MemoryTypes, IdFacts, ModulusFacts DEF Queued
<1>3. /\ InstrAccessed(m) \in {0, m.currentIdAccessed}
      /\ DataAccessed(m) \in {0, m.currentIdAccessed}
      /\ m.currentIdAccessesInstr => InstrAccessed(m) = m.currentIdAccessed
                                     /\ DataAccessed(m) = 0
      /\ ~m.currentIdAccessesInstr => DataAccessed(m) = m.currentIdAccessed
                                      /\ InstrAccessed(m) = 0
  BY MemoryTypes, IdFacts DEF InstrAccessed, DataAccessed
<1>4. m.currentIdAccessed \in 0 .. IdModulus - 1 /\ m.currentId \in 1 .. IdModulus - 1
  BY MemoryTypes
<1>5. InstrAccessed(m) \in 0 .. IdModulus - 1 /\ DataAccessed(m) \in 0 .. IdModulus - 1
  BY <1>3, <1>4, ModulusFacts
<1>6. IdsInFlight(Queued(m.instructionQueue), Queued(m.dataQueue),
                  InstrAccessed(m), DataAccessed(m), m.currentId, b, c)
  BY <1>1, <1>2, <1>4, <1>5 DEF IdsInFlight
<1> QED
  BY <1>1, <1>2, <1>3, <1>6

\* The instruction component waits for nothing and makes an access.
LEMMA MemoryAccessInstr ==
    ASSUME NEW m, NEW c \in 0 .. IdModulus - 1, NEW slack \in 0 .. 2 * MaxDataAccesses + 2,
           MemoryInv(m, 0, c, slack)
    PROVE  /\ MemoryInv(T!BgMem!accessInstr(m), m.currentId, c, slack)
           /\ T!BgMem!accessInstr(m).dataQueue = m.dataQueue
<1> DEFINE u == T!BgMem!accessInstr(m)
           next == IF m.currentId = IdModulus - 1 THEN 1 ELSE m.currentId + 1
<1>1. m \in T!BgMem!Topology /\ m.currentId \in 1 .. IdModulus - 1
  BY MemoryTypes DEF MemoryInv
<1>2. u = [m EXCEPT !.instructionQueue = << m.currentId >>, !.currentId = next]
  BY <1>1, Successor DEF T!BgMem!accessInstr
<1>3. next \in 1 .. IdModulus - 1
  BY <1>1, DistFacts
<1>4. /\ u.memory = m.memory /\ u.dataQueue = m.dataQueue
      /\ u.instructionQueue = << m.currentId >>
      /\ u.currentId = next /\ u.currentIdAccessed = m.currentIdAccessed
      /\ u.finishedAccess = m.finishedAccess
      /\ u.currentIdAccessesInstr = m.currentIdAccessesInstr
      /\ u.waitingForJoin = m.waitingForJoin
      /\ u \in T!BgMem!Topology
  BY <1>1, <1>2, <1>3, IdFacts DEF T!BgMem!Topology, T!BgMem!IdQueue
<1> HIDE DEF u, next
<1>5. InFlight(Queued(m.instructionQueue), Queued(m.dataQueue), InstrAccessed(m),
               DataAccessed(m), m.currentId, 0, c, slack)
  BY DEF MemoryInv
<1>6. InFlight(m.currentId, Queued(m.dataQueue), InstrAccessed(m),
               DataAccessed(m), next, m.currentId, c, slack)
  <2>1. IdsInFlight(Queued(m.instructionQueue), Queued(m.dataQueue), InstrAccessed(m),
                    DataAccessed(m), m.currentId, 0, c)
    BY <1>1, MemoryIds, ModulusFacts
  <2>2. next = IF m.currentId = IdModulus - 1 THEN 1 ELSE m.currentId + 1
    BY DEF next
  <2> QED
    BY <1>5, <2>1, <2>2, AcceptInstr
<1>7. /\ Queued(u.instructionQueue) = m.currentId
      /\ InstrAccessed(u) = InstrAccessed(m) /\ DataAccessed(u) = DataAccessed(m)
  BY <1>4 DEF Queued, InstrAccessed, DataAccessed
<1>8. MemoryInv(u, m.currentId, c, slack)
  BY <1>4, <1>6, <1>7 DEF MemoryInv
<1> QED
  BY <1>4, <1>8 DEF u

\* The data component makes an access that the memory takes.
LEMMA MemoryAccessData ==
    ASSUME NEW m, NEW b \in 0 .. IdModulus - 1, NEW c \in 0 .. IdModulus - 1, NEW slack \in Nat,
           MemoryInv(m, b, c, slack + 1), m.dataQueue = <<>>
    PROVE  /\ MemoryInv(T!BgMem!accessData(m), b, m.currentId, slack)
           /\ T!BgMem!accessData(m).dataQueue # <<>>
           /\ T!BgMem!accessData(m).memory = m.memory
           /\ m.currentId \in 1 .. IdModulus - 1
<1> DEFINE u == T!BgMem!accessData(m)
           next == IF m.currentId = IdModulus - 1 THEN 1 ELSE m.currentId + 1
<1>1. m \in T!BgMem!Topology /\ m.currentId \in 1 .. IdModulus - 1
  BY MemoryTypes DEF MemoryInv
<1>2. u = [m EXCEPT !.dataQueue = << m.currentId >>, !.currentId = next]
  BY <1>1, Successor DEF T!BgMem!accessData, T!BgMem!acceptsData
<1>3. next \in 1 .. IdModulus - 1
  BY <1>1, DistFacts
<1>4. /\ u.memory = m.memory /\ u.instructionQueue = m.instructionQueue
      /\ u.dataQueue = << m.currentId >>
      /\ u.currentId = next /\ u.currentIdAccessed = m.currentIdAccessed
      /\ u.finishedAccess = m.finishedAccess
      /\ u.currentIdAccessesInstr = m.currentIdAccessesInstr
      /\ u.waitingForJoin = m.waitingForJoin
      /\ u \in T!BgMem!Topology
  BY <1>1, <1>2, <1>3, IdFacts DEF T!BgMem!Topology, T!BgMem!IdQueue
<1> HIDE DEF u, next
<1>5. InFlight(Queued(m.instructionQueue), 0, InstrAccessed(m),
               DataAccessed(m), m.currentId, b, c, slack + 1)
  BY <1>1, MemoryIds DEF MemoryInv
<1>6. InFlight(Queued(m.instructionQueue), m.currentId, InstrAccessed(m),
               DataAccessed(m), next, b, m.currentId, slack)
  <2>1. IdsInFlight(Queued(m.instructionQueue), 0, InstrAccessed(m),
                    DataAccessed(m), m.currentId, b, c)
    BY <1>1, MemoryIds
  <2>2. next = IF m.currentId = IdModulus - 1 THEN 1 ELSE m.currentId + 1
    BY DEF next
  <2> QED
    BY <1>5, <2>1, <2>2, AcceptData
<1>7. /\ Queued(u.dataQueue) = m.currentId
      /\ InstrAccessed(u) = InstrAccessed(m) /\ DataAccessed(u) = DataAccessed(m)
  BY <1>4 DEF Queued, InstrAccessed, DataAccessed
<1>8. MemoryInv(u, b, m.currentId, slack)
  BY <1>4, <1>6, <1>7 DEF MemoryInv
<1> QED
  BY <1>1, <1>4, <1>8 DEF u

\* Fewer accesses may follow; the data component may give up its access.
LEMMA MemoryWeaken ==
    ASSUME NEW m, NEW b \in 0 .. IdModulus - 1, NEW c \in 0 .. IdModulus - 1, NEW e \in {0, c},
           NEW slack \in Nat, NEW few \in 0 .. slack, MemoryInv(m, b, c, slack)
    PROVE  MemoryInv(m, b, e, few)
<1>1. IdsInFlight(Queued(m.instructionQueue), Queued(m.dataQueue), InstrAccessed(m),
                  DataAccessed(m), m.currentId, b, c)
  BY MemoryIds DEF MemoryInv
<1>2. InFlight(Queued(m.instructionQueue), Queued(m.dataQueue), InstrAccessed(m),
               DataAccessed(m), m.currentId, b, c, slack)
  BY DEF MemoryInv
<1>3. InFlight(Queued(m.instructionQueue), Queued(m.dataQueue), InstrAccessed(m),
               DataAccessed(m), m.currentId, b, e, few)
  BY <1>1, <1>2, Weaken
<1> QED
  BY <1>3 DEF MemoryInv

\* If the instruction component waits for nothing, any number may follow.
LEMMA MemoryUnbounded ==
    ASSUME NEW m, NEW c, NEW slack, NEW many, MemoryInv(m, 0, c, slack)
    PROVE  MemoryInv(m, 0, c, many)
BY IdFacts DEF MemoryInv, InFlight

\* Asking the memory whether an access is finished.
LEMMA ForgetFields ==
    ASSUME NEW m \in T!BgMem!Topology, NEW id
    PROVE  /\ T!BgMem!forget(m, id).dataQueue = m.dataQueue
           /\ T!BgMem!forget(m, id).memory = m.memory
           /\ T!BgMem!forget(m, id).finishedAccess
                = IF m.finishedAccess = id THEN 0 ELSE m.finishedAccess
           /\ m.finishedAccess # id => T!BgMem!forget(m, id) = m
BY IdFacts DEF T!BgMem!forget, T!BgMem!finished, T!BgMem!Topology

\* Asking the memory keeps the invariant.
LEMMA MemoryForget ==
    ASSUME NEW m, NEW b, NEW c, NEW slack, NEW id, MemoryInv(m, b, c, slack)
    PROVE  MemoryInv(T!BgMem!forget(m, id), b, c, slack)
<1> DEFINE u == T!BgMem!forget(m, id)
<1>1. m \in T!BgMem!Topology
  BY DEF MemoryInv
<1>2. u = IF m.finishedAccess = id THEN [m EXCEPT !.finishedAccess = 0] ELSE m
  BY IdFacts DEF T!BgMem!forget, T!BgMem!finished
<1>3. /\ u.memory = m.memory /\ u.instructionQueue = m.instructionQueue
      /\ u.dataQueue = m.dataQueue
      /\ u.currentId = m.currentId /\ u.currentIdAccessed = m.currentIdAccessed
      /\ u.finishedAccess = IF m.finishedAccess = id THEN 0 ELSE m.finishedAccess
      /\ u.currentIdAccessesInstr = m.currentIdAccessesInstr
      /\ u \in T!BgMem!Topology
  BY <1>1, <1>2, IdFacts DEF T!BgMem!Topology
<1> HIDE DEF u
<1>4. InstrAccessed(u) = InstrAccessed(m) /\ DataAccessed(u) = DataAccessed(m)
  BY <1>3 DEF InstrAccessed, DataAccessed
<1>5. MemoryInv(u, b, c, slack)
  BY <1>3, <1>4, IdFacts DEF MemoryInv
<1> QED
  BY <1>5 DEF u

\* The memory while it may start an access and report the last one.
MemoryStarted(m, b, c, slack) ==
    /\ m \in T!BgMem!Topology
    /\ (m.memory.left > 0) <=> (m.currentIdAccessed # NoId)
    /\ InFlight(Queued(m.instructionQueue), Queued(m.dataQueue), InstrAccessed(m),
                DataAccessed(m), m.currentId, b, c, slack)

\* An idle memory starts the access that waits, data first.
LEMMA MemoryStart ==
    ASSUME NEW m, NEW b \in 0 .. IdModulus - 1, NEW c \in 0 .. IdModulus - 1, NEW slack \in Nat,
           MemoryInv(m, b, c, slack), NEW u \in T!BgMem!startAccess(m, FALSE)
    PROVE  /\ MemoryStarted(u, b, c, slack)
           /\ m.dataQueue = <<>> => u.dataQueue = <<>>
<1>1. m \in T!BgMem!Topology
  BY DEF MemoryInv
<1> DEFINE iq == Queued(m.instructionQueue)
           dq == Queued(m.dataQueue)
<1>2. CASE m.currentIdAccessed # 0
  <2>1. u = m
    BY <1>2, IdFacts DEF T!BgMem!startAccess
  <2> QED
    BY <2>1 DEF MemoryInv, MemoryStarted
<1>3. CASE m.currentIdAccessed = 0
  <2>1. /\ IdsInFlight(iq, dq, 0, 0, m.currentId, b, c)
        /\ InFlight(iq, dq, 0, 0, m.currentId, b, c, slack)
        /\ InstrAccessed(m) = 0 /\ DataAccessed(m) = 0
    <3>1. InstrAccessed(m) = 0 /\ DataAccessed(m) = 0
      BY <1>1, <1>3, MemoryIds
    <3>2. IdsInFlight(iq, dq, InstrAccessed(m), DataAccessed(m), m.currentId, b, c)
      BY <1>1, MemoryIds
    <3> QED
      BY <3>1, <3>2 DEF MemoryInv
  <2>2. CASE m.dataQueue # <<>>
    <3>1. PICK l \in 1 .. MaxLatency :
             u = [m EXCEPT !.currentIdAccessed = dq,
                           !.memory = [left |-> l, stall |-> FALSE],
                           !.dataQueue = <<>>, !.currentIdAccessesInstr = FALSE]
      <4>1. dq = Head(m.dataQueue)
        BY <2>2 DEF Queued
      <4> HIDE DEF dq
      <4>2. PICK r \in T!BgMem!accessMemory(m, dq) :
               u = [r EXCEPT !.dataQueue = <<>>, !.currentIdAccessesInstr = FALSE]
        BY <1>3, <2>2, <4>1, IdFacts DEF T!BgMem!startAccess
      <4>3. PICK l \in 1 .. MaxLatency :
               r = [m EXCEPT !.currentIdAccessed = dq,
                             !.memory = [left |-> l, stall |-> FALSE]]
        BY DEF T!BgMem!accessMemory, T!Mem!announceAccess
      <4> QED
        BY <1>1, <4>2, <4>3 DEF T!BgMem!Topology
    <3>2. dq \in 1 .. IdModulus - 1
      <4>1. PICK i \in 1 .. IdModulus - 1 : m.dataQueue = << i >>
        BY <1>1, <2>2, MemoryTypes
      <4> QED
        BY <4>1 DEF Queued
    <3> HIDE DEF dq
    <3>3. /\ u \in T!BgMem!Topology /\ u.memory.left > 0
          /\ u.currentIdAccessed = dq /\ u.dataQueue = <<>>
          /\ u.instructionQueue = m.instructionQueue
          /\ u.currentId = m.currentId /\ ~u.currentIdAccessesInstr
      <4>1. /\ [left |-> l, stall |-> FALSE] \in T!Mem!Memory
            /\ dq \in T!BgMem!Ids \cup {0}
        BY <3>2, IdFacts, ModulusFacts DEF T!Mem!Memory
      <4>2. u \in T!BgMem!Topology
        BY <1>1, <3>1, <4>1, IdFacts DEF T!BgMem!Topology, T!BgMem!IdQueue
      <4> QED
        BY <1>1, <3>1, <4>2 DEF T!BgMem!Topology
    <3>4. InFlight(iq, 0, 0, dq, m.currentId, b, c, slack)
      <4>1. dq # 0
        BY <3>2
      <4> HIDE DEF iq
      <4> QED
        BY <2>1, <4>1, StartData
    <3>5. Queued(u.dataQueue) = 0 /\ InstrAccessed(u) = 0 /\ DataAccessed(u) = dq
      BY <3>3, IdFacts DEF Queued, InstrAccessed, DataAccessed
    <3>6. dq # 0
      BY <3>2
    <3> QED
      BY <3>3, <3>4, <3>5, <3>6, IdFacts DEF MemoryStarted
  <2>3. CASE m.dataQueue = <<>> /\ m.instructionQueue # <<>>
    <3>1. PICK l \in 1 .. MaxLatency :
             u = [m EXCEPT !.currentIdAccessed = iq,
                           !.memory = [left |-> l, stall |-> FALSE],
                           !.instructionQueue = <<>>, !.currentIdAccessesInstr = TRUE]
      <4>1. iq = Head(m.instructionQueue)
        BY <2>3 DEF Queued
      <4> HIDE DEF iq
      <4>2. PICK r \in T!BgMem!accessMemory(m, iq) :
               u = [r EXCEPT !.instructionQueue = <<>>, !.currentIdAccessesInstr = TRUE]
        BY <1>3, <2>3, <4>1, IdFacts DEF T!BgMem!startAccess
      <4>3. PICK l \in 1 .. MaxLatency :
               r = [m EXCEPT !.currentIdAccessed = iq,
                             !.memory = [left |-> l, stall |-> FALSE]]
        BY DEF T!BgMem!accessMemory, T!Mem!announceAccess
      <4> QED
        BY <1>1, <4>2, <4>3 DEF T!BgMem!Topology
    <3>2. iq \in 1 .. IdModulus - 1
      <4>1. PICK i \in 1 .. IdModulus - 1 : m.instructionQueue = << i >>
        BY <1>1, <2>3, MemoryTypes
      <4> QED
        BY <4>1 DEF Queued
    <3>0. dq = 0
      BY <2>3, IdFacts DEF Queued
    <3> HIDE DEF iq, dq
    <3>3. /\ u \in T!BgMem!Topology /\ u.memory.left > 0
          /\ u.currentIdAccessed = iq /\ u.instructionQueue = <<>>
          /\ u.dataQueue = m.dataQueue
          /\ u.currentId = m.currentId /\ u.currentIdAccessesInstr
      <4>1. /\ [left |-> l, stall |-> FALSE] \in T!Mem!Memory
            /\ iq \in T!BgMem!Ids \cup {0}
        BY <3>2, IdFacts, ModulusFacts DEF T!Mem!Memory
      <4>2. u \in T!BgMem!Topology
        BY <1>1, <3>1, <4>1, IdFacts DEF T!BgMem!Topology, T!BgMem!IdQueue
      <4> QED
        BY <1>1, <3>1, <4>2 DEF T!BgMem!Topology
    <3>4. InFlight(0, 0, iq, 0, m.currentId, b, c, slack)
      BY <2>1, <3>0, StartInstr
    <3>5. /\ Queued(u.instructionQueue) = 0 /\ Queued(u.dataQueue) = 0
          /\ InstrAccessed(u) = iq /\ DataAccessed(u) = 0
      BY <2>3, <3>3, IdFacts DEF Queued, InstrAccessed, DataAccessed
    <3>6. iq # 0
      BY <3>2
    <3> QED
      BY <2>3, <3>3, <3>4, <3>5, <3>6, IdFacts DEF MemoryStarted
  <2>4. CASE m.dataQueue = <<>> /\ m.instructionQueue = <<>>
    <3>1. u = m
      BY <1>3, <2>4, IdFacts DEF T!BgMem!startAccess
    <3> QED
      BY <3>1 DEF MemoryInv, MemoryStarted
  <2> QED
    BY <2>2, <2>3, <2>4
<1> QED
  BY <1>2, <1>3

\* What a component still waits for after a cycle of the memory.
Left(b, m) == IF m.finishedAccess = b THEN 0 ELSE b

\* A cycle of the memory may finish one access.
LEMMA MemoryCycle ==
    ASSUME NEW m, NEW b \in 0 .. IdModulus - 1, NEW c \in 0 .. IdModulus - 1, NEW slack \in Nat,
           MemoryInv(m, b, c, slack), NEW u \in T!BgMem!cycle(m, FALSE)
    PROVE  /\ MemoryInv(u, Left(b, u), Left(c, u), slack)
           /\ u.finishedAccess # 0 => u.finishedAccess # b \/ u.finishedAccess # c
           /\ u.finishedAccess # 0 /\ u.finishedAccess = c => u.dataQueue = <<>>
           /\ u.memory.stall => u.finishedAccess = 0 /\ config.StallOnLocalWorst
           /\ m.dataQueue = <<>> => u.dataQueue = <<>>
<1> DEFINE cycled(s, w) == [s EXCEPT !.memory = w, !.finishedAccess = T!BgMem!NoId,
                                     !.waitingForJoin = FALSE]
           after(s, w) == IF cycled(s, w).currentIdAccessed # T!BgMem!NoId /\ ~T!Mem!isBusy(w)
                          THEN T!BgMem!finishAccess(cycled(s, w)) ELSE cycled(s, w)
           successors(s) == { after(s, w) : w \in T!Mem!cycle(s.memory) }
<1>0. PICK s \in T!BgMem!startAccess(m, FALSE) : \E w \in T!Mem!cycle(s.memory) :
         u = IF cycled(s, w).currentIdAccessed # 0 /\ ~T!Mem!isBusy(w)
             THEN T!BgMem!finishAccess(cycled(s, w)) ELSE cycled(s, w)
  <2>1. T!BgMem!cycle(m, FALSE)
          = UNION { successors(s) : s \in T!BgMem!startAccess(m, FALSE) }
    BY Zenon DEF T!BgMem!cycle
  <2> HIDE DEF after, cycled
  <2>2. PICK s \in T!BgMem!startAccess(m, FALSE) : u \in successors(s)
    BY <2>1
  <2>3. PICK w \in T!Mem!cycle(s.memory) : u = after(s, w)
    BY <2>2
  <2> QED
    BY <2>3, IdFacts DEF after
<1>1. PICK w \in T!Mem!cycle(s.memory) :
         u = IF s.currentIdAccessed # 0 /\ ~T!Mem!isBusy(w)
             THEN [s EXCEPT !.memory = w, !.finishedAccess = s.currentIdAccessed,
                            !.waitingForJoin = TRUE, !.currentIdAccessed = 0]
             ELSE [s EXCEPT !.memory = w, !.finishedAccess = 0, !.waitingForJoin = FALSE]
  <2>1. s \in T!BgMem!Topology
    BY MemoryStart DEF MemoryStarted
  <2> QED
    BY <1>0, <2>1, IdFacts DEF T!BgMem!finishAccess, T!BgMem!Topology
<1> HIDE DEF cycled, after, successors
<1>2. MemoryStarted(s, b, c, slack) /\ (m.dataQueue = <<>> => s.dataQueue = <<>>)
  BY MemoryStart
<1>3. s \in T!BgMem!Topology /\ s.memory \in [left : 0 .. MaxLatency, stall : BOOLEAN]
  BY <1>2, MemoryTypes DEF MemoryStarted
<1>4. /\ w \in [left : 0 .. MaxLatency, stall : BOOLEAN]
      /\ w.stall => w.left > 0 /\ config.StallOnLocalWorst
      /\ s.memory.left = 0 => w.left = 0
  BY <1>3, ModulusFacts DEF T!Mem!cycle, T!Mem!isBusy
<1>5. (s.memory.left > 0) <=> (s.currentIdAccessed # 0)
  BY <1>2, IdFacts DEF MemoryStarted
<1>6. s.currentIdAccessed \in 0 .. IdModulus - 1
  BY <1>3, MemoryTypes
<1> DEFINE iq == Queued(s.instructionQueue)
           dq == Queued(s.dataQueue)
           ia == InstrAccessed(s)
           da == DataAccessed(s)
<1>7. /\ InFlight(iq, dq, ia, da, s.currentId, b, c, slack)
      /\ IdsInFlight(iq, dq, ia, da, s.currentId, b, c)
  BY <1>2, <1>3, MemoryIds DEF MemoryStarted
<1>8. CASE s.currentIdAccessed # 0 /\ ~T!Mem!isBusy(w)
  <2>1. u = [s EXCEPT !.memory = w, !.finishedAccess = s.currentIdAccessed,
                      !.waitingForJoin = TRUE, !.currentIdAccessed = 0]
    BY <1>1, <1>8
  <2>2. w.left = 0 /\ ~w.stall
    BY <1>4, <1>8 DEF T!Mem!isBusy
  <2>3. /\ u \in T!BgMem!Topology /\ u.memory = w
        /\ u.instructionQueue = s.instructionQueue /\ u.dataQueue = s.dataQueue
        /\ u.currentId = s.currentId /\ u.currentIdAccessed = 0
        /\ u.finishedAccess = s.currentIdAccessed
    BY <1>3, <1>4, <1>6, <2>1, IdFacts DEF T!BgMem!Topology, T!Mem!Memory
  <2>4. InstrAccessed(u) = 0 /\ DataAccessed(u) = 0
    BY <2>3, IdFacts DEF InstrAccessed, DataAccessed
  <2>5. CASE s.currentIdAccessesInstr
    <3>1. ia = s.currentIdAccessed /\ da = 0
      BY <1>3, <2>5, MemoryIds
    <3>2. ia # 0
      BY <1>8, <3>1
    <3> HIDE DEF iq, dq, ia, da
    <3>3. ia = b /\ ia # c /\ InFlight(iq, dq, 0, 0, s.currentId, 0, c, slack)
      BY <1>7, <3>1, <3>2, FinishInstr
    <3>4. Left(b, u) = 0 /\ Left(c, u) = c
      BY <2>3, <3>1, <3>3 DEF Left
    <3>5. MemoryInv(u, 0, c, slack)
      BY <2>2, <2>3, <2>4, <3>3, IdFacts DEF MemoryInv, iq, dq
    <3> QED
      BY <1>2, <2>2, <2>3, <3>1, <3>3, <3>4, <3>5
  <2>6. CASE ~s.currentIdAccessesInstr
    <3>1. da = s.currentIdAccessed /\ ia = 0
      BY <1>3, <2>6, MemoryIds
    <3>2. da # 0
      BY <1>8, <3>1
    <3>0. dq = 0 => s.dataQueue = <<>>
      BY <1>3, MemoryIds
    <3> HIDE DEF iq, dq, ia, da
    <3>3. /\ da # b
          /\ InFlight(iq, dq, 0, 0, s.currentId, b, IF da = c THEN 0 ELSE c, slack)
          /\ da = c => dq = 0
      BY <1>7, <3>1, <3>2, FinishData
    <3>4. Left(b, u) = b /\ Left(c, u) = IF da = c THEN 0 ELSE c
      BY <2>3, <3>1, <3>3 DEF Left
    <3>5. MemoryInv(u, b, IF da = c THEN 0 ELSE c, slack)
      BY <2>2, <2>3, <2>4, <3>3, IdFacts DEF MemoryInv, iq, dq
    <3> QED
      BY <1>2, <2>2, <2>3, <3>0, <3>1, <3>3, <3>4, <3>5
  <2> QED
    BY <2>5, <2>6
<1>9. CASE ~(s.currentIdAccessed # 0 /\ ~T!Mem!isBusy(w))
  <2>1. u = [s EXCEPT !.memory = w, !.finishedAccess = 0, !.waitingForJoin = FALSE]
    BY <1>1, <1>9
  <2>2. (w.left > 0) <=> (s.currentIdAccessed # 0)
    BY <1>3, <1>4, <1>5, <1>9 DEF T!Mem!isBusy
  <2>3. /\ u \in T!BgMem!Topology /\ u.memory = w
        /\ u.instructionQueue = s.instructionQueue /\ u.dataQueue = s.dataQueue
        /\ u.currentId = s.currentId /\ u.currentIdAccessed = s.currentIdAccessed
        /\ u.currentIdAccessesInstr = s.currentIdAccessesInstr
        /\ u.finishedAccess = 0
    BY <1>3, <1>4, <2>1, IdFacts DEF T!BgMem!Topology, T!Mem!Memory
  <2>4. InstrAccessed(u) = ia /\ DataAccessed(u) = da
    BY <2>3 DEF InstrAccessed, DataAccessed
  <2>5. Left(b, u) = b /\ Left(c, u) = c
    BY <2>3 DEF Left
  <2>6. MemoryInv(u, b, c, slack)
    BY <1>7, <2>2, <2>3, <2>4, IdFacts DEF MemoryInv
  <2> QED
    BY <1>2, <1>4, <2>3, <2>5, <2>6
<1> QED
  BY <1>8, <1>9

\* Fast-forwarding only shortens the access that the memory works on.
LEMMA MemoryFastForward ==
    ASSUME NEW m, NEW b, NEW c, NEW slack, MemoryInv(m, b, c, slack),
           NEW u \in T!BgMem!fastForward(m)
    PROVE  MemoryInv(u, b, c, slack) /\ u.dataQueue = m.dataQueue
<1>1. m \in T!BgMem!Topology /\ m.memory \in [left : 0 .. MaxLatency, stall : BOOLEAN]
  BY MemoryTypes DEF MemoryInv
<1>2. CASE T!Mem!isBusy(m.memory)
  <2>1. u = [m EXCEPT !.memory = [m.memory EXCEPT !.left = 1]]
    BY <1>2 DEF T!BgMem!fastForward, T!Mem!fastForward
  <2>2. /\ u \in T!BgMem!Topology /\ u.memory.left > 0
        /\ u.instructionQueue = m.instructionQueue /\ u.dataQueue = m.dataQueue
        /\ u.currentId = m.currentId /\ u.currentIdAccessed = m.currentIdAccessed
        /\ u.currentIdAccessesInstr = m.currentIdAccessesInstr
        /\ u.finishedAccess = m.finishedAccess
    BY <1>1, <2>1, ModulusFacts DEF T!BgMem!Topology, T!Mem!Memory
  <2>3. InstrAccessed(u) = InstrAccessed(m) /\ DataAccessed(u) = DataAccessed(m)
    BY <2>2 DEF InstrAccessed, DataAccessed
  <2>4. m.memory.left > 0
    BY <1>2 DEF T!Mem!isBusy
  <2> QED
    BY <2>2, <2>3, <2>4 DEF MemoryInv
<1>3. CASE ~T!Mem!isBusy(m.memory)
  <2>1. u = m
    BY <1>3 DEF T!BgMem!fastForward
  <2> QED
    BY <2>1
<1> QED
  BY <1>2, <1>3

-----------------------------------------------------------------------------
(* The topology in front of the memory.                                    *)

\* The fields of the topology.
LEMMA TopologyTypes ==
    ASSUME NEW t \in T!Topology
    PROVE  /\ t.memory \in T!BgMem!Topology
           /\ t.currentId \in 1 .. IdModulus - 1
           /\ t.instructionComponent \in T!MemoryComponent
           /\ t.dataComponent \in T!MemoryComponent
           /\ t.justMissed \in BOOLEAN /\ t.assertionFailed \in BOOLEAN
BY IdFacts DEF T!Topology

\* A component holds at most one access it works on, and one that waits.
LEMMA ComponentTypes ==
    ASSUME NEW c \in T!MemoryComponent
    PROVE  /\ c.waitingQueue = <<>> \/ \E a \in T!Access : c.waitingQueue = << a >>
           /\ c.ongoingAccess = <<>> \/ \E o \in T!OngoingAccess : c.ongoingAccess = << o >>
           /\ c.finishedId \in 0 .. IdModulus - 1
BY IdFacts, ModulusFacts DEF T!MemoryComponent

\* The fields of an ongoing access.
LEMMA OngoingTypes ==
    ASSUME NEW o \in T!OngoingAccess
    PROVE  /\ o.access \in T!Access /\ o.access.id \in 1 .. IdModulus - 1
           /\ o.cl \in {"CL_HIT", "CL2_HIT", "CL2_MISS"}
           /\ o.bgmemStall \in BOOLEAN
           /\ o.phase \in {"WaitForSTART", "WaitForLOAD", "WaitForCACHE", "WaitForSTORE"}
           /\ o.bgMemAccessId \in 0 .. IdModulus - 1
           /\ o.bgl2AccessId \in {0, 1, -1}
           /\ o.l1timeBlocked \in 0 .. InstrHitLatency + DataHitLatency
           /\ o.l2timeBlocked \in 0 .. L2HitLatency
BY IdFacts, ModulusFacts
   DEF T!OngoingAccess, T!Access, T!CL_HIT, T!CL2_HIT, T!CL2_MISS, T!WaitForSTART, T!WaitForLOAD,
       T!WaitForCACHE, T!WaitForSTORE, T!NoL2, T!L2Access, T!L2WriteBack

\* The names of the phases and classes.
LEMMA Names ==
    /\ T!WaitForSTART = "WaitForSTART" /\ T!WaitForLOAD = "WaitForLOAD"
    /\ T!WaitForCACHE = "WaitForCACHE" /\ T!WaitForSTORE = "WaitForSTORE"
    /\ T!CL_HIT = "CL_HIT" /\ T!CL2_HIT = "CL2_HIT" /\ T!CL2_MISS = "CL2_MISS"
    /\ T!NoL2 = 0 /\ T!L2Access = 1 /\ T!L2WriteBack = -1
BY DEF T!CL_HIT, T!CL2_HIT, T!CL2_MISS, T!WaitForSTART, T!WaitForLOAD,
       T!WaitForCACHE, T!WaitForSTORE, T!NoL2, T!L2Access, T!L2WriteBack

\* What a component waits for in the memory, and may still ask it for.
LEMMA AwaitedTypes ==
    ASSUME NEW c \in T!MemoryComponent
    PROVE  /\ Awaited(c) \in 0 .. IdModulus - 1
           /\ Remaining(c) \in 0 .. 2
           /\ c.ongoingAccess # <<>> => Head(c.ongoingAccess) \in T!OngoingAccess
           /\ \A o \in T!OngoingAccess : RemainingOf(o) \in 0 .. 2
<1>1. \A o \in T!OngoingAccess : RemainingOf(o) \in 0 .. 2
  BY DEF RemainingOf
<1>2. c.ongoingAccess # <<>> => Head(c.ongoingAccess) \in T!OngoingAccess
  BY ComponentTypes
<1>3. Awaited(c) \in 0 .. IdModulus - 1
  BY <1>2, OngoingTypes, IdFacts, ModulusFacts DEF Awaited
<1> QED
  BY <1>1, <1>2, <1>3 DEF Remaining

\* The latencies of the caches are positive.
LEMMA LatencyFacts ==
    /\ InstrHitLatency \in Nat /\ DataHitLatency \in Nat /\ L2HitLatency \in Nat
    /\ \A n \in Nat : T!countDown(n) \in 0 .. n
BY PipelineMemoryAssumption DEF T!countDown

\* The classes that an access may have.
LEMMA ClassificationTypes ==
    ASSUME NEW cl \in T!classifications
    PROVE  cl \in {T!CL_HIT, T!CL2_HIT, T!CL2_MISS}
<1>1. PICK L1 \in {"HIT", "MISS", "UNKNOWN"}, L2 \in {"HIT", "MISS", "UNKNOWN"} :
         cl \in T!outcomes(L1, L2)
  BY DEF T!classifications
<1> QED
  BY <1>1 DEF T!outcomes

\* A new ongoing access, which has not asked the memory yet.
LEMMA NewOngoing ==
    ASSUME NEW a \in T!Access, NEW cl \in T!classifications
    PROVE  /\ T!newOngoing(a, cl) \in T!OngoingAccess
           /\ T!newOngoing(a, cl).access = a
           /\ T!newOngoing(a, cl).cl = cl
           /\ T!newOngoing(a, cl).bgMemAccessId = 0
           /\ T!newOngoing(a, cl).bgmemStall = FALSE
BY ClassificationTypes, LatencyFacts, IdFacts, Names
   DEF T!newOngoing, T!OngoingAccess

\* An ongoing access is changed.
LEMMA OngoingUpdates ==
    ASSUME NEW o \in T!OngoingAccess,
           NEW f \in {T!WaitForLOAD, T!WaitForSTORE, T!WaitForCACHE},
           NEW id \in 0 .. IdModulus - 1, NEW s \in BOOLEAN,
           NEW l2 \in {T!NoL2, T!L2Access, T!L2WriteBack},
           NEW b1 \in 0 .. InstrHitLatency + DataHitLatency, NEW b2 \in 0 .. L2HitLatency
    PROVE  /\ [o EXCEPT !.phase = f] \in T!OngoingAccess
           /\ [o EXCEPT !.bgmemStall = s] \in T!OngoingAccess
           /\ [o EXCEPT !.bgMemAccessId = id] \in T!OngoingAccess
           /\ [o EXCEPT !.bgl2AccessId = l2] \in T!OngoingAccess
           /\ [o EXCEPT !.l1timeBlocked = b1] \in T!OngoingAccess
           /\ [o EXCEPT !.l2timeBlocked = b2] \in T!OngoingAccess
<1>1. [o EXCEPT !.phase = f] \in T!OngoingAccess
  BY DEF T!OngoingAccess
<1>2. [o EXCEPT !.bgmemStall = s] \in T!OngoingAccess
  BY DEF T!OngoingAccess
<1>3. [o EXCEPT !.bgMemAccessId = id] \in T!OngoingAccess
  BY IdFacts, ModulusFacts DEF T!OngoingAccess
<1>4. [o EXCEPT !.bgl2AccessId = l2] \in T!OngoingAccess
  BY DEF T!OngoingAccess
<1>5. [o EXCEPT !.l1timeBlocked = b1] \in T!OngoingAccess
  BY DEF T!OngoingAccess
<1>6. [o EXCEPT !.l2timeBlocked = b2] \in T!OngoingAccess
  BY DEF T!OngoingAccess
<1> QED
  BY <1>1, <1>2, <1>3, <1>4, <1>5, <1>6

\* An access is started in the first or the second level, or ends there.
LEMMA CacheUpdates ==
    ASSUME NEW o \in T!OngoingAccess, NEW l \in {InstrHitLatency, DataHitLatency}
    PROVE  /\ [o EXCEPT !.l1timeBlocked = l] \in T!OngoingAccess
           /\ [o EXCEPT !.l1timeBlocked = l, !.phase = T!WaitForCACHE] \in T!OngoingAccess
           /\ [o EXCEPT !.l1timeBlocked = l, !.bgl2AccessId = T!NoL2] \in T!OngoingAccess
           /\ [o EXCEPT !.bgl2AccessId = T!NoL2, !.l1timeBlocked = l] \in T!OngoingAccess
           /\ [o EXCEPT !.l2timeBlocked = L2HitLatency, !.bgl2AccessId = T!L2Access]
                \in T!OngoingAccess
           /\ [o EXCEPT !.l2timeBlocked = L2HitLatency, !.phase = T!WaitForCACHE,
                        !.bgl2AccessId = T!L2Access] \in T!OngoingAccess
<1>1. l \in 0 .. InstrHitLatency + DataHitLatency /\ L2HitLatency \in 0 .. L2HitLatency
  BY LatencyFacts
<1>2. [o EXCEPT !.l1timeBlocked = l] \in T!OngoingAccess
  BY <1>1 DEF T!OngoingAccess
<1>3. [o EXCEPT !.l1timeBlocked = l, !.phase = T!WaitForCACHE] \in T!OngoingAccess
  BY <1>1 DEF T!OngoingAccess
<1>4. [o EXCEPT !.l1timeBlocked = l, !.bgl2AccessId = T!NoL2] \in T!OngoingAccess
  BY <1>1 DEF T!OngoingAccess
<1>5. [o EXCEPT !.bgl2AccessId = T!NoL2, !.l1timeBlocked = l] \in T!OngoingAccess
  BY <1>1 DEF T!OngoingAccess
<1>6. [o EXCEPT !.l2timeBlocked = L2HitLatency, !.bgl2AccessId = T!L2Access]
         \in T!OngoingAccess
  BY <1>1 DEF T!OngoingAccess
<1>7. [o EXCEPT !.l2timeBlocked = L2HitLatency, !.phase = T!WaitForCACHE,
                !.bgl2AccessId = T!L2Access] \in T!OngoingAccess
  BY <1>1 DEF T!OngoingAccess
<1> QED
  BY <1>2, <1>3, <1>4, <1>5, <1>6, <1>7

\* Topology t with memory m after instruction access p has been started.
InstrStarted(t, m, p, j) ==
    [t EXCEPT !.memory = m, !.justMissed = j,
              !.instructionComponent = T!startComponent(t.instructionComponent, p)]

\* What becomes of an instruction access that is started.
LEMMA ProcessInstr ==
    ASSUME NEW t \in T!Topology, NEW a \in T!Access,
           t.instructionComponent.waitingQueue = << a >>, NEW cl \in T!classifications
    PROVE  \E p \in T!OngoingAccess, m \in {t.memory, T!BgMem!accessInstr(t.memory)},
              j \in BOOLEAN :
              /\ T!processInstrCacheAccess(t, cl) = InstrStarted(t, m, p, j)
              /\ p.access = a
              /\ \/ m = t.memory /\ p.bgMemAccessId = 0
                 \/ /\ m = T!BgMem!accessInstr(t.memory)
                    /\ p.bgMemAccessId = t.memory.currentId
<1> DEFINE i == t.instructionComponent
           o == T!newOngoing(a, cl)
           j == t.justMissed \/ (Persistence /\ cl # T!CL_HIT)
           start(p) == [t EXCEPT !.instructionComponent = T!startComponent(i, p),
                                 !.justMissed = j]
           u == T!processInstrCacheAccess(t, cl)
           hit  == [o EXCEPT !.l1timeBlocked = InstrHitLatency]
           hit2 == [o EXCEPT !.l2timeBlocked = L2HitLatency, !.bgl2AccessId = T!L2Access]
           miss == [o EXCEPT !.bgMemAccessId = t.memory.currentId]
<1>1. o \in T!OngoingAccess /\ o.access = a /\ o.bgMemAccessId = 0 /\ Head(i.waitingQueue) = a
  <2>1. o \in T!OngoingAccess /\ o.access = a /\ o.bgMemAccessId = 0
    BY NewOngoing
  <2>2. Head(i.waitingQueue) = a
    OBVIOUS
  <2> QED
    BY <2>1, <2>2
<1>2. j \in BOOLEAN /\ t.memory.currentId \in 1 .. IdModulus - 1
  BY TopologyTypes, MemoryTypes
<1>3. u = IF cl = T!CL_HIT THEN start(hit)
          ELSE IF cl = T!CL2_HIT THEN start(hit2)
          ELSE [start(miss) EXCEPT !.memory = T!BgMem!accessInstr(@)]
  <2>1. Head(i.waitingQueue) = a
    BY <1>1
  <2> QED
    BY <2>1, Names DEF T!processInstrCacheAccess
<1>4. /\ hit \in T!OngoingAccess /\ hit.access = a /\ hit.bgMemAccessId = 0
      /\ hit2 \in T!OngoingAccess /\ hit2.access = a /\ hit2.bgMemAccessId = 0
      /\ miss \in T!OngoingAccess /\ miss.access = a
      /\ miss.bgMemAccessId = t.memory.currentId
  <2> HIDE DEF o
  <2>1. hit \in T!OngoingAccess /\ hit2 \in T!OngoingAccess
    BY <1>1, CacheUpdates
  <2>2. miss \in T!OngoingAccess
    <3>1. t.memory.currentId \in 0 .. IdModulus - 1
      BY <1>2
    <3> QED
      BY <1>1, <3>1, IdFacts DEF T!OngoingAccess
  <2>3. /\ hit.access = a /\ hit.bgMemAccessId = 0
        /\ hit2.access = a /\ hit2.bgMemAccessId = 0 /\ miss.access = a
        /\ miss.bgMemAccessId = t.memory.currentId
    BY <1>1 DEF T!OngoingAccess
  <2> QED
    BY <2>1, <2>2, <2>3
<1>5. \A p : /\ start(p) = InstrStarted(t, t.memory, p, j)
             /\ [start(p) EXCEPT !.memory = T!BgMem!accessInstr(@)]
                  = InstrStarted(t, T!BgMem!accessInstr(t.memory), p, j)
  <2> HIDE DEF j
  <2> QED
    BY DEF T!Topology, InstrStarted
<1> HIDE DEF hit, hit2, miss, o, start, u, j
<1>6. CASE cl = T!CL_HIT
  BY <1>2, <1>3, <1>4, <1>5, <1>6 DEF u
<1>7. CASE cl # T!CL_HIT /\ cl = T!CL2_HIT
  BY <1>2, <1>3, <1>4, <1>5, <1>7 DEF u
<1>8. CASE cl # T!CL_HIT /\ cl # T!CL2_HIT
  BY <1>2, <1>3, <1>4, <1>5, <1>8 DEF u
<1> QED
  BY <1>6, <1>7, <1>8

\* A component starts an access.
LEMMA StartComponent ==
    ASSUME NEW c \in T!MemoryComponent, NEW o \in T!OngoingAccess
    PROVE  /\ T!startComponent(c, o) \in T!MemoryComponent
           /\ T!startComponent(c, o).waitingQueue = <<>>
           /\ T!startComponent(c, o).ongoingAccess = << o >>
           /\ T!startComponent(c, o).finishedId = c.finishedId
BY DEF T!startComponent, T!MemoryComponent

\* An access that waits for the instruction cache is started.
LEMMA StartInstrAccess ==
    ASSUME NEW t, NEW n \in 0 .. MaxDataAccesses, TopologyInv(config, t, n),
           NEW u \in T!mystartInstructionAccess(t),
           NEW id \in 0 .. IdModulus - 1, NEW fl \in BOOLEAN
    PROVE  /\ TopologyInv(config, u, n)
           /\ u.dataComponent = t.dataComponent /\ u.currentId = t.currentId
           /\ u.memory.dataQueue = t.memory.dataQueue
           /\ InstrTracked(t.instructionComponent, id, fl)
                => InstrTracked(u.instructionComponent, id, fl)
<1> DEFINE i == t.instructionComponent
<1>1. t \in T!Topology /\ i \in T!MemoryComponent /\ t.memory \in T!BgMem!Topology
      /\ t.dataComponent \in T!MemoryComponent
  BY TopologyTypes DEF TopologyInv
<1>2. CASE ~(i.ongoingAccess = <<>> /\ i.waitingQueue # <<>>)
  <2>1. u = t
    BY <1>2 DEF T!mystartInstructionAccess
  <2> QED
    BY <2>1
<1>3. CASE i.ongoingAccess = <<>> /\ i.waitingQueue # <<>>
  <2> DEFINE a == Head(i.waitingQueue)
             slack == 2 * n + Remaining(t.dataComponent)
             c == Awaited(t.dataComponent)
  <2>1. a \in T!Access /\ i.waitingQueue = << a >>
    BY <1>1, <1>3, ComponentTypes
  <2>2. PICK cl \in T!classifications : u = T!processInstrCacheAccess(t, cl)
    BY <1>3 DEF T!mystartInstructionAccess
  <2>4. Awaited(i) = 0
    BY <1>3, IdFacts DEF Awaited
  <2>5. c \in 0 .. IdModulus - 1 /\ slack \in 0 .. 2 * MaxDataAccesses + 2
    BY <1>1, AwaitedTypes, ModulusFacts
  <2>6. MemoryInv(t.memory, 0, c, slack)
    BY <2>4 DEF TopologyInv
  <2>7. PICK p \in T!OngoingAccess, m \in {t.memory, T!BgMem!accessInstr(t.memory)},
             j \in BOOLEAN :
           /\ u = InstrStarted(t, m, p, j)
           /\ p.access = a
           /\ \/ m = t.memory /\ p.bgMemAccessId = 0
              \/ /\ m = T!BgMem!accessInstr(t.memory)
                 /\ p.bgMemAccessId = t.memory.currentId
    <3>1. t \in T!Topology /\ a \in T!Access /\ t.instructionComponent.waitingQueue = << a >>
      BY <1>1, <2>1
    <3> HIDE DEF a, slack, c, i
    <3> QED
      BY <2>2, <3>1, ProcessInstr
  <2>8. m.dataQueue = t.memory.dataQueue /\ MemoryInv(m, p.bgMemAccessId, c, slack)
    <3> HIDE DEF a, slack, c
    <3> QED
      BY <2>5, <2>6, <2>7, MemoryAccessInstr
  <2> DEFINE k == T!startComponent(i, p)
  <2>9. /\ k \in T!MemoryComponent /\ k.waitingQueue = <<>>
        /\ k.ongoingAccess = << p >> /\ k.finishedId = i.finishedId
    BY <1>1, StartComponent
  <2>10. m \in T!BgMem!Topology
    BY <2>8 DEF MemoryInv
  <2> HIDE DEF k
  <2>11. u = [t EXCEPT !.memory = m, !.instructionComponent = k, !.justMissed = j]
    BY <2>7 DEF k, InstrStarted
  <2>12. /\ u \in T!Topology /\ u.memory = m /\ u.instructionComponent = k
         /\ u.dataComponent = t.dataComponent /\ u.currentId = t.currentId
         /\ u.assertionFailed = t.assertionFailed
    BY <1>1, <2>9, <2>10, <2>11 DEF T!Topology
  <2>13. Awaited(k) = p.bgMemAccessId
    BY <2>9 DEF Awaited
  <2>14. TopologyInv(config, u, n)
    BY <2>8, <2>12, <2>13 DEF TopologyInv
  <2>15. InstrTracked(i, id, fl) => InstrTracked(k, id, fl)
    <3> SUFFICES ASSUME InstrTracked(i, id, fl) PROVE InstrTracked(k, id, fl)
      OBVIOUS
    <3>1. id # NoId
      BY <1>3 DEF InstrTracked, T!newComponent
    <3>2. a.id = id
      BY <1>3, <2>1, <3>1 DEF InstrTracked
    <3>3. Head(k.ongoingAccess).access.id = id
      BY <2>7, <2>9, <3>2
    <3> QED
      BY <2>9, <3>1, <3>3 DEF InstrTracked
  <2> QED
    BY <2>8, <2>12, <2>14, <2>15
<1> QED
  BY <1>2, <1>3

\* Before the data component is changed: it may still ask the memory for s
\* accesses, and waits there for c.
DataBefore(t, c, s) ==
    /\ t \in T!Topology
    /\ t.dataComponent.waitingQueue = <<>>
    /\ MemoryInv(t.memory, Awaited(t.instructionComponent), c, s)
    /\ t.assertionFailed => MayFail(config)

\* The data component has been changed from t to u.
DataChanged(t, u, n) ==
    /\ TopologyInv(config, u, n)
    /\ RetriedOK(config, u.dataComponent, u.memory.dataQueue)
    /\ u.instructionComponent = t.instructionComponent
    /\ u.currentId = t.currentId
    /\ u.memory.memory = t.memory.memory
    /\ u.dataComponent.waitingQueue = <<>>

\* It goes on with access a, or finishes it.
DataContinues(t, u, n, a) ==
    /\ DataChanged(t, u, n)
    /\ u.dataComponent.ongoingAccess # <<>>
    /\ Head(u.dataComponent.ongoingAccess).access = a
    /\ u.dataComponent.finishedId = t.dataComponent.finishedId
DataEnds(t, u, n, a) ==
    /\ DataChanged(t, u, n)
    /\ u.dataComponent.ongoingAccess = <<>>
    /\ u.dataComponent.finishedId = a.id

\* The ongoing data access of u is o: what makes it a continuation.
LEMMA ContinuesWith ==
    ASSUME NEW t, NEW u \in T!Topology, NEW n, NEW o \in T!OngoingAccess,
           u.dataComponent.waitingQueue = <<>>,
           u.dataComponent.ongoingAccess = << o >>,
           u.dataComponent.finishedId = t.dataComponent.finishedId,
           u.instructionComponent = t.instructionComponent, u.currentId = t.currentId,
           u.memory.memory = t.memory.memory,
           MemoryInv(u.memory, Awaited(t.instructionComponent), o.bgMemAccessId,
                     2 * n + RemainingOf(o)),
           OngoingOK(config, o, u.memory.dataQueue),
           ~config.UnblockStores /\ o.bgMemAccessId = 0 => u.memory.dataQueue = <<>>,
           o.bgmemStall /\ ~config.StallOnLocalWorst => u.memory.dataQueue # <<>>,
           u.assertionFailed => MayFail(config)
    PROVE  DataContinues(t, u, n, o.access)
<1>1. Head(u.dataComponent.ongoingAccess) = o /\ u.dataComponent.ongoingAccess # <<>>
  OBVIOUS
<1>2. Awaited(u.dataComponent) = o.bgMemAccessId /\ Remaining(u.dataComponent) = RemainingOf(o)
  BY <1>1 DEF Awaited, Remaining
<1>3. DataOK(config, u.dataComponent, u.memory.dataQueue)
  BY <1>1, <1>2, IdFacts DEF DataOK
<1>4. RetriedOK(config, u.dataComponent, u.memory.dataQueue)
  BY <1>1 DEF RetriedOK
<1>5. TopologyInv(config, u, n)
  BY <1>2, <1>3 DEF TopologyInv
<1> QED
  BY <1>1, <1>4, <1>5 DEF DataContinues, DataChanged

\* The data component hands its access to the memory, which may reject it.
LEMMA HandToMemory ==
    ASSUME NEW t, NEW n \in 0 .. MaxDataAccesses, NEW o \in T!OngoingAccess,
           NEW c \in 0 .. IdModulus - 1, NEW s \in Nat, DataBefore(t, c, s),
           NEW f \in {T!WaitForLOAD, T!WaitForSTORE},
           s >= 2 * n + (IF f = T!WaitForLOAD THEN 2 ELSE 1),
           t.memory.dataQueue # <<>> => config.UnblockStores
    PROVE  DataContinues(t, T!accessMemory(t, o, f), n, o.access)
<1> DEFINE m == T!BgMem!accessData(t.memory)
           i == t.instructionComponent
           b == Awaited(i)
           e == IF t.memory.dataQueue = <<>> THEN t.memory.currentId ELSE 0
           p == [o EXCEPT !.phase = f, !.bgmemStall = ~(t.memory.dataQueue = <<>>),
                          !.bgMemAccessId = e]
           u == T!accessMemory(t, o, f)
<1>1. t \in T!Topology /\ t.memory \in T!BgMem!Topology /\ i \in T!MemoryComponent
      /\ t.dataComponent \in T!MemoryComponent
  BY TopologyTypes DEF DataBefore
<1>2. e \in 0 .. IdModulus - 1 /\ b \in 0 .. IdModulus - 1
  BY <1>1, MemoryTypes, AwaitedTypes, ModulusFacts
<1>3. u = [t EXCEPT !.dataComponent.ongoingAccess = << p >>, !.memory = m]
  BY IdFacts DEF T!accessMemory, T!BgMem!acceptsData
<1>4. MemoryInv(t.memory, b, c, s)
  BY DEF DataBefore
<1>5. /\ p \in T!OngoingAccess /\ p.access = o.access /\ p.phase = f /\ p.bgMemAccessId = e
      /\ p.bgmemStall <=> t.memory.dataQueue # <<>>
  <2>1. e \in T!Ids \cup {T!NoId}
    BY <1>2, IdFacts
  <2>2. f \in {T!WaitForSTART, T!WaitForLOAD, T!WaitForCACHE, T!WaitForSTORE}
    OBVIOUS
  <2> HIDE DEF e
  <2> QED
    BY <2>1, <2>2 DEF T!OngoingAccess
<1>6. /\ MemoryInv(m, b, e, 2 * n + RemainingOf(p))
      /\ p.bgmemStall => m.dataQueue # <<>>
      /\ m.memory = t.memory.memory
  <2>1. CASE t.memory.dataQueue = <<>>
    <3> DEFINE k == s - 1
    <3>1. k \in Nat /\ k + 1 = s /\ 2 * n + RemainingOf(p) \in 0 .. k
      <4>1. e # 0
        BY <1>1, <2>1, MemoryTypes
      <4>2. RemainingOf(p) = IF f = T!WaitForLOAD THEN 1 ELSE 0
        BY <1>5, <4>1, IdFacts, Names DEF RemainingOf
      <4>3. (IF f = T!WaitForLOAD THEN 2 ELSE 1) = RemainingOf(p) + 1
            /\ RemainingOf(p) \in {0, 1}
        BY <4>2
      <4> HIDE DEF p
      <4> QED
        BY <4>3, ModulusFacts
    <3> HIDE DEF k
    <3>2. MemoryInv(t.memory, b, c, k + 1)
      BY <1>4, <3>1
    <3>3. MemoryInv(m, b, t.memory.currentId, k) /\ m.memory = t.memory.memory
          /\ t.memory.currentId \in 0 .. IdModulus - 1
      BY <1>2, <2>1, <3>1, <3>2, MemoryAccessData
    <3> DEFINE r == 2 * n + RemainingOf(p)
    <3> HIDE DEF m, b, r
    <3>4. MemoryInv(m, b, t.memory.currentId, r)
      BY <1>2, <3>1, <3>3, MemoryWeaken DEF r
    <3> QED
      BY <1>5, <2>1, <3>3, <3>4 DEF r
  <2>2. CASE t.memory.dataQueue # <<>>
    <3>1. m = t.memory
      BY <2>2 DEF T!BgMem!accessData, T!BgMem!acceptsData
    <3>2. 2 * n + RemainingOf(p) \in 0 .. s
      <4>1. RemainingOf(p) = IF f = T!WaitForLOAD THEN 2 ELSE 1
        BY <1>5, <2>2, IdFacts, Names DEF RemainingOf
      <4>2. (IF f = T!WaitForLOAD THEN 2 ELSE 1) = RemainingOf(p) /\ RemainingOf(p) \in {1, 2}
        BY <4>1
      <4> HIDE DEF p
      <4> QED
        BY <4>2, ModulusFacts
    <3>3. e = 0
      BY <2>2
    <3> DEFINE r == 2 * n + RemainingOf(p)
    <3> HIDE DEF m, b, r, e
    <3>4. MemoryInv(m, b, 0, r)
      BY <1>2, <1>4, <3>1, <3>2, MemoryWeaken DEF r
    <3> QED
      BY <2>2, <3>1, <3>3, <3>4 DEF r
  <2> QED
    BY <2>1, <2>2
<1>7. /\ u \in T!Topology /\ u.memory = m /\ u.instructionComponent = i
      /\ u.currentId = t.currentId /\ u.assertionFailed = t.assertionFailed
      /\ u.dataComponent = [t.dataComponent EXCEPT !.ongoingAccess = << p >>]
  <2>1. m \in T!BgMem!Topology
    BY <1>6 DEF MemoryInv
  <2>2. [t.dataComponent EXCEPT !.ongoingAccess = << p >>] \in T!MemoryComponent
    <3> HIDE DEF p
    <3> QED
      BY <1>1, <1>5 DEF T!MemoryComponent
  <2> HIDE DEF m, p, u
  <2> QED
    BY <1>1, <1>3, <2>1, <2>2 DEF T!Topology
<1>8. /\ u.dataComponent.waitingQueue = <<>> /\ u.dataComponent.ongoingAccess = << p >>
      /\ u.dataComponent.finishedId = t.dataComponent.finishedId
  <2> HIDE DEF p, u
  <2> QED
    BY <1>1, <1>7 DEF DataBefore, T!MemoryComponent
<1>9. OngoingOK(config, p, m.dataQueue)
  <2>1. t.memory.dataQueue = <<>> => e # 0
    BY <1>1, MemoryTypes
  <2>2. t.memory.dataQueue # <<>> => e = 0
    OBVIOUS
  <2> HIDE DEF p, m, e
  <2> QED
    BY <1>5, <2>1, <2>2, IdFacts, Names DEF OngoingOK
<1>10. ~config.UnblockStores /\ p.bgMemAccessId = 0 => m.dataQueue = <<>>
  BY <1>1, <1>5, MemoryTypes
<1> HIDE DEF m, p, u, e
<1>11. DataContinues(t, u, n, p.access)
  BY <1>5, <1>6, <1>7, <1>8, <1>9, <1>10, ContinuesWith DEF DataBefore
<1> QED
  BY <1>5, <1>11 DEF u

\* Some accesses to the memory are never retried.
LEMMA HandAsserted ==
    ASSUME NEW t, NEW n \in 0 .. MaxDataAccesses, NEW o \in T!OngoingAccess,
           NEW c \in 0 .. IdModulus - 1, NEW s \in Nat, DataBefore(t, c, s),
           s >= 2 * n + 1,
           t.memory.dataQueue # <<>> => MayFail(config) /\ o.bgMemAccessId = 0 /\ ~o.bgmemStall
    PROVE  DataContinues(t, T!accessMemoryAsserted(t, o, T!WaitForSTORE), n, o.access)
<1>1. CASE t.memory.dataQueue = <<>>
  <2>1. T!accessMemoryAsserted(t, o, T!WaitForSTORE) = T!accessMemory(t, o, T!WaitForSTORE)
    BY <1>1 DEF T!accessMemoryAsserted, T!BgMem!acceptsData
  <2>2. s >= 2 * n + (IF T!WaitForSTORE = T!WaitForLOAD THEN 2 ELSE 1)
    BY Names
  <2> QED
    BY <1>1, <2>1, <2>2, HandToMemory
<1>2. CASE t.memory.dataQueue # <<>>
  <2> DEFINE p == [o EXCEPT !.phase = T!WaitForSTORE]
             u == T!accessMemoryAsserted(t, o, T!WaitForSTORE)
  <2>1. /\ p \in T!OngoingAccess /\ p.access = o.access /\ p.phase = T!WaitForSTORE
        /\ p.bgMemAccessId = 0 /\ p.bgmemStall = FALSE
    BY <1>2, OngoingTypes DEF T!OngoingAccess
  <2>2. u = [t EXCEPT !.assertionFailed = TRUE, !.dataComponent.ongoingAccess = << p >>]
    BY <1>2 DEF T!accessMemoryAsserted, T!BgMem!acceptsData
  <2>3. /\ t \in T!Topology /\ t.dataComponent \in T!MemoryComponent
        /\ t.instructionComponent \in T!MemoryComponent
    BY TopologyTypes DEF DataBefore
  <2> HIDE DEF p, u
  <2>4. [t.dataComponent EXCEPT !.ongoingAccess = << p >>] \in T!MemoryComponent
    BY <2>1, <2>3 DEF T!MemoryComponent
  <2>5. /\ u \in T!Topology /\ u.memory = t.memory /\ u.currentId = t.currentId
        /\ u.instructionComponent = t.instructionComponent
        /\ u.dataComponent = [t.dataComponent EXCEPT !.ongoingAccess = << p >>]
    BY <2>2, <2>3, <2>4 DEF T!Topology
  <2>6. /\ u.dataComponent.waitingQueue = <<>> /\ u.dataComponent.ongoingAccess = << p >>
        /\ u.dataComponent.finishedId = t.dataComponent.finishedId
    BY <2>3, <2>5 DEF DataBefore, T!MemoryComponent
  <2>7. MemoryInv(u.memory, Awaited(t.instructionComponent), 0, 2 * n + RemainingOf(p))
    <3>1. RemainingOf(p) = 1
      BY <2>1, IdFacts, Names DEF RemainingOf
    <3>2. Awaited(t.instructionComponent) \in 0 .. IdModulus - 1
      BY <2>3, AwaitedTypes
    <3>3. 2 * n + 1 \in 0 .. s
      BY ModulusFacts
    <3>4. MemoryInv(t.memory, Awaited(t.instructionComponent), c, s)
      BY DEF DataBefore
    <3>5. MemoryInv(t.memory, Awaited(t.instructionComponent), 0, 2 * n + 1)
      BY <3>2, <3>3, <3>4, MemoryWeaken
    <3> QED
      BY <2>5, <3>1, <3>5
  <2>8. OngoingOK(config, p, u.memory.dataQueue)
    BY <1>2, <2>1, IdFacts, Names DEF OngoingOK
  <2>9. config.UnblockStores
    BY <1>2 DEF MayFail
  <2>10. DataContinues(t, u, n, p.access)
    BY <1>2, <2>1, <2>5, <2>6, <2>7, <2>8, <2>9, ContinuesWith
  <2> QED
    BY <2>1, <2>10 DEF u
<1> QED
  BY <1>1, <1>2

\* The ongoing data access is changed but asks the memory for nothing.
LEMMA SetOngoing ==
    ASSUME NEW t, NEW n \in 0 .. MaxDataAccesses, NEW o \in T!OngoingAccess,
           DataBefore(t, o.bgMemAccessId, 2 * n + RemainingOf(o)),
           OngoingOK(config, o, t.memory.dataQueue), ~o.bgmemStall,
           ~config.UnblockStores /\ o.bgMemAccessId = 0 => t.memory.dataQueue = <<>>
    PROVE  DataContinues(t, T!setData(t, o), n, o.access)
<1> DEFINE u == T!setData(t, o)
<1>1. t \in T!Topology /\ t.dataComponent \in T!MemoryComponent
  BY TopologyTypes DEF DataBefore
<1>2. u = [t EXCEPT !.dataComponent.ongoingAccess = << o >>]
  BY DEF T!setData
<1>3. [t.dataComponent EXCEPT !.ongoingAccess = << o >>] \in T!MemoryComponent
  BY <1>1 DEF T!MemoryComponent
<1> HIDE DEF u
<1>4. /\ u \in T!Topology /\ u.memory = t.memory /\ u.currentId = t.currentId
      /\ u.instructionComponent = t.instructionComponent
      /\ u.assertionFailed = t.assertionFailed
      /\ u.dataComponent = [t.dataComponent EXCEPT !.ongoingAccess = << o >>]
  BY <1>1, <1>2, <1>3 DEF T!Topology
<1>5. /\ u.dataComponent.waitingQueue = <<>> /\ u.dataComponent.ongoingAccess = << o >>
      /\ u.dataComponent.finishedId = t.dataComponent.finishedId
  BY <1>1, <1>4 DEF DataBefore, T!MemoryComponent
<1>6. DataContinues(t, u, n, o.access)
  BY <1>4, <1>5, ContinuesWith DEF DataBefore
<1> QED
  BY <1>6 DEF u

\* The ongoing data access is finished.
LEMMA FinishOngoing ==
    ASSUME NEW t, NEW n \in 0 .. MaxDataAccesses, NEW o \in T!OngoingAccess,
           t.dataComponent.ongoingAccess = << o >>,
           NEW c \in 0 .. IdModulus - 1, NEW s \in Nat, s >= 2 * n, DataBefore(t, c, s),
           ~config.UnblockStores => t.memory.dataQueue = <<>>
    PROVE  DataEnds(t, T!finishData(t), n, o.access)
<1> DEFINE u == T!finishData(t)
           k == [t.dataComponent EXCEPT !.finishedId = o.access.id, !.ongoingAccess = <<>>]
<1>1. /\ t \in T!Topology /\ t.dataComponent \in T!MemoryComponent
      /\ t.instructionComponent \in T!MemoryComponent
  BY TopologyTypes DEF DataBefore
<1>2. u = [t EXCEPT !.dataComponent = k]
  <2>1. Head(t.dataComponent.ongoingAccess) = o
    OBVIOUS
  <2> QED
    BY <2>1 DEF T!finishData, T!finish
<1>3. /\ k \in T!MemoryComponent
      /\ k.waitingQueue = <<>> /\ k.ongoingAccess = <<>> /\ k.finishedId = o.access.id
  <2>1. o.access.id \in T!Ids \cup {T!NoId}
    BY OngoingTypes, IdFacts
  <2> QED
    BY <1>1, <2>1 DEF T!MemoryComponent, DataBefore
<1> HIDE DEF u, k
<1>4. /\ u \in T!Topology /\ u.memory = t.memory /\ u.currentId = t.currentId
      /\ u.instructionComponent = t.instructionComponent
      /\ u.assertionFailed = t.assertionFailed /\ u.dataComponent = k
  BY <1>1, <1>2, <1>3 DEF T!Topology
<1>5. Awaited(k) = 0 /\ Remaining(k) = 0
  BY <1>3, IdFacts DEF Awaited, Remaining
<1>6. MemoryInv(t.memory, Awaited(t.instructionComponent), 0, 2 * n)
  <2>1. Awaited(t.instructionComponent) \in 0 .. IdModulus - 1 /\ 2 * n \in 0 .. s
    BY <1>1, AwaitedTypes, ModulusFacts
  <2>2. MemoryInv(t.memory, Awaited(t.instructionComponent), c, s)
    BY DEF DataBefore
  <2> QED
    BY <2>1, <2>2, MemoryWeaken
<1>7. 2 * n + 0 = 2 * n
  BY ModulusFacts
<1>8. DataOK(config, k, t.memory.dataQueue) /\ RetriedOK(config, k, t.memory.dataQueue)
  BY <1>3, <1>5 DEF DataOK, RetriedOK
<1>9. TopologyInv(config, u, n)
  BY <1>4, <1>5, <1>6, <1>7, <1>8 DEF TopologyInv, DataBefore
<1>10. DataEnds(t, u, n, o.access)
  BY <1>3, <1>4, <1>8, <1>9 DEF DataEnds, DataChanged
<1> QED
  BY <1>10 DEF u

\* Topology t after data access p has been started.
DataStarted(t, p, j) ==
    [t EXCEPT !.justMissed = j,
              !.dataComponent = T!startComponent(t.dataComponent, p)]

\* The component has started p; it has not asked the memory yet.
LEMMA StartedBefore ==
    ASSUME NEW t, NEW n \in 0 .. MaxDataAccesses, TopologyInv(config, t, n),
           t.dataComponent.ongoingAccess = <<>>, t.dataComponent.waitingQueue # <<>>,
           NEW p \in T!OngoingAccess, NEW j \in BOOLEAN
    PROVE  LET u == DataStarted(t, p, j)
           IN  /\ DataBefore(u, 0, 2 * n + 2)
               /\ u.dataComponent.ongoingAccess = << p >>
               /\ u.dataComponent.finishedId = t.dataComponent.finishedId
               /\ u.instructionComponent = t.instructionComponent
               /\ u.currentId = t.currentId
               /\ u.memory = t.memory
               /\ ~config.UnblockStores => t.memory.dataQueue = <<>>
<1> DEFINE u == DataStarted(t, p, j)
           k == T!startComponent(t.dataComponent, p)
<1>1. t \in T!Topology /\ t.dataComponent \in T!MemoryComponent
  BY TopologyTypes DEF TopologyInv
<1>2. /\ k \in T!MemoryComponent /\ k.waitingQueue = <<>> /\ k.ongoingAccess = << p >>
      /\ k.finishedId = t.dataComponent.finishedId
  BY <1>1, StartComponent
<1> HIDE DEF k
<1>3. u = [t EXCEPT !.justMissed = j, !.dataComponent = k]
  BY DEF DataStarted, k
<1> HIDE DEF u
<1>4. /\ u \in T!Topology /\ u.memory = t.memory /\ u.currentId = t.currentId
      /\ u.instructionComponent = t.instructionComponent
      /\ u.assertionFailed = t.assertionFailed /\ u.dataComponent = k
  BY <1>1, <1>2, <1>3 DEF T!Topology
<1>5. Awaited(t.dataComponent) = 0 /\ Remaining(t.dataComponent) = 2
  BY IdFacts DEF Awaited, Remaining
<1>6. DataBefore(u, 0, 2 * n + 2)
  BY <1>2, <1>4, <1>5 DEF DataBefore, TopologyInv
<1>7. ~config.UnblockStores => t.memory.dataQueue = <<>>
  BY <1>5, IdFacts DEF TopologyInv, DataOK
<1> QED
  BY <1>2, <1>4, <1>6, <1>7 DEF u

\* A data access that waits is started.
LEMMA ProcessData ==
    ASSUME NEW t, NEW n \in 0 .. MaxDataAccesses, TopologyInv(config, t, n),
           t.dataComponent.ongoingAccess = <<>>,
           NEW a \in T!Access, t.dataComponent.waitingQueue = << a >>,
           NEW cl \in T!classifications
    PROVE  DataContinues(t, T!processDataCacheAccess(t, cl), n, a)
<1> DEFINE d == t.dataComponent
           o == T!newOngoing(a, cl)
           j == t.justMissed \/ Persistence
           u == T!processDataCacheAccess(t, cl)
           hit  == [o EXCEPT !.l1timeBlocked = DataHitLatency, !.phase = T!WaitForCACHE]
           hit2 == [o EXCEPT !.l2timeBlocked = L2HitLatency, !.phase = T!WaitForCACHE,
                             !.bgl2AccessId = T!L2Access]
<1>1. /\ o \in T!OngoingAccess /\ o.access = a /\ o.cl = cl
      /\ o.bgMemAccessId = 0 /\ o.bgmemStall = FALSE
  BY NewOngoing
<1>2. t \in T!Topology /\ d \in T!MemoryComponent /\ j \in BOOLEAN /\ t.justMissed \in BOOLEAN
  BY TopologyTypes DEF TopologyInv
<1>3. Head(d.waitingQueue) = a /\ d.waitingQueue # <<>>
  OBVIOUS
<1>4. u = IF cl = T!CL_HIT THEN DataStarted(t, hit, t.justMissed)
          ELSE IF cl = T!CL2_HIT THEN DataStarted(t, hit2, j)
          ELSE IF a.store /\ ~config.WriteAllocate
          THEN T!accessMemoryAsserted(DataStarted(t, o, t.justMissed), o, T!WaitForSTORE)
          ELSE T!accessMemory(DataStarted(t, o, j), o, T!WaitForLOAD)
  <2> DEFINE start(s, p) == [s EXCEPT !.dataComponent = T!startComponent(@, p)]
             missed == [t EXCEPT !.justMissed = j]
  <2>1. u = IF cl = T!CL_HIT THEN start(t, hit)
            ELSE IF cl = T!CL2_HIT THEN start(missed, hit2)
            ELSE IF a.store /\ ~config.WriteAllocate
            THEN T!accessMemoryAsserted(start(t, o), o, T!WaitForSTORE)
            ELSE T!accessMemory(start(missed, o), o, T!WaitForLOAD)
    BY <1>3, ClassificationTypes, Names DEF T!processDataCacheAccess
  <2>2. \A p : start(t, p) = DataStarted(t, p, t.justMissed)
    BY <1>2 DEF T!Topology, DataStarted
  <2>3. \A p : start(missed, p) = DataStarted(t, p, j)
    BY <1>2 DEF T!Topology, DataStarted
  <2> HIDE DEF start, u, hit, hit2, o, missed, j
  <2> QED
    BY <2>1, <2>2, <2>3
<1>5. /\ hit \in T!OngoingAccess /\ hit2 \in T!OngoingAccess
      /\ hit.access = a /\ hit.cl = cl /\ hit.bgMemAccessId = 0 /\ hit.bgmemStall = FALSE
      /\ hit.phase = T!WaitForCACHE
      /\ hit2.access = a /\ hit2.cl = cl /\ hit2.bgMemAccessId = 0 /\ hit2.bgmemStall = FALSE
      /\ hit2.phase = T!WaitForCACHE
  <2> HIDE DEF o
  <2>1. hit \in T!OngoingAccess /\ hit2 \in T!OngoingAccess
    BY <1>1, CacheUpdates
  <2> QED
    BY <1>1, <2>1 DEF T!OngoingAccess
<1> HIDE DEF hit, hit2, o, u, j
<1>6. ASSUME cl # T!CL2_MISS, NEW p \in {hit, hit2}, NEW l \in BOOLEAN
      PROVE  DataContinues(t, DataStarted(t, p, l), n, a)
  <2> DEFINE v == DataStarted(t, p, l)
  <2>0. /\ p \in T!OngoingAccess /\ p.access = a /\ p.cl = cl /\ p.bgMemAccessId = 0
        /\ p.bgmemStall = FALSE /\ p.phase = T!WaitForCACHE
    BY <1>5
  <2>1. /\ DataBefore(v, 0, 2 * n + 2) /\ v.dataComponent.ongoingAccess = << p >>
        /\ v.dataComponent.finishedId = t.dataComponent.finishedId
        /\ v.instructionComponent = t.instructionComponent
        /\ v.currentId = t.currentId /\ v.memory = t.memory
        /\ ~config.UnblockStores => t.memory.dataQueue = <<>>
    BY <1>3, <2>0, StartedBefore
  <2> HIDE DEF v
  <2>3. RemainingOf(p) = 1
    BY <2>0, IdFacts, Names DEF RemainingOf
  <2>4. OngoingOK(config, p, t.memory.dataQueue)
    BY <1>6, <2>0, IdFacts, Names DEF OngoingOK
  <2>5. MemoryInv(v.memory, Awaited(t.instructionComponent), 0, 2 * n + RemainingOf(p))
    <3>1. Awaited(t.instructionComponent) \in 0 .. IdModulus - 1
      BY TopologyTypes, AwaitedTypes DEF TopologyInv
    <3>2. 2 * n + 1 \in 0 .. 2 * n + 2 /\ 2 * n + 2 \in Nat
      BY ModulusFacts
    <3>3. MemoryInv(v.memory, Awaited(t.instructionComponent), 0, 2 * n + 2)
      BY <2>1 DEF DataBefore
    <3> DEFINE few == 2 * n + 1
               many == 2 * n + 2
    <3> HIDE DEF few, many
    <3>4. MemoryInv(v.memory, Awaited(t.instructionComponent), 0, few)
      <4>1. few \in 0 .. many /\ many \in Nat
        BY <3>2 DEF few, many
      <4>2. 0 \in 0 .. IdModulus - 1
        BY ModulusFacts
      <4>3. MemoryInv(v.memory, Awaited(t.instructionComponent), 0, many)
        BY <3>3 DEF many
      <4> QED
        BY <3>1, <4>1, <4>2, <4>3, MemoryWeaken
    <3> QED
      BY <2>3, <3>4 DEF few
  <2>6. v \in T!Topology /\ v.dataComponent.waitingQueue = <<>>
        /\ (v.assertionFailed => MayFail(config))
    BY <2>1 DEF DataBefore
  <2>7. DataContinues(t, v, n, p.access)
    BY <2>1, <2>0, <2>4, <2>5, <2>6, ContinuesWith
  <2> QED
    BY <2>0, <2>7 DEF v
<1>7. ASSUME NEW l \in BOOLEAN, NEW w, DataContinues(DataStarted(t, o, l), w, n, o.access)
      PROVE  DataContinues(t, w, n, a)
  <2>1. /\ DataStarted(t, o, l).dataComponent.finishedId = t.dataComponent.finishedId
        /\ DataStarted(t, o, l).instructionComponent = t.instructionComponent
        /\ DataStarted(t, o, l).currentId = t.currentId
        /\ DataStarted(t, o, l).memory = t.memory
    BY <1>1, <1>3, StartedBefore
  <2> QED
    BY <1>1, <1>7, <2>1 DEF DataContinues, DataChanged
<1>8. ASSUME NEW l \in BOOLEAN
      PROVE  /\ DataBefore(DataStarted(t, o, l), 0, 2 * n + 2)
             /\ DataStarted(t, o, l).memory = t.memory
             /\ ~config.UnblockStores => t.memory.dataQueue = <<>>
  BY <1>1, <1>3, StartedBefore
<1>9. 2 * n + 2 \in Nat /\ 2 * n + 2 >= 2 * n + 1 /\ 0 \in 0 .. IdModulus - 1
  BY ModulusFacts
<1>10. CASE cl = T!CL_HIT
  BY <1>2, <1>4, <1>6, <1>10, Names DEF u
<1>11. CASE cl = T!CL2_HIT
  BY <1>2, <1>4, <1>6, <1>11, Names DEF u
<1>12. CASE cl = T!CL2_MISS /\ a.store /\ ~config.WriteAllocate
  <2> DEFINE v == DataStarted(t, o, t.justMissed)
             s == 2 * n + 2
  <2>1. u = T!accessMemoryAsserted(v, o, T!WaitForSTORE)
    BY <1>4, <1>12, Names
  <2>2. v.memory.dataQueue # <<>> => MayFail(config) /\ o.bgMemAccessId = 0 /\ ~o.bgmemStall
    BY <1>1, <1>2, <1>8, <1>12 DEF MayFail
  <2>3. DataBefore(v, 0, s)
    BY <1>2, <1>8
  <2>4. s \in Nat /\ s >= 2 * n + 1
    BY <1>9
  <2> HIDE DEF v, s
  <2>5. DataContinues(v, u, n, o.access)
    BY <1>1, <1>9, <2>1, <2>2, <2>3, <2>4, HandAsserted
  <2> QED
    BY <1>2, <1>7, <2>5 DEF v, u
<1>13. CASE cl = T!CL2_MISS /\ ~(a.store /\ ~config.WriteAllocate)
  <2> DEFINE v == DataStarted(t, o, j)
             s == 2 * n + 2
  <2>1. u = T!accessMemory(v, o, T!WaitForLOAD)
    BY <1>4, <1>13, Names
  <2>2. v.memory.dataQueue # <<>> => config.UnblockStores
    BY <1>1, <1>2, <1>8
  <2>3. DataBefore(v, 0, s)
    BY <1>2, <1>8
  <2>4. s \in Nat /\ s >= 2 * n + (IF T!WaitForLOAD = T!WaitForLOAD THEN 2 ELSE 1)
    BY <1>9
  <2> HIDE DEF v, s
  <2>5. DataContinues(v, u, n, o.access)
    BY <1>1, <1>9, <2>1, <2>2, <2>3, <2>4, HandToMemory
  <2> QED
    BY <1>2, <1>7, <2>5 DEF v, u
<1> QED
  BY <1>10, <1>11, <1>12, <1>13, ClassificationTypes DEF u

\* The end of a cache's work on an access, which waits for nothing there.
LEMMA CacheStep ==
    ASSUME NEW t, NEW n \in 0 .. MaxDataAccesses, NEW o \in T!OngoingAccess,
           NEW p \in T!OngoingAccess, t.dataComponent.ongoingAccess = << o >>,
           DataBefore(t, 0, 2 * n + 1),
           p.phase = T!WaitForCACHE, p.bgMemAccessId = 0, ~p.bgmemStall,
           p.cl = T!CL2_MISS => t.memory.dataQueue = <<>>,
           ~config.UnblockStores => t.memory.dataQueue = <<>>,
           NEW u \in T!finishL2(t, p) \cup T!finishL1(t, p) \cup {T!setData(t, p)}
    PROVE  DataContinues(t, u, n, p.access) \/ DataEnds(t, u, n, p.access)
<1> DEFINE s == 2 * n + 1
<1>1. s \in Nat /\ s >= 2 * n /\ s >= 2 * n + 1 /\ 0 \in 0 .. IdModulus - 1
  BY ModulusFacts
<1>2. DataBefore(t, 0, s)
  OBVIOUS
<1>3. ASSUME NEW q \in T!OngoingAccess, q.access = p.access, q.cl = p.cl,
             q.phase = T!WaitForCACHE, q.bgMemAccessId = 0, ~q.bgmemStall
      PROVE  DataContinues(t, T!setData(t, q), n, p.access)
  <2>1. RemainingOf(q) = 1
    BY <1>3, IdFacts, Names DEF RemainingOf
  <2>2. OngoingOK(config, q, t.memory.dataQueue)
    BY <1>3, IdFacts, Names DEF OngoingOK
  <2>3. DataBefore(t, q.bgMemAccessId, 2 * n + RemainingOf(q))
    BY <1>3, <2>1
  <2>4. DataContinues(t, T!setData(t, q), n, q.access)
    BY <1>3, <2>2, <2>3, SetOngoing
  <2> QED
    BY <1>3, <2>4
<1>4. DataEnds(t, T!finishData(T!setData(t, p)), n, p.access)
  <2> DEFINE w == T!setData(t, p)
  <2>1. t \in T!Topology /\ t.dataComponent \in T!MemoryComponent
    BY TopologyTypes DEF DataBefore
  <2>2. [t.dataComponent EXCEPT !.ongoingAccess = << p >>] \in T!MemoryComponent
    BY <2>1 DEF T!MemoryComponent
  <2>3. w = [t EXCEPT !.dataComponent.ongoingAccess = << p >>]
    BY DEF T!setData
  <2> HIDE DEF w
  <2>4. /\ w \in T!Topology /\ w.memory = t.memory /\ w.currentId = t.currentId
        /\ w.instructionComponent = t.instructionComponent
        /\ w.assertionFailed = t.assertionFailed
        /\ w.dataComponent = [t.dataComponent EXCEPT !.ongoingAccess = << p >>]
    BY <2>1, <2>2, <2>3 DEF T!Topology
  <2>5. w.dataComponent.waitingQueue = <<>> /\ w.dataComponent.ongoingAccess = << p >>
    BY <2>1, <2>4 DEF DataBefore, T!MemoryComponent
  <2>6. DataBefore(w, 0, s)
    BY <2>4, <2>5 DEF DataBefore
  <2> HIDE DEF s
  <2>7. DataEnds(w, T!finishData(w), n, p.access)
    BY <1>1, <2>4, <2>5, <2>6, FinishOngoing
  <2> QED
    BY <2>4, <2>7 DEF DataEnds, DataChanged, w
<1>5. DataContinues(t, T!accessMemory(t, p, T!WaitForSTORE), n, p.access)
  <2>1. s >= 2 * n + (IF T!WaitForSTORE = T!WaitForLOAD THEN 2 ELSE 1)
    BY <1>1, Names
  <2> HIDE DEF s
  <2> QED
    BY <1>1, <1>2, <2>1, HandToMemory
<1>6. p.cl = T!CL2_MISS =>
         DataContinues(t, T!accessMemoryAsserted(t, p, T!WaitForSTORE), n, p.access)
  <2> HIDE DEF s
  <2> QED
    BY <1>1, <1>2, HandAsserted
<1>7. DataContinues(t, T!setData(t, p), n, p.access)
  BY <1>3
<1>8. DataContinues(t, T!setData(t, [p EXCEPT !.l1timeBlocked = InstrHitLatency,
                                              !.bgl2AccessId = T!NoL2]), n, p.access)
  <2> DEFINE q == [p EXCEPT !.l1timeBlocked = InstrHitLatency, !.bgl2AccessId = T!NoL2]
  <2>1. q \in T!OngoingAccess
    BY CacheUpdates
  <2>2. /\ q.access = p.access /\ q.cl = p.cl /\ q.phase = T!WaitForCACHE
        /\ q.bgMemAccessId = 0 /\ ~q.bgmemStall
    BY DEF T!OngoingAccess
  <2> HIDE DEF q
  <2>3. DataContinues(t, T!setData(t, q), n, p.access)
    BY <1>3, <2>1, <2>2
  <2> QED
    BY <2>3 DEF q
<1>9. DataContinues(t, T!setData(t, [p EXCEPT !.bgl2AccessId = T!L2WriteBack]), n, p.access)
  <2> DEFINE q == [p EXCEPT !.bgl2AccessId = T!L2WriteBack]
  <2>1. q \in T!OngoingAccess
    BY DEF T!OngoingAccess
  <2>2. /\ q.access = p.access /\ q.cl = p.cl /\ q.phase = T!WaitForCACHE
        /\ q.bgMemAccessId = 0 /\ ~q.bgmemStall
    BY DEF T!OngoingAccess
  <2> HIDE DEF q
  <2>3. DataContinues(t, T!setData(t, q), n, p.access)
    BY <1>3, <2>1, <2>2
  <2> QED
    BY <2>3 DEF q
<1>10. CASE u \in T!finishL2(t, p)
  <2>1. \/ u = T!accessMemory(t, p, T!WaitForSTORE)
        \/ u = T!finishData(T!setData(t, p))
        \/ p.cl = T!CL2_MISS /\ u = T!accessMemoryAsserted(t, p, T!WaitForSTORE)
        \/ u = T!setData(t, [p EXCEPT !.l1timeBlocked = InstrHitLatency,
                                      !.bgl2AccessId = T!NoL2])
    BY <1>10 DEF T!finishL2
  <2> QED
    BY <1>4, <1>5, <1>6, <1>8, <2>1
<1>11. CASE u \in T!finishL1(t, p)
  <2>1. \/ u = T!accessMemory(t, p, T!WaitForSTORE)
        \/ u = T!finishData(T!setData(t, p))
        \/ u = T!setData(t, [p EXCEPT !.bgl2AccessId = T!L2WriteBack])
    BY <1>11 DEF T!finishL1
  <2> QED
    BY <1>4, <1>5, <1>9, <2>1
<1>12. CASE u = T!setData(t, p)
  BY <1>7, <1>12
<1> QED
  BY <1>10, <1>11, <1>12

\* A cycle of the ongoing data access; the memory may have finished its part.
LEMMA CheckDataOngoing ==
    ASSUME NEW t, NEW n \in 0 .. MaxDataAccesses, NEW o \in T!OngoingAccess,
           t.dataComponent.ongoingAccess = << o >>,
           DataBefore(t, Left(o.bgMemAccessId, t.memory), 2 * n + RemainingOf(o)),
           OngoingOK(config, o, t.memory.dataQueue),
           ~config.UnblockStores /\ o.bgMemAccessId = 0 => t.memory.dataQueue = <<>>,
           t.memory.finishedAccess # 0 /\ t.memory.finishedAccess = o.bgMemAccessId
             => t.memory.dataQueue = <<>>,
           NEW u \in T!checkDataOngoing(t, o)
    PROVE  DataContinues(t, u, n, o.access) \/ DataEnds(t, u, n, o.access)
<1> DEFINE id == o.bgMemAccessId
           m == T!BgMem!forget(t.memory, id)
           w == [t EXCEPT !.memory = m]
           s == 2 * n + RemainingOf(o)
           c == Left(id, t.memory)
           b == Awaited(t.instructionComponent)
<1>1. /\ id \in 0 .. IdModulus - 1 /\ c \in 0 .. IdModulus - 1
      /\ s \in Nat /\ s >= 2 * n /\ RemainingOf(o) \in 0 .. 2
  <2>1. id \in 0 .. IdModulus - 1 /\ RemainingOf(o) \in 0 .. 2
    BY OngoingTypes DEF RemainingOf
  <2> QED
    BY <2>1, ModulusFacts DEF Left
<1>2. t \in T!Topology /\ t.memory \in T!BgMem!Topology
  BY TopologyTypes DEF DataBefore
<1>3. MemoryInv(t.memory, b, c, s)
  BY DEF DataBefore
<1>4. /\ MemoryInv(m, b, c, s) /\ m.dataQueue = t.memory.dataQueue
      /\ m.memory = t.memory.memory
      /\ t.memory.finishedAccess # id => m = t.memory
  <2> HIDE DEF b, c, s, id
  <2>1. MemoryInv(T!BgMem!forget(t.memory, id), b, c, s)
    BY <1>3, MemoryForget
  <2>2. /\ T!BgMem!forget(t.memory, id).dataQueue = t.memory.dataQueue
        /\ T!BgMem!forget(t.memory, id).memory = t.memory.memory
        /\ t.memory.finishedAccess # id => T!BgMem!forget(t.memory, id) = t.memory
    BY <1>2, ForgetFields
  <2> QED
    BY <2>1, <2>2
<1>5. /\ w \in T!Topology /\ w.memory = m /\ w.currentId = t.currentId
      /\ w.instructionComponent = t.instructionComponent
      /\ w.dataComponent = t.dataComponent /\ w.assertionFailed = t.assertionFailed
  <2>1. m \in T!BgMem!Topology
    BY <1>4 DEF MemoryInv
  <2> HIDE DEF m
  <2> QED
    BY <1>2, <2>1 DEF T!Topology
<1>6. DataBefore(w, c, s)
  <2> HIDE DEF w, m, c, s
  <2> QED
    BY <1>4, <1>5 DEF DataBefore, b
<1>7. \A x, a : /\ DataContinues(w, x, n, a) => DataContinues(t, x, n, a)
                /\ DataEnds(w, x, n, a) => DataEnds(t, x, n, a)
  <2> HIDE DEF w, m
  <2> QED
    BY <1>4, <1>5 DEF DataContinues, DataEnds, DataChanged
<1>8. CASE o.bgmemStall
  <2>1. u = T!accessMemory(t, o, o.phase)
    BY <1>8 DEF T!checkDataOngoing
  <2>2. o.phase \in {T!WaitForLOAD, T!WaitForSTORE} /\ id = 0 /\ config.UnblockStores
    BY <1>8, OngoingTypes, IdFacts, Names DEF OngoingOK
  <2>3. RemainingOf(o) = IF o.phase = T!WaitForLOAD THEN 2 ELSE 1
    BY <2>2, IdFacts, Names DEF RemainingOf
  <2>4. s >= 2 * n + (IF o.phase = T!WaitForLOAD THEN 2 ELSE 1)
    BY <1>1, <2>3
  <2>5. DataBefore(t, c, s)
    OBVIOUS
  <2> HIDE DEF s, c
  <2>6. DataContinues(t, T!accessMemory(t, o, o.phase), n, o.access)
    BY <1>1, <2>2, <2>4, <2>5, HandToMemory
  <2> QED
    BY <2>1, <2>6
<1>9. CASE ~o.bgmemStall /\ o.phase = T!WaitForLOAD
  <2> DEFINE p == IF t.memory.finishedAccess = id
                  THEN [T!enterL2(o) EXCEPT !.phase = T!WaitForCACHE] ELSE o
  <2>1. id # 0 /\ RemainingOf(o) = 1
    BY <1>9, IdFacts, Names DEF OngoingOK, RemainingOf
  <2>2. u = T!setData(w, p)
    <3>1. u = [T!setData(t, p) EXCEPT !.memory = T!BgMem!forget(@, id)]
      BY <1>9, Names DEF T!checkDataOngoing, T!BgMem!finished
    <3> HIDE DEF p, id
    <3> QED
      BY <1>2, <3>1 DEF T!setData, T!Topology
  <2>3. CASE t.memory.finishedAccess = id
    <3>1. /\ p \in T!OngoingAccess /\ p.access = o.access /\ p.phase = T!WaitForCACHE
          /\ p.bgMemAccessId = 0 /\ p.bgmemStall = FALSE
      <4>1. L2HitLatency \in 0 .. L2HitLatency
        BY LatencyFacts
      <4>2. p = [o EXCEPT !.bgMemAccessId = 0, !.bgl2AccessId = T!L2Access,
                          !.l2timeBlocked = L2HitLatency, !.phase = T!WaitForCACHE]
        BY <2>3, IdFacts DEF T!enterL2, T!OngoingAccess
      <4> HIDE DEF p
      <4> QED
        BY <1>9, <4>1, <4>2, IdFacts DEF T!OngoingAccess
    <3>2. t.memory.dataQueue = <<>> /\ c = 0
      BY <2>1, <2>3 DEF Left
    <3> HIDE DEF p
    <3>3. RemainingOf(p) = 1
      BY <3>1, IdFacts, Names DEF RemainingOf
    <3>4. OngoingOK(config, p, w.memory.dataQueue)
      <4> HIDE DEF w, m
      <4> QED
        BY <1>4, <1>5, <3>1, <3>2, IdFacts, Names DEF OngoingOK
    <3>5. DataBefore(w, p.bgMemAccessId, 2 * n + RemainingOf(p))
      BY <1>6, <2>1, <3>1, <3>2, <3>3
    <3>6. w.memory.dataQueue = <<>>
      BY <1>4, <1>5, <3>2
    <3> HIDE DEF w, m
    <3>7. DataContinues(w, T!setData(w, p), n, p.access)
      BY <3>1, <3>4, <3>5, <3>6, SetOngoing
    <3> QED
      BY <1>7, <2>2, <3>1, <3>7
  <2>4. CASE t.memory.finishedAccess # id
    <3>1. p = o /\ c = id /\ m = t.memory
      BY <1>4, <2>4 DEF Left
    <3>2. OngoingOK(config, o, w.memory.dataQueue)
      BY <1>4, <1>5
    <3>3. DataBefore(w, o.bgMemAccessId, 2 * n + RemainingOf(o))
      BY <1>6, <3>1
    <3> HIDE DEF w, m, p
    <3>4. DataContinues(w, T!setData(w, o), n, o.access)
      BY <1>9, <2>1, <3>2, <3>3, SetOngoing
    <3> QED
      BY <1>7, <2>2, <3>1, <3>4
  <2> QED
    BY <2>3, <2>4
<1>10. CASE ~o.bgmemStall /\ o.phase = T!WaitForCACHE
  <2>1. id = 0 /\ c = 0 /\ RemainingOf(o) = 1
    BY <1>10, IdFacts, Names DEF OngoingOK, RemainingOf, Left
  <2>2. u \in T!checkWaitForCACHE(t, o)
    BY <1>10, Names DEF T!checkDataOngoing
  <2>3. /\ o.l1timeBlocked \in 0 .. InstrHitLatency + DataHitLatency
        /\ o.l2timeBlocked \in 0 .. L2HitLatency
    BY OngoingTypes
  <2>4. DataBefore(t, 0, 2 * n + 1)
    BY <2>1
  <2>5. /\ o.cl = T!CL2_MISS => t.memory.dataQueue = <<>>
        /\ ~config.UnblockStores => t.memory.dataQueue = <<>>
    BY <1>10, <2>1 DEF OngoingOK
  <2>6. \E p \in T!OngoingAccess :
           /\ p.access = o.access /\ p.cl = o.cl /\ p.phase = T!WaitForCACHE
           /\ p.bgMemAccessId = 0 /\ ~p.bgmemStall
           /\ u \in T!finishL2(t, p) \cup T!finishL1(t, p) \cup {T!setData(t, p)}
    <3>1. CASE o.bgl2AccessId # T!NoL2
      <4> DEFINE blocked == IF o.bgl2AccessId = T!L2WriteBack THEN L2HitLatency
                                                              ELSE o.l2timeBlocked
                 k == T!countDown(blocked)
                 p == [o EXCEPT !.l2timeBlocked = k]
      <4>1. k \in 0 .. L2HitLatency
        <5>1. blocked \in 0 .. L2HitLatency
          BY <2>3, LatencyFacts
        <5>2. blocked \in Nat
          BY <5>1, LatencyFacts
        <5>3. k \in 0 .. blocked
          BY <5>2, LatencyFacts
        <5> QED
          BY <5>1, <5>2, <5>3, LatencyFacts
      <4>2. u \in IF p.l2timeBlocked = 0 THEN T!finishL2(t, p) ELSE {T!setData(t, p)}
        BY <2>2, <3>1 DEF T!checkWaitForCACHE
      <4> HIDE DEF k
      <4>3. /\ p \in T!OngoingAccess /\ p.access = o.access /\ p.cl = o.cl
            /\ p.phase = T!WaitForCACHE /\ p.bgMemAccessId = 0 /\ ~p.bgmemStall
        BY <1>10, <2>1, <4>1 DEF T!OngoingAccess
      <4> HIDE DEF p
      <4> QED
        BY <4>2, <4>3
    <3>2. CASE o.bgl2AccessId = T!NoL2
      <4> DEFINE k == T!countDown(o.l1timeBlocked)
                 p == [o EXCEPT !.l1timeBlocked = k]
      <4>1. k \in 0 .. InstrHitLatency + DataHitLatency
        <5>1. o.l1timeBlocked \in Nat
          BY <2>3, LatencyFacts
        <5>2. k \in 0 .. o.l1timeBlocked
          BY <5>1, LatencyFacts
        <5> QED
          BY <2>3, <5>1, <5>2, LatencyFacts
      <4>2. u \in IF p.l1timeBlocked = 0 THEN T!finishL1(t, p) ELSE {T!setData(t, p)}
        BY <2>2, <3>2 DEF T!checkWaitForCACHE
      <4> HIDE DEF k
      <4>3. /\ p \in T!OngoingAccess /\ p.access = o.access /\ p.cl = o.cl
            /\ p.phase = T!WaitForCACHE /\ p.bgMemAccessId = 0 /\ ~p.bgmemStall
        BY <1>10, <2>1, <4>1 DEF T!OngoingAccess
      <4> HIDE DEF p
      <4> QED
        BY <4>2, <4>3
    <3> QED
      BY <3>1, <3>2
  <2>7. PICK p \in T!OngoingAccess :
           /\ p.access = o.access /\ p.cl = o.cl /\ p.phase = T!WaitForCACHE
           /\ p.bgMemAccessId = 0 /\ ~p.bgmemStall
           /\ u \in T!finishL2(t, p) \cup T!finishL1(t, p) \cup {T!setData(t, p)}
    BY <2>6
  <2>8. DataContinues(t, u, n, p.access) \/ DataEnds(t, u, n, p.access)
    BY <2>4, <2>5, <2>7, CacheStep
  <2> QED
    BY <2>7, <2>8
<1>11. CASE ~o.bgmemStall /\ o.phase = T!WaitForSTORE
  <2>1. CASE config.UnblockStores
    <3>1. u = T!finishData(t)
      BY <1>11, <2>1, Names DEF T!checkDataOngoing
    <3>2. DataBefore(t, c, s)
      OBVIOUS
    <3> HIDE DEF c, s
    <3>3. DataEnds(t, T!finishData(t), n, o.access)
      BY <1>1, <2>1, <3>2, FinishOngoing
    <3> QED
      BY <3>1, <3>3
  <2>2. CASE ~config.UnblockStores
    <3>1. id # 0
      BY <1>11, <2>2, IdFacts, Names DEF OngoingOK, MayFail
    <3>2. u = IF t.memory.finishedAccess = id THEN T!finishData(w) ELSE w
      BY <1>11, <2>2, Names DEF T!checkDataOngoing, T!BgMem!finished
    <3>3. CASE t.memory.finishedAccess = id
      <4>1. w.memory.dataQueue = <<>>
        BY <1>4, <1>5, <3>1, <3>3
      <4>2. w.dataComponent.ongoingAccess = << o >>
        BY <1>5
      <4> HIDE DEF w, m, c, s, id
      <4>3. DataEnds(w, T!finishData(w), n, o.access)
        BY <1>1, <1>6, <4>1, <4>2, FinishOngoing
      <4> QED
        BY <1>7, <3>2, <3>3, <4>3
    <3>4. CASE t.memory.finishedAccess # id
      <4>1. m = t.memory /\ c = id
        BY <1>4, <3>4 DEF Left
      <4>2. DataContinues(t, w, n, o.access)
        <5>1. /\ w.dataComponent.waitingQueue = <<>> /\ w.dataComponent.ongoingAccess = << o >>
              /\ w.dataComponent.finishedId = t.dataComponent.finishedId
          BY <1>5 DEF DataBefore
        <5>2. MemoryInv(w.memory, Awaited(t.instructionComponent), o.bgMemAccessId,
                        2 * n + RemainingOf(o))
          BY <1>3, <1>5, <4>1
        <5>3. w.memory.dataQueue = t.memory.dataQueue /\ w.memory.memory = t.memory.memory
              /\ (w.assertionFailed => MayFail(config))
          BY <1>4, <1>5 DEF DataBefore
        <5>4. OngoingOK(config, o, w.memory.dataQueue)
          BY <5>3
        <5> HIDE DEF w
        <5> QED
          BY <1>5, <1>11, <3>1, <5>1, <5>2, <5>3, <5>4, ContinuesWith
      <4> QED
        BY <3>2, <3>4, <4>2
    <3> QED
      BY <3>3, <3>4
  <2> QED
    BY <2>1, <2>2
<1> QED
  BY <1>8, <1>9, <1>10, <1>11, OngoingTypes, Names DEF OngoingOK

\* A component once the topology has been cycled: access id is tracked, or it
\* has just been finished.
JustFinished(c, id) ==
    /\ id # NoId /\ c.finishedId = id
    /\ c.waitingQueue = <<>> /\ c.ongoingAccess = <<>>
InstrEnd(c, id, fl) == InstrTracked(c, id, fl) \/ JustFinished(c, id)
DataEnd(c, id)      == DataTracked(c, id) \/ JustFinished(c, id)

\* A cycle of the data component.
LEMMA CheckData ==
    ASSUME NEW t \in T!Topology, NEW n \in 0 .. MaxDataAccesses, NEW id,
           DataTracked(t.dataComponent, id),
           MemoryInv(t.memory, Awaited(t.instructionComponent),
                     Left(Awaited(t.dataComponent), t.memory),
                     2 * n + Remaining(t.dataComponent)),
           DataOK(config, t.dataComponent, t.memory.dataQueue),
           t.memory.finishedAccess # 0 /\ t.memory.finishedAccess = Awaited(t.dataComponent)
             => t.memory.dataQueue = <<>>,
           t.assertionFailed => MayFail(config),
           NEW u \in T!checkDataPart(t)
    PROVE  /\ TopologyInv(config, u, n)
           /\ RetriedOK(config, u.dataComponent, u.memory.dataQueue)
           /\ u.instructionComponent = t.instructionComponent /\ u.currentId = t.currentId
           /\ u.memory.memory = t.memory.memory
           /\ DataEnd(u.dataComponent, id)
<1> DEFINE d == t.dataComponent
<1>1. d \in T!MemoryComponent
  BY TopologyTypes
<1>2. CASE d.ongoingAccess = <<>>
  <2>1. u = t
    BY <1>2 DEF T!checkDataPart
  <2>2. Awaited(d) = 0 /\ Left(Awaited(d), t.memory) = Awaited(d)
    BY <1>2, IdFacts DEF Awaited, Left
  <2>3. TopologyInv(config, t, n) /\ RetriedOK(config, d, t.memory.dataQueue)
    BY <1>2, <2>2 DEF TopologyInv, RetriedOK
  <2> QED
    BY <2>1, <2>3 DEF DataEnd
<1>3. CASE d.ongoingAccess # <<>>
  <2>1. PICK o \in T!OngoingAccess : d.ongoingAccess = << o >>
    BY <1>1, <1>3, ComponentTypes
  <2>2. Head(d.ongoingAccess) = o
    BY <2>1
  <2>3. id # NoId /\ d.waitingQueue = <<>> /\ d.finishedId = 0 /\ o.access.id = id
    BY <1>3, <2>2, IdFacts DEF DataTracked, T!newComponent
  <2> DEFINE w == [t EXCEPT !.assertionFailed = @ \/ ~T!checkDataAssertion(o)]
  <2>4. u \in T!checkDataOngoing(w, o)
    BY <1>3, <2>2 DEF T!checkDataPart
  <2>5. OngoingOK(config, o, t.memory.dataQueue)
    BY <1>3, <2>2 DEF DataOK
  <2>6. ~T!checkDataAssertion(o) => MayFail(config)
    BY <2>5, OngoingTypes, IdFacts, Names DEF OngoingOK, T!checkDataAssertion
  <2>7. /\ w \in T!Topology /\ w.memory = t.memory /\ w.currentId = t.currentId
        /\ w.instructionComponent = t.instructionComponent /\ w.dataComponent = d
        /\ w.assertionFailed => MayFail(config)
    <3> DEFINE f == t.assertionFailed \/ ~T!checkDataAssertion(o)
    <3>1. f \in BOOLEAN /\ (f => MayFail(config))
      BY <2>6, TopologyTypes
    <3>2. w = [t EXCEPT !.assertionFailed = f]
      OBVIOUS
    <3> HIDE DEF f, w
    <3> QED
      BY <3>1, <3>2 DEF T!Topology
  <2> HIDE DEF w
  <2>8. Awaited(d) = o.bgMemAccessId /\ Remaining(d) = RemainingOf(o)
    BY <1>3, <2>2, <2>3 DEF Awaited, Remaining
  <2>9. DataBefore(w, Left(o.bgMemAccessId, w.memory), 2 * n + RemainingOf(o))
    BY <2>3, <2>7, <2>8 DEF DataBefore
  <2>10. ~config.UnblockStores /\ o.bgMemAccessId = 0 => w.memory.dataQueue = <<>>
    BY <2>7, <2>8, IdFacts DEF DataOK
  <2>11. DataContinues(w, u, n, o.access) \/ DataEnds(w, u, n, o.access)
    BY <2>1, <2>4, <2>5, <2>7, <2>8, <2>9, <2>10, CheckDataOngoing
  <2>12. DataEnd(u.dataComponent, id)
    <3>1. CASE DataContinues(w, u, n, o.access)
      BY <2>3, <2>7, <3>1, IdFacts DEF DataContinues, DataChanged, DataEnd, DataTracked
    <3>2. CASE DataEnds(w, u, n, o.access)
      BY <2>3, <2>7, <3>2 DEF DataEnds, DataChanged, DataEnd, JustFinished
    <3> QED
      BY <2>11, <3>1, <3>2
  <2>13. DataChanged(w, u, n)
    BY <2>11 DEF DataContinues, DataEnds
  <2> QED
    BY <2>7, <2>12, <2>13 DEF DataChanged
<1> QED
  BY <1>2, <1>3

\* The instruction component with its ongoing access o becomes k, the memory m.
InstrUpdated(t, k, m) == [t EXCEPT !.instructionComponent = k, !.memory = m]
InstrStep(i, k, o) ==
    /\ k \in T!MemoryComponent
    /\ k.waitingQueue = i.waitingQueue
    /\ \/ /\ k.ongoingAccess # <<>> /\ Head(k.ongoingAccess).access = o.access
          /\ k.finishedId = i.finishedId
       \/ k.ongoingAccess = <<>> /\ k.finishedId = o.access.id

\* A cycle of the ongoing instruction access.
LEMMA CheckInstrOngoing ==
    ASSUME NEW t \in T!Topology, NEW o \in T!OngoingAccess,
           t.instructionComponent.ongoingAccess = << o >>
    PROVE  \E k \in T!MemoryComponent :
              /\ T!checkInstructionOngoing(t, o)
                   = InstrUpdated(t, k, IF o.bgMemAccessId = 0 THEN t.memory
                                        ELSE T!BgMem!forget(t.memory, o.bgMemAccessId))
              /\ InstrStep(t.instructionComponent, k, o)
              /\ Awaited(k) = Left(o.bgMemAccessId, t.memory)
<1> DEFINE i == t.instructionComponent
           u == T!checkInstructionOngoing(t, o)
           set(p) == [i EXCEPT !.ongoingAccess = << p >>]
           id == o.bgMemAccessId
<1>1. i \in T!MemoryComponent
  BY TopologyTypes
<1>2. ASSUME NEW p \in T!OngoingAccess, p.access = o.access
      PROVE  /\ set(p) \in T!MemoryComponent /\ InstrStep(i, set(p), o)
             /\ Awaited(set(p)) = p.bgMemAccessId
             /\ T!setInstr(t, p) = InstrUpdated(t, set(p), t.memory)
  <2>1. set(p) \in T!MemoryComponent
    BY <1>1 DEF T!MemoryComponent
  <2>2. /\ set(p).waitingQueue = i.waitingQueue /\ set(p).finishedId = i.finishedId
        /\ set(p).ongoingAccess = << p >>
    BY <1>1 DEF T!MemoryComponent
  <2>3. InstrStep(i, set(p), o) /\ Awaited(set(p)) = p.bgMemAccessId
    <3> HIDE DEF set
    <3> QED
      BY <1>2, <2>1, <2>2 DEF InstrStep, Awaited
  <2>4. T!setInstr(t, p) = InstrUpdated(t, set(p), t.memory)
    BY DEF T!setInstr, InstrUpdated, T!Topology
  <2> QED
    BY <2>1, <2>3, <2>4
<1>3. /\ o.l1timeBlocked \in 0 .. InstrHitLatency + DataHitLatency
      /\ o.l2timeBlocked \in 0 .. L2HitLatency
      /\ id \in 0 .. IdModulus - 1
  BY OngoingTypes
<1>4. CASE id # 0
  <2> DEFINE p == IF t.memory.finishedAccess = id THEN T!enterL2(o) ELSE o
             m == T!BgMem!forget(t.memory, id)
  <2>1. p \in T!OngoingAccess /\ p.access = o.access /\ p.bgMemAccessId = Left(id, t.memory)
    <3>1. CASE t.memory.finishedAccess = id
      <4>1. L2HitLatency \in 0 .. L2HitLatency
        BY LatencyFacts
      <4>2. p = [o EXCEPT !.bgMemAccessId = 0, !.bgl2AccessId = T!L2Access,
                          !.l2timeBlocked = L2HitLatency]
        BY <3>1, IdFacts DEF T!enterL2
      <4> HIDE DEF p
      <4> QED
        BY <3>1, <4>1, <4>2, IdFacts DEF T!OngoingAccess, Left
    <3>2. CASE t.memory.finishedAccess # id
      BY <3>2 DEF Left
    <3> QED
      BY <3>1, <3>2
  <2>2. u = [T!setInstr(t, p) EXCEPT !.memory = T!BgMem!forget(@, id)]
    BY <1>4, IdFacts DEF T!checkInstructionOngoing, T!BgMem!finished
  <2> HIDE DEF p, u, id
  <2>3. u = InstrUpdated(t, set(p), m)
    <3>1. T!setInstr(t, p) = InstrUpdated(t, set(p), t.memory)
      BY <1>2, <2>1
    <3> HIDE DEF set
    <3> QED
      BY <2>2, <3>1 DEF InstrUpdated, T!Topology
  <2> QED
    BY <1>2, <1>4, <2>1, <2>3 DEF u, id
<1>5. CASE id = 0 /\ o.bgl2AccessId # T!NoL2
  <2> DEFINE l == T!countDown(o.l2timeBlocked)
             p == [o EXCEPT !.l2timeBlocked = l]
             q == IF l = 0 THEN [p EXCEPT !.bgl2AccessId = T!NoL2,
                                          !.l1timeBlocked = InstrHitLatency] ELSE p
  <2>1. l \in 0 .. L2HitLatency
    <3>1. o.l2timeBlocked \in Nat
      BY <1>3, LatencyFacts
    <3>2. l \in 0 .. o.l2timeBlocked
      BY <3>1, LatencyFacts
    <3> QED
      BY <1>3, <3>1, <3>2, LatencyFacts
  <2>2. u = T!setInstr(t, q)
    <3>1. p.l2timeBlocked = l
      BY DEF T!OngoingAccess
    <3> QED
      BY <1>5, <3>1, IdFacts DEF T!checkInstructionOngoing
  <2>3. q \in T!OngoingAccess /\ q.access = o.access /\ q.bgMemAccessId = 0
    <3> HIDE DEF l
    <3>1. p \in T!OngoingAccess /\ p.access = o.access /\ p.bgMemAccessId = 0
      BY <1>5, <2>1 DEF T!OngoingAccess
    <3> HIDE DEF p
    <3>2. [p EXCEPT !.bgl2AccessId = T!NoL2, !.l1timeBlocked = InstrHitLatency]
             \in T!OngoingAccess
      BY <3>1, CacheUpdates
    <3> QED
      BY <3>1, <3>2 DEF T!OngoingAccess
  <2> HIDE DEF q, u
  <2>4. Left(id, t.memory) = 0
    BY <1>5 DEF Left
  <2> QED
    BY <1>2, <1>5, <2>2, <2>3, <2>4 DEF u
<1>6. CASE id = 0 /\ o.bgl2AccessId = T!NoL2
  <2> DEFINE l == T!countDown(o.l1timeBlocked)
             p == [o EXCEPT !.l1timeBlocked = l]
             k == [i EXCEPT !.finishedId = o.access.id, !.ongoingAccess = <<>>]
  <2>1. l \in 0 .. InstrHitLatency + DataHitLatency
    <3>1. o.l1timeBlocked \in Nat
      BY <1>3, LatencyFacts
    <3>2. l \in 0 .. o.l1timeBlocked
      BY <3>1, LatencyFacts
    <3> QED
      BY <1>3, <3>1, <3>2, LatencyFacts
  <2>2. p \in T!OngoingAccess /\ p.access = o.access /\ p.bgMemAccessId = 0
    <3> HIDE DEF l
    <3> QED
      BY <1>6, <2>1 DEF T!OngoingAccess
  <2>3. u = IF l = 0 THEN [T!setInstr(t, p) EXCEPT !.instructionComponent = T!finish(@)]
            ELSE T!setInstr(t, p)
    BY <1>6, IdFacts DEF T!checkInstructionOngoing
  <2>4. Left(id, t.memory) = 0
    BY <1>6 DEF Left
  <2> HIDE DEF p, u
  <2>5. CASE l # 0
    BY <1>2, <1>6, <2>2, <2>3, <2>4, <2>5 DEF u
  <2>6. CASE l = 0
    <3>1. o.access.id \in T!Ids \cup {T!NoId}
      BY OngoingTypes, IdFacts
    <3>2. /\ k \in T!MemoryComponent /\ k.waitingQueue = i.waitingQueue
          /\ k.ongoingAccess = <<>> /\ k.finishedId = o.access.id
      BY <1>1, <3>1 DEF T!MemoryComponent
    <3>3. T!finish(set(p)) = k
      <4>1. set(p).ongoingAccess = << p >>
        BY <1>1 DEF T!MemoryComponent
      <4>2. Head(set(p).ongoingAccess).access.id = o.access.id
        BY <2>2, <4>1
      <4> QED
        BY <1>1, <4>2 DEF T!finish, T!MemoryComponent
    <3> HIDE DEF k
    <3>4. u = InstrUpdated(t, k, t.memory)
      <4>1. T!setInstr(t, p) = InstrUpdated(t, set(p), t.memory)
        BY <1>2, <2>2
      <4> HIDE DEF set
      <4> QED
        BY <2>3, <2>6, <3>3, <4>1 DEF InstrUpdated, T!Topology
    <3>5. InstrStep(i, k, o) /\ Awaited(k) = 0
      BY <3>2, IdFacts DEF InstrStep, Awaited
    <3> QED
      BY <1>6, <2>4, <3>2, <3>4, <3>5 DEF u
  <2> QED
    BY <2>5, <2>6
<1> QED
  BY <1>4, <1>5, <1>6

\* The tracked fetch after a cycle of its component.
LEMMA InstrStepTracked ==
    ASSUME NEW i \in T!MemoryComponent, NEW o \in T!OngoingAccess, i.ongoingAccess = << o >>,
           NEW k, InstrStep(i, k, o), NEW id, NEW fl \in BOOLEAN, InstrTracked(i, id, fl)
    PROVE  InstrEnd(k, id, fl)
<1>1. Head(i.ongoingAccess) = o /\ i.ongoingAccess # <<>>
  OBVIOUS
<1>2. id # NoId
  BY <1>1 DEF InstrTracked, T!newComponent
<1>3. CASE i.waitingQueue # <<>>
  <2>1. Head(i.waitingQueue).id = id /\ fl /\ o.access.id # id /\ i.finishedId # id
    BY <1>1, <1>2, <1>3 DEF InstrTracked
  <2>2. k.waitingQueue # <<>> /\ Head(k.waitingQueue).id = id /\ k.finishedId # id
    BY <1>3, <2>1 DEF InstrStep
  <2>3. k.ongoingAccess # <<>> => Head(k.ongoingAccess).access.id # id
    BY <2>1 DEF InstrStep
  <2> QED
    BY <1>2, <2>1, <2>2, <2>3 DEF InstrEnd, InstrTracked
<1>4. CASE i.waitingQueue = <<>>
  <2>1. o.access.id = id /\ i.finishedId # id /\ (~fl => i.finishedId = NoId)
    BY <1>1, <1>2, <1>4 DEF InstrTracked
  <2>2. CASE k.ongoingAccess # <<>>
    BY <1>2, <1>4, <2>1, <2>2 DEF InstrEnd, InstrTracked, InstrStep
  <2>3. CASE k.ongoingAccess = <<>>
    BY <1>2, <1>4, <2>1, <2>3 DEF InstrEnd, JustFinished, InstrStep
  <2> QED
    BY <2>2, <2>3
<1> QED
  BY <1>3, <1>4

\* A cycle of the instruction component.
LEMMA CheckInstr ==
    ASSUME NEW t \in T!Topology, NEW c \in 0 .. IdModulus - 1, NEW s, NEW id, NEW fl \in BOOLEAN,
           InstrTracked(t.instructionComponent, id, fl),
           MemoryInv(t.memory, Left(Awaited(t.instructionComponent), t.memory),
                     Left(c, t.memory), s),
           t.memory.finishedAccess # 0
             => \/ t.memory.finishedAccess # Awaited(t.instructionComponent)
                \/ t.memory.finishedAccess # c
    PROVE  LET u == T!checkInstructionPart(t)
           IN  /\ u \in T!Topology
               /\ MemoryInv(u.memory, Awaited(u.instructionComponent), Left(c, u.memory), s)
               /\ u.memory.finishedAccess \in {0, t.memory.finishedAccess}
               /\ u.memory.dataQueue = t.memory.dataQueue
               /\ u.memory.memory = t.memory.memory
               /\ u.dataComponent = t.dataComponent /\ u.currentId = t.currentId
               /\ u.assertionFailed = t.assertionFailed
               /\ InstrEnd(u.instructionComponent, id, fl)
<1> DEFINE i == t.instructionComponent
           u == T!checkInstructionPart(t)
<1>1. i \in T!MemoryComponent /\ t.memory \in T!BgMem!Topology
  BY TopologyTypes
<1>2. CASE i.ongoingAccess = <<>>
  <2>1. u = t
    BY <1>2 DEF T!checkInstructionPart
  <2>2. Left(Awaited(i), t.memory) = Awaited(i)
    BY <1>2, IdFacts DEF Awaited, Left
  <2> HIDE DEF u
  <2> QED
    BY <2>1, <2>2 DEF InstrEnd, u
<1>3. CASE i.ongoingAccess # <<>>
  <2>1. PICK o \in T!OngoingAccess : i.ongoingAccess = << o >>
    BY <1>1, <1>3, ComponentTypes
  <2> DEFINE b == o.bgMemAccessId
             m == IF b = 0 THEN t.memory ELSE T!BgMem!forget(t.memory, b)
  <2>2. Head(i.ongoingAccess) = o
    BY <2>1
  <2>3. u = T!checkInstructionOngoing(t, o)
    BY <1>3, <2>2 DEF T!checkInstructionPart
  <2>4. PICK k \in T!MemoryComponent :
           u = InstrUpdated(t, k, m) /\ InstrStep(i, k, o) /\ Awaited(k) = Left(b, t.memory)
    BY <2>1, <2>3, CheckInstrOngoing
  <2>5. Awaited(i) = b /\ b \in 0 .. IdModulus - 1
    BY <1>3, <2>2, OngoingTypes DEF Awaited
  <2>6. MemoryInv(t.memory, Awaited(k), Left(c, t.memory), s)
    BY <2>4, <2>5
  <2>7. /\ MemoryInv(m, Awaited(k), Left(c, t.memory), s)
        /\ m.dataQueue = t.memory.dataQueue /\ m.memory = t.memory.memory
        /\ m.finishedAccess = IF b # 0 /\ t.memory.finishedAccess = b THEN 0
                              ELSE t.memory.finishedAccess
    <3>1. CASE b = 0
      BY <2>6, <3>1
    <3>2. CASE b # 0
      <4>1. m = T!BgMem!forget(t.memory, b)
        BY <3>2
      <4>2. MemoryInv(m, Awaited(k), Left(c, t.memory), s)
        <5> HIDE DEF m
        <5> QED
          BY <2>6, <4>1, MemoryForget
      <4>3. /\ m.dataQueue = t.memory.dataQueue /\ m.memory = t.memory.memory
            /\ m.finishedAccess = IF t.memory.finishedAccess = b THEN 0
                                  ELSE t.memory.finishedAccess
        <5> HIDE DEF m, b
        <5> QED
          BY <1>1, <4>1, ForgetFields
      <4> QED
        BY <3>2, <4>2, <4>3
    <3> QED
      BY <3>1, <3>2
  <2>8. Left(c, m) = Left(c, t.memory)
    <3> HIDE DEF m, b
    <3> QED
      BY <2>5, <2>7 DEF Left
  <2>9. /\ u \in T!Topology /\ u.memory = m /\ u.instructionComponent = k
        /\ u.dataComponent = t.dataComponent /\ u.currentId = t.currentId
        /\ u.assertionFailed = t.assertionFailed
    <3>1. m \in T!BgMem!Topology
      BY <2>7 DEF MemoryInv
    <3> HIDE DEF m, u
    <3> QED
      BY <2>4, <3>1 DEF InstrUpdated, T!Topology
  <2>10. InstrEnd(k, id, fl)
    BY <1>1, <2>1, <2>4, InstrStepTracked
  <2> HIDE DEF u, m
  <2> QED
    BY <2>7, <2>8, <2>9, <2>10 DEF u
<1> QED
  BY <1>2, <1>3

\* A cycle of the topology.
CycleEnd(t, u, n, id, fl, did) ==
    /\ TopologyInv(config, u, n)
    /\ RetriedOK(config, u.dataComponent, u.memory.dataQueue)
    /\ u.currentId = t.currentId
    /\ InstrEnd(u.instructionComponent, id, fl)
    /\ DataEnd(u.dataComponent, did)
    /\ T!shouldPipelineStall(u) => /\ InstrTracked(u.instructionComponent, id, fl)
                                   /\ DataTracked(u.dataComponent, did)

\* The part of the cycle that comes after the accesses have been started.
LEMMA CycleParts ==
    ASSUME NEW t, NEW n \in 0 .. MaxDataAccesses, TopologyInv(config, t, n),
           NEW id, NEW fl \in BOOLEAN, InstrTracked(t.instructionComponent, id, fl),
           NEW did, DataTracked(t.dataComponent, did),
           NEW m \in T!BgMem!cycle(t.memory, FALSE),
           NEW u \in T!checkParts([t EXCEPT !.memory = m])
    PROVE  CycleEnd(t, u, n, id, fl, did)
<1> DEFINE w == [t EXCEPT !.memory = m]
           b == Awaited(t.instructionComponent)
           c == Awaited(t.dataComponent)
           s == 2 * n + Remaining(t.dataComponent)
<1>1. /\ t \in T!Topology
      /\ t.instructionComponent \in T!MemoryComponent /\ t.dataComponent \in T!MemoryComponent
  BY TopologyTypes DEF TopologyInv
<1>2. b \in 0 .. IdModulus - 1 /\ c \in 0 .. IdModulus - 1 /\ s \in Nat
  BY <1>1, AwaitedTypes, ModulusFacts
<1>3. MemoryInv(t.memory, b, c, s)
  BY DEF TopologyInv
<1>4. /\ MemoryInv(m, Left(b, m), Left(c, m), s)
      /\ m.finishedAccess # 0 => m.finishedAccess # b \/ m.finishedAccess # c
      /\ m.finishedAccess # 0 /\ m.finishedAccess = c => m.dataQueue = <<>>
      /\ m.memory.stall => m.finishedAccess = 0 /\ config.StallOnLocalWorst
      /\ t.memory.dataQueue = <<>> => m.dataQueue = <<>>
  <2> HIDE DEF b, c, s
  <2> QED
    BY <1>2, <1>3, MemoryCycle
<1>5. /\ w \in T!Topology /\ w.memory = m /\ w.currentId = t.currentId
      /\ w.instructionComponent = t.instructionComponent
      /\ w.dataComponent = t.dataComponent /\ w.assertionFailed = t.assertionFailed
  <2>1. m \in T!BgMem!Topology
    BY <1>4 DEF MemoryInv
  <2> QED
    BY <1>1, <2>1 DEF T!Topology
<1>6. DataOK(config, t.dataComponent, m.dataQueue)
  BY <1>4 DEF TopologyInv, DataOK, OngoingOK
<1>7. \A x : T!shouldPipelineStall(x) <=> x.memory.memory.stall
  BY DEF T!shouldPipelineStall, T!BgMem!shouldPipelineStall, T!Mem!shouldPipelineStall
<1> HIDE DEF w
<1>8. CASE T!shouldPipelineStall(w)
  <2>1. u = w
    BY <1>8 DEF T!checkParts, w
  <2>2. m.finishedAccess = 0 /\ config.StallOnLocalWorst
    BY <1>4, <1>5, <1>7, <1>8
  <2>3. Left(b, m) = b /\ Left(c, m) = c
    BY <2>2 DEF Left
  <2>4. TopologyInv(config, w, n)
    BY <1>4, <1>5, <1>6, <2>3 DEF TopologyInv
  <2>5. RetriedOK(config, w.dataComponent, w.memory.dataQueue)
    BY <2>2 DEF RetriedOK
  <2> QED
    BY <1>5, <2>1, <2>4, <2>5 DEF CycleEnd, InstrEnd, DataEnd
<1>9. CASE ~T!shouldPipelineStall(w)
  <2> DEFINE v == T!checkInstructionPart(w)
  <2>1. u \in T!checkDataPart(v)
    BY <1>9 DEF T!checkParts, w
  <2>2. /\ v \in T!Topology
        /\ MemoryInv(v.memory, Awaited(v.instructionComponent), Left(c, v.memory), s)
        /\ v.memory.finishedAccess \in {0, m.finishedAccess}
        /\ v.memory.dataQueue = m.dataQueue /\ v.memory.memory = m.memory
        /\ v.dataComponent = t.dataComponent /\ v.currentId = t.currentId
        /\ v.assertionFailed = t.assertionFailed
        /\ InstrEnd(v.instructionComponent, id, fl)
    <3> HIDE DEF c, s
    <3>1. /\ InstrTracked(w.instructionComponent, id, fl)
          /\ MemoryInv(w.memory, Left(Awaited(w.instructionComponent), w.memory),
                       Left(c, w.memory), s)
          /\ w.memory.finishedAccess # 0
               => \/ w.memory.finishedAccess # Awaited(w.instructionComponent)
                  \/ w.memory.finishedAccess # c
      BY <1>4, <1>5
    <3>2. /\ v \in T!Topology
          /\ MemoryInv(v.memory, Awaited(v.instructionComponent), Left(c, v.memory), s)
          /\ v.memory.finishedAccess \in {0, w.memory.finishedAccess}
          /\ v.memory.dataQueue = w.memory.dataQueue /\ v.memory.memory = w.memory.memory
          /\ v.dataComponent = w.dataComponent /\ v.currentId = w.currentId
          /\ v.assertionFailed = w.assertionFailed
          /\ InstrEnd(v.instructionComponent, id, fl)
      BY <1>2, <1>5, <3>1, CheckInstr
    <3> HIDE DEF v
    <3> QED
      BY <1>5, <3>2
  <2> HIDE DEF v
  <2>3. /\ TopologyInv(config, u, n)
        /\ RetriedOK(config, u.dataComponent, u.memory.dataQueue)
        /\ u.instructionComponent = v.instructionComponent /\ u.currentId = v.currentId
        /\ u.memory.memory = v.memory.memory
        /\ DataEnd(u.dataComponent, did)
    <3>1. /\ MemoryInv(v.memory, Awaited(v.instructionComponent),
                       Left(Awaited(v.dataComponent), v.memory),
                       2 * n + Remaining(v.dataComponent))
          /\ DataOK(config, v.dataComponent, v.memory.dataQueue)
          /\ DataTracked(v.dataComponent, did)
          /\ v.assertionFailed => MayFail(config)
      BY <1>6, <2>2 DEF TopologyInv
    <3>2. v.memory.finishedAccess # 0 /\ v.memory.finishedAccess = Awaited(v.dataComponent)
            => v.memory.dataQueue = <<>>
      BY <1>4, <2>2
    <3> QED
      BY <2>1, <2>2, <3>1, <3>2, CheckData
  <2>4. ~T!shouldPipelineStall(u)
    BY <1>5, <1>7, <1>9, <2>2, <2>3
  <2> QED
    BY <2>2, <2>3, <2>4 DEF CycleEnd
<1> QED
  BY <1>8, <1>9

\* A data access that waits is started.
LEMMA StartDataAccess ==
    ASSUME NEW t, NEW n \in 0 .. MaxDataAccesses, TopologyInv(config, t, n),
           NEW did, DataTracked(t.dataComponent, did), NEW u \in T!mystartDataAccess(t)
    PROVE  /\ TopologyInv(config, u, n)
           /\ u.instructionComponent = t.instructionComponent /\ u.currentId = t.currentId
           /\ DataTracked(u.dataComponent, did)
<1> DEFINE d == t.dataComponent
<1>1. CASE ~(d.ongoingAccess = <<>> /\ d.waitingQueue # <<>>)
  <2>1. u = t
    BY <1>1 DEF T!mystartDataAccess
  <2> QED
    BY <2>1
<1>2. CASE d.ongoingAccess = <<>> /\ d.waitingQueue # <<>>
  <2>1. PICK a \in T!Access : d.waitingQueue = << a >>
    BY <1>2, TopologyTypes, ComponentTypes DEF TopologyInv
  <2>2. PICK cl \in T!classifications : u = T!processDataCacheAccess(t, cl)
    BY <1>2 DEF T!mystartDataAccess
  <2>3. DataContinues(t, u, n, a)
    BY <1>2, <2>1, <2>2, ProcessData
  <2>4. Head(d.waitingQueue) = a
    BY <2>1
  <2>5. did # NoId /\ a.id = did /\ d.finishedId = NoId
    BY <1>2, <2>4 DEF DataTracked, T!newComponent
  <2>6. DataTracked(u.dataComponent, did)
    BY <2>3, <2>5 DEF DataTracked, DataContinues, DataChanged
  <2> QED
    BY <2>3, <2>6 DEF DataContinues, DataChanged
<1> QED
  BY <1>1, <1>2

\* A cycle of the topology keeps its invariant and loses no access.
LEMMA Cycle ==
    ASSUME NEW t, NEW n \in 0 .. MaxDataAccesses, TopologyInv(config, t, n),
           NEW id \in 0 .. IdModulus - 1, NEW fl \in BOOLEAN,
           InstrTracked(t.instructionComponent, id, fl),
           NEW did, DataTracked(t.dataComponent, did), NEW u \in T!cycle(t, FALSE)
    PROVE  CycleEnd(t, u, n, id, fl, did)
<1> DEFINE t0 == [t EXCEPT !.justMissed = FALSE]
<1>1. PICK t1 \in T!mystartInstructionAccess(t0) : \E t2 \in T!mystartDataAccess(t1) :
         \E m \in T!BgMem!cycle(t2.memory, FALSE) :
            u \in T!checkParts([t2 EXCEPT !.memory = m])
  <2> DEFINE started == UNION { T!mystartDataAccess(x) : x \in T!mystartInstructionAccess(t0) }
             over(x) == { [x EXCEPT !.memory = m] : m \in T!BgMem!cycle(x.memory, FALSE) }
             cycled == UNION { over(x) : x \in started }
  <2>1. T!cycle(t, FALSE) = UNION { T!checkParts(x) : x \in cycled }
    BY DEF T!cycle
  <2> HIDE DEF t0, cycled
  <2>2. PICK x \in cycled : u \in T!checkParts(x)
    BY <2>1
  <2> HIDE DEF started, over
  <2>3. PICK t2 \in started : x \in over(t2)
    BY DEF cycled
  <2>4. PICK m \in T!BgMem!cycle(t2.memory, FALSE) : x = [t2 EXCEPT !.memory = m]
    BY <2>3 DEF over
  <2>5. PICK t1 \in T!mystartInstructionAccess(t0) : t2 \in T!mystartDataAccess(t1)
    BY DEF started
  <2> QED
    BY <2>2, <2>4, <2>5
<1>2. PICK t2 \in T!mystartDataAccess(t1) : \E m \in T!BgMem!cycle(t2.memory, FALSE) :
         u \in T!checkParts([t2 EXCEPT !.memory = m])
  BY <1>1
<1>3. PICK m \in T!BgMem!cycle(t2.memory, FALSE) : u \in T!checkParts([t2 EXCEPT !.memory = m])
  BY <1>2
<1>4. /\ t0 \in T!Topology /\ t0.memory = t.memory /\ t0.currentId = t.currentId
      /\ t0.instructionComponent = t.instructionComponent
      /\ t0.dataComponent = t.dataComponent /\ t0.assertionFailed = t.assertionFailed
  BY DEF TopologyInv, T!Topology
<1> HIDE DEF t0
<1>5. TopologyInv(config, t0, n)
  BY <1>4 DEF TopologyInv
<1>6. /\ TopologyInv(config, t1, n) /\ t1.currentId = t.currentId
      /\ InstrTracked(t1.instructionComponent, id, fl) /\ DataTracked(t1.dataComponent, did)
  BY <1>4, <1>5, StartInstrAccess
<1>7. /\ TopologyInv(config, t2, n) /\ t2.currentId = t.currentId
      /\ InstrTracked(t2.instructionComponent, id, fl) /\ DataTracked(t2.dataComponent, did)
  BY <1>6, StartDataAccess
<1>8. CycleEnd(t2, u, n, id, fl, did)
  BY <1>3, <1>7, CycleParts
<1> QED
  BY <1>7, <1>8 DEF CycleEnd

\* Fast-forwarding changes the memory only.
LEMMA FastForward ==
    ASSUME NEW t, NEW n, TopologyInv(config, t, n),
           RetriedOK(config, t.dataComponent, t.memory.dataQueue), NEW u \in T!fastForward(t)
    PROVE  /\ TopologyInv(config, u, n)
           /\ RetriedOK(config, u.dataComponent, u.memory.dataQueue)
           /\ u.instructionComponent = t.instructionComponent
           /\ u.dataComponent = t.dataComponent /\ u.currentId = t.currentId
<1>1. CASE u = t
  BY <1>1
<1>2. CASE u # t
  <2>1. PICK m \in T!BgMem!fastForward(t.memory) : u = [t EXCEPT !.memory = m]
    BY <1>2 DEF T!fastForward
  <2> DEFINE b == Awaited(t.instructionComponent)
             c == Awaited(t.dataComponent)
             s == 2 * n + Remaining(t.dataComponent)
  <2>2. MemoryInv(t.memory, b, c, s)
    BY DEF TopologyInv
  <2>3. MemoryInv(m, b, c, s) /\ m.dataQueue = t.memory.dataQueue
    <3> HIDE DEF b, c, s
    <3> QED
      BY <2>2, MemoryFastForward
  <2>4. /\ u \in T!Topology /\ u.memory = m /\ u.currentId = t.currentId
        /\ u.instructionComponent = t.instructionComponent
        /\ u.dataComponent = t.dataComponent /\ u.assertionFailed = t.assertionFailed
    BY <2>1, <2>3 DEF TopologyInv, MemoryInv, T!Topology
  <2> QED
    BY <2>3, <2>4 DEF TopologyInv
<1> QED
  BY <1>1, <1>2

-----------------------------------------------------------------------------
(* The pipeline.                                                           *)

\* The fetch stage makes an access, in place of one that still waits.
LEMMA AccessInstr ==
    ASSUME NEW t, NEW n, TopologyInv(config, t, n)
    PROVE  LET u == T!accessInstr(t)
           IN  /\ TopologyInv(config, u, n)
               /\ u.memory = t.memory /\ u.dataComponent = t.dataComponent
               /\ u.currentId = IF t.currentId = IdModulus - 1 THEN 1 ELSE t.currentId + 1
               /\ u.instructionComponent.waitingQueue # <<>>
               /\ Head(u.instructionComponent.waitingQueue).id = t.currentId
               /\ u.instructionComponent.ongoingAccess = t.instructionComponent.ongoingAccess
               /\ u.instructionComponent.finishedId = t.instructionComponent.finishedId
<1> DEFINE i == t.instructionComponent
           a == [id |-> t.currentId, store |-> FALSE]
           k == [i EXCEPT !.waitingQueue = << a >>]
           next == IF t.currentId = IdModulus - 1 THEN 1 ELSE t.currentId + 1
           u == T!accessInstr(t)
<1>1. t \in T!Topology /\ i \in T!MemoryComponent /\ t.currentId \in 1 .. IdModulus - 1
  BY TopologyTypes DEF TopologyInv
<1>2. a \in T!Access
  BY <1>1, IdFacts DEF T!Access
<1>3. next \in 1 .. IdModulus - 1
  BY <1>1, DistFacts
<1>4. /\ k \in T!MemoryComponent /\ k.waitingQueue = << a >>
      /\ k.ongoingAccess = i.ongoingAccess /\ k.finishedId = i.finishedId
  <2> HIDE DEF a
  <2> QED
    BY <1>1, <1>2 DEF T!MemoryComponent
<1>5. u = [t EXCEPT !.instructionComponent = k, !.currentId = next]
  <2>1. u = [t EXCEPT !.instructionComponent.waitingQueue = << a >>, !.currentId = next]
    BY <1>1, Successor DEF T!accessInstr
  <2> HIDE DEF a, u, next
  <2> QED
    BY <1>1, <2>1 DEF T!Topology
<1> HIDE DEF k, u, next
<1>6. /\ u \in T!Topology /\ u.memory = t.memory /\ u.currentId = next
      /\ u.instructionComponent = k
      /\ u.dataComponent = t.dataComponent /\ u.assertionFailed = t.assertionFailed
  BY <1>1, <1>3, <1>4, <1>5, IdFacts DEF T!Topology
<1>7. Awaited(k) = Awaited(i)
  BY <1>4 DEF Awaited
<1>8. TopologyInv(config, u, n)
  BY <1>6, <1>7 DEF TopologyInv
<1>9. Head(k.waitingQueue).id = t.currentId /\ k.waitingQueue # <<>>
  BY <1>4
<1> QED
  BY <1>4, <1>6, <1>8, <1>9 DEF u, next

\* A component without an access is new once it has been asked for its last one.
LEMMA ForgetFinished ==
    ASSUME NEW c \in T!MemoryComponent, NEW id, JustFinished(c, id)
    PROVE  T!forget(c, id) = T!newComponent
<1>1. T!forget(c, id) = [c EXCEPT !.finishedId = T!NoId]
  BY DEF T!forget, T!finished, JustFinished
<1>2. c.waitingQueue = <<>> /\ c.ongoingAccess = <<>>
  BY DEF JustFinished
<1> QED
  BY <1>1, <1>2 DEF T!MemoryComponent, T!newComponent

\* The pipeline between the cycle of the topology and its own stages.
PipelineCycled(t, n) ==
    /\ n \in 0 .. MaxDataAccesses
    /\ TopologyInv(config, t, n)
    /\ RetriedOK(config, t.dataComponent, t.memory.dataQueue)

\* The memory and execute stages: the result d of dataStages.
StagesEnd(t, n, d) ==
    /\ d.made \in {0, 1} /\ d.id \in 0 .. IdModulus - 1
    /\ PipelineCycled(d.memory, n - d.made)
    /\ DataTracked(d.memory.dataComponent, d.id)
    /\ d.memory.instructionComponent = t.instructionComponent
    /\ \/ d.made = 0 /\ d.memory.currentId = t.currentId
       \/ /\ d.made = 1
          /\ d.memory.currentId = IF t.currentId = IdModulus - 1 THEN 1 ELSE t.currentId + 1

\* The execute stage makes an access while none is outstanding.
LEMMA AccessData ==
    ASSUME NEW t, NEW n, PipelineCycled(t, n), n > 0, t.dataComponent = T!newComponent,
           NEW store \in BOOLEAN
    PROVE  StagesEnd(t, n, [memory |-> T!accessData(t, store), id |-> t.currentId, made |-> 1])
<1> DEFINE a == [id |-> t.currentId, store |-> store]
           k == [t.dataComponent EXCEPT !.waitingQueue = << a >>]
           next == IF t.currentId = IdModulus - 1 THEN 1 ELSE t.currentId + 1
           u == T!accessData(t, store)
           d == [memory |-> u, id |-> t.currentId, made |-> 1]
<1>1. /\ t \in T!Topology /\ t.dataComponent \in T!MemoryComponent
      /\ t.currentId \in 1 .. IdModulus - 1 /\ n \in 0 .. MaxDataAccesses
  BY TopologyTypes DEF PipelineCycled, TopologyInv
<1>2. /\ t.dataComponent.waitingQueue = <<>> /\ t.dataComponent.ongoingAccess = <<>>
      /\ t.dataComponent.finishedId = 0
  BY IdFacts DEF T!newComponent
<1>3. a \in T!Access
  BY <1>1, IdFacts DEF T!Access
<1>4. next \in 1 .. IdModulus - 1
  BY <1>1, DistFacts
<1>5. /\ k \in T!MemoryComponent /\ k.waitingQueue = << a >>
      /\ k.ongoingAccess = <<>> /\ k.finishedId = 0
  <2> HIDE DEF a
  <2> QED
    BY <1>1, <1>2, <1>3 DEF T!MemoryComponent
<1>6. u = [t EXCEPT !.dataComponent = k, !.currentId = next]
  <2>1. u = [t EXCEPT !.dataComponent.waitingQueue = << a >>, !.currentId = next]
    BY <1>1, <1>2, Successor DEF T!accessData, T!acceptsData
  <2> HIDE DEF a, u, next
  <2> QED
    BY <1>1, <2>1 DEF T!Topology
<1> HIDE DEF k, u, next
<1>7. /\ u \in T!Topology /\ u.memory = t.memory /\ u.currentId = next
      /\ u.instructionComponent = t.instructionComponent
      /\ u.dataComponent = k /\ u.assertionFailed = t.assertionFailed
  BY <1>1, <1>4, <1>5, <1>6, IdFacts DEF T!Topology
<1>8. Awaited(k) = Awaited(t.dataComponent) /\ Remaining(t.dataComponent) = 0 /\ Remaining(k) = 2
  BY <1>2, <1>5 DEF Awaited, Remaining
<1>9. 2 * (n - 1) + Remaining(k) = 2 * n + Remaining(t.dataComponent)
  BY <1>1, <1>8, ModulusFacts
<1>10. DataOK(config, k, t.memory.dataQueue) /\ RetriedOK(config, k, t.memory.dataQueue)
  BY <1>2, <1>5, <1>8 DEF PipelineCycled, TopologyInv, DataOK, RetriedOK
<1>11. TopologyInv(config, u, n - 1)
  BY <1>7, <1>8, <1>9, <1>10 DEF PipelineCycled, TopologyInv
<1>12. n - 1 \in 0 .. MaxDataAccesses
  BY <1>1, ModulusFacts
<1>13. DataTracked(k, t.currentId)
  <2>1. Head(k.waitingQueue).id = t.currentId /\ k.waitingQueue # <<>>
    BY <1>5
  <2>2. t.currentId # NoId
    BY <1>1, IdFacts
  <2> QED
    BY <1>5, <2>1, <2>2, IdFacts DEF DataTracked
<1>14. PipelineCycled(u, n - 1)
  BY <1>7, <1>10, <1>11, <1>12 DEF PipelineCycled
<1>15. d.memory = u /\ d.id = t.currentId /\ d.made = 1
  OBVIOUS
<1> HIDE DEF d
<1>16. StagesEnd(t, n, d)
  BY <1>1, <1>7, <1>13, <1>14, <1>15 DEF StagesEnd, next
<1> QED
  BY <1>16 DEF d, u

\* What the memory and execute stages do in a cycle.
LEMMA DataStages ==
    ASSUME NEW t, PipelineCycled(t, dataAccessesLeft), dataAccessId \in 0 .. IdModulus - 1,
           DataEnd(t.dataComponent, dataAccessId), NEW d \in dataStages(t)
    PROVE  StagesEnd(t, dataAccessesLeft, d)
<1> DEFINE c == t.dataComponent
           n == dataAccessesLeft
           id == dataAccessId
           free == id = NoId \/ T!finished(c, id)
           p == IF id = NoId THEN t ELSE T!finishedDataAccess(t, id)
<1>1. t \in T!Topology /\ c \in T!MemoryComponent /\ n \in 0 .. MaxDataAccesses
  BY TopologyTypes DEF PipelineCycled, TopologyInv
<1>2. CASE free
  <2>1. /\ p.dataComponent = T!newComponent
        /\ p.instructionComponent = t.instructionComponent
        /\ p.currentId = t.currentId /\ PipelineCycled(p, n)
    <3>1. CASE id = NoId
      BY <3>1 DEF DataEnd, DataTracked, JustFinished
    <3>2. CASE id # NoId
      <4>1. c.finishedId = id
        BY <1>2, <3>2 DEF T!finished
      <4>2. JustFinished(c, id)
        BY <3>2, <4>1 DEF DataEnd, DataTracked
      <4>3. p = [t EXCEPT !.dataComponent = T!newComponent]
        BY <1>1, <3>2, <4>2, ForgetFinished DEF T!finishedDataAccess
      <4>4. T!newComponent \in T!MemoryComponent
        BY <1>1, <4>2, ForgetFinished DEF T!newComponent, T!MemoryComponent
      <4> HIDE DEF p
      <4>5. /\ p \in T!Topology /\ p.memory = t.memory /\ p.currentId = t.currentId
            /\ p.instructionComponent = t.instructionComponent
            /\ p.dataComponent = T!newComponent /\ p.assertionFailed = t.assertionFailed
        BY <1>1, <4>3, <4>4 DEF T!Topology
      <4>6. /\ c.ongoingAccess = <<>> /\ c.waitingQueue = <<>>
            /\ T!newComponent.ongoingAccess = <<>> /\ T!newComponent.waitingQueue = <<>>
        BY <4>2 DEF JustFinished, T!newComponent
      <4>7. /\ Awaited(T!newComponent) = Awaited(c) /\ Remaining(T!newComponent) = Remaining(c)
            /\ DataOK(config, T!newComponent, t.memory.dataQueue)
            /\ RetriedOK(config, T!newComponent, t.memory.dataQueue)
        BY <4>6 DEF PipelineCycled, TopologyInv, Awaited, Remaining, DataOK, RetriedOK
      <4>8. PipelineCycled(p, n)
        BY <4>5, <4>7 DEF PipelineCycled, TopologyInv
      <4> QED
        BY <4>5, <4>8
    <3> QED
      BY <3>1, <3>2
  <2>2. CASE d = [memory |-> p, id |-> NoId, made |-> 0]
    <3>1. DataTracked(p.dataComponent, NoId)
      BY <2>1 DEF DataTracked
    <3>2. d.memory = p /\ d.id = 0 /\ d.made = 0 /\ n - 0 = n /\ 0 \in 0 .. IdModulus - 1
      BY <1>1, <2>2, IdFacts, ModulusFacts
    <3> HIDE DEF p
    <3> QED
      BY <2>1, <3>1, <3>2, IdFacts DEF StagesEnd
  <2>3. CASE \E store \in BOOLEAN :
                n > 0 /\ d = [memory |-> T!accessData(p, store), id |-> p.currentId, made |-> 1]
    <3>1. PICK store \in BOOLEAN :
             n > 0 /\ d = [memory |-> T!accessData(p, store), id |-> p.currentId, made |-> 1]
      BY <2>3
    <3> HIDE DEF p
    <3>2. StagesEnd(p, n, d)
      BY <2>1, <3>1, AccessData
    <3> QED
      BY <2>1, <3>2 DEF StagesEnd
  <2> QED
    BY <1>2, <2>2, <2>3 DEF dataStages
<1>3. CASE ~free
  <2>1. id # NoId /\ c.finishedId # id
    BY <1>3 DEF T!finished
  <2>2. p = t
    <3>1. T!forget(c, id) = c
      BY <2>1 DEF T!forget, T!finished
    <3>2. p = [t EXCEPT !.dataComponent = c]
      BY <2>1, <3>1 DEF T!finishedDataAccess
    <3> QED
      BY <1>1, <3>2 DEF T!Topology
  <2>3. d = [memory |-> t, id |-> id, made |-> 0]
    BY <1>3, <2>2 DEF dataStages
  <2>4. DataTracked(c, id)
    BY <2>1 DEF DataEnd, JustFinished
  <2>5. d.memory = t /\ d.id = id /\ d.made = 0 /\ n - 0 = n
    BY <1>1, <2>3, ModulusFacts
  <2> QED
    BY <2>4, <2>5 DEF StagesEnd
<1> QED
  BY <1>2, <1>3

\* A fetch is made while the last one is not taken for it.
LEMMA NewFetch ==
    ASSUME NEW t, NEW n, PipelineCycled(t, n), NEW fl \in BOOLEAN,
           NEW did \in 0 .. IdModulus - 1, DataTracked(t.dataComponent, did),
           t.instructionComponent.finishedId # t.currentId,
           ~fl => t.instructionComponent.finishedId = NoId,
           t.instructionComponent.ongoingAccess # <<>>
             => fl /\ Head(t.instructionComponent.ongoingAccess).access.id # t.currentId
    PROVE  PipelineInv(T!accessInstr(t), t.currentId, did, fl, n)
<1> DEFINE u == T!accessInstr(t)
           i == u.instructionComponent
<1>1. t.currentId \in 1 .. IdModulus - 1 /\ n \in 0 .. MaxDataAccesses
  BY TopologyTypes DEF PipelineCycled, TopologyInv
<1>2. /\ TopologyInv(config, u, n)
      /\ u.memory = t.memory /\ u.dataComponent = t.dataComponent
      /\ u.currentId = IF t.currentId = IdModulus - 1 THEN 1 ELSE t.currentId + 1
      /\ i.waitingQueue # <<>> /\ Head(i.waitingQueue).id = t.currentId
      /\ i.ongoingAccess = t.instructionComponent.ongoingAccess
      /\ i.finishedId = t.instructionComponent.finishedId
  BY AccessInstr DEF PipelineCycled
<1> HIDE DEF u
<1>3. InstrTracked(i, t.currentId, fl)
  <2>1. t.currentId # NoId
    BY <1>1, IdFacts
  <2> QED
    BY <1>2, <2>1 DEF InstrTracked
<1>4. Dist(t.currentId, u.currentId) + n <= MaxDataAccesses + 1
  <2>1. Dist(t.currentId, u.currentId) = 1
    BY <1>1, <1>2, DistFacts
  <2> QED
    BY <1>1, <2>1, ModulusFacts
<1>5. {t.currentId, did} \subseteq T!Ids \cup {NoId}
  BY <1>1, IdFacts
<1> QED
  BY <1>1, <1>2, <1>3, <1>4, <1>5 DEF PipelineInv, PipelineCycled, u

\* While no branch is taken, the fetch is among the last identifiers given.
LEMMA StillRecent ==
    ASSUME NEW id \in 1 .. IdModulus - 1, NEW t, NEW n, NEW d, PipelineCycled(t, n),
           StagesEnd(t, n, d), Dist(id, t.currentId) + n <= MaxDataAccesses + 1
    PROVE  /\ Dist(id, d.memory.currentId) + (n - d.made) <= MaxDataAccesses + 1
           /\ id # d.memory.currentId
<1> DEFINE cur == t.currentId
           next == d.memory.currentId
<1>1. cur \in 1 .. IdModulus - 1 /\ n \in 0 .. MaxDataAccesses /\ n - d.made \in Nat
  BY TopologyTypes DEF PipelineCycled, TopologyInv, StagesEnd
<1>2. /\ Dist(id, cur) \in Nat /\ Dist(id, cur) <= 2 * MaxDataAccesses + 2
      /\ Dist(id, cur) <= MaxDataAccesses + 1
  <2> HIDE DEF cur
  <2>1. Dist(id, cur) \in Nat
    <3>1. Dist(id, cur) \in 1 .. IdModulus - 1
      BY <1>1, DistFacts
    <3> QED
      BY <3>1, ModulusFacts
  <2> QED
    BY <1>1, <2>1, ModulusFacts DEF cur
<1>3. CASE d.made = 0
  <2>1. next = cur /\ n - d.made = n
    BY <1>1, <1>3 DEF StagesEnd
  <2>2. id # cur
    BY <1>1, <1>2, Older DEF cur
  <2> QED
    BY <2>1, <2>2
<1>4. CASE d.made = 1
  <2>1. next = IF cur = IdModulus - 1 THEN 1 ELSE cur + 1
    BY <1>4 DEF StagesEnd
  <2> HIDE DEF cur, next
  <2>2. Dist(id, next) = Dist(id, cur) + 1 /\ Dist(id, next) \in Nat
    BY <1>1, <1>2, <2>1, Older
  <2>3. Dist(id, next) + (n - d.made) <= MaxDataAccesses + 1
    BY <1>1, <1>2, <1>4, <2>2, ModulusFacts DEF cur
  <2>4. id # next
    <3>1. next \in 1 .. IdModulus - 1
      BY <1>1, <2>1, DistFacts
    <3>2. Dist(id, next) <= MaxDataAccesses + 2
      BY <1>2, <2>2, ModulusFacts
    <3>3. Dist(id, next) < IdModulus - 1
      BY <2>2, <3>2, ModulusFacts
    <3> QED
      BY <3>1, <3>3, DistFacts
  <2> QED
    BY <2>3, <2>4 DEF next
<1> QED
  BY <1>3, <1>4 DEF StagesEnd

-----------------------------------------------------------------------------
(* The invariant.                                                          *)

\* The types do not depend on the configuration.
LEMMA Rigid ==
    /\ T!Topology' = T!Topology /\ T!BgMem!Topology' = T!BgMem!Topology
    /\ T!newComponent' = T!newComponent /\ T!Ids' = T!Ids /\ NoId' = NoId
BY DEF T!Topology, T!BgMem!Topology, T!BgMem!IdQueue, T!MemoryComponent, T!OngoingAccess, T!Access,
       T!Ids, T!BgMem!Ids, T!NoId, T!BgMem!NoId, T!Mem!Memory, NoId, T!newComponent

\* The new state is as good as the old one if the configuration stays.
LEMMA Primed ==
    ASSUME UNCHANGED config, config \in Configurations, oddCycle' \in BOOLEAN,
           PipelineInv(memory', instructionAccessId', dataAccessId', flushed', dataAccessesLeft')
    PROVE  IInv'
BY Rigid, IdFacts, Names
   DEF IInv, PipelineInv, TopologyInv, RetriedOK, InstrTracked, DataTracked, MemoryInv, InFlight,
       One, Queued, InstrAccessed, DataAccessed, Dist, Awaited, Remaining, RemainingOf, DataOK,
       OngoingOK, MayFail

\* Initially the first fetch waits and the memory is idle.
LEMMA InitInvariant == Init => IInv
<1> SUFFICES ASSUME Init PROVE IInv
  OBVIOUS
<1> DEFINE t == T!new
           m == T!BgMem!new
           k == T!newComponent
<1>1. /\ m.instructionQueue = <<>> /\ m.dataQueue = <<>> /\ m.currentId = 1
      /\ m.currentIdAccessed = 0 /\ m.finishedAccess = 0 /\ m.memory.left = 0
      /\ m.currentIdAccessesInstr = FALSE /\ m.waitingForJoin = FALSE
  BY IdFacts DEF T!BgMem!new, T!Mem!new
<1>2. m \in T!BgMem!Topology
  <2>1. T!Mem!new \in T!Mem!Memory
    BY ModulusFacts DEF T!Mem!new, T!Mem!Memory
  <2>2. 1 \in T!BgMem!Ids /\ <<>> \in T!BgMem!IdQueue
    BY IdFacts, ModulusFacts DEF T!BgMem!IdQueue
  <2> QED
    BY <2>1, <2>2 DEF T!BgMem!new, T!BgMem!Topology
<1>3. MemoryInv(m, 0, 0, 0)
  <2>1. /\ Queued(m.instructionQueue) = 0 /\ Queued(m.dataQueue) = 0
        /\ InstrAccessed(m) = 0 /\ DataAccessed(m) = 0
    BY <1>1, IdFacts DEF Queued, InstrAccessed, DataAccessed
  <2>2. InFlight(0, 0, 0, 0, m.currentId, 0, 0, 0)
    BY IdFacts DEF InFlight
  <2> HIDE DEF m
  <2> QED
    BY <1>1, <1>2, <2>1, <2>2, IdFacts DEF MemoryInv
<1>4. /\ k \in T!MemoryComponent
      /\ k.waitingQueue = <<>> /\ k.ongoingAccess = <<>> /\ k.finishedId = 0
  BY IdFacts DEF T!newComponent, T!MemoryComponent
<1>5. /\ t.memory = m /\ t.currentId = 1 /\ t.instructionComponent = k
      /\ t.dataComponent = k /\ t.justMissed = FALSE /\ t.assertionFailed = FALSE
  BY DEF T!new
<1>6. t \in T!Topology
  <2>1. 1 \in T!Ids
    BY IdFacts, ModulusFacts
  <2> HIDE DEF m, k
  <2> QED
    BY <1>2, <1>4, <2>1 DEF T!new, T!Topology, m, k
<1> HIDE DEF t, m, k
<1>7. /\ Awaited(k) = 0 /\ Remaining(k) = 0
      /\ DataOK(config, k, m.dataQueue) /\ RetriedOK(config, k, m.dataQueue)
  BY <1>1, <1>4, IdFacts DEF Awaited, Remaining, DataOK, RetriedOK
<1>8. PipelineCycled(t, 0)
  <2>1. 2 * 0 + Remaining(k) = 0 /\ 0 \in 0 .. MaxDataAccesses
    BY <1>7, ModulusFacts
  <2> QED
    BY <1>3, <1>5, <1>6, <1>7, <2>1 DEF PipelineCycled, TopologyInv
<1>9. DataTracked(t.dataComponent, 0)
  BY <1>5, IdFacts DEF DataTracked, k
<1>10. PipelineInv(T!accessInstr(t), t.currentId, 0, TRUE, 0)
  <2>1. 0 \in 0 .. IdModulus - 1 /\ t.instructionComponent.finishedId # t.currentId
        /\ t.instructionComponent.ongoingAccess = <<>>
    BY <1>4, <1>5, ModulusFacts
  <2> QED
    BY <1>8, <1>9, <2>1, NewFetch
<1> QED
  BY <1>10, IdFacts DEF Init, IInv, t

-----------------------------------------------------------------------------
(* The actions.                                                            *)

\* The topology after its cycle.
LEMMA AfterCycle ==
    ASSUME IInv, NEW t \in Cycled
    PROVE  /\ PipelineCycled(t, dataAccessesLeft)
           /\ CycleEnd(memory, t, dataAccessesLeft, instructionAccessId, flushed, dataAccessId)
           /\ instructionAccessId \in 0 .. IdModulus - 1
           /\ dataAccessId \in 0 .. IdModulus - 1
<1>1. /\ instructionAccessId \in 0 .. IdModulus - 1
      /\ dataAccessId \in 0 .. IdModulus - 1
      /\ dataAccessesLeft \in 0 .. MaxDataAccesses /\ flushed \in BOOLEAN
  BY IdFacts, ModulusFacts DEF IInv, PipelineInv
<1>2. /\ TopologyInv(config, memory, dataAccessesLeft)
      /\ InstrTracked(memory.instructionComponent, instructionAccessId, flushed)
      /\ DataTracked(memory.dataComponent, dataAccessId)
  BY DEF IInv, PipelineInv
<1>3. CycleEnd(memory, t, dataAccessesLeft, instructionAccessId, flushed, dataAccessId)
  BY <1>1, <1>2, Cycle DEF Cycled
<1> QED
  BY <1>1, <1>3 DEF CycleEnd, PipelineCycled

\* The topology and the outstanding data access after the memory and execute
\* stages; the fetch is tracked or has just finished.
LEMMA AfterStages ==
    ASSUME IInv, NEW t \in Cycled, NEW d \in dataStages(t)
    PROVE  /\ StagesEnd(t, dataAccessesLeft, d)
           /\ InstrEnd(d.memory.instructionComponent, instructionAccessId, flushed)
           /\ ~flushed /\ instructionAccessId # NoId
                => /\ instructionAccessId # d.memory.currentId
                   /\ Dist(instructionAccessId, d.memory.currentId)
                        + (dataAccessesLeft - d.made) <= MaxDataAccesses + 1
<1> DEFINE n == dataAccessesLeft
           id == instructionAccessId
<1>1. /\ PipelineCycled(t, n) /\ t.currentId = memory.currentId
      /\ InstrEnd(t.instructionComponent, id, flushed)
      /\ DataEnd(t.dataComponent, dataAccessId)
      /\ id \in 0 .. IdModulus - 1 /\ dataAccessId \in 0 .. IdModulus - 1
  BY AfterCycle DEF CycleEnd
<1>2. StagesEnd(t, n, d)
  BY <1>1, DataStages
<1>3. ASSUME ~flushed, id # NoId
      PROVE  id # d.memory.currentId /\ Dist(id, d.memory.currentId) + (n - d.made) <= MaxDataAccesses + 1
  <2>1. Dist(id, t.currentId) + n <= MaxDataAccesses + 1
    BY <1>1, <1>3 DEF IInv, PipelineInv
  <2>2. id \in 1 .. IdModulus - 1
    BY <1>1, <1>3, IdFacts, ModulusFacts
  <2> HIDE DEF n, id
  <2> QED
    BY <1>1, <1>2, <2>1, <2>2, StillRecent
<1> QED
  BY <1>1, <1>2, <1>3 DEF StagesEnd

\* At the end of a cycle the topology may be fast-forwarded.
LEMMA AtEnd ==
    ASSUME config \in Configurations, oddCycle' \in BOOLEAN, UNCHANGED config,
           NEW t, PipelineInv(t, instructionAccessId', dataAccessId', flushed', dataAccessesLeft'),
           fastForwardAndInsert(t)
    PROVE  IInv'
<1> DEFINE id == instructionAccessId'
           did == dataAccessId'
           n == dataAccessesLeft'
<1>1. PipelineInv(memory', id, did, flushed', n)
  <2>1. CASE memory' = t
    BY <2>1
  <2>2. CASE memory' \in T!fastForward(t)
    <3> DEFINE u == memory'
    <3>1. TopologyInv(config, t, n) /\ RetriedOK(config, t.dataComponent, t.memory.dataQueue)
      BY DEF PipelineInv
    <3> HIDE DEF id, did, n, u
    <3>2. /\ TopologyInv(config, u, n)
          /\ RetriedOK(config, u.dataComponent, u.memory.dataQueue)
          /\ u.instructionComponent = t.instructionComponent
          /\ u.dataComponent = t.dataComponent /\ u.currentId = t.currentId
      BY <2>2, <3>1, FastForward DEF u
    <3> QED
      BY <3>2 DEF PipelineInv, id, did, n, u
  <2> QED
    BY <2>1, <2>2 DEF fastForwardAndInsert
<1> QED
  BY <1>1, Primed

\* The memory stalls the pipeline: no access finishes in such a cycle.
LEMMA StallStep == ASSUME IInv, UNCHANGED config, Stall PROVE IInv'
<1>1. PICK t \in Cycled :
         /\ Tick /\ T!shouldPipelineStall(t)
         /\ UNCHANGED << instructionAccessId, dataAccessId, flushed, dataAccessesLeft >>
         /\ fastForwardAndInsert(t)
  BY DEF Stall
<1>2. /\ PipelineCycled(t, dataAccessesLeft) /\ t.currentId = memory.currentId
      /\ InstrTracked(t.instructionComponent, instructionAccessId, flushed)
      /\ DataTracked(t.dataComponent, dataAccessId)
  BY <1>1, AfterCycle DEF CycleEnd
<1>3. PipelineInv(t, instructionAccessId, dataAccessId, flushed, dataAccessesLeft)
  BY <1>2 DEF IInv, PipelineInv, PipelineCycled
<1>4. config \in Configurations /\ oddCycle' \in BOOLEAN
  BY <1>1 DEF IInv, Tick
<1> QED
  BY <1>1, <1>3, <1>4, AtEnd

\* A branch is taken: the new fetch replaces the old one, which may be ongoing.
LEMMA FlushStep == ASSUME IInv, UNCHANGED config, Flush PROVE IInv'
<1>1. PICK t \in Cycled : \E d \in dataStages(t) :
         /\ Tick /\ ~flushed /\ flushed' = TRUE
         /\ dataAccessId' = d.id /\ dataAccessesLeft' = dataAccessesLeft - d.made
         /\ instructionAccessId' = d.memory.currentId
         /\ memory' = T!accessInstr(d.memory)
  BY DEF Flush
<1>2. PICK d \in dataStages(t) :
         /\ Tick /\ ~flushed /\ flushed' = TRUE
         /\ dataAccessId' = d.id /\ dataAccessesLeft' = dataAccessesLeft - d.made
         /\ instructionAccessId' = d.memory.currentId
         /\ memory' = T!accessInstr(d.memory)
  BY <1>1
<1> DEFINE s == d.memory
           i == s.instructionComponent
           id == instructionAccessId
<1>3. /\ StagesEnd(t, dataAccessesLeft, d) /\ InstrEnd(i, id, flushed)
      /\ id # NoId => id # s.currentId
  BY <1>2, AfterStages
<1>4. s.currentId # NoId
  BY <1>3, TopologyTypes, IdFacts DEF StagesEnd, PipelineCycled, TopologyInv
<1>5. /\ i.finishedId # s.currentId
      /\ i.ongoingAccess # <<>> => Head(i.ongoingAccess).access.id # s.currentId
  BY <1>2, <1>3, <1>4 DEF InstrEnd, InstrTracked, JustFinished, T!newComponent, NoId
<1>6. PipelineInv(T!accessInstr(s), s.currentId, d.id, TRUE, dataAccessesLeft - d.made)
  BY <1>3, <1>5, NewFetch DEF StagesEnd
<1>7. config \in Configurations /\ oddCycle' \in BOOLEAN
  BY <1>2 DEF IInv, Tick
<1> QED
  BY <1>2, <1>6, <1>7, Primed

\* The fetch stage has no access or its access is not finished.
LEMMA WaitStep == ASSUME IInv, UNCHANGED config, Wait PROVE IInv'
<1>1. PICK t \in Cycled : \E d \in dataStages(t) :
         /\ Tick
         /\ ~T!finished(d.memory.instructionComponent, instructionAccessId)
              \/ instructionAccessId = NoId
         /\ dataAccessId' = d.id /\ dataAccessesLeft' = dataAccessesLeft - d.made
         /\ UNCHANGED << instructionAccessId, flushed >>
         /\ fastForwardAndInsert(d.memory)
  BY DEF Wait
<1>2. PICK d \in dataStages(t) :
         /\ Tick
         /\ ~T!finished(d.memory.instructionComponent, instructionAccessId)
              \/ instructionAccessId = NoId
         /\ dataAccessId' = d.id /\ dataAccessesLeft' = dataAccessesLeft - d.made
         /\ UNCHANGED << instructionAccessId, flushed >>
         /\ fastForwardAndInsert(d.memory)
  BY <1>1
<1> DEFINE s == d.memory
           i == s.instructionComponent
           id == instructionAccessId
           n == dataAccessesLeft - d.made
<1>3. /\ StagesEnd(t, dataAccessesLeft, d) /\ InstrEnd(i, id, flushed)
      /\ ~flushed /\ id # NoId => Dist(id, s.currentId) + n <= MaxDataAccesses + 1
  BY <1>2, AfterStages
<1>4. InstrTracked(i, id, flushed)
  BY <1>2, <1>3 DEF InstrEnd, JustFinished, T!finished
<1>5. /\ n \in 0 .. MaxDataAccesses /\ flushed \in BOOLEAN
      /\ {id, d.id} \subseteq T!Ids \cup {NoId}
  <2>1. d.id \in T!Ids \cup {NoId}
    BY <1>3, IdFacts DEF StagesEnd
  <2> QED
    BY <1>3, <2>1 DEF StagesEnd, PipelineCycled, IInv, PipelineInv
<1>6. PipelineInv(s, id, d.id, flushed, n)
  BY <1>3, <1>4, <1>5 DEF PipelineInv, StagesEnd, PipelineCycled
<1>7. config \in Configurations /\ oddCycle' \in BOOLEAN
  BY <1>2 DEF IInv, Tick
<1> QED
  BY <1>2, <1>6, <1>7, AtEnd

\* The fetch stage makes an access after a time without one.
LEMMA RefetchStep == ASSUME IInv, UNCHANGED config, Refetch PROVE IInv'
<1>1. PICK t \in Cycled : \E d \in dataStages(t) :
         /\ Tick /\ instructionAccessId = NoId
         /\ dataAccessId' = d.id /\ dataAccessesLeft' = dataAccessesLeft - d.made
         /\ instructionAccessId' = d.memory.currentId
         /\ memory' = T!accessInstr(d.memory)
         /\ UNCHANGED flushed
  BY DEF Refetch
<1>2. PICK d \in dataStages(t) :
         /\ Tick /\ instructionAccessId = NoId
         /\ dataAccessId' = d.id /\ dataAccessesLeft' = dataAccessesLeft - d.made
         /\ instructionAccessId' = d.memory.currentId
         /\ memory' = T!accessInstr(d.memory)
         /\ UNCHANGED flushed
  BY <1>1
<1> DEFINE s == d.memory
           i == s.instructionComponent
<1>3. StagesEnd(t, dataAccessesLeft, d) /\ InstrEnd(i, NoId, flushed)
  BY <1>2, AfterStages
<1>4. s.currentId # 0
  BY <1>3, TopologyTypes, IdFacts DEF StagesEnd, PipelineCycled, TopologyInv
<1>5. ~flushed /\ i = T!newComponent
  BY <1>3 DEF InstrEnd, InstrTracked, JustFinished
<1>6. i.finishedId = 0 /\ i.ongoingAccess = <<>> /\ flushed \in BOOLEAN
  BY <1>5, IdFacts DEF T!newComponent, IInv, PipelineInv
<1>7. PipelineInv(T!accessInstr(s), s.currentId, d.id, flushed, dataAccessesLeft - d.made)
  BY <1>3, <1>4, <1>6, IdFacts, NewFetch DEF StagesEnd
<1>8. config \in Configurations /\ oddCycle' \in BOOLEAN
  BY <1>2 DEF IInv, Tick
<1> QED
  BY <1>2, <1>7, <1>8, Primed

\* The fetch arrives: nothing is on its way, so that data accesses are allowed again.
LEMMA FetchStep == ASSUME IInv, UNCHANGED config, Fetch PROVE IInv'
<1> DEFINE p(d) == T!finishedInstrAccess(d.memory, instructionAccessId)
<1>1. PICK t \in Cycled : \E d \in dataStages(t) :
         /\ Tick /\ instructionAccessId # NoId
         /\ T!finished(d.memory.instructionComponent, instructionAccessId)
         /\ dataAccessId' = d.id /\ dataAccessesLeft' = MaxDataAccesses
         /\ flushed' = FALSE
         /\ \/ instructionAccessId' = NoId /\ memory' = p(d)
            \/ instructionAccessId' = p(d).currentId /\ memory' = T!accessInstr(p(d))
  BY DEF Fetch
<1>2. PICK d \in dataStages(t) :
         /\ Tick /\ instructionAccessId # NoId
         /\ T!finished(d.memory.instructionComponent, instructionAccessId)
         /\ dataAccessId' = d.id /\ dataAccessesLeft' = MaxDataAccesses
         /\ flushed' = FALSE
         /\ \/ instructionAccessId' = NoId /\ memory' = p(d)
            \/ instructionAccessId' = p(d).currentId /\ memory' = T!accessInstr(p(d))
  BY <1>1
<1> DEFINE s == d.memory
           i == s.instructionComponent
           k == T!newComponent
           id == instructionAccessId
           r == p(d)
<1>3. StagesEnd(t, dataAccessesLeft, d) /\ InstrEnd(i, id, flushed)
  BY <1>2, AfterStages
<1>4. s \in T!Topology /\ i \in T!MemoryComponent /\ s.currentId \in 1 .. IdModulus - 1
  BY <1>3, TopologyTypes DEF StagesEnd, PipelineCycled, TopologyInv
<1>5. JustFinished(i, id)
  BY <1>2, <1>3 DEF InstrEnd, InstrTracked, T!finished
<1>6. T!forget(i, id) = k
  BY <1>4, <1>5, ForgetFinished
<1>7. k \in T!MemoryComponent /\ k.ongoingAccess = <<>> /\ k.finishedId = 0
  BY IdFacts DEF T!newComponent, T!MemoryComponent
<1>8. r = [s EXCEPT !.instructionComponent = k]
  BY <1>6 DEF T!finishedInstrAccess
<1> HIDE DEF k, r
<1>9. /\ r \in T!Topology /\ r.memory = s.memory /\ r.currentId = s.currentId
      /\ r.instructionComponent = k
      /\ r.dataComponent = s.dataComponent /\ r.assertionFailed = s.assertionFailed
  BY <1>4, <1>7, <1>8 DEF T!Topology
<1>10. Awaited(i) = 0 /\ Awaited(k) = 0
  BY <1>5, <1>7, IdFacts DEF Awaited, JustFinished
<1> DEFINE slack == 2 * MaxDataAccesses + Remaining(s.dataComponent)
<1>11. MemoryInv(s.memory, 0, Awaited(s.dataComponent), slack)
  <2>1. MemoryInv(s.memory, 0, Awaited(s.dataComponent),
                  2 * (dataAccessesLeft - d.made) + Remaining(s.dataComponent))
    BY <1>3, <1>10 DEF StagesEnd, PipelineCycled, TopologyInv
  <2> HIDE DEF slack
  <2> QED
    BY <2>1, MemoryUnbounded
<1>12. PipelineCycled(r, MaxDataAccesses) /\ DataTracked(r.dataComponent, d.id)
  <2>1. MaxDataAccesses \in 0 .. MaxDataAccesses
    BY ModulusFacts
  <2> QED
    BY <1>3, <1>9, <1>10, <1>11, <2>1 DEF StagesEnd, PipelineCycled, TopologyInv
<1>13. config \in Configurations /\ oddCycle' \in BOOLEAN
  BY <1>2 DEF IInv, Tick
<1>14. CASE instructionAccessId' = NoId /\ memory' = r
  <2>1. InstrTracked(r.instructionComponent, NoId, FALSE)
    BY <1>9 DEF InstrTracked, k
  <2>2. {NoId, d.id} \subseteq T!Ids \cup {NoId}
    BY <1>3, IdFacts DEF StagesEnd
  <2>3. PipelineInv(r, NoId, d.id, FALSE, MaxDataAccesses)
    BY <1>12, <2>1, <2>2 DEF PipelineInv, PipelineCycled
  <2> QED
    BY <1>2, <1>13, <1>14, <2>3, Primed
<1>15. CASE instructionAccessId' = r.currentId /\ memory' = T!accessInstr(r)
  <2>1. /\ d.id \in 0 .. IdModulus - 1
        /\ r.instructionComponent.finishedId = 0 /\ r.currentId # 0
        /\ r.instructionComponent.ongoingAccess = <<>>
    BY <1>3, <1>4, <1>7, <1>9 DEF StagesEnd
  <2>2. PipelineInv(T!accessInstr(r), r.currentId, d.id, FALSE, MaxDataAccesses)
    BY <1>12, <2>1, IdFacts, NewFetch
  <2> QED
    BY <1>2, <1>13, <1>15, <2>2, Primed
<1> QED
  BY <1>2, <1>14, <1>15 DEF r

\* Every step keeps the invariant.
LEMMA Inductive == IInv /\ [Next]_vars => IInv'
<1> SUFFICES ASSUME IInv, [Next]_vars PROVE IInv'
  OBVIOUS
<1>1. CASE Next
  BY <1>1, StallStep, FlushStep, WaitStep, RefetchStep, FetchStep DEF Next
<1>2. CASE UNCHANGED vars
  <2>1. UNCHANGED config /\ config \in Configurations /\ oddCycle' \in BOOLEAN
    BY <1>2 DEF IInv, vars
  <2>2. PipelineInv(memory', instructionAccessId', dataAccessId', flushed', dataAccessesLeft')
    BY <1>2 DEF IInv, vars
  <2> QED
    BY <2>1, <2>2, Primed
<1> QED
  BY <1>1, <1>2

-----------------------------------------------------------------------------
(* Fast-forwarding.                                                        *)

\* While more than one cycle is left, a cycle of the memory only counts down.
LEMMA MemoryCountsDown ==
    ASSUME NEW m, NEW b, NEW c, NEW slack, MemoryInv(m, b, c, slack), m.memory.left > 1,
           NEW u \in T!BgMem!cycle(m, FALSE)
    PROVE  /\ u = [m EXCEPT !.memory = u.memory, !.waitingForJoin = FALSE]
           /\ u.finishedAccess = 0 /\ u.dataQueue = m.dataQueue
           /\ u \in T!BgMem!Topology
<1> DEFINE cycled(s, w) == [s EXCEPT !.memory = w, !.finishedAccess = T!BgMem!NoId,
                                     !.waitingForJoin = FALSE]
           after(s, w) == IF cycled(s, w).currentIdAccessed # T!BgMem!NoId /\ ~T!Mem!isBusy(w)
                          THEN T!BgMem!finishAccess(cycled(s, w)) ELSE cycled(s, w)
           successors(s) == { after(s, w) : w \in T!Mem!cycle(s.memory) }
<1>1. m \in T!BgMem!Topology /\ m.memory \in [left : 0 .. MaxLatency, stall : BOOLEAN]
  BY MemoryTypes DEF MemoryInv
<1>2. m.currentIdAccessed # 0 /\ m.finishedAccess = 0
  BY <1>1, IdFacts, ModulusFacts DEF MemoryInv
<1>3. T!BgMem!startAccess(m, FALSE) = {m}
  BY <1>2, IdFacts DEF T!BgMem!startAccess
<1>4. T!BgMem!cycle(m, FALSE)
        = UNION { successors(s) : s \in T!BgMem!startAccess(m, FALSE) }
  BY Zenon DEF T!BgMem!cycle
<1> HIDE DEF after
<1>5. PICK w \in T!Mem!cycle(m.memory) : u = after(m, w)
  BY <1>3, <1>4
<1>6. T!Mem!isBusy(w)
  BY <1>1, ModulusFacts DEF T!Mem!cycle, T!Mem!isBusy
<1>7. u = cycled(m, w)
  BY <1>5, <1>6 DEF after
<1>8. w \in T!Mem!Memory
  BY <1>1, ModulusFacts DEF T!Mem!cycle, T!Mem!isBusy, T!Mem!Memory
<1> QED
  BY <1>1, <1>2, <1>7, <1>8, IdFacts DEF T!BgMem!Topology

\* What a component waits for in the memory has not finished.
LEMMA NothingFinished ==
    ASSUME NEW m \in T!BgMem!Topology, m.finishedAccess = 0, NEW id, id # 0
    PROVE  ~T!BgMem!finished(m, id) /\ T!BgMem!forget(m, id) = m
BY DEF T!BgMem!finished, T!BgMem!forget

\* The instruction component waits for the memory, or for nothing.
LEMMA InstrWaits ==
    ASSUME NEW t \in T!Topology, t.memory.finishedAccess = 0, T!instrCompAllowsFastForward(t)
    PROVE  /\ T!mystartInstructionAccess(t) = {t}
           /\ T!checkInstructionPart(t) = t
<1> DEFINE i == t.instructionComponent
           o == Head(i.ongoingAccess)
<1>1. i \in T!MemoryComponent /\ t.memory \in T!BgMem!Topology
  BY TopologyTypes
<1>2. CASE i.ongoingAccess = <<>>
  BY <1>2 DEF T!instrCompAllowsFastForward, T!isBusyAccessing, T!mystartInstructionAccess,
              T!checkInstructionPart
<1>3. CASE i.ongoingAccess # <<>>
  <2>1. o.bgMemAccessId # 0
    BY <1>3, IdFacts DEF T!instrCompAllowsFastForward, T!isBusyAccessing
  <2>2. i.ongoingAccess = << o >>
    BY <1>1, <1>3, ComponentTypes
  <2>3. T!BgMem!forget(t.memory, o.bgMemAccessId) = t.memory
        /\ ~T!BgMem!finished(t.memory, o.bgMemAccessId)
    BY <1>1, <2>1, NothingFinished
  <2>4. T!setInstr(t, o) = t
    <3>1. [i EXCEPT !.ongoingAccess = << o >>] = i
      BY <1>1, <2>2 DEF T!MemoryComponent
    <3>2. T!setInstr(t, o) = [t EXCEPT !.instructionComponent = [i EXCEPT !.ongoingAccess = << o >>]]
      BY DEF T!setInstr
    <3> QED
      BY <3>1, <3>2 DEF T!Topology
  <2>5. T!checkInstructionOngoing(t, o) = [t EXCEPT !.memory = t.memory]
    BY <2>1, <2>3, <2>4, IdFacts DEF T!checkInstructionOngoing
  <2>6. T!checkInstructionPart(t) = t
    BY <1>3, <2>5 DEF T!checkInstructionPart, T!Topology
  <2>7. T!mystartInstructionAccess(t) = {t}
    BY <1>3 DEF T!mystartInstructionAccess
  <2> QED
    BY <2>6, <2>7
<1> QED
  BY <1>2, <1>3

\* The data component waits for the memory, or for nothing. If the memory
\* has rejected its access it rejects it again.
LEMMA DataWaits ==
    ASSUME NEW t \in T!Topology, t.memory.finishedAccess = 0, T!dataCompAllowsFastForward(t),
           DataOK(config, t.dataComponent, t.memory.dataQueue),
           RetriedOK(config, t.dataComponent, t.memory.dataQueue),
           ~(config.UnblockStores /\ config.StallOnLocalWorst)
    PROVE  T!mystartDataAccess(t) = {t} /\ T!checkDataPart(t) = {t}
<1> DEFINE k == t.dataComponent
           o == Head(k.ongoingAccess)
<1>1. k \in T!MemoryComponent /\ t.memory \in T!BgMem!Topology
  BY TopologyTypes
<1>2. CASE k.ongoingAccess = <<>>
  BY <1>2 DEF T!dataCompAllowsFastForward, T!isBusyAccessing, T!mystartDataAccess, T!checkDataPart
<1>3. CASE k.ongoingAccess # <<>>
  <2>1. /\ o.phase \in {"WaitForLOAD", "WaitForSTORE"}
        /\ o.phase = "WaitForSTORE" => ~config.UnblockStores \/ o.bgmemStall
    BY <1>3, Names DEF T!dataCompAllowsFastForward, T!isBusyAccessing
  <2>2. k.ongoingAccess = << o >> /\ o \in T!OngoingAccess
    BY <1>1, <1>3, ComponentTypes
  <2>3. OngoingOK(config, o, t.memory.dataQueue)
    BY <1>3 DEF DataOK
  <2>4. /\ o.bgmemStall => /\ config.UnblockStores /\ o.bgMemAccessId = 0
                           /\ t.memory.dataQueue # <<>>
        /\ ~o.bgmemStall => o.bgMemAccessId # 0
    BY <1>3, <2>1, <2>3, IdFacts, Names DEF OngoingOK, RetriedOK, MayFail
  <2>5. T!checkDataAssertion(o)
    BY <2>1, <2>4, IdFacts, Names DEF T!checkDataAssertion
  <2>6. [t EXCEPT !.assertionFailed = @ \/ ~T!checkDataAssertion(o)] = t
    BY <2>5 DEF T!Topology
  <2>7. T!checkDataPart(t) = T!checkDataOngoing(t, o)
    BY <1>3, <2>6 DEF T!checkDataPart
  <2>8. T!setData(t, o) = t
    <3>1. [k EXCEPT !.ongoingAccess = << o >>] = k
      BY <1>1, <2>2 DEF T!MemoryComponent
    <3>2. T!setData(t, o) = [t EXCEPT !.dataComponent = [k EXCEPT !.ongoingAccess = << o >>]]
      BY DEF T!setData
    <3> QED
      BY <3>1, <3>2 DEF T!Topology
  <2>9. CASE o.bgmemStall
    <3>1. ~T!BgMem!acceptsData(t.memory)
      BY <2>4, <2>9 DEF T!BgMem!acceptsData
    <3>2. [o EXCEPT !.phase = o.phase, !.bgmemStall = TRUE, !.bgMemAccessId = T!NoId] = o
      BY <2>2, <2>4, <2>9, IdFacts DEF T!OngoingAccess
    <3>3. T!BgMem!accessData(t.memory) = t.memory
      BY <3>1 DEF T!BgMem!accessData
    <3>4. T!accessMemory(t, o, o.phase)
            = [t EXCEPT !.dataComponent.ongoingAccess = << o >>, !.memory = t.memory]
      BY <3>1, <3>2, <3>3 DEF T!accessMemory
    <3>5. [t EXCEPT !.dataComponent.ongoingAccess = << o >>, !.memory = t.memory]
            = [T!setData(t, o) EXCEPT !.memory = t.memory]
      BY DEF T!setData
    <3>6. [t EXCEPT !.memory = t.memory] = t
      BY DEF T!Topology
    <3>7. T!checkDataOngoing(t, o) = {T!accessMemory(t, o, o.phase)}
      BY <2>9 DEF T!checkDataOngoing
    <3>8. T!mystartDataAccess(t) = {t}
      BY <1>3 DEF T!mystartDataAccess
    <3> QED
      BY <2>7, <2>8, <3>4, <3>5, <3>6, <3>7, <3>8
  <2>10. CASE ~o.bgmemStall
    <3>1. T!BgMem!forget(t.memory, o.bgMemAccessId) = t.memory
          /\ ~T!BgMem!finished(t.memory, o.bgMemAccessId)
      BY <1>1, <2>4, <2>10, NothingFinished
    <3>2. [t EXCEPT !.memory = t.memory] = t
      BY DEF T!Topology
    <3>3. T!mystartDataAccess(t) = {t}
      BY <1>3 DEF T!mystartDataAccess
    <3>4. CASE o.phase = "WaitForLOAD"
      <4> DEFINE after(p) == {[T!setData(t, p) EXCEPT !.memory = T!BgMem!forget(@, o.bgMemAccessId)]}
      <4>1. T!checkDataOngoing(t, o)
              = after(IF T!BgMem!finished(t.memory, o.bgMemAccessId)
                      THEN [T!enterL2(o) EXCEPT !.phase = T!WaitForCACHE] ELSE o)
        BY <2>10, <3>4, Zenon, Names DEF T!checkDataOngoing
      <4>2. after(o) = {t}
        BY <2>8, <3>1, <3>2
      <4> HIDE DEF after
      <4> QED
        BY <2>7, <3>1, <3>3, <4>1, <4>2
    <3>5. CASE o.phase = "WaitForSTORE"
      <4> DEFINE w == [t EXCEPT !.memory = T!BgMem!forget(@, o.bgMemAccessId)]
      <4>1. ~config.UnblockStores /\ o.phase # T!WaitForLOAD /\ o.phase # T!WaitForCACHE
            /\ o.phase = T!WaitForSTORE
        BY <2>1, <2>10, <3>5, Names
      <4>2. T!checkDataOngoing(t, o)
              = {IF T!BgMem!finished(t.memory, o.bgMemAccessId) THEN T!finishData(w) ELSE w}
        BY <2>10, <4>1, Zenon DEF T!checkDataOngoing
      <4>3. w = t
        BY <3>1, <3>2
      <4> HIDE DEF w
      <4> QED
        BY <2>7, <3>1, <3>3, <4>2, <4>3
    <3> QED
      BY <2>1, <3>4, <3>5
  <2> QED
    BY <2>9, <2>10
<1> QED
  BY <1>2, <1>3

\* A cycle of a topology that is fast-forwarded counts the memory down.
LEMMA FastForwardInvariant ==
    ASSUME IInv, ~(config.UnblockStores /\ config.StallOnLocalWorst)
    PROVE  FastForwardOnlyMemory
<1> SUFFICES ASSUME T!fastForward(memory) # {memory}, NEW c \in T!cycle(memory, FALSE)
             PROVE  c = [memory EXCEPT !.memory.memory = c.memory.memory,
                                       !.memory.waitingForJoin = FALSE]
  BY DEF FastForwardOnlyMemory
<1> DEFINE t == memory
           t0 == [memory EXCEPT !.justMissed = FALSE]
           a == Awaited(t.instructionComponent)
           b == Awaited(t.dataComponent)
           s == 2 * dataAccessesLeft + Remaining(t.dataComponent)
<1>1. /\ t \in T!Topology /\ t.memory \in T!BgMem!Topology
      /\ MemoryInv(t.memory, a, b, s)
      /\ DataOK(config, t.dataComponent, t.memory.dataQueue)
      /\ RetriedOK(config, t.dataComponent, t.memory.dataQueue)
  BY DEF IInv, PipelineInv, TopologyInv, MemoryInv
<1> HIDE DEF a, b, s
<1>2. /\ T!instrCompAllowsFastForward(t) /\ T!dataCompAllowsFastForward(t)
      /\ ~t.justMissed
      /\ T!fastForward(t) = { [t EXCEPT !.memory = m] : m \in T!BgMem!fastForward(t.memory) }
  BY DEF T!fastForward
<1>3. [t EXCEPT !.memory = t.memory] = t /\ t0 = t
  BY <1>1, <1>2 DEF T!Topology
<1>4. t.memory.memory.left > 1
  <2>1. t.memory.memory \in [left : 0 .. MaxLatency, stall : BOOLEAN]
    BY <1>1, MemoryTypes
  <2>2. CASE t.memory.memory.left = 0
    <3>1. T!BgMem!fastForward(t.memory) = {t.memory}
      BY <2>2 DEF T!BgMem!fastForward, T!Mem!isBusy
    <3> QED
      BY <1>2, <1>3, <3>1
  <2>3. CASE t.memory.memory.left = 1
    <3>1. [t.memory.memory EXCEPT !.left = 1] = t.memory.memory
      BY <2>1, <2>3
    <3>2. [t.memory EXCEPT !.memory = t.memory.memory] = t.memory
      BY <1>1 DEF T!BgMem!Topology
    <3>3. T!BgMem!fastForward(t.memory) = {t.memory}
      BY <2>3, <3>1, <3>2 DEF T!BgMem!fastForward, T!Mem!isBusy, T!Mem!fastForward
    <3> QED
      BY <1>2, <1>3, <3>3
  <2> QED
    BY <2>1, <2>2, <2>3, ModulusFacts
<1>5. t.memory.finishedAccess = 0
  <2>1. t.memory.memory.left \in Nat
    BY <1>1, MemoryTypes, ModulusFacts
  <2> QED
    BY <1>1, <1>4, <2>1, IdFacts DEF MemoryInv
<1>6. T!mystartInstructionAccess(t) = {t} /\ T!mystartDataAccess(t) = {t}
  BY <1>1, <1>2, <1>5, InstrWaits, DataWaits
<1>7. PICK m \in T!BgMem!cycle(t.memory, FALSE) : c \in T!checkParts([t EXCEPT !.memory = m])
  <2> DEFINE started == UNION { T!mystartDataAccess(x) : x \in T!mystartInstructionAccess(t0) }
             over(x) == { [x EXCEPT !.memory = m] : m \in T!BgMem!cycle(x.memory, FALSE) }
             cycled == UNION { over(x) : x \in started }
  <2>1. T!cycle(t, FALSE) = UNION { T!checkParts(x) : x \in cycled }
    BY DEF T!cycle
  <2>2. started = {t}
    <3> HIDE DEF t0
    <3> QED
      BY <1>3, <1>6
  <2> HIDE DEF t0, started, over, cycled, t
  <2>3. PICK x \in cycled : c \in T!checkParts(x)
    BY <2>1 DEF t
  <2>4. x \in over(t)
    BY <2>2, <2>3 DEF cycled
  <2>5. PICK m \in T!BgMem!cycle(t.memory, FALSE) : x = [t EXCEPT !.memory = m]
    BY <2>4 DEF over
  <2> QED
    BY <2>3, <2>5 DEF t
<1> DEFINE z == [t EXCEPT !.memory = m]
<1>8. /\ m = [t.memory EXCEPT !.memory = m.memory, !.waitingForJoin = FALSE]
      /\ m.finishedAccess = 0 /\ m.dataQueue = t.memory.dataQueue
  BY <1>1, <1>4, MemoryCountsDown
<1>9. m \in T!BgMem!Topology
  BY <1>1, <1>4, MemoryCountsDown
<1>10. /\ z \in T!Topology /\ z.memory = m
       /\ z.instructionComponent = t.instructionComponent
       /\ z.dataComponent = t.dataComponent
  BY <1>1, <1>9 DEF T!Topology
<1> HIDE DEF z
<1>11. T!instrCompAllowsFastForward(z) /\ T!dataCompAllowsFastForward(z)
  BY <1>2, <1>10 DEF T!instrCompAllowsFastForward, T!dataCompAllowsFastForward
<1>12. T!checkInstructionPart(z) = z /\ T!checkDataPart(z) = {z}
  BY <1>1, <1>8, <1>10, <1>11, InstrWaits, DataWaits
<1>13. c = z
  BY <1>7, <1>12 DEF T!checkParts, z
<1>14. z = [memory EXCEPT !.memory.memory = m.memory, !.memory.waitingForJoin = FALSE]
  <2>1. z = [t EXCEPT !.memory = [t.memory EXCEPT !.memory = m.memory, !.waitingForJoin = FALSE]]
    BY <1>8 DEF z
  <2> QED
    BY <1>1, <2>1 DEF T!Topology
<1> QED
  BY <1>10, <1>13, <1>14

-----------------------------------------------------------------------------
(* What follows.                                                           *)

\* The invariant holds in every configuration, for every latency and any
\* bound on the data accesses between two fetches.
THEOREM Invariant == Spec => []IInv
BY InitInvariant, Inductive, PTL DEF Spec

\* The topology, its memory and the accesses of the pipeline have their types.
THEOREM TypeCorrect == Spec => []TypeOK
<1>1. IInv => TypeOK
  <2> SUFFICES ASSUME IInv PROVE TypeOK
    OBVIOUS
  <2>1. config \in Configurations /\ oddCycle \in BOOLEAN
    BY DEF IInv
  <2>2. /\ {instructionAccessId, dataAccessId} \subseteq T!Ids \cup {NoId}
        /\ dataAccessesLeft \in 0 .. MaxDataAccesses /\ flushed \in BOOLEAN
    BY DEF IInv, PipelineInv
  <2>3. memory \in T!Topology
    BY DEF IInv, PipelineInv, TopologyInv
  <2> QED
    BY <2>1, <2>2, <2>3 DEF TypeOK
<1> QED
  BY <1>1, Invariant, PTL

\* The identifiers that the components wait for follow from the rest of the
\* memory's state, so that joining two states may leave them out of account.
THEOREM BackgroundIdsAreDetermined == Spec => []BackgroundIdDetermined
<1>1. IInv => BackgroundIdDetermined
  <2> SUFFICES ASSUME IInv PROVE BackgroundIdDetermined
    OBVIOUS
  <2> DEFINE m == memory.memory
             b == Awaited(memory.instructionComponent)
             c == Awaited(memory.dataComponent)
             s == 2 * dataAccessesLeft + Remaining(memory.dataComponent)
             awaited(q) == IF q # <<>> THEN Head(q) ELSE m.currentIdAccessed
  <2>1. /\ m \in T!BgMem!Topology
        /\ InFlight(Queued(m.instructionQueue), Queued(m.dataQueue), InstrAccessed(m),
                    DataAccessed(m), m.currentId, b, c, s)
    BY DEF IInv, PipelineInv, TopologyInv, MemoryInv
  <2> HIDE DEF m, s
  <2>2. /\ b # 0 => \/ Queued(m.instructionQueue) = b
                    \/ Queued(m.instructionQueue) = 0 /\ InstrAccessed(m) = b
        /\ c # 0 => \/ Queued(m.dataQueue) = c
                    \/ Queued(m.dataQueue) = 0 /\ DataAccessed(m) = c
    BY <2>1, IdFacts DEF InFlight
  <2>3. 0 \in 0 .. IdModulus - 1
    BY ModulusFacts
  <2>4. /\ Queued(m.instructionQueue) = 0 <=> m.instructionQueue = <<>>
        /\ Queued(m.dataQueue) = 0 <=> m.dataQueue = <<>>
        /\ m.dataQueue # <<>> => Queued(m.dataQueue) = Head(m.dataQueue)
        /\ m.instructionQueue # <<>> => Queued(m.instructionQueue) = Head(m.instructionQueue)
    BY <2>1, <2>3, MemoryIds
  <2>5. /\ InstrAccessed(m) \in {0, m.currentIdAccessed}
        /\ DataAccessed(m) \in {0, m.currentIdAccessed}
    BY IdFacts DEF InstrAccessed, DataAccessed
  <2>6. /\ b # 0 => b = awaited(m.instructionQueue)
        /\ c # 0 => c = awaited(m.dataQueue)
    BY <2>2, <2>4, <2>5
  <2>7. /\ instrOngoing # <<>> => Head(instrOngoing).bgMemAccessId = b
        /\ dataOngoing # <<>> => Head(dataOngoing).bgMemAccessId = c
    BY DEF instrOngoing, dataOngoing, Awaited
  <2> QED
    BY <2>6, <2>7, IdFacts DEF BackgroundIdDetermined, m
<1> QED
  BY <1>1, Invariant, PTL

\* No access that the pipeline waits for is lost, and none is finished
\* without the pipeline having taken it.
THEOREM ClientAccessesAreTracked == Spec => []ClientAccessTracked
<1>1. IInv => ClientAccessTracked
  BY IdFacts DEF IInv, PipelineInv, InstrTracked, DataTracked, ClientAccessTracked, T!finished
<1> QED
  BY <1>1, Invariant, PTL

\* Unless a store that does not wait meets a cache that does not allocate
\* on a store, no assertion of the topology or of the pipeline fails.
THEOREM AssertionsAreKept ==
    Spec => [](~(config.UnblockStores /\ ~config.WriteAllocate) => AssertionsHold)
<1>1. IInv /\ ~(config.UnblockStores /\ ~config.WriteAllocate) => AssertionsHold
  <2> SUFFICES ASSUME IInv, ~(config.UnblockStores /\ ~config.WriteAllocate)
               PROVE  AssertionsHold
    OBVIOUS
  <2>1. ~memory.assertionFailed
    BY DEF IInv, PipelineInv, TopologyInv, MayFail
  <2>2. T!BgMem!fastForwardAssertion(memory.memory)
    BY IdFacts DEF IInv, PipelineInv, TopologyInv, MemoryInv, T!BgMem!fastForwardAssertion,
                   T!Mem!isBusy
  <2>3. dataAccessId = NoId => T!acceptsData(memory)
    BY DEF IInv, PipelineInv, DataTracked, T!newComponent, T!acceptsData
  <2> QED
    BY <2>1, <2>2, <2>3 DEF AssertionsHold
<1> QED
  BY <1>1, Invariant, PTL

\* Fast-forwarding leaves out cycles of the memory only, unless stores do
\* not wait and the memory may stall the pipeline: then a rejected access may
\* miss its first chance to be retried.
THEOREM FastForwardSound ==
    Spec => [](~(config.UnblockStores /\ config.StallOnLocalWorst) => FastForwardOnlyMemory)
<1>1. IInv => (~(config.UnblockStores /\ config.StallOnLocalWorst) => FastForwardOnlyMemory)
  BY FastForwardInvariant
<1> QED
  BY <1>1, Invariant, PTL
=============================================================================
