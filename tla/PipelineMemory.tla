--------------------------- MODULE PipelineMemory ---------------------------
(***************************************************************************)
(* The in-order pipeline as its memory topology sees it.  In every cycle    *)
(* the pipeline cycles the topology first.  Unless the memory demands a     *)
(* stall, the memory and execute stages then ask for the outstanding data   *)
(* access and may start another one, and the fetch stage asks for the       *)
(* outstanding instruction access and may start another one.  A taken       *)
(* branch makes the fetch stage forget its access and start a new one.  At  *)
(* the end of a cycle in which the pipeline did not change the topology may *)
(* be fast-forwarded.                                                       *)
(* The program and the pipeline stages are abstracted: when accesses are    *)
(* made is chosen freely, except for what the pipeline's depth implies.     *)
(* After a branch nothing is behind it, so no other branch is taken before  *)
(* the new access is finished (flushed); and the instructions that have     *)
(* been fetched make at most MaxDataAccesses data accesses before the next  *)
(* one is needed (dataAccessesLeft).                                        *)
(***************************************************************************)
EXTENDS Integers, Sequences

CONSTANTS
    MaxDataAccesses,
    Configurations,    \* of the data cache, and whether the memory may stall
    InstrHitLatency, DataHitLatency, L2HitLatency, Persistence, TimingAnomalyAnalysis, isBCET,
    IdModulus, MaxLatency

(* Latencies are positive, a write-back cache allocates on a store           *)
(* (CacheTraits::checkParams), and identifiers are not reused while the      *)
(* pipeline waits for one.                                                   *)
ASSUME PipelineMemoryAssumption ==
    /\ {InstrHitLatency, DataHitLatency, L2HitLatency, MaxLatency} \subseteq Nat \ {0}
    /\ Configurations \subseteq [WriteBack : BOOLEAN, WriteAllocate : BOOLEAN,
                           UnblockStores : BOOLEAN, StallOnLocalWorst : BOOLEAN]
    /\ \A c \in Configurations : c.WriteBack => c.WriteAllocate
    /\ {Persistence, TimingAnomalyAnalysis, isBCET} \subseteq BOOLEAN
    /\ MaxDataAccesses \in Nat /\ IdModulus \in Nat
    /\ IdModulus > 2 * MaxDataAccesses + 3

VARIABLES
    config,            \* the configuration; it never changes
    memory,            \* the topology
    instructionAccessId, dataAccessId,   \* the outstanding accesses, or NoId
    flushed, dataAccessesLeft,
    oddCycle           \* parity of time: a cycle changes it, also an idle one

vars == << config, memory, instructionAccessId, dataAccessId, flushed,
           dataAccessesLeft, oddCycle >>

T == INSTANCE JJYSeparateCachesMemoryTopology
         WITH WriteBack <- config.WriteBack, WriteAllocate <- config.WriteAllocate,
              UnblockStores <- config.UnblockStores, StallOnLocalWorst <- config.StallOnLocalWorst,
              StrictInorderDataInstrArbitration <- FALSE
NoId == T!NoId

Configuration(wb, wa, unblock, stall) ==
    [WriteBack |-> wb, WriteAllocate |-> wa, UnblockStores |-> unblock, StallOnLocalWorst |-> stall]

(* For checking: the default cache with a memory that may stall the pipeline, *)
(* and a write-back cache with stores that do not wait.                       *)
ThroughAndBack == {Configuration(FALSE, FALSE, FALSE, TRUE), Configuration(TRUE, TRUE, TRUE, FALSE)}

(* The first fetch is made at once; until it arrives there is no branch. *)
Init == /\ config \in Configurations
        /\ memory = T!accessInstr(T!new) /\ instructionAccessId = T!new.currentId
        /\ dataAccessId = NoId /\ dataAccessesLeft = 0
        /\ flushed = TRUE /\ oddCycle = FALSE
-----------------------------------------------------------------------------
(* The memory and the execute stage after the topology's cycle to t. *)
dataStages(t) ==
    LET free == dataAccessId = NoId \/ T!finished(t.dataComponent, dataAccessId)
        p == IF dataAccessId = NoId THEN t
                                    ELSE T!finishedDataAccess(t, dataAccessId)
    IN  {[memory |-> p, id |-> IF free THEN NoId ELSE dataAccessId, made |-> 0]}
          \cup { [memory |-> T!accessData(p, store), id |-> p.currentId, made |-> 1] :
                    store \in { s \in BOOLEAN : free /\ dataAccessesLeft > 0 } }

(* fastForwardAndInsert: only a pipeline that did not change is converged. *)
fastForwardAndInsert(t) ==
    \/ memory' = t
    \/ /\ instructionAccessId' = instructionAccessId
       /\ dataAccessId' = dataAccessId
       /\ memory' \in T!fastForward(t)

Tick == oddCycle' = ~oddCycle

Cycled == T!cycle(memory, FALSE)

Stall == \E t \in Cycled :
    /\ Tick /\ T!shouldPipelineStall(t)
    /\ UNCHANGED << instructionAccessId, dataAccessId, flushed, dataAccessesLeft >>
    /\ fastForwardAndInsert(t)

(* A branch is taken: the outstanding fetch is forgotten. *)
Flush == \E t \in Cycled : \E d \in dataStages(t) :
    /\ Tick /\ ~T!shouldPipelineStall(t)
    /\ ~flushed /\ flushed' = TRUE
    /\ dataAccessId' = d.id /\ dataAccessesLeft' = dataAccessesLeft - d.made
    /\ instructionAccessId' = d.memory.currentId
    /\ memory' = T!accessInstr(d.memory)

(* The fetch stage has no access, or its access is not finished yet. *)
Wait == \E t \in Cycled : \E d \in dataStages(t) :
    /\ Tick /\ ~T!shouldPipelineStall(t)
    /\ ~T!finished(d.memory.instructionComponent, instructionAccessId)
         \/ instructionAccessId = NoId
    /\ dataAccessId' = d.id /\ dataAccessesLeft' = dataAccessesLeft - d.made
    /\ UNCHANGED << instructionAccessId, flushed >>
    /\ fastForwardAndInsert(d.memory)

(* The fetch stage starts an access after a time without. *)
Refetch == \E t \in Cycled : \E d \in dataStages(t) :
    /\ Tick /\ ~T!shouldPipelineStall(t) /\ instructionAccessId = NoId
    /\ dataAccessId' = d.id /\ dataAccessesLeft' = dataAccessesLeft - d.made
    /\ instructionAccessId' = d.memory.currentId
    /\ memory' = T!accessInstr(d.memory)
    /\ UNCHANGED flushed

(* The fetched instruction arrives; the next access follows at once or not. *)
Fetch == \E t \in Cycled : \E d \in dataStages(t) :
    LET p == T!finishedInstrAccess(d.memory, instructionAccessId)
    IN  /\ Tick /\ ~T!shouldPipelineStall(t)
        /\ instructionAccessId # NoId
        /\ T!finished(d.memory.instructionComponent, instructionAccessId)
        /\ dataAccessId' = d.id /\ dataAccessesLeft' = MaxDataAccesses
        /\ flushed' = FALSE
        /\ \/ instructionAccessId' = NoId /\ memory' = p
           \/ instructionAccessId' = p.currentId /\ memory' = T!accessInstr(p)

Next == UNCHANGED config /\ (Stall \/ Flush \/ Wait \/ Refetch \/ Fetch)

(* The analysis cycles a state until it is final: cycles never end, whether   *)
(* or not they change anything.                                               *)
Spec == Init /\ [][Next]_vars /\ WF_oddCycle(Tick)
-----------------------------------------------------------------------------
TypeOK == /\ config \in Configurations
          /\ memory \in T!Topology
          /\ {instructionAccessId, dataAccessId} \subseteq T!Ids \cup {NoId}
          /\ {flushed, oddCycle} \subseteq BOOLEAN
          /\ dataAccessesLeft \in 0 .. MaxDataAccesses

instrOngoing == memory.instructionComponent.ongoingAccess
dataOngoing  == memory.dataComponent.ongoingAccess

(* Joining two states compares the identifiers that a component waits for in *)
(* the memory only with 0 (equalsWithoutCache: "soft" compare).  That is      *)
(* enough because the rest of the memory's state determines them: an ongoing *)
(* access waits for the access in the memory's queue of its kind or, if that *)
(* is empty, for the one being accessed.                                      *)
BackgroundIdDetermined ==
    LET awaited(queue) == IF queue # <<>> THEN Head(queue)
                          ELSE memory.memory.currentIdAccessed
    IN  /\ instrOngoing # <<>> /\ Head(instrOngoing).bgMemAccessId # NoId
             => Head(instrOngoing).bgMemAccessId = awaited(memory.memory.instructionQueue)
        /\ dataOngoing # <<>> /\ Head(dataOngoing).bgMemAccessId # NoId
             => Head(dataOngoing).bgMemAccessId = awaited(memory.memory.dataQueue)

(* An access that the pipeline waits for is either waiting or ongoing: it is   *)
(* never lost, and the pipeline takes its completion in the very cycle in      *)
(* which it happens, also when the memory stalls the pipeline.                 *)
ClientAccessTracked ==
    LET tracked(c, id) ==
            /\ \/ c.waitingQueue # <<>> /\ Head(c.waitingQueue).id = id
               \/ c.ongoingAccess # <<>> /\ Head(c.ongoingAccess).access.id = id
            /\ ~T!finished(c, id)
    IN  /\ instructionAccessId # NoId
             => tracked(memory.instructionComponent, instructionAccessId)
        /\ dataAccessId # NoId => tracked(memory.dataComponent, dataAccessId)

(* Fast-forwarding leaves out cycles of the memory only: whenever it changes  *)
(* the topology, a cycle instead would have counted down the memory and left  *)
(* both components, the queues and the accesses as they are.                  *)
FastForwardOnlyMemory ==
    T!fastForward(memory) # {memory} =>
        \A c \in T!cycle(memory, FALSE) :
            c = [memory EXCEPT !.memory.memory = c.memory.memory,
                               !.memory.waitingForJoin = FALSE]

(* The assertions of the topology and of the pipeline, which asserts that the *)
(* topology takes its data accesses.                                          *)
AssertionsHold ==
    /\ ~memory.assertionFailed
    /\ T!BgMem!fastForwardAssertion(memory.memory)
    /\ dataAccessId = NoId => T!acceptsData(memory)

(* No component works on an access forever, and a waiting access is started   *)
(* in the cycle after that: with ClientAccessTracked, every access that the   *)
(* pipeline waits for is finished or, for a fetch, replaced.  In particular   *)
(* data accesses, which go first, do not keep a fetch from the memory.        *)
DataAccessFinishes  == []<>(dataOngoing = <<>>)
InstrAccessFinishes == []<>(instrOngoing = <<>>)
=============================================================================
