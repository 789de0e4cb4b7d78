------------------------ MODULE SingleMemoryTopology ------------------------
(***************************************************************************)
(* One memory for instructions and data, with a queue of at most one        *)
(* access for each.  Accesses have identifiers, by which the user asks      *)
(* whether an access is finished; 0 stands for no access.  Addresses and    *)
(* sizes only matter for the latency and are left out.                      *)
(* The identifiers are unsigned integers that wrap around: IdModulus is     *)
(* 2^32 in the code. The parameters M... are the class parameter makeBgMem. *)
(***************************************************************************)
EXTENDS Integers, Sequences

CONSTANTS
    IdModulus,
    StrictInorderDataInstrArbitration,   \* the pipeline is STRICTINORDER
    MMemory, Mnew, MisBusy(_), Mcycle(_), MannounceAccess(_), MfastForward(_),
    MshouldPipelineStall(_), MisJoinable(_, _), Mjoin(_, _), MresetLocalMetrics(_)

NoId == 0
Ids  == 1 .. IdModulus - 1
IdQueue == { <<>> } \cup { << i >> : i \in Ids }

Topology == [memory : MMemory, instructionQueue : IdQueue,
             dataQueue : IdQueue, currentId : Ids,
             currentIdAccessed : Ids \cup {NoId},
             finishedAccess : Ids \cup {NoId},
             currentIdAccessesInstr : BOOLEAN, waitingForJoin : BOOLEAN]

new == [memory |-> Mnew, instructionQueue |-> <<>>, dataQueue |-> <<>>,
        currentId |-> 1, currentIdAccessed |-> NoId, finishedAccess |-> NoId,
        currentIdAccessesInstr |-> FALSE, waitingForJoin |-> FALSE]

(* Mutant: 0 is not skipped. *)
incrementCurrentIdPlain(id) == (id + 1) % IdModulus

(* 0 is skipped when the identifiers wrap around. *)
incrementCurrentId(id) == IF (id + 1) % IdModulus = 0 THEN 1
                                                      ELSE (id + 1) % IdModulus

(* Mutant: the access is lost while the memory is busy. *)
accessInstrIfIdle(t) ==
    [t EXCEPT !.instructionQueue = IF t.currentIdAccessed = NoId
                                   THEN << t.currentId >> ELSE @,
              !.currentId = incrementCurrentId(@)]

(* A new instruction access replaces one that still waits.  The identifier  *)
(* that the access gets is t.currentId.                                      *)
accessInstr(t) == [t EXCEPT !.instructionQueue = << t.currentId >>,
                            !.currentId = incrementCurrentId(@)]

(* A data access is rejected while another one waits. *)
acceptsData(t) == t.dataQueue = <<>>
accessData(t)  == IF acceptsData(t)
                  THEN [t EXCEPT !.dataQueue = << t.currentId >>,
                                 !.currentId = incrementCurrentId(@)]
                  ELSE t

(* Mutant: whichever access has finished. *)
finishedAny(t, id) == t.finishedAccess # NoId

(* Whether access id is finished; asking forgets the answer.  The code has   *)
(* one such method for instructions and one for data, with the same body.    *)
finished(t, id) == t.finishedAccess = id
forget(t, id)   == IF finished(t, id) THEN [t EXCEPT !.finishedAccess = NoId]
                                      ELSE t

accessMemory(t, id) == { [t EXCEPT !.currentIdAccessed = id, !.memory = m] :
                            m \in MannounceAccess(t.memory) }

(* Data goes first. *)
startAccess(t, potentialDataMissesPending) ==
    IF t.currentIdAccessed # NoId THEN {t}
    ELSE IF t.dataQueue # <<>>
    THEN { [r EXCEPT !.dataQueue = <<>>, !.currentIdAccessesInstr = FALSE] :
              r \in accessMemory(t, Head(t.dataQueue)) }
    ELSE IF /\ t.instructionQueue # <<>>
            /\ ~(StrictInorderDataInstrArbitration /\ potentialDataMissesPending)
    THEN { [r EXCEPT !.instructionQueue = <<>>, !.currentIdAccessesInstr = TRUE] :
              r \in accessMemory(t, Head(t.instructionQueue)) }
    ELSE {t}

finishAccess(t) == [t EXCEPT !.finishedAccess = t.currentIdAccessed,
                             !.waitingForJoin = TRUE,
                             !.currentIdAccessed = NoId]

(* A finished access is only reported until the next cycle. *)
cycle(t, potentialDataMissesPending) ==
    UNION { { LET c == [s EXCEPT !.memory = m, !.finishedAccess = NoId,
                                 !.waitingForJoin = FALSE]
              IN  IF c.currentIdAccessed # NoId /\ ~MisBusy(m)
                  THEN finishAccess(c) ELSE c
              : m \in Mcycle(s.memory) }
            : s \in startAccess(t, potentialDataMissesPending) }

shouldPipelineStall(t) == MshouldPipelineStall(t.memory)

fastForwardAssertion(t) == MisBusy(t.memory) => t.currentIdAccessed # NoId

fastForward(t) == IF MisBusy(t.memory)
                  THEN { [t EXCEPT !.memory = m] : m \in MfastForward(t.memory) }
                  ELSE {t}

isBusyAccessingInstr(t) ==
    t.instructionQueue # <<>> \/ (t.currentIdAccessed # NoId /\ t.currentIdAccessesInstr)
isBusyAccessingData(t) ==
    t.dataQueue # <<>> \/ (t.currentIdAccessed # NoId /\ ~t.currentIdAccessesInstr)

hasUnfinishedAccesses(t) ==
    t.currentIdAccessed # NoId \/ t.dataQueue # <<>> \/ t.instructionQueue # <<>>

resetLocalMetrics(t) == [t EXCEPT !.memory = MresetLocalMetrics(@)]

(* How old an access is.  Identifiers are compared by their distance to the *)
(* current one; states that differ in nothing else are equal.               *)
relative(t, id) == IF id = NoId THEN NoId ELSE (t.currentId - id) % IdModulus
ids(t) == << relative(t, t.currentIdAccessed), relative(t, t.finishedAccess),
             [k \in DOMAIN t.instructionQueue |-> relative(t, t.instructionQueue[k])],
             [k \in DOMAIN t.dataQueue |-> relative(t, t.dataQueue[k])] >>

isJoinable(t, u) == MisJoinable(t.memory, u.memory) /\ ids(t) = ids(u)

(* The identifiers of t are kept. *)
join(t, u) == [t EXCEPT !.memory = Mjoin(@, u.memory),
                        !.waitingForJoin = @ \/ u.waitingForJoin]
=============================================================================
