---------------------- MODULE SimpleSDRAMCyclingMemory ----------------------
(***************************************************************************)
(* A memory that serves one access at a time in a fixed number of cycles   *)
(* and may refresh itself at the end of an access, which delays the end by *)
(* up to DRAMRefreshLatency cycles. Compositional analysis of the refresh  *)
(* (an option, off by default) is left out.                                *)
(***************************************************************************)
EXTENDS Integers

CONSTANTS Latency, PerWordLatency, DRAMRefreshLatency

IC == INSTANCE IntervalCounter

IDLE    == "IDLE"
REFRESH == "REFRESH"
ACCESS  == "ACCESS"

\* justRefreshed holds no address: the code always puts the unknown one.
Memory == [accessPhase : {IDLE, REFRESH, ACCESS}, timeBlocked : Nat,
           justRefreshed : BOOLEAN, hasSeenRefresh : BOOLEAN,
           fastForwardedAccessCycles : IC!Counter]

new == [accessPhase |-> IDLE, timeBlocked |-> 0, justRefreshed |-> FALSE,
        hasSeenRefresh |-> FALSE, fastForwardedAccessCycles |-> IC!counter(0)]

resetLocalMetrics(m) ==
    [m EXCEPT !.justRefreshed = FALSE, !.fastForwardedAccessCycles = IC!counter(0)]

isBusy(m) == m.accessPhase # IDLE

\* The access latency is over: either the access is finished or, unless a
\* fast-forward has accounted for it, a refresh follows.
endOfAccess(m) ==
    LET idle == [m EXCEPT !.accessPhase = IDLE, !.hasSeenRefresh = FALSE]
        ref  == [m EXCEPT !.accessPhase = REFRESH, !.justRefreshed = TRUE,
                          !.timeBlocked = DRAMRefreshLatency]
    IN  IF m.hasSeenRefresh THEN {idle} ELSE {idle, ref}

\* A refresh ends when its latency is used up, and may end before.
continueRefresh(m) ==
    LET idle == [m EXCEPT !.accessPhase = IDLE, !.timeBlocked = 0]
    IN  IF m.timeBlocked = 0 THEN {idle} ELSE {idle, m}

cycle(m) ==
    LET r == [m EXCEPT !.justRefreshed = FALSE,
                       !.timeBlocked = IF @ > 0 THEN @ - 1 ELSE @]
    IN  CASE m.timeBlocked > 0 /\ m.accessPhase = ACCESS /\ r.timeBlocked = 0 ->
               endOfAccess(r)
          [] m.timeBlocked > 0 /\ m.accessPhase = REFRESH -> continueRefresh(r)
          [] OTHER -> {r}

\* assert(!isBusy() && !hasSeenRefresh) guards it.
announceAccess(m, numWords) ==
    { [m EXCEPT !.accessPhase = ACCESS,
                !.timeBlocked = Latency + PerWordLatency * numWords] }

\* Mutant: the forwarded cycles leave out the refresh.
fastForwardNoRefresh(m) ==
    LET r == [m EXCEPT !.timeBlocked = 1,
                       !.hasSeenRefresh = (m.accessPhase = ACCESS),
                       !.fastForwardedAccessCycles =
                           IC!plus(@, m.timeBlocked - 1, m.timeBlocked - 1)]
    IN  {r, [r EXCEPT !.justRefreshed = TRUE]}

\* The assertions of fastForward about a memory in its access phase.
fastForwardAssertion(m) ==
    m.accessPhase = ACCESS => ~ m.justRefreshed /\ m.timeBlocked > 0

\* The remaining cycles but one are only counted. A refresh that may follow
\* the access is counted in a successor of its own.
fastForward(m) ==
    LET left == m.timeBlocked - 1
        r == [m EXCEPT !.timeBlocked = 1]
    IN  IF m.accessPhase = ACCESS
        THEN { [r EXCEPT !.hasSeenRefresh = TRUE, !.justRefreshed = TRUE,
                         !.fastForwardedAccessCycles =
                             IC!plus(@, left, left + DRAMRefreshLatency)],
               [r EXCEPT !.hasSeenRefresh = TRUE,
                         !.fastForwardedAccessCycles = IC!plus(@, left, left)] }
        ELSE { [r EXCEPT !.fastForwardedAccessCycles = IC!plus(@, 0, left)] }

isJoinable(m, n) == /\ m.accessPhase = n.accessPhase
                    /\ m.timeBlocked = n.timeBlocked
                    /\ m.hasSeenRefresh = n.hasSeenRefresh

join(m, n) ==
    [m EXCEPT !.justRefreshed = @ /\ n.justRefreshed,
              !.fastForwardedAccessCycles = IC!join(@, n.fastForwardedAccessCycles)]
=============================================================================
