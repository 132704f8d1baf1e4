------------------------------ MODULE ReadLimiter -----------------------------
(***************************************************************************)
(* The Agent Host runs read-only tools of one agent in parallel, at most   *)
(* maxParallelReadTools at a time: ConcurrencyLimiter of agent-host.ts and *)
(* the tools makeTool wraps in it.  Every wait ends in one of two ways, an *)
(* answer of Main or the agent's abort signal, and every way out has to    *)
(* return exactly the slot it was given.                                   *)
(*                                                                         *)
(* Each action is a stretch between two awaits of one tool execution.      *)
(***************************************************************************)
EXTENDS Integers, Sequences, FiniteSets

CONSTANTS
    Reads,   \* executions of parallel tools
    Limit    \* maxParallelReadTools

ASSUME LimiterAssumption == IsFiniteSet(Reads) /\ Limit \in Nat \ {0}

VARIABLES
    readPhase,     \* where the execution of a tool stands
    active,    \* ConcurrencyLimiter.active
    waiters,   \* ConcurrencyLimiter.waiters
    aborted,   \* the agent's abort signal
    atMain,    \* requests Main has not answered
    readRank,      \* ghost: order of arrival
    readClock      \* ghost: the next rank

limiter == <<active, waiters>>
ghosts  == <<readRank, readClock>>
limVars    == <<readPhase, limiter, aborted, atMain, ghosts>>

\* "queued": in waiters; "granted": the slot is given and run() resumes next; "asked":
\* in pendingTools; "settled": the operation is over and `finally` comes next.
ReadPhases == {"idle", "queued", "granted", "asked", "settled", "done"}
Holding == {r \in Reads : readPhase[r] \in {"granted", "asked", "settled"}}

LimTypeOK ==
    /\ readPhase \in [Reads -> ReadPhases] /\ active \in Nat /\ waiters \in Seq(Reads)
    /\ aborted \in BOOLEAN /\ atMain \subseteq Reads
    /\ readRank \in [Reads -> Nat] /\ readClock \in Nat

LimInit ==
    /\ readPhase = [r \in Reads |-> "idle"] /\ active = 0 /\ waiters = <<>>
    /\ aborted = FALSE /\ atMain = {} /\ readRank = [r \in Reads |-> 0] /\ readClock = 0

\* acquire(): refused after an abort, granted while slots are free, queued otherwise.
Acquire(r) ==
    /\ readPhase[r] = "idle" /\ readRank' = [readRank EXCEPT ![r] = readClock] /\ readClock' = readClock + 1
    /\ \/ /\ aborted /\ readPhase' = [readPhase EXCEPT ![r] = "done"] /\ UNCHANGED limiter
       \/ /\ ~aborted /\ active < Limit /\ active' = active + 1
          /\ readPhase' = [readPhase EXCEPT ![r] = "granted"] /\ UNCHANGED waiters
       \/ /\ ~aborted /\ active >= Limit /\ waiters' = Append(waiters, r)
          /\ readPhase' = [readPhase EXCEPT ![r] = "queued"] /\ UNCHANGED active
    /\ UNCHANGED <<aborted, atMain>>

Asks == ~aborted

\* run() calls the operation, which throws if the agent was aborted since.
StartOperation(r) ==
    /\ readPhase[r] = "granted"
    /\ readPhase' = [readPhase EXCEPT ![r] = IF Asks THEN "asked" ELSE "settled"]
    /\ atMain' = IF Asks THEN atMain \cup {r} ELSE atMain
    /\ UNCHANGED <<limiter, aborted, ghosts>>

\* Main answers; an answer nobody waits for any more is dropped.
Answer(r) ==
    /\ r \in atMain /\ atMain' = atMain \ {r}
    /\ readPhase' = IF readPhase[r] = "asked" THEN [readPhase EXCEPT ![r] = "settled"] ELSE readPhase
    /\ UNCHANGED <<limiter, aborted, ghosts>>

AbortedQueue == "done"

\* The listeners of the abort signal: waiters leave the queue and reject, requests
\* under way reject.
Abort ==
    /\ ~aborted /\ aborted' = TRUE /\ waiters' = <<>>
    /\ readPhase' = [r \in Reads |-> CASE readPhase[r] = "queued" -> AbortedQueue
                                   [] readPhase[r] = "asked"  -> "settled"
                                   [] OTHER               -> readPhase[r]]
    /\ UNCHANGED <<active, atMain, ghosts>>

\* Faulty variants: the newest waiter is served first; the slot is handed over without
\* being counted.
Pop == [waiter |-> waiters[Len(waiters)], rest |-> SubSeq(waiters, 1, Len(waiters) - 1)]
Shift == [waiter |-> Head(waiters), rest |-> Tail(waiters)]
Freed == IF active > 0 THEN active - 1 ELSE 0
ActiveUncounted == Freed
ActiveHandedOver == active
HandsOver == waiters # <<>> /\ ~aborted

\* release(): the slot goes to the first waiter that is not aborted (all have the same
\* signal) or becomes free.
ReleaseSlot(r) ==
    /\ readPhase[r] = "settled"
    /\ \/ /\ HandsOver
          /\ readPhase' = [readPhase EXCEPT ![r] = "done", ![Shift.waiter] = "granted"]
          /\ waiters' = Shift.rest /\ active' = ActiveHandedOver
       \/ /\ ~HandsOver /\ readPhase' = [readPhase EXCEPT ![r] = "done"] /\ active' = Freed
          /\ waiters' = IF aborted THEN <<>> ELSE waiters
    /\ UNCHANGED <<aborted, atMain, ghosts>>

LimNext == Abort \/ \E r \in Reads : Acquire(r) \/ StartOperation(r) \/ Answer(r) \/ ReleaseSlot(r)

LimSpec == LimInit /\ [][LimNext]_limVars

\* The microtasks of the host run to their end.
LimFairness == \A r \in Reads : WF_limVars(StartOperation(r)) /\ WF_limVars(ReleaseSlot(r))

-----------------------------------------------------------------------------
(* Properties *)

\* A slot is returned once by every way out of an execution: the counter is the
\* number of executions that hold one, and never exceeds the limit.
SlotsAreCounted == active = Cardinality(Holding) /\ active <= Limit

\* No slot is free while somebody waits for one, so reads never starve behind it.
NoSlotIdle == waiters # <<>> => active = Limit

\* A waiting read is not overtaken by one that came later.
NoOvertaking ==
    \A q, r \in Reads : readPhase[q] = "queued" /\ readPhase[r] # "idle" /\ readRank[q] < readRank[r]
                          => readPhase[r] = "queued"

\* A read that was given a slot is inside until it has returned it.
ReadStage ==
    [r \in Reads |-> CASE readPhase[r] = "idle"   -> "away"
                       [] readPhase[r] = "queued" -> "waiting"
                       [] readPhase[r] = "done"   -> "gone"
                       [] OTHER                   -> "inside"]

ReadTurns == INSTANCE TurnTaking WITH
    Callers <- Reads, LineOf <- [r \in Reads |-> "agent"], Capacity <- Limit,
    stage <- ReadStage, arrival <- readRank, arrivals <- readClock

\* Reads take turns, Limit at a time: a slot that is returned goes to the one that waits
\* longest, nobody passes those who wait, and an abort clears the line.
ReadsTakeTurns == ReadTurns!Spec

\* Every read comes to its end if Main answers what it is sent, as EveryCallIsAnswered
\* of RunLifecycle says, with or without an abort.
EveryReadEnds ==
    LimFairness /\ (\A r \in Reads : WF_limVars(Answer(r)))
        => \A r \in Reads : readPhase[r] # "idle" ~> readPhase[r] = "done"

\* After an abort all reads end, although Main may answer none of them.
AbortEndsReads == LimFairness => (aborted ~> \A r \in Reads : readPhase[r] \in {"idle", "done"})
=============================================================================
