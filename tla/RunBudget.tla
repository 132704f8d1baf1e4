------------------------------- MODULE RunBudget ------------------------------
(***************************************************************************)
(* The two-level budget of a run: model turns and active time, counted for *)
(* the whole run (table runs) and for the user's current turn (run_turns), *)
(* by database.ts, handed to the Agent Host as what is left by start() of  *)
(* run-coordinator.ts, and enforced there by startRun of agent-host.ts.    *)
(*                                                                         *)
(* One run.  "Session" is one prompt of the host's agent.  Instants are    *)
(* positive; 0 in `seg` is an active_segment_started_at of NULL.           *)
(***************************************************************************)
EXTENDS Integers, Sequences

CONSTANTS
    BudTurnLimit, BudTotalLimit,   \* maxModelTurnsPerTurn, maxTotalModelTurns
    BudTurnTime, BudTotalTime,     \* maxDurationMsPerTurn, maxTotalDurationMs
    BudHorizon,                    \* bound on the clock
    BudMaxStarts                   \* bound on sessions

ASSUME BudAssumption ==
    {BudTurnLimit, BudTotalLimit, BudTurnTime, BudTotalTime, BudHorizon, BudMaxStarts} \subseteq Nat \ {0}

VARIABLES
    budClock,
    budStatus,   \* the run's status, as far as budgets depend on it
    budRun,      \* runs: model_turns, active_duration_ms, active_segment_started_at
    budTurn,     \* the open row of run_turns with the same columns; closed: no open row
    budStart,    \* a start() under way: what it read as left, before its awaits
    budHost,     \* the session in the host: its number, turns left, end of its time
    budEvents,   \* events on their way from the host to Main
    budStarts,   \* sessions so far
    budActive,   \* ghost: time the run was running in a live application
    budLate      \* ghost: turns counted after a later start() had read what was left

budVars == <<budClock, budStatus, budRun, budTurn, budStart, budHost, budEvents, budStarts,
             budActive, budLate>>

BudClosed == [open |-> FALSE, turns |-> 0, time |-> 0, seg |-> 0]
BudOpened == [BudClosed EXCEPT !.open = TRUE]
BudNoStart == [on |-> FALSE, turns |-> 0, time |-> 0]
BudNoHost == [on |-> FALSE, session |-> 0, left |-> 0, deadline |-> 0]

BudTypeOK ==
    /\ budClock \in Nat \ {0}
    /\ budStatus \in {"understanding", "running", "paused", "waiting_user", "completed"}
    /\ budRun \in [turns : Nat, time : Nat, seg : Nat]
    /\ budTurn \in [open : BOOLEAN, turns : Nat, time : Nat, seg : Nat]
    /\ budStart \in [on : BOOLEAN, turns : Nat, time : Nat]
    /\ budHost \in [on : BOOLEAN, session : Nat, left : Nat, deadline : Nat]
    /\ budEvents \in Seq([kind : {"turn", "exhausted", "completed"}, session : Nat])
    /\ budStarts \in Nat /\ budActive \in Nat /\ budLate \in Nat

BudInit ==
    /\ budClock = 1 /\ budStatus = "understanding" /\ budRun = [turns |-> 0, time |-> 0, seg |-> 0]
    /\ budTurn = BudClosed /\ budStart = BudNoStart /\ budHost = BudNoHost /\ budEvents = <<>>
    /\ budStarts = 0 /\ budActive = 0 /\ budLate = 0

-----------------------------------------------------------------------------
(* The tables *)

BudSegment(row) == IF row.seg = 0 THEN 0 ELSE budClock - row.seg
\* getRunBudgetUsage, getRunTurnBudgetUsage: without an open row a turn has used nothing.
BudUsed(row) == row.time + BudSegment(row)

\* stopRunExecution, on each row.
BudStopped(row) == [row EXCEPT !.time = BudUsed(row), !.seg = 0]

\* beginRunExecution, on each row.
BudBegun(row) == [row EXCEPT !.seg = IF @ = 0 THEN budClock ELSE @]

\* ensureCurrentRunTurn.
BudCurrent == IF budTurn.open THEN budTurn ELSE BudOpened

BudLess(a, b) == IF b >= a THEN 0 ELSE a - b
BudSmaller(a, b) == IF a < b THEN a ELSE b
\* Faulty variant: only the turn's own budget is looked at.
BudTurnsLeftInTurn(turn) == BudLess(BudTurnLimit, turn.turns)
BudTurnsLeft(turn) == BudSmaller(BudLess(BudTurnLimit, turn.turns), BudLess(BudTotalLimit, budRun.turns))
BudTimeLeft(turn) == BudSmaller(BudLess(BudTurnTime, BudUsed(turn)), BudLess(BudTotalTime, BudUsed(budRun)))

-----------------------------------------------------------------------------
(* start(): what is left is read, then come its awaits, then the host gets it *)

\* With a prompt (a message) or without one (resume).  The first prompt and one to a
\* finished run open a turn; otherwise a closed turn stays closed until the hand-over.
BudStartReads(message) ==
    /\ ~budStart.on /\ budStarts < BudMaxStarts
    /\ IF message THEN budStatus # "running" ELSE budStatus \in {"paused", "waiting_user"}
    /\ LET turn == IF message /\ (budStatus = "completed" \/ budStarts = 0) THEN BudOpened ELSE budTurn
       IN IF BudTurnsLeft(turn) = 0 \/ BudTimeLeft(turn) = 0
          THEN \* finishBudgetExhausted, without a session
               /\ budStatus' = "waiting_user" /\ budTurn' = BudClosed /\ budRun' = BudStopped(budRun)
               /\ UNCHANGED budStart
          ELSE /\ budStart' = [on |-> TRUE, turns |-> BudTurnsLeft(turn), time |-> BudTimeLeft(turn)]
               /\ budStatus' = IF budStatus = "completed" THEN "understanding" ELSE budStatus
               /\ budTurn' = turn /\ UNCHANGED budRun
    /\ budStarts' = budStarts + 1
    /\ UNCHANGED <<budClock, budHost, budEvents, budActive, budLate>>

\* The run is set running (paused, too, may become running) and the host gets a session.
BudStartHands ==
    /\ budStart.on /\ budStatus # "completed" /\ ~budHost.on
    /\ budStatus' = "running" /\ budRun' = BudBegun(budRun) /\ budTurn' = BudBegun(BudCurrent)
    /\ budHost' = [on |-> TRUE, session |-> budStarts, left |-> budStart.turns,
                   deadline |-> budClock + budStart.time]
    /\ budStart' = BudNoStart
    /\ UNCHANGED <<budClock, budEvents, budStarts, budActive, budLate>>

\* start() throws: the run fails, which for budgets is an end like any other.
BudStartThrows ==
    /\ budStart.on /\ budStart' = BudNoStart
    /\ budRun' = BudStopped(budRun) /\ budTurn' = BudStopped(budTurn) /\ budStatus' = "completed"
    /\ UNCHANGED <<budClock, budHost, budEvents, budStarts, budActive, budLate>>

-----------------------------------------------------------------------------
(* The Agent Host *)

BudHostMay == budHost.left > 0

BudSent(kind) == Append(budEvents, [kind |-> kind, session |-> budHost.session])

\* turn_start: counted and reported, or the budget is exhausted and the agent aborted.
BudHostTurn ==
    /\ budHost.on /\ Len(budEvents) < 2
    /\ IF BudHostMay THEN /\ budHost' = [budHost EXCEPT !.left = BudLess(@, 1)]
                          /\ budEvents' = BudSent("turn")
                     ELSE budHost' = BudNoHost /\ budEvents' = BudSent("exhausted")
    /\ UNCHANGED <<budClock, budStatus, budRun, budTurn, budStart, budStarts, budActive, budLate>>

\* The timer, or the agent's own end.
BudHostEnds ==
    /\ budHost.on /\ budHost' = BudNoHost
    /\ budEvents' = BudSent(IF budClock >= budHost.deadline THEN "exhausted" ELSE "completed")
    /\ UNCHANGED <<budClock, budStatus, budRun, budTurn, budStart, budStarts, budActive, budLate>>

-----------------------------------------------------------------------------
(* Main *)

\* agent.turn counts whatever the status is; a closed turn is opened for it.
BudOnTurn ==
    /\ budEvents # <<>> /\ Head(budEvents).kind = "turn" /\ budEvents' = Tail(budEvents)
    /\ budRun' = [budRun EXCEPT !.turns = @ + 1]
    /\ budTurn' = [BudCurrent EXCEPT !.turns = @ + 1]
    /\ budLate' = IF Head(budEvents).session < budStarts THEN budLate + 1 ELSE budLate
    /\ UNCHANGED <<budClock, budStatus, budStart, budHost, budStarts, budActive>>

\* agent.completed and agent.budget_exhausted end the turn of a running run.
BudOnEnd ==
    /\ budEvents # <<>> /\ Head(budEvents).kind # "turn" /\ budEvents' = Tail(budEvents)
    /\ IF budStatus = "running"
       THEN /\ budStatus' = IF Head(budEvents).kind = "exhausted" THEN "waiting_user" ELSE "completed"
            /\ budRun' = BudStopped(budRun) /\ budTurn' = BudClosed
       ELSE UNCHANGED <<budStatus, budRun, budTurn>>
    /\ UNCHANGED <<budClock, budStart, budHost, budStarts, budActive, budLate>>

\* pause: the turn is finished and the host aborts.
BudPause ==
    /\ budStatus \in {"understanding", "running", "waiting_user"} /\ budStatus' = "paused"
    /\ budRun' = BudStopped(budRun) /\ budTurn' = BudClosed /\ budHost' = BudNoHost
    /\ UNCHANGED <<budClock, budStart, budEvents, budStarts, budActive, budLate>>

\* cancel: the clocks stop, the turn's row stays open until the next message.
BudCancel ==
    /\ budStatus # "completed" /\ budStatus' = "completed"
    /\ budRun' = BudStopped(budRun) /\ budTurn' = BudStopped(budTurn) /\ budHost' = BudNoHost
    /\ UNCHANGED <<budClock, budStart, budEvents, budStarts, budActive, budLate>>

\* A message to a running run that has its verdict starts a turn while the run's own
\* segment goes on.
BudFollowUp ==
    /\ budStatus = "running" /\ budTurn' = BudOpened
    /\ UNCHANGED <<budClock, budStatus, budRun, budStart, budHost, budEvents, budStarts, budActive,
                   budLate>>

\* The application dies, time may pass, and the next launch recovers the run.
BudCrash(downtime) ==
    /\ budClock + downtime <= BudHorizon /\ budClock' = budClock + downtime
    /\ budStatus' = IF budStatus = "completed" THEN budStatus ELSE "paused"
    /\ LET stopped(row) == [row EXCEPT !.time = @ + (IF row.seg = 0 THEN 0 ELSE budClock' - row.seg),
                                       !.seg = 0]
       IN IF budStatus = "completed" THEN UNCHANGED <<budRun, budTurn>>
          ELSE budRun' = stopped(budRun) /\ budTurn' = stopped(budTurn)
    /\ budStart' = BudNoStart /\ budHost' = BudNoHost /\ budEvents' = <<>>
    /\ UNCHANGED <<budStarts, budActive, budLate>>

BudTimePasses ==
    /\ budClock < BudHorizon /\ budClock' = budClock + 1
    /\ budActive' = IF budStatus = "running" THEN budActive + 1 ELSE budActive
    /\ UNCHANGED <<budStatus, budRun, budTurn, budStart, budHost, budEvents, budStarts, budLate>>

BudNext ==
    \/ \E message \in BOOLEAN : BudStartReads(message)
    \/ BudStartHands \/ BudStartThrows \/ BudHostTurn \/ BudHostEnds \/ BudOnTurn \/ BudOnEnd
    \/ BudPause \/ BudCancel \/ BudFollowUp \/ BudTimePasses
    \/ \E downtime \in 0..BudHorizon : BudCrash(downtime)

BudSpec == BudInit /\ [][BudNext]_budVars

-----------------------------------------------------------------------------
(* Properties *)

\* No active time escapes the total budget, across pauses, follow-ups, ends and crashes,
\* and a turn is never charged more than the run.
BudNothingEscapes == BudUsed(budRun) >= budActive /\ BudUsed(budTurn) <= BudUsed(budRun)

\* The total of model turns is overrun at most by the turns of an earlier session that
\* were counted after a later start() had read what was left.
BudTotalHolds == budRun.turns <= BudTotalLimit + budLate

\* Time is charged while the run runs, and only then.
BudChargedWhileRunning ==
    /\ budStatus = "running" => budRun.seg # 0
    /\ budRun.seg # 0 => budStatus = "running"

\* The budgets of a run hold over all its sessions: time is charged while it runs and none
\* escapes, and its turns are bounded (remainingBudget, run_usage_segments).
BudLimitsHold == BudNothingEscapes /\ BudTotalHolds /\ BudChargedWhileRunning
=============================================================================
