------------------------------ MODULE Automations -----------------------------
(***************************************************************************)
(* Scheduled tasks: AutomationService of automation-service.ts.  A tick    *)
(* reads the due rows once and then works through them, awaiting each run, *)
(* while the user edits, disables, removes and starts the same automations *)
(* and the application may crash.                                          *)
(*                                                                         *)
(* Instants are positive naturals and 0 is "no next run" (a NULL column).  *)
(* The stretch of a tick between two awaits is the phase "loop", in which  *)
(* nothing but the next row of the loop (or a crash) can come.             *)
(***************************************************************************)
EXTENDS Integers, FiniteSets

CONSTANTS
    Autos,          \* automation ids
    AutoSchedules,  \* the schedules a user can enter
    AutoGrace,      \* misfireGraceMs
    AutoHorizon     \* bound on the clock

\* once: at; interval: every, at (the anchor startsAt, 0 if unset); cron: a calendar
\* pattern, here every `every` from `at`, with no first occurrence.
AutoScheduleType == [type : {"once", "interval", "cron"}, at : Nat, every : Nat \ {0}]

ASSUME AutoAssumption ==
    /\ AutoSchedules \subseteq AutoScheduleType
    /\ \A s \in AutoSchedules : s.type = "once" => s.at > 0
    /\ AutoGrace \in Nat /\ AutoHorizon \in Nat /\ "none" \notin Autos

VARIABLES
    autoRows,    \* the automations table
    autoClock,   \* the time
    autoUp,      \* the application is running and the service started
    autoTick,    \* tickInFlight: time of the tick, rows it read and has not handled
    autoRunning, \* AutomationService.running, by the caller whose callback is awaited
    autoFired    \* ghost: occurrences the scheduler handed to the callback

autoVars == <<autoRows, autoClock, autoUp, autoTick, autoRunning, autoFired>>

NoAuto == "none"
AutoCallers == {"tick", "user"}
AutoNoRow == [exists |-> FALSE, enabled |-> FALSE, next |-> 0,
              sched |-> [type |-> "cron", at |-> 0, every |-> 1]]
AutoRowType == [exists : BOOLEAN, enabled : BOOLEAN, next : Nat, sched : AutoScheduleType]
AutoNoTick == [phase |-> "none", at |-> 0, due |-> [a \in {} |-> AutoNoRow]]

AutoTypeOK ==
    /\ autoRows \in [Autos -> AutoRowType] /\ autoClock \in Nat \ {0} /\ autoUp \in BOOLEAN
    /\ autoTick.phase \in {"none", "loop", "await"} /\ autoTick.at \in Nat
    /\ DOMAIN autoTick.due \subseteq Autos
    /\ \A a \in DOMAIN autoTick.due : autoTick.due[a] \in AutoRowType
    /\ autoRunning \in [AutoCallers -> Autos \cup {NoAuto}]
    /\ autoFired \subseteq (Autos \X Nat)
    /\ autoTick.phase = "await" <=> autoRunning["tick"] # NoAuto

AutoInit ==
    /\ autoRows = [a \in Autos |-> AutoNoRow] /\ autoClock = 1 /\ autoUp = TRUE
    /\ autoTick = AutoNoTick /\ autoRunning = [c \in AutoCallers |-> NoAuto] /\ autoFired = {}

-----------------------------------------------------------------------------
(* nextRunForSchedule: the first run strictly after a time, 0 if there is none. *)

AutoNextRun(s, after) ==
    CASE s.type = "once" -> IF s.at > after THEN s.at ELSE 0
      [] s.type = "interval" ->
           IF s.at > after THEN s.at ELSE s.at + ((after - s.at) \div s.every + 1) * s.every
      [] OTHER -> after + 1 + ((s.at - after - 1) % s.every)

\* upsert persists an anchor, so that an interval does not realign later.
AutoAnchored(s) == IF s.type = "interval" /\ s.at = 0 THEN [s EXCEPT !.at = autoClock] ELSE s

\* What advance, setEnabled and upsert store: enabled unless there is no next run.
AutoScheduled(row, s, after) ==
    [row EXCEPT !.sched = s, !.next = AutoNextRun(s, after), !.enabled = AutoNextRun(s, after) # 0]
AutoOff(row, s) == [row EXCEPT !.sched = s, !.next = 0, !.enabled = FALSE]

-----------------------------------------------------------------------------
(* The user's calls; none of them can come inside a synchronous stretch of a tick. *)

AutoIdle == autoUp /\ autoTick.phase # "loop"
AutoRunningIds == {autoRunning[c] : c \in AutoCallers} \ {NoAuto}

AutoUpsert(a, s, on) ==
    /\ AutoIdle
    /\ LET row == [autoRows[a] EXCEPT !.exists = TRUE]
       IN autoRows' = [autoRows EXCEPT ![a] =
            IF on THEN AutoScheduled(row, AutoAnchored(s), autoClock) ELSE AutoOff(row, AutoAnchored(s))]
    /\ UNCHANGED <<autoClock, autoUp, autoTick, autoRunning, autoFired>>

AutoSetEnabled(a, on) ==
    /\ AutoIdle /\ autoRows[a].exists
    /\ autoRows' = [autoRows EXCEPT ![a] =
            IF on THEN AutoScheduled(@, @.sched, autoClock) ELSE AutoOff(@, @.sched)]
    /\ UNCHANGED <<autoClock, autoUp, autoTick, autoRunning, autoFired>>

AutoRemove(a) ==
    /\ AutoIdle /\ autoRows[a].exists /\ a \notin AutoRunningIds
    /\ autoRows' = [autoRows EXCEPT ![a] = AutoNoRow]
    /\ UNCHANGED <<autoClock, autoUp, autoTick, autoRunning, autoFired>>

\* invoke: an automation that is running already is refused.
AutoFree(a) == a \notin AutoRunningIds

\* runNow up to the await of the callback; the row's schedule is not touched.
AutoRunNow(c, a) ==
    /\ AutoIdle /\ c # "tick" /\ autoRunning[c] = NoAuto
    /\ autoRows[a].exists /\ AutoFree(a)
    /\ autoRunning' = [autoRunning EXCEPT ![c] = a]
    /\ UNCHANGED <<autoRows, autoClock, autoUp, autoTick, autoFired>>

-----------------------------------------------------------------------------
(* The scheduler *)

AutoDueRows(at) ==
    {a \in Autos : autoRows[a].exists /\ autoRows[a].enabled /\ autoRows[a].next \in 1..at}
AutoTickStarts == [phase |-> "loop", at |-> autoClock,
                   due |-> [a \in AutoDueRows(autoClock) |-> autoRows[a]]]

\* The timer: a tick while one is in flight joins it.
AutoTickFires ==
    /\ autoUp /\ autoTick.phase = "none" /\ AutoDueRows(autoClock) # {}
    /\ autoTick' = AutoTickStarts
    /\ UNCHANGED <<autoRows, autoClock, autoUp, autoRunning, autoFired>>

\* Faulty variant: the row is not advanced before its run.
AutoAdvanceLater(a, row, at) == autoRows
\* advance: next run and enabled are computed from the row that was read, and written
\* to the row that is there now, if it still is.
AutoAdvance(a, row, at) ==
    IF ~autoRows[a].exists THEN autoRows
    ELSE [autoRows EXCEPT ![a].next = AutoNextRun(row.sched, at),
                          ![a].enabled = AutoNextRun(row.sched, at) # 0]

AutoEarliest == {a \in DOMAIN autoTick.due :
                    \A b \in DOMAIN autoTick.due : autoTick.due[a].next <= autoTick.due[b].next}
AutoLater(a) == [b \in DOMAIN autoTick.due \ {a} |-> autoTick.due[b]]

\* A missed occurrence is skipped.
AutoMisfire(a) ==
    /\ autoUp /\ autoTick.phase = "loop" /\ a \in AutoEarliest
    /\ autoTick.at - autoTick.due[a].next > AutoGrace
    /\ autoRows' = AutoAdvance(a, autoTick.due[a], autoTick.at)
    /\ autoTick' = [autoTick EXCEPT !.due = AutoLater(a)]
    /\ UNCHANGED <<autoClock, autoUp, autoRunning, autoFired>>

\* A due one is advanced, then run; if it is running already the refusal is audited.
AutoTrigger(a) ==
    /\ autoUp /\ autoTick.phase = "loop" /\ a \in AutoEarliest
    /\ autoTick.at - autoTick.due[a].next <= AutoGrace
    /\ autoRows' = AutoAdvance(a, autoTick.due[a], autoTick.at)
    /\ autoTick' = [autoTick EXCEPT !.due = AutoLater(a), !.phase = IF AutoFree(a) THEN "await" ELSE @]
    /\ autoRunning' = IF AutoFree(a) THEN [autoRunning EXCEPT !["tick"] = a] ELSE autoRunning
    /\ autoFired' = IF AutoFree(a) THEN autoFired \cup {<<a, autoTick.due[a].next>>} ELSE autoFired
    /\ UNCHANGED <<autoClock, autoUp>>

AutoTickEnds ==
    /\ autoUp /\ autoTick.phase = "loop" /\ autoTick.due = AutoNoTick.due
    /\ autoTick' = AutoNoTick
    /\ UNCHANGED <<autoRows, autoClock, autoUp, autoRunning, autoFired>>

\* Faulty variant: running is released on success only.
AutoReleasedIf(ok) == ok
\* invoke's finally.
AutoReleased(ok) == TRUE

\* The callback resolves or rejects; a rejection of the tick's own is only audited.
AutoCallbackEnds(c, ok) ==
    /\ AutoIdle /\ autoRunning[c] # NoAuto
    /\ autoRunning' = IF AutoReleased(ok) THEN [autoRunning EXCEPT ![c] = NoAuto] ELSE autoRunning
    /\ autoTick' = IF c = "tick" THEN [autoTick EXCEPT !.phase = "loop"] ELSE autoTick
    /\ UNCHANGED <<autoRows, autoClock, autoUp, autoFired>>

AutoTimePasses ==
    /\ (autoUp => AutoIdle) /\ autoClock < AutoHorizon /\ autoClock' = autoClock + 1
    /\ UNCHANGED <<autoRows, autoUp, autoTick, autoRunning, autoFired>>

\* The process ends; what is not in the database is gone.
AutoCrash ==
    /\ autoUp /\ autoUp' = FALSE /\ autoTick' = AutoNoTick
    /\ autoRunning' = [c \in AutoCallers |-> NoAuto]
    /\ UNCHANGED <<autoRows, autoClock, autoFired>>

\* start: rows without a next run get one (none here: see AutoEnabledHasNext), then a tick.
AutoStart ==
    /\ ~autoUp /\ autoUp' = TRUE
    /\ autoRows' = [a \in Autos |-> IF autoRows[a].enabled /\ autoRows[a].next = 0
                                    THEN AutoScheduled(autoRows[a], autoRows[a].sched, autoClock)
                                    ELSE autoRows[a]]
    /\ autoTick' = IF AutoDueRows(autoClock) # {} THEN AutoTickStarts ELSE AutoNoTick
    /\ UNCHANGED <<autoClock, autoRunning, autoFired>>

AutoNext ==
    \/ \E a \in Autos, s \in AutoSchedules, on \in BOOLEAN : AutoUpsert(a, s, on)
    \/ \E a \in Autos, on \in BOOLEAN : AutoSetEnabled(a, on)
    \/ \E a \in Autos : AutoRemove(a) \/ AutoMisfire(a) \/ AutoTrigger(a)
    \/ \E c \in AutoCallers, a \in Autos : AutoRunNow(c, a)
    \/ \E c \in AutoCallers, ok \in BOOLEAN : AutoCallbackEnds(c, ok)
    \/ AutoTickFires \/ AutoTickEnds \/ AutoTimePasses \/ AutoCrash \/ AutoStart

AutoSpec == AutoInit /\ [][AutoNext]_autoVars

-----------------------------------------------------------------------------
(* Properties *)

\* Every occurrence the scheduler has run lies before the stored next run, whatever the
\* user edits during a tick and wherever the process dies: none is replayed by the next
\* tick or the next launch.
AutoNoReplay ==
    \A a \in Autos : \A t \in {f[2] : f \in {g \in autoFired : g[1] = a}} :
        autoRows[a].next = 0 \/ autoRows[a].next > t

\* Scheduled and manual runs of one automation never overlap.
AutoOneRun ==
    \A c, d \in AutoCallers : autoRunning[c] = autoRunning[d] /\ autoRunning[c] # NoAuto => c = d

\* What is stored as the next run is the first occurrence of the schedule after the time
\* it is computed for, for whatever anchor an interval has: it neither drifts nor skips.
AutoNextIsFirst ==
    \A s \in {[u EXCEPT !.at = IF u.at = 0 THEN anchor ELSE @] : u \in AutoSchedules, anchor \in 1..AutoHorizon} :
        LET occurs(t) == CASE s.type = "once" -> t = s.at
                           [] s.type = "interval" -> t >= s.at /\ (t - s.at) % s.every = 0
                           [] OTHER -> t % s.every = s.at % s.every
            next == AutoNextRun(s, autoClock)
        IN IF next = 0 THEN s.type = "once" /\ s.at <= autoClock
           ELSE next > autoClock /\ occurs(next) /\ \A t \in autoClock + 1 .. next - 1 : ~occurs(t)

\* Only what the user or a tick that read the row as due does can enable an automation;
\* an enabled one always has a next run, so it never silently stops.
AutoEnabledHasNext == \A a \in Autos : autoRows[a].enabled <=> autoRows[a].next # 0

\* A due automation is run or skipped by a tick in the end, if the callbacks come to an
\* end and the application stays up.
AutoDueIsHandled ==
    (<>[]autoUp /\ \A c \in AutoCallers : WF_autoVars(\E ok \in BOOLEAN : AutoCallbackEnds(c, ok))) =>
        \A a \in Autos : a \in AutoDueRows(autoClock) ~> a \notin AutoDueRows(autoClock)

\* Every occurrence of an automation is run at its time and once: none is replayed, two
\* runs never overlap, no schedule stops silently, drifts or skips (AutomationService).
AutoRunsOnTime ==
    /\ AutoNoReplay
    /\ AutoOneRun
    /\ AutoEnabledHasNext
    /\ AutoNextIsFirst
=============================================================================
