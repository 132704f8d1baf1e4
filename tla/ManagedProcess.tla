----------------------------- MODULE ManagedProcess -----------------------------
(***************************************************************************)
(* Background processes of one run: process_start, process_poll and        *)
(* process_stop of tool-broker.ts, the rows of managed_processes in        *)
(* database.ts, and the entries and children of tool-runner.ts.  Main and  *)
(* the Tool Runner talk over two FIFO channels.                            *)
(***************************************************************************)
EXTENDS Naturals, Sequences, FiniteSets

CONSTANTS
    ProcIds,       \* processes that are ever started
    ProcLimit,     \* running entries of a run (3 in the code)
    ProcMaxCalls   \* bound: polls, stops and pauses

ASSUME ProcAssumption == ProcLimit \in Nat /\ ProcMaxCalls \in Nat

VARIABLES
    procDown,     \* to the Tool Runner
    procBack,     \* to Main
    procOpening,  \* starts whose directory is being resolved
    procEntry,    \* managedProcesses: status by process
    procEnded,    \* entries with finishedAt
    procAlive,    \* children of the operating system
    procRow,      \* managed_processes.status
    procStoring,  \* polls of Main that are storing the log
    procRun,      \* the run: active or stopped
    procCalls     \* calls so far

procVars == <<procDown, procBack, procOpening, procEntry, procEnded, procAlive, procRow, procStoring,
              procRun, procCalls>>

ProcFinal == {"succeeded", "failed", "stopped"}
ProcStatus == ProcFinal \cup {"running"}

ProcTypeOK ==
    /\ procDown \in Seq([op : {"start", "poll", "stop"}, id : ProcIds] \cup [op : {"cancel-run"}])
    /\ procBack \in Seq([op : {"start", "poll", "stop"}, id : ProcIds, status : ProcStatus \cup {"error"}])
    /\ procOpening \subseteq ProcIds /\ procEntry \in [ProcIds -> ProcStatus \cup {"none"}]
    /\ procEnded \subseteq ProcIds /\ procAlive \subseteq ProcIds
    /\ \A p \in procEnded : procEntry[p] \in ProcFinal
    /\ procRow \in [ProcIds -> ProcStatus \cup {"none", "interrupted"}]
    /\ procStoring \subseteq [id : ProcIds, status : ProcFinal]
    /\ procRun \in {"active", "stopped"} /\ procCalls \in 0..ProcMaxCalls

ProcInit ==
    /\ procDown = <<>> /\ procBack = <<>> /\ procOpening = {} /\ procEnded = {} /\ procAlive = {}
    /\ procEntry = [p \in ProcIds |-> "none"] /\ procRow = [p \in ProcIds |-> "none"]
    /\ procStoring = {} /\ procRun = "active" /\ procCalls = 0

ProcRunner == <<procOpening, procEntry, procEnded, procAlive>>
ProcTable == <<procRow, procStoring>>

-----------------------------------------------------------------------------
(* Main *)

ProcBounded == procCalls < ProcMaxCalls /\ procCalls' = procCalls + 1

ProcStart(p) ==
    /\ procRun = "active" /\ procRow[p] = "none" /\ procEntry[p] = "none" /\ p \notin procOpening
    /\ \A i \in 1..Len(procDown) : procDown[i].op = "start" => procDown[i].id # p
    /\ \A i \in 1..Len(procBack) : procBack[i].id # p
    /\ procDown' = Append(procDown, [op |-> "start", id |-> p])
    /\ UNCHANGED <<procBack, ProcRunner, ProcTable, procRun, procCalls>>

\* process_poll and process_stop of a process that is in the table.
ProcAsk(p, op) ==
    /\ procRun = "active" /\ procRow[p] # "none" /\ ProcBounded
    /\ procDown' = Append(procDown, [op |-> op, id |-> p])
    /\ UNCHANGED <<procBack, ProcRunner, ProcTable, procRun>>

\* interruptManagedProcesses.
ProcInterrupted == [p \in ProcIds |-> IF procRow[p] = "running" THEN "interrupted" ELSE procRow[p]]

\* pause and cancel: the rows first, the processes when the message gets there.
ProcPause ==
    /\ procRun = "active" /\ ProcBounded /\ procRun' = "stopped"
    /\ procRow' = ProcInterrupted /\ procDown' = Append(procDown, [op |-> "cancel-run"])
    /\ UNCHANGED <<procBack, ProcRunner, procStoring>>
ProcResume ==
    /\ procRun = "stopped" /\ procRun' = "active"
    /\ UNCHANGED <<procDown, procBack, ProcRunner, ProcTable, procCalls>>

\* A start creates the row whatever has become of the run.
ProcHeard == TRUE

\* The answer of the runner.  The first poll that finds the process ended stores the log
\* before the row; polls that were asked together may both be the first.
ProcAnswer ==
    /\ procBack # <<>> /\ procBack' = Tail(procBack)
    /\ LET res == Head(procBack)
       IN \/ /\ res.status # "error" /\ ProcHeard
             /\ procRow' = [procRow EXCEPT ![res.id] = res.status] /\ UNCHANGED procStoring
          \/ /\ res.op = "poll" /\ res.status \in ProcFinal /\ ProcHeard
             /\ procStoring' = procStoring \cup {[id |-> res.id, status |-> res.status]} /\ UNCHANGED procRow
          \/ (res.status = "error" \/ ~ProcHeard) /\ UNCHANGED ProcTable
    /\ UNCHANGED <<procDown, ProcRunner, procRun, procCalls>>

ProcStored(s) ==
    /\ s \in procStoring /\ procStoring' = procStoring \ {s}
    /\ procRow' = [procRow EXCEPT ![s.id] = s.status]
    /\ UNCHANGED <<procDown, procBack, ProcRunner, procRun, procCalls>>

-----------------------------------------------------------------------------
(* Tool Runner *)

ProcReplies(op, p, status) == procBack' = Append(procBack, [op |-> op, id |-> p, status |-> status])

\* Faulty variant: an entry that has ended is marked stopped again.
ProcStoppable(p) == procEntry[p] # "none"
ProcRunning(p) == procEntry[p] = "running"

\* stopManagedProcess: the child gets a signal and ends when it does.
ProcStopping(S) ==
    /\ procEntry' = [p \in ProcIds |-> IF p \in S /\ ProcRunning(p) THEN "stopped" ELSE procEntry[p]]
    /\ procEnded' = procEnded \cup {p \in S : ProcRunning(p)}

\* The next message; only a start has to wait for the file system.
ProcTake ==
    /\ procDown # <<>> /\ procDown' = Tail(procDown)
    /\ LET cmd == Head(procDown)
       IN CASE cmd.op = "start" -> procOpening' = procOpening \cup {cmd.id} /\ UNCHANGED <<procBack, procEntry, procEnded>>
            [] cmd.op = "cancel-run" -> ProcStopping(ProcIds) /\ UNCHANGED <<procBack, procOpening>>
            [] cmd.op = "stop" ->
                 /\ ProcStopping({cmd.id}) /\ UNCHANGED procOpening
                 /\ ProcReplies("stop", cmd.id, IF procEntry[cmd.id] = "none" THEN "error"
                                                ELSE IF ProcRunning(cmd.id) THEN "stopped" ELSE procEntry[cmd.id])
            [] cmd.op = "poll" ->
                 /\ ProcReplies("poll", cmd.id, IF procEntry[cmd.id] = "none" THEN "error" ELSE procEntry[cmd.id])
                 /\ UNCHANGED <<procOpening, procEntry, procEnded>>
    /\ UNCHANGED <<procAlive, ProcTable, procRun, procCalls>>

\* Counted without an await before the entry is made.
ProcMany == Cardinality({q \in ProcIds : ProcRunning(q)}) >= ProcLimit

\* startManagedProcess.
ProcSpawn(p) ==
    /\ p \in procOpening /\ procOpening' = procOpening \ {p}
    /\ IF ProcMany
       THEN ProcReplies("start", p, "error") /\ UNCHANGED <<procEntry, procAlive>>
       ELSE /\ ProcReplies("start", p, "running")
            /\ procEntry' = [procEntry EXCEPT ![p] = "running"] /\ procAlive' = procAlive \cup {p}
    /\ UNCHANGED <<procDown, procEnded, ProcTable, procRun, procCalls>>

\* What was known before the end of the child stays.
ProcOutcome(p, status) == IF ProcRunning(p) THEN status ELSE procEntry[p]

\* close: by itself or after a signal; nobody sees it of an entry that was forgotten.
ProcExits(p, status) ==
    /\ p \in procAlive /\ procAlive' = procAlive \ {p}
    /\ procEntry' = [procEntry EXCEPT ![p] = ProcOutcome(p, status)]
    /\ procEnded' = IF procEntry[p] = "none" THEN procEnded ELSE procEnded \cup {p}
    /\ UNCHANGED <<procDown, procBack, procOpening, ProcTable, procRun, procCalls>>

\* Its time is up or its output too long; finishedAt waits for the child.
ProcGivenUp(p) ==
    /\ ProcRunning(p) /\ procEntry' = [procEntry EXCEPT ![p] = "failed"]
    /\ UNCHANGED <<procDown, procBack, procOpening, procEnded, procAlive, ProcTable, procRun, procCalls>>

ProcEndedWithout(p) == procEnded \ {p}

\* Ten minutes after its end an entry goes when the next process starts; Main has had its
\* row for long.
ProcForgotten(p) ==
    /\ procEntry[p] \in ProcFinal /\ p \in procEnded /\ procOpening # {}
    /\ procEntry' = [procEntry EXCEPT ![p] = "none"] /\ procEnded' = ProcEndedWithout(p)
    /\ procRow[p] # "none"
    /\ UNCHANGED <<procDown, procBack, procOpening, procAlive, ProcTable, procRun, procCalls>>

\* The Tool Runner dies; its exit handler sends the signals.  What Main waited for fails,
\* recovery pauses the run and interrupts its rows.
ProcRunnerDies ==
    /\ procRun = "active" /\ ProcBounded
    /\ procDown' = <<>> /\ procBack' = <<>> /\ procOpening' = {} /\ procAlive' = {} /\ procEnded' = {}
    /\ procEntry' = [p \in ProcIds |-> "none"] /\ procRow' = ProcInterrupted /\ procRun' = "stopped"
    /\ UNCHANGED procStoring

ProcNext ==
    \/ \E p \in ProcIds : \/ ProcStart(p) \/ ProcSpawn(p) \/ ProcGivenUp(p) \/ ProcForgotten(p)
                          \/ \E op \in {"poll", "stop"} : ProcAsk(p, op)
                          \/ \E status \in {"succeeded", "failed"} : ProcExits(p, status)
    \/ ProcPause \/ ProcResume \/ ProcAnswer \/ ProcTake \/ ProcRunnerDies
    \/ \E s \in procStoring : ProcStored(s)

ProcSpec == ProcInit /\ [][ProcNext]_procVars

-----------------------------------------------------------------------------
(* Properties *)

\* An outcome that was stored stays: no late answer of the runner, no stop and no recovery
\* replaces it.
ProcOutcomeStays == [][\A p \in ProcIds : procRow[p] \in ProcFinal => procRow'[p] = procRow[p]]_procVars

\* No process runs unknown to Main, which alone could stop it: it has a row, or the
\* answer that makes one is on its way.
ProcNoneUnknown ==
    \A p \in ProcIds : ProcRunning(p) => \/ procRow[p] # "none"
                                          \/ \E i \in 1..Len(procBack) : procBack[i].op = "start" /\ procBack[i].id = p

\* Starts that resolve their directories at the same time do not pass the limit together.
ProcLimitHolds == Cardinality({p \in ProcIds : ProcRunning(p)}) <= ProcLimit

\* Main accounts for every background process: none runs unknown to it or beyond the limit,
\* and an outcome it has stored is final (tool-broker.ts with tool-runner.ts).
ProcAccounted == []ProcNoneUnknown /\ []ProcLimitHolds /\ ProcOutcomeStays
=============================================================================
