------------------------------ MODULE FileLeases ------------------------------
(***************************************************************************)
(* Tools that change a file take turns: ToolBroker.acquireFileLease keeps  *)
(* for every path the tail of a chain of promises, and a call waits for    *)
(* the tail it found.  The call that holds the lease runs in the Tool      *)
(* Runner, which ToolRunnerBridge forks, stops and sees exit.              *)
(*                                                                         *)
(* Runs are paused, cancelled or recovered while their calls wait: the     *)
(* receipts are cancelled, the chain is not.                               *)
(***************************************************************************)
EXTENDS Naturals, FiniteSets

CONSTANTS
    Writes,   \* calls of file-changing tools
    Paths,    \* the normalised absolute paths they name
    Runs,     \* the runs they belong to
    PathOf,   \* the path of a call
    RunOf,    \* the run of a call
    None,     \* no call
    Faults    \* what happens to the runner: "exit" of itself, "stop" by Main

ASSUME LeaseAssumption ==
    /\ PathOf \in [Writes -> Paths] /\ RunOf \in [Writes -> Runs]
    /\ None \notin Writes
    /\ Faults \subseteq {"exit", "stop"}

VARIABLES
    leasePhase,      \* where handle() of a call stands
    prev,       \* the call whose tail it awaits
    tail,       \* fileLeaseTails: the last call in the chain of a path
    cancelled,  \* calls whose receipt was cancelled
    pending,    \* ToolRunnerBridge.pending
    alive,      \* ManagedWorker.process is set
    working,    \* requests the current runner process is serving
    dying,      \* requests a stopped runner process was serving
    answered,   \* results posted to Main
    leaseRank,       \* ghost: order of arrival
    leaseClock       \* ghost: the next rank

chain  == <<prev, tail, leaseRank, leaseClock>>
runner == <<alive, working, dying>>
leaseVars == <<leasePhase, chain, cancelled, pending, runner, answered>>

\* "leasing": awaiting the chain; "executing": awaiting the runner; "finishing" and
\* "failing": it answered or was given up; "done": the lease is released.
LeasePhases == {"idle", "leasing", "executing", "finishing", "failing", "done"}

LeaseTypeOK ==
    /\ leasePhase \in [Writes -> LeasePhases] /\ prev \in [Writes -> Writes \cup {None}]
    /\ tail \in [Paths -> Writes \cup {None}]
    /\ cancelled \subseteq Writes /\ pending \subseteq Writes
    /\ alive \in BOOLEAN /\ working \subseteq Writes /\ dying \subseteq Writes /\ answered \subseteq Writes
    /\ leaseRank \in [Writes -> Nat] /\ leaseClock \in Nat

LeaseInit ==
    /\ leasePhase = [w \in Writes |-> "idle"] /\ prev = [w \in Writes |-> None]
    /\ tail = [p \in Paths |-> None]
    /\ cancelled = {} /\ pending = {} /\ answered = {}
    /\ alive = FALSE /\ working = {} /\ dying = {}
    /\ leaseRank = [w \in Writes |-> 0] /\ leaseClock = 0

\* The calls that wait for a lease or hold one.
Live == {w \in Writes : leasePhase[w] \notin {"idle", "done"}}
Holds(w) == leasePhase[w] \in {"executing", "finishing", "failing"}

\* handle() up to the await of the chain: the call becomes the tail.
Request(w) ==
    /\ leasePhase[w] = "idle" /\ leasePhase' = [leasePhase EXCEPT ![w] = "leasing"]
    /\ prev' = [prev EXCEPT ![w] = tail[PathOf[w]]]
    /\ tail' = [tail EXCEPT ![PathOf[w]] = w]
    /\ leaseRank' = [leaseRank EXCEPT ![w] = leaseClock] /\ leaseClock' = leaseClock + 1
    /\ UNCHANGED <<cancelled, pending, runner, answered>>

\* Faulty variant: the chain is awaited no further than the predecessor's own turn.
ReachedEarly(w) == prev[w] # None => leasePhase[prev[w]] \in {"finishing", "failing", "done"}

\* The tail of the predecessor has resolved.
Reached(w) == prev[w] # None => leasePhase[prev[w]] = "done"

\* The lease is granted and the tool is posted to the runner, which send() forks
\* when there is none.  Nothing is read again of the run or its receipt.
Execute(w) ==
    /\ leasePhase[w] = "leasing" /\ Reached(w)
    /\ leasePhase' = [leasePhase EXCEPT ![w] = "executing"]
    /\ pending' = pending \cup {w} /\ alive' = TRUE /\ working' = working \cup {w}
    /\ UNCHANGED <<chain, cancelled, dying, answered>>

\* The runner changes the file and posts the result; so may a process that was told
\* to end, whose messages are still read.
Serve(w) ==
    /\ w \in working \cup dying
    /\ working' = working \ {w} /\ dying' = dying \ {w} /\ answered' = answered \cup {w}
    /\ UNCHANGED <<leasePhase, chain, cancelled, pending, alive>>

\* A result settles the request that waits for it, and is dropped otherwise.
Receive(w) ==
    /\ w \in answered /\ answered' = answered \ {w} /\ pending' = pending \ {w}
    /\ leasePhase' = IF w \in pending THEN [leasePhase EXCEPT ![w] = "finishing"] ELSE leasePhase
    /\ UNCHANGED <<chain, cancelled, runner>>

\* Faulty variant: the entry of the path is deleted whoever is its tail.
TailWithoutAnyone(w) == [tail EXCEPT ![PathOf[w]] = None]
TailWithout(w) == IF tail[PathOf[w]] = w THEN [tail EXCEPT ![PathOf[w]] = None] ELSE tail

\* The rest of handle(): artifacts are captured, and `finally` releases the lease and
\* forgets the path if nobody has queued behind.
ReleaseLease(w) ==
    /\ leasePhase[w] \in {"finishing", "failing"} /\ leasePhase' = [leasePhase EXCEPT ![w] = "done"]
    /\ tail' = TailWithout(w)
    /\ UNCHANGED <<prev, leaseRank, leaseClock, cancelled, pending, runner, answered>>

\* pause(), cancel() or a lost browser: receipts are cancelled, and cancelRun() tells
\* the runner, forking one if there is none.  The runner's cancel ends spawned commands
\* only; a file tool goes on, and so does a call in the chain.
StopRun(r) ==
    /\ cancelled' = cancelled \cup {w \in Live : RunOf[w] = r} /\ alive' = TRUE
    /\ UNCHANGED <<leasePhase, chain, pending, working, dying, answered>>

\* Faulty variant: the callers of the forgotten requests are not told.
GivenUpSilently == leasePhase
GivenUp == [w \in Writes |-> IF w \in pending THEN "failing" ELSE leasePhase[w]]

\* The process ended of itself and its exit handler runs: pending requests reject.
RunnerExits ==
    /\ "exit" \in Faults /\ alive /\ alive' = FALSE
    /\ working' = {} /\ pending' = {} /\ leasePhase' = GivenUp
    /\ UNCHANGED <<chain, cancelled, dying, answered>>

\* workerFailureHandler, for either worker: the runner is stopped and forgotten, so
\* its exit handler returns at once; every open receipt is cancelled.
WorkersStopped ==
    /\ "stop" \in Faults /\ alive' = FALSE
    /\ dying' = dying \cup working /\ working' = {} /\ cancelled' = cancelled \cup Live
    /\ UNCHANGED <<leasePhase, chain, pending, answered>>

\* A stopped process is gone.
DyingGone ==
    /\ dying # {} /\ dying' = {}
    /\ UNCHANGED <<leasePhase, chain, cancelled, pending, alive, working, answered>>

LeaseNext ==
    \/ \E w \in Writes : Request(w) \/ Execute(w) \/ Serve(w) \/ Receive(w) \/ ReleaseLease(w)
    \/ \E r \in Runs : StopRun(r)
    \/ RunnerExits \/ WorkersStopped \/ DyingGone

LeaseSpec == LeaseInit /\ [][LeaseNext]_leaseVars

\* Main's handlers run and the runner serves a file tool, which only touches the disk.
LeaseFairness ==
    \A w \in Writes : /\ WF_leaseVars(Execute(w)) /\ WF_leaseVars(Serve(w))
                      /\ WF_leaseVars(Receive(w)) /\ WF_leaseVars(ReleaseLease(w))

LeaseFairSpec == LeaseSpec /\ LeaseFairness

-----------------------------------------------------------------------------
(* Properties *)

\* A file has one writer: no two calls for a path hold its lease or are served by the
\* runner.  The snapshot taken before a change and the change itself rely on it.
OneWriterPerFile ==
    \A v, w \in Writes :
        PathOf[v] = PathOf[w] /\ (Holds(v) \/ v \in working) /\ (Holds(w) \/ w \in working)
          => v = w

\* The chain of a path is forgotten exactly when nobody is in it: forgotten earlier,
\* a newcomer overtakes; kept, the map grows with every file ever written.
TailsAreCurrent ==
    \A p \in Paths : tail[p] = None <=> \A w \in Live : PathOf[w] # p

\* A call that has the lease of its path is inside, whoever answers it.
LeaseStage ==
    [w \in Writes |-> CASE leasePhase[w] = "idle"    -> "away"
                        [] leasePhase[w] = "leasing" -> "waiting"
                        [] leasePhase[w] = "done"    -> "gone"
                        [] OTHER                     -> "inside"]

LeaseTurns == INSTANCE TurnTaking WITH
    Callers <- Writes, LineOf <- PathOf, Capacity <- 1, stage <- LeaseStage, arrival <- leaseRank, arrivals <- leaseClock

\* Calls for a file take turns: one at a time and in the order of arrival, so an older
\* change is never applied over a newer one, and no other file or fault comes between.
LeasesTakeTurns == LeaseTurns!Spec

\* Every call that queues for a file gets through, whatever becomes of the calls
\* before it: "tasks can continue after the process is restarted" is the notice
\* recoverAfterWorkerFailure shows.
EveryWriteEnds == \A w \in Writes : leasePhase[w] = "leasing" ~> leasePhase[w] = "done"

\* The same as far as the code keeps it: unless Main stops the runner under a call that
\* it serves, every call gets through, however often the runner exits.
WritesEndUnlessStopped == LeaseFairness => ([](dying = {}) => EveryWriteEnds)
=============================================================================
