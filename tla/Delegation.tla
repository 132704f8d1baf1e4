------------------------------ MODULE Delegation ------------------------------
(***************************************************************************)
(* Sub-agents: RunCoordinator.delegate of run-coordinator.ts.  A tool call *)
(* of a parent creates a child run and waits for it; the child is a run    *)
(* like any other, so the user pauses, resumes, cancels, messages and      *)
(* deletes it, and its file access is bounded by its parent's.             *)
(*                                                                         *)
(* RunLifecycle has the states of one run in full; here they are folded    *)
(* to what waiting calls and the access of the tree depend on: "active",   *)
(* "rest" (paused or waiting for the user) and the three final ones.       *)
(***************************************************************************)
EXTENDS Integers, FiniteSets

CONSTANTS
    DelRuns,     \* run ids
    DelNoRun,    \* the parent of a run the user created
    DelLimit     \* limits.maxSubagents

ASSUME DelAssumption == DelNoRun \notin DelRuns /\ DelLimit \in Nat

VARIABLES
    delStatus,  \* status of each run, "none" before it is created
    delParent,  \* runs.parent_run_id
    delFull,    \* runs.access_mode is full_disk
    delCall     \* the call of delegate() that created the run

delVars == <<delStatus, delParent, delFull, delCall>>

DelFinal == {"completed", "failed", "cancelled"}
DelStates == {"none", "active", "rest", "deleted"} \cup DelFinal
DelTypeOK ==
    /\ delStatus \in [DelRuns -> DelStates]
    /\ delParent \in [DelRuns -> DelRuns \cup {DelNoRun}]
    /\ delFull \in [DelRuns -> BOOLEAN]
    /\ delCall \in [DelRuns -> {"none", "starting", "waiting", "over"}]
    \* parent_run_id is a foreign key
    /\ \A r \in DelRuns : delParent[r] # DelNoRun => delStatus[delParent[r]] \notin {"none", "deleted"}

DelInit ==
    /\ delStatus = [r \in DelRuns |-> "none"] /\ delParent = [r \in DelRuns |-> DelNoRun]
    /\ delFull = [r \in DelRuns |-> FALSE] /\ delCall = [r \in DelRuns |-> "none"]

DelUnfinished(p) == {r \in DelRuns : delParent[r] = p /\ delStatus[r] \in {"active", "rest"}}

\* downgradeDescendantAccess: the rows below a run, however deep: what is in every set that
\* has the children of the run and of its own members.
DelBelow(S) == {r \in DelRuns : delParent[r] \in S}
\* Faulty variant: only the children.
DelChildrenOnly(r) == DelBelow({r})
DelDescendants(r) ==
    {d \in DelRuns : \A S \in SUBSET DelRuns : DelBelow({r} \cup S) \subseteq S => d \in S}

-----------------------------------------------------------------------------
(* The user *)

DelCreate(r, full) ==
    /\ delStatus[r] = "none" /\ delStatus' = [delStatus EXCEPT ![r] = "active"]
    /\ delFull' = [delFull EXCEPT ![r] = full]
    /\ UNCHANGED <<delParent, delCall>>

DelPause(r) ==
    /\ delStatus[r] \in {"active", "rest"} /\ delStatus' = [delStatus EXCEPT ![r] = "rest"]
    /\ UNCHANGED <<delParent, delFull, delCall>>

\* The completion waiters of a run are resolved.
DelResolved(r) == IF delCall[r] = "waiting" THEN [delCall EXCEPT ![r] = "over"] ELSE delCall

DelCancel(r) ==
    /\ delStatus[r] \in {"active", "rest"} /\ delStatus' = [delStatus EXCEPT ![r] = "cancelled"]
    /\ delCall' = DelResolved(r)
    /\ UNCHANGED <<delParent, delFull>>

\* delete: cancelled first if it has not ended; the rows below it go with its own.
DelDelete(r) ==
    /\ delStatus[r] \notin {"none", "deleted"}
    /\ LET gone == {r} \cup DelDescendants(r)
       IN /\ delStatus' = [s \in DelRuns |-> IF s \in gone THEN "deleted" ELSE delStatus[s]]
          /\ delParent' = [s \in DelRuns |-> IF s \in gone THEN DelNoRun ELSE delParent[s]]
          /\ delFull' = [s \in DelRuns |-> s \notin gone /\ delFull[s]]
    /\ delCall' = IF delStatus[r] \in DelFinal THEN delCall ELSE DelResolved(r)

\* A message or resume restarts a run; a message reopens a finished one.
DelRestart(r) ==
    /\ delStatus[r] \in {"rest"} \cup DelFinal /\ delStatus' = [delStatus EXCEPT ![r] = "active"]
    /\ UNCHANGED <<delParent, delFull, delCall>>

\* The catch of start() fails the run and resolves nobody.
DelRestartFails(r) ==
    /\ delStatus[r] \in {"rest"} \cup DelFinal /\ delStatus' = [delStatus EXCEPT ![r] = "failed"]
    /\ UNCHANGED <<delParent, delFull, delCall>>

DelMayWiden(r) == delParent[r] # DelNoRun => delFull[delParent[r]]

\* sendMessage with a new access mode: a child needs its parent's, and what a run
\* loses its descendants lose.
DelSetAccess(r, full) ==
    /\ delStatus[r] \notin {"none", "deleted"} /\ delFull[r] # full /\ (full => DelMayWiden(r))
    /\ LET below == IF full THEN {} ELSE DelDescendants(r)
       IN delFull' = [s \in DelRuns |-> IF s = r THEN full ELSE delFull[s] /\ s \notin below]
    /\ UNCHANGED <<delStatus, delParent, delCall>>

-----------------------------------------------------------------------------
(* The parent's call and the child's end *)

\* Faulty variant: the child gets the access of a run the user creates.
DelDefaultAccess(p) == TRUE
DelInherited(p) == delFull[p]

\* delegate() up to the first await of create(): counted and created in one stretch.
DelDelegate(p, c) ==
    /\ delStatus[p] = "active" /\ delStatus[c] = "none" /\ Cardinality(DelUnfinished(p)) < DelLimit
    /\ delStatus' = [delStatus EXCEPT ![c] = "active"]
    /\ delParent' = [delParent EXCEPT ![c] = p]
    /\ delFull' = [delFull EXCEPT ![c] = DelInherited(p)]
    /\ delCall' = [delCall EXCEPT ![c] = "starting"]

\* waitForCompletion: a run that has ended is answered at once (for one that is gone the
\* call has failed before).
DelWaits(c) == IF delStatus[c] \in DelFinal \cup {"deleted"} THEN "over" ELSE "waiting"

\* start() has handed the child to the host, or has failed it unless it had ended.
DelStarted(c) ==
    /\ delCall[c] = "starting" /\ delCall' = [delCall EXCEPT ![c] = DelWaits(c)]
    /\ UNCHANGED <<delStatus, delParent, delFull>>
DelStartThrows(c) ==
    /\ delCall[c] = "starting" /\ delCall' = [delCall EXCEPT ![c] = "over"]
    /\ delStatus' = [delStatus EXCEPT ![c] = IF @ \in DelFinal \cup {"deleted"} THEN @ ELSE "failed"]
    /\ UNCHANGED <<delParent, delFull>>

\* agent.completed, agent.failed, agent.budget_exhausted: the waiters learn of all three.
DelEnds(c, status) ==
    /\ delStatus[c] = "active" /\ delStatus' = [delStatus EXCEPT ![c] = status]
    /\ delCall' = DelResolved(c)
    /\ UNCHANGED <<delParent, delFull>>

\* A worker failure puts every active run to rest; calls keep waiting.
DelWorkerFails ==
    /\ delStatus' = [r \in DelRuns |-> IF delStatus[r] = "active" THEN "rest" ELSE delStatus[r]]
    /\ UNCHANGED <<delParent, delFull, delCall>>

\* A restart of the application does so too, and the calls are gone.
DelAppRestarts ==
    /\ delStatus' = [r \in DelRuns |-> IF delStatus[r] = "active" THEN "rest" ELSE delStatus[r]]
    /\ delCall' = [r \in DelRuns |-> "none"]
    /\ UNCHANGED <<delParent, delFull>>

DelNext ==
    \/ \E r \in DelRuns, full \in BOOLEAN : DelCreate(r, full) \/ DelSetAccess(r, full)
    \/ \E r \in DelRuns : DelPause(r) \/ DelCancel(r) \/ DelDelete(r) \/ DelRestart(r) \/ DelRestartFails(r)
    \/ \E p, c \in DelRuns : DelDelegate(p, c)
    \/ \E c \in DelRuns : DelStarted(c) \/ DelStartThrows(c)
    \/ \E c \in DelRuns, status \in {"completed", "failed", "rest"} : DelEnds(c, status)
    \/ DelWorkerFails \/ DelAppRestarts

DelSpec == DelInit /\ [][DelNext]_delVars

-----------------------------------------------------------------------------
(* Properties *)

\* No run can reach further than the run that delegated to it, at any depth, whatever
\* is narrowed, widened or delegated in between.
DelAccessNested ==
    \A r \in DelRuns : delParent[r] # DelNoRun /\ delFull[r] => delFull[delParent[r]]

\* A parent never waits for a child that has completed or was cancelled, even if that
\* came before the waiter was registered.  (A child failed by start() is not covered.)
DelNoLostWakeup ==
    \A c \in DelRuns : delCall[c] = "waiting" => delStatus[c] \notin {"completed", "cancelled"}

\* Delegation is safe and is not waited for in vain: a child never reaches further than its
\* parent, and a parent never waits for one that is over (delegate, setAccessMode).
DelHolds == DelAccessNested /\ DelNoLostWakeup
=============================================================================
