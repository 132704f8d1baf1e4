----------------------------- MODULE RunLifecycle -----------------------------
(***************************************************************************)
(* One run between the Electron Main process and the Agent Host worker.    *)
(*                                                                         *)
(* Main (run-coordinator.ts, tool-broker.ts, database.ts) owns the durable *)
(* status, receipts and approvals and answers the user; the host           *)
(* (agent-host.ts) runs at most one agent for the run and talks to Main    *)
(* over two FIFO channels.  JavaScript runs a handler to its next real     *)
(* await without interruption, so one action is one such stretch; start()  *)
(* and sendMessage() are cut at the awaits on files and the key store.     *)
(*                                                                         *)
(* Messages carry a session number, one per agent started.  The program    *)
(* has no such number: events are matched by run id alone.  Only the       *)
(* properties and the ghost variables read it.                             *)
(***************************************************************************)
EXTENDS RunStates, Naturals, Sequences, FiniteSets

CONSTANTS
    Calls,        \* tool calls the model may issue, over all sessions
    ToolKinds,    \* the kinds of call it may issue
    MaxSessions,  \* bound: agents started for the run
    MaxStarts,    \* bound: start() invocations in flight at once
    MaxMessages,  \* bound: messages the user sends
    MaxQueue,     \* bound: host commands queued when a stop is requested
    PatientUser   \* TRUE: the user acts only once the workers have settled

\* What evaluateRunAccessPolicy and the tool registry make of a call: "auto" is
\* allowed, "ask" needs an approval a grant can replace, "once" needs one every
\* time, "deny" is refused; task_plan and task_complete move the run themselves.
Kinds == {"auto", "ask", "once", "deny", "plan", "complete"}

ASSUME BoundsAssumption ==
    /\ ToolKinds \subseteq Kinds
    /\ MaxSessions \in Nat \ {0} /\ MaxStarts \in Nat \ {0}
    /\ MaxMessages \in Nat /\ MaxQueue \in Nat
    /\ PatientUser \in BOOLEAN

VARIABLES
    status,     \* runs.status
    verdict,    \* runs.outcome is 'verified' or 'partial'
    starting,   \* start() calls waiting for the key store and the preparation
    send,       \* a sendMessage() waiting for its attachments
    messages,   \* messages sent so far
    call,       \* tool_calls.state
    kind,       \* what the policy makes of the call
    appr,       \* approvals.status
    held,       \* ToolBroker.pendingApprovals: the questions Main can resolve
    granted,    \* a run_tool grant for the "ask" calls is stored
    executing,  \* calls under way in the Tool Runner, the browser or Main
    toHost,     \* commands posted to the Agent Host
    toMain,     \* requests and events posted to Main
    agent,      \* session of the live agent, 0 when agents has no entry
    aborted,    \* its abort signal is set
    exhausted,  \* its budgetExhausted flag
    waiting,    \* pendingTools: calls the agent waits for
    sessions,   \* agents requested so far
    stopped,    \* ghost: who stopped the run since it was last asked for
    stale       \* ghost: sessions up to this one were stopped

mainVars  == <<status, verdict, starting, send, messages>>
callVars  == <<call, appr, held, granted, executing>>
agentVars == <<agent, aborted, exhausted, waiting, kind>>
ghosts    == <<sessions, stopped, stale>>
vars == <<mainVars, callVars, agentVars, toHost, toMain, ghosts>>

-----------------------------------------------------------------------------
Stoppers == {"nobody", "user", "bridge", "crash", "budget"}

\* executionMode 'parallel': only these share the agent's waiting set.
Parallel == {"auto", "once", "deny"}

CallStates == {"none", "waiting_approval", "running", "succeeded", "failed", "cancelled"}
ApprovalStates == {"none", "pending", "approved", "denied", "expired"}

Session == 0..MaxSessions

Start(s)  == [type |-> "start", sess |-> s]
Cancel    == [type |-> "cancel"]
Steer     == [type |-> "steer"]
Result(c) == [type |-> "tool.result", call |-> c]
HostCommands ==
    {Cancel, Steer} \cup {Start(s) : s \in Session} \cup {Result(c) : c \in Calls}

Request(s, c) == [type |-> "tool.request", sess |-> s, call |-> c]
Completed(s)  == [type |-> "agent.completed", sess |-> s]
Failed(s)     == [type |-> "agent.failed", sess |-> s]
Exhausted(s)  == [type |-> "agent.budget_exhausted", sess |-> s]
HostEvents ==
    {Completed(s) : s \in Session} \cup {Failed(s) : s \in Session}
      \cup {Exhausted(s) : s \in Session} \cup {Request(s, c) : s \in Session, c \in Calls}

NoSend == [mode |-> "none", verdict |-> FALSE]
Sends  == [mode : {"none", "steer", "start"}, verdict : BOOLEAN]

CountTypeOK ==
    /\ starting \in Nat /\ sessions \in Session /\ sessions + starting \in Session
    /\ messages \in 0..MaxMessages /\ agent \in Session /\ stale \in Session

MainTypeOK ==
    /\ status \in RunStatus /\ verdict \in BOOLEAN /\ send \in Sends
    /\ granted \in BOOLEAN /\ stopped \in Stoppers

CallTypeOK ==
    /\ call \in [Calls -> CallStates] /\ appr \in [Calls -> ApprovalStates]
    /\ held \subseteq Calls /\ executing \subseteq Calls

AgentTypeOK ==
    /\ aborted \in BOOLEAN /\ exhausted \in BOOLEAN
    /\ waiting \subseteq Calls /\ kind \in [Calls -> Kinds \cup {"none"}]

ChannelTypeOK == toHost \in Seq(HostCommands) /\ toMain \in Seq(HostEvents)

TypeOK == CountTypeOK /\ MainTypeOK /\ CallTypeOK /\ AgentTypeOK /\ ChannelTypeOK

\* create(): the run is stored as 'understanding' and its first start() is under way.
Init ==
    /\ status = "understanding" /\ verdict = FALSE
    /\ starting = 1 /\ send = NoSend /\ messages = 0
    /\ call = [c \in Calls |-> "none"] /\ kind = [c \in Calls |-> "none"]
    /\ appr = [c \in Calls |-> "none"]
    /\ held = {} /\ granted = FALSE /\ executing = {}
    /\ toHost = <<>> /\ toMain = <<>>
    /\ agent = 0 /\ aborted = FALSE /\ exhausted = FALSE /\ waiting = {}
    /\ sessions = 0 /\ stopped = "nobody" /\ stale = 0

-----------------------------------------------------------------------------
(* Starting *)

\* transitionRun: the status moves only along the table, otherwise it throws.
Move(to) == CanTransition(status, to) /\ status' = to

\* Nothing of an earlier session is left in a worker or on a channel.
Settled == starting = 0 /\ agent = 0 /\ executing = {} /\ toHost = <<>> /\ toMain = <<>>

\* finishBudgetExhausted: the questions that are open stay open.
\* Faulty variant: the outcome survives the end of the budget.
BudgetExhaustedKeepsOutcome(from) ==
    /\ CanTransition(from, "waiting_user") /\ status' = "waiting_user"
    /\ stopped' = "budget" /\ UNCHANGED verdict
BudgetExhausted(from) ==
    /\ CanTransition(from, "waiting_user") /\ status' = "waiting_user"
    /\ stopped' = "budget" /\ verdict' = FALSE

\* start() up to its first await: a finished run is reopened by a message, a run
\* without budget left goes to waiting_user, any other waits for its preparation.
BeginStart ==
    LET from == IF status \in Terminal THEN "understanding" ELSE status
    IN /\ from \in Startable
       /\ PatientUser => Settled
       /\ \/ /\ starting < MaxStarts /\ sessions + starting < MaxSessions
             /\ status' = from /\ verdict' = (verdict /\ from = status)
             /\ starting' = starting + 1 /\ stopped' = "nobody"
          \/ BudgetExhausted(from) /\ UNCHANGED starting
       /\ UNCHANGED <<messages, callVars, agentVars, toHost, toMain, sessions, stale>>

Resume ==
    /\ status \in {"paused", "waiting_user"}
    /\ BeginStart /\ UNCHANGED send

\* The rest of start(): no status is read again after the awaits.
FinishStart ==
    /\ starting > 0 /\ starting' = starting - 1
    /\ Move("running") /\ verdict' = FALSE
    /\ sessions' = sessions + 1 /\ toHost' = Append(toHost, Start(sessions'))
    /\ UNCHANGED <<send, messages, callVars, agentVars, toMain, stopped, stale>>

\* Key store, workspace or preparation failed, or the run is terminal by now: the
\* catch block fails the run where the table allows it.
StartFails ==
    /\ starting > 0 /\ starting' = starting - 1
    /\ IF status \notin Terminal /\ CanTransition(status, "failed")
       THEN status' = "failed" /\ verdict' = FALSE
       ELSE UNCHANGED <<status, verdict>>
    /\ UNCHANGED <<send, messages, callVars, agentVars, toHost, toMain, ghosts>>

\* sendMessage reads the run, stores the message, and loads the attachments.
SendRead ==
    /\ send = NoSend /\ messages < MaxMessages /\ messages' = messages + 1
    /\ send' = [mode |-> IF status \in Steerable THEN "steer" ELSE "start",
                verdict |-> verdict]
    /\ UNCHANGED <<status, verdict, starting, callVars, agentVars, toHost, toMain, ghosts>>

\* Then it acts on the run it read: a verdict already given is withdrawn first.
SendSteer ==
    /\ send.mode = "steer" /\ send' = NoSend
    /\ IF ~send.verdict
       THEN UNCHANGED <<status, verdict>> /\ toHost' = Append(toHost, Steer)
       ELSE \/ Move("running") /\ verdict' = FALSE /\ toHost' = Append(toHost, Steer)
            \/ ~CanTransition(status, "running") /\ UNCHANGED <<status, verdict, toHost>>
    /\ UNCHANGED <<starting, messages, callVars, agentVars, toMain, ghosts>>

SendStart == send.mode = "start" /\ BeginStart /\ send' = NoSend

\* The status moved under the message so that start() refuses it.
SendRefused ==
    /\ send.mode = "start" /\ status \notin Startable \cup Terminal /\ send' = NoSend
    /\ UNCHANGED <<status, verdict, starting, messages, callVars, agentVars, toHost, toMain, ghosts>>

-----------------------------------------------------------------------------
(* Stopping *)

\* Open receipts become cancelled and open questions expire, in one transaction.
CancelPendingWork ==
    /\ call' = [c \in Calls |-> IF call[c] \in {"waiting_approval", "running"}
                                THEN "cancelled" ELSE call[c]]
    /\ appr' = [c \in Calls |-> IF appr[c] = "pending" THEN "expired" ELSE appr[c]]

\* pause(), cancel() and handleChromeDisconnect() stop a run the same way: the
\* agent is told to abort, the receipts are closed, the questions withdrawn.
StopRun(to, by) ==
    /\ Move(to) /\ verdict' = FALSE
    /\ CancelPendingWork /\ held' = {}
    /\ Len(toHost) < MaxQueue /\ toHost' = Append(toHost, Cancel)
    /\ stopped' = by /\ stale' = sessions
    /\ UNCHANGED <<starting, send, messages, granted, executing, agentVars, toMain, sessions>>

Pause == status \notin Terminal /\ StopRun("paused", "user")

CancelRun == status \notin Terminal /\ StopRun("cancelled", "user")

\* The last socket of the Chrome bridge closed, and the run has bound a tab.
ChromeDisconnect == status \in Active /\ StopRun("waiting_user", "bridge")

\* recoverInterruptedWork: what was under way is paused and its receipts closed.
Recover ==
    /\ IF status \in Active \cup {"waiting_user"}
       THEN status' = "paused" /\ verdict' = FALSE /\ stopped' = "crash"
       ELSE UNCHANGED <<status, verdict, stopped>>
    /\ CancelPendingWork
    /\ agent' = 0 /\ aborted' = FALSE /\ exhausted' = FALSE /\ waiting' = {}
    /\ toHost' = <<>> /\ toMain' = <<>> /\ stale' = sessions
    /\ UNCHANGED <<messages, granted, kind, sessions>>

\* A worker died: both are stopped, and what the Tool Runner was doing is lost.  Main
\* lives on with the starts it has in flight and the calls it serves itself.
WorkerFailure ==
    /\ Recover /\ executing' \in SUBSET executing
    /\ held' = IF status \in Active \cup {"waiting_user"} THEN {} ELSE held
    /\ UNCHANGED <<starting, send>>

\* The application died and came back: only the database is left.
AppRestart ==
    Recover /\ held' = {} /\ executing' = {} /\ starting' = 0 /\ send' = NoSend

-----------------------------------------------------------------------------
(* Approvals *)

\* Faulty variant: a late result overwrites any receipt.
OverwriteCall(c, to) == [call EXCEPT ![c] = to]
Sticky(c, to) == IF call[c] = "cancelled" THEN call ELSE [call EXCEPT ![c] = to]

\* Faulty variant: the question being answered is still counted.
NonePendingBefore(a) == \A c \in Calls : appr[c] # "pending"
NonePending(a) == \A c \in Calls : a[c] # "pending"

\* respondToApproval, approved: with the last question answered the run goes on;
\* where the table refuses that, the exception leaves the call unanswered.
Approve(c) ==
    /\ c \in held /\ held' = held \ {c}
    /\ IF appr[c] # "pending"
       THEN UNCHANGED <<status, call, appr, granted, executing>>
       ELSE LET a == [appr EXCEPT ![c] = "approved"]
            IN /\ appr' = a
               /\ granted' \in IF kind[c] = "ask" THEN {granted, TRUE} ELSE {granted}
               /\ IF NonePending(a) /\ ~CanTransition(status, "running")
                  THEN UNCHANGED <<status, call, executing>>
                  ELSE /\ status' = IF NonePending(a) THEN "running" ELSE status
                       /\ call' = Sticky(c, "running")
                       /\ executing' = executing \cup {c}
    /\ UNCHANGED <<verdict, starting, send, messages, agentVars, toHost, toMain, ghosts>>

\* Faulty variant: the user's word is stored as it is.
AnswersUntranslated == {"rejected", "approved"}
Answers == {"denied", "approved"}

\* Rejected, or answered after its expiry: the stored row then still says what the
\* user clicked, so a late "approve" is stored as approved and not executed.
Decline(c) ==
    /\ c \in held /\ held' = held \ {c}
    /\ IF appr[c] # "pending"
       THEN UNCHANGED <<status, call, appr, toHost>>
       ELSE \E answer \in Answers :
              LET a == [appr EXCEPT ![c] = answer]
              IN /\ appr' = a /\ call' = Sticky(c, "failed")
                 /\ status' = IF NonePending(a) /\ CanTransition(status, "running")
                              THEN "running" ELSE status
                 /\ toHost' = IF status' \in Active THEN Append(toHost, Result(c)) ELSE toHost
    /\ UNCHANGED <<verdict, starting, send, messages, granted, executing,
                   agentVars, toMain, ghosts>>

-----------------------------------------------------------------------------
(* Main receives from the host *)

Receive(type) == toMain # <<>> /\ Head(toMain).type = type /\ toMain' = Tail(toMain)

\* A tool call while verifying takes the run back to work before anything else.
Base(c) == IF status = "verifying" /\ kind[c] # "complete" THEN "running" ELSE status
\* Faulty variant: a tool call leaves the verdict in place.
BaseVerdictKept(c) == verdict
BaseVerdict(c) == verdict /\ Base(c) = status

RefuseCall(c) ==
    /\ status \notin Active
    /\ toHost' = Append(toHost, Result(c))
    /\ UNCHANGED <<status, verdict, call, appr, held, executing>>

DenyCall(c) ==
    /\ status \in Active /\ kind[c] = "deny"
    /\ status' = Base(c) /\ verdict' = BaseVerdict(c)
    /\ call' = [call EXCEPT ![c] = "failed"] /\ toHost' = Append(toHost, Result(c))
    /\ UNCHANGED <<appr, held, executing>>

\* Faulty variant: a grant also covers one-time approvals.
NeedsApprovalUnlessGranted(c) == kind[c] \in {"ask", "once"} /\ ~granted
NeedsApproval(c) == kind[c] = "once" \/ (kind[c] = "ask" /\ ~granted)

RunCall(c) ==
    /\ status \in Active /\ kind[c] \in {"auto", "ask", "once"} /\ ~NeedsApproval(c)
    /\ status' = Base(c) /\ verdict' = BaseVerdict(c)
    /\ call' = [call EXCEPT ![c] = "running"] /\ executing' = executing \cup {c}
    /\ UNCHANGED <<appr, held, toHost>>

\* waitForApproval stores the question before it moves the run; from a status that
\* may not wait for an approval the move throws and the question stays stored.
AskUser(c) ==
    /\ status \in Active /\ NeedsApproval(c)
    /\ call' = [call EXCEPT ![c] = "waiting_approval"]
    /\ appr' = [appr EXCEPT ![c] = "pending"]
    /\ IF CanTransition(Base(c), "waiting_approval")
       THEN /\ status' = "waiting_approval" /\ verdict' = FALSE
            /\ held' = held \cup {c} /\ UNCHANGED toHost
       ELSE toHost' = Append(toHost, Result(c)) /\ UNCHANGED <<status, verdict, held>>
    /\ UNCHANGED executing

\* Faulty variant: a plan is accepted whatever the status.
PlanCallAnytime(c) ==
    /\ kind[c] = "plan"
    /\ status' = "running" /\ verdict' = FALSE
    /\ call' = [call EXCEPT ![c] = "succeeded"] /\ toHost' = Append(toHost, Result(c))
    /\ UNCHANGED <<appr, held, executing>>
PlanCall(c) ==
    /\ status \in Active /\ kind[c] = "plan"
    /\ status' = "running" /\ verdict' = FALSE
    /\ call' = [call EXCEPT ![c] = "succeeded"] /\ toHost' = Append(toHost, Result(c))
    /\ UNCHANGED <<appr, held, executing>>

\* completeTask: with work to judge the run is verifying and has a verdict; with
\* none the status stays and the outcome is cleared.
CompleteCall(c) ==
    /\ status \in Active /\ kind[c] = "complete"
    /\ \/ /\ Move("verifying") /\ verdict' = TRUE
          /\ call' = [call EXCEPT ![c] = "succeeded"]
       \/ /\ ~CanTransition(status, "verifying") /\ UNCHANGED <<status, verdict>>
          /\ call' = [call EXCEPT ![c] = "failed"]
       \/ /\ UNCHANGED status /\ verdict' = FALSE
          /\ call' = [call EXCEPT ![c] = "succeeded"]
    /\ toHost' = Append(toHost, Result(c))
    /\ UNCHANGED <<appr, held, executing>>

OnToolRequest ==
    /\ Receive("tool.request")
    /\ LET c == Head(toMain).call
       IN \/ RefuseCall(c) \/ DenyCall(c) \/ RunCall(c)
          \/ AskUser(c) \/ PlanCall(c) \/ CompleteCall(c)
    /\ UNCHANGED <<starting, send, messages, granted, agentVars, ghosts>>

LateEvent == status \in IgnoreLate

\* agent.completed without an error: a verdict given by task_complete is kept,
\* otherwise the completion gate is applied now; both go through 'verifying'.
OnCompleted ==
    /\ Receive("agent.completed")
    /\ IF LateEvent \/ ~CanTransition(status, "verifying")
       THEN UNCHANGED <<status, verdict>>
       ELSE /\ status' = "completed"
            /\ verdict' \in IF verdict THEN {status = "verifying"} ELSE BOOLEAN
    /\ UNCHANGED <<starting, send, messages, callVars, agentVars, toHost, ghosts>>

\* agent.failed, and agent.completed that carries an error message.
OnFailed ==
    /\ Receive("agent.failed")
    /\ IF LateEvent THEN UNCHANGED <<status, verdict>>
       ELSE Move("failed") /\ verdict' = FALSE
    /\ UNCHANGED <<starting, send, messages, callVars, agentVars, toHost, ghosts>>

OnExhausted ==
    /\ Receive("agent.budget_exhausted")
    /\ IF LateEvent THEN UNCHANGED <<status, verdict, stopped>>
       ELSE BudgetExhausted(status)
    /\ UNCHANGED <<starting, send, messages, callVars, agentVars, toHost, sessions, stale>>

\* Faulty variant: a failure is not reported to the agent.
DeliveredIfOk(ok) == ok
Delivered(ok) == ok \/ status \in Active

\* The Tool Runner answered.  A success is always passed on, a failure only while
\* the run is active; a receipt that was cancelled keeps that verdict.
FinishCall(c, ok) ==
    /\ c \in executing /\ executing' = executing \ {c}
    /\ call' = Sticky(c, IF ok THEN "succeeded" ELSE "failed")
    /\ toHost' = IF Delivered(ok) THEN Append(toHost, Result(c)) ELSE toHost
    /\ UNCHANGED <<mainVars, appr, held, granted, agentVars, toMain, ghosts>>

-----------------------------------------------------------------------------
(* The Agent Host *)

Take(type) == toHost # <<>> /\ Head(toHost).type = type /\ toHost' = Tail(toHost)

ReportFailedStart(s) == toMain' = Append(toMain, Failed(s))

\* startRun refuses a second agent for the run; creating the runtime may fail too.
HostStart ==
    /\ Take("start")
    /\ LET s == Head(toHost).sess
       IN \/ /\ agent = 0 /\ agent' = s
             /\ aborted' = FALSE /\ exhausted' = FALSE /\ waiting' = {} /\ UNCHANGED toMain
          \/ /\ ReportFailedStart(s)
             /\ UNCHANGED <<agent, aborted, exhausted, waiting>>
    /\ UNCHANGED <<mainVars, callVars, kind, ghosts>>

\* Faulty variant: abort leaves the outstanding calls open.
HostCancelKeepsWaiting ==
    /\ Take("cancel") /\ aborted' = (aborted \/ agent # 0) /\ UNCHANGED waiting
    /\ UNCHANGED <<mainVars, callVars, toMain, agent, exhausted, kind, ghosts>>

\* abort() rejects the calls the agent waits for; without an agent it is dropped.
HostCancel ==
    /\ Take("cancel") /\ aborted' = (aborted \/ agent # 0) /\ waiting' = {}
    /\ UNCHANGED <<mainVars, callVars, toMain, agent, exhausted, kind, ghosts>>

\* The text is queued in the agent, or dropped when there is none.
HostSteer == Take("steer") /\ UNCHANGED <<mainVars, callVars, agentVars, toMain, ghosts>>

HostResult ==
    /\ Take("tool.result") /\ waiting' = waiting \ {Head(toHost).call}
    /\ UNCHANGED <<mainVars, callVars, toMain, agent, aborted, exhausted, kind, ghosts>>

\* The model asks for a tool; several at once only where all of them are parallel.
AgentRequest(c, k) ==
    /\ agent # 0 /\ ~aborted /\ kind[c] = "none"
    /\ waiting = {} \/ (k \in Parallel /\ \A d \in waiting : kind[d] \in Parallel)
    /\ kind' = [kind EXCEPT ![c] = k] /\ waiting' = waiting \cup {c}
    /\ toMain' = Append(toMain, Request(agent, c))
    /\ UNCHANGED <<mainVars, callVars, toHost, agent, aborted, exhausted, ghosts>>

\* The agent loop ended; after a budget event it does so silently.
AgentEnd ==
    /\ agent # 0 /\ waiting = {} /\ agent' = 0 /\ aborted' = FALSE /\ exhausted' = FALSE
    /\ IF exhausted THEN UNCHANGED toMain
       ELSE \E e \in {Completed(agent), Failed(agent)} : toMain' = Append(toMain, e)
    /\ UNCHANGED <<mainVars, callVars, toHost, waiting, kind, ghosts>>

\* exhaustBudget: the duration timer, or one model turn too many.
AgentExhaust ==
    /\ agent # 0 /\ ~exhausted /\ exhausted' = TRUE /\ aborted' = TRUE /\ waiting' = {}
    /\ toMain' = Append(toMain, Exhausted(agent))
    /\ UNCHANGED <<mainVars, callVars, toHost, agent, kind, ghosts>>

-----------------------------------------------------------------------------
UserStep == Resume \/ SendRead \/ SendSteer \/ SendStart \/ SendRefused \/ Pause \/ CancelRun
AnswerStep == \E c \in Calls : Approve(c) \/ Decline(c)
MainStep == \/ FinishStart \/ StartFails
            \/ OnToolRequest \/ OnCompleted \/ OnFailed \/ OnExhausted
            \/ \E c \in Calls, ok \in BOOLEAN : FinishCall(c, ok)
HostStep == \/ HostStart \/ HostCancel \/ HostSteer \/ HostResult
            \/ \E c \in Calls, k \in ToolKinds : AgentRequest(c, k)
            \/ AgentEnd \/ AgentExhaust
FaultStep == ChromeDisconnect \/ WorkerFailure \/ AppRestart

Next == UserStep \/ AnswerStep \/ MainStep \/ HostStep \/ FaultStep

Spec == Init /\ [][Next]_vars

\* Both event loops run, a started preparation ends, an agent without an open call
\* ends, and its duration timer fires.  Nothing is assumed of the user, of the model's
\* choice of calls, of the Tool Runner, or of faults.
Fairness ==
    /\ WF_vars(FinishStart \/ StartFails)
    /\ WF_vars(OnToolRequest \/ OnCompleted \/ OnFailed \/ OnExhausted)
    /\ WF_vars(HostStart \/ HostCancel \/ HostSteer \/ HostResult)
    /\ WF_vars(AgentEnd) /\ WF_vars(AgentExhaust)

\* The host alone: it takes its commands, and an agent without an open call ends.
HostSpec ==
    Spec /\ WF_vars(HostStart \/ HostCancel \/ HostSteer \/ HostResult) /\ WF_vars(AgentEnd)

-----------------------------------------------------------------------------
(* Properties *)

\* Whatever the agent waits for is on its way: asked for, under way, a question the
\* user can answer, answered, or about to be given up.  No handler may drop a call.
EveryCallIsAnswered ==
    \A c \in waiting :
        \/ c \in executing \cup held
        \/ \E i \in 1..Len(toMain) : toMain[i].type = "tool.request" /\ toMain[i].call = c
        \/ \E i \in 1..Len(toHost) : toHost[i] \in {Result(c), Cancel}

\* A verdict is shown for a run that is being verified or completed: every tool call,
\* question, stop, restart and message that takes the run elsewhere withdraws it, each in
\* a handler that has to clear the outcome itself.  One handler forgets to: the answer
\* to a question of an earlier session takes a judged run back to work with its verdict
\* (respondToApproval), and only that.
VerdictIsCurrent ==
    [][verdict' => \/ status' \in {"verifying", "completed"}
                   \/ verdict /\ status = "running" /\ status' = "running"
                   \/ AnswerStep]_vars

Allowed(c) == \/ kind[c] \in {"auto", "plan", "complete"}
              \/ appr[c] = "approved"
              \/ kind[c] = "ask" /\ granted

\* Nothing the policy wants confirmed reaches the Tool Runner without an approval
\* of its own, or for "ask" a stored grant; a refused call never does.  This holds
\* across pauses, recoveries and answers that arrive when the run has moved on.
EffectsAreApproved ==
    \A c \in Calls : c \in executing \/ call[c] = "succeeded" => Allowed(c)

\* "Cancellation is a durable recovery verdict" (updateToolCall): whatever settles
\* late, a cancelled receipt never claims another outcome.
CancelledIsFinal ==
    [][\A c \in Calls : call[c] = "cancelled" => call'[c] = "cancelled"]_vars

\* A stored question that Main holds no promise for cannot be answered.
Orphaned(c) == appr[c] = "pending" /\ c \notin held

\* A run that waits for an answer has a question stored, and Main holds the promise that
\* respondToApproval resolves, whatever stops, expires and is answered late.  A question
\* is orphaned in one way only: an agent of an earlier session asks while a message has
\* the run reopened, and 'understanding' may not wait for approvals (waitForApproval).
QuestionIsAnswerable ==
    /\ [](status = "waiting_approval" => \E c \in Calls : appr[c] = "pending")
    /\ [][\A c \in Calls : Orphaned(c)' => Orphaned(c) \/ (OnToolRequest /\ status = "understanding")]_vars

\* handleAgentEvent: "Once the durable state says execution is no longer active,
\* all late text, tool and terminal events are ignored": what a session that was
\* stopped still sends does not move the run.
LateEventsAreIgnored ==
    [][(OnCompleted \/ OnFailed \/ OnExhausted) /\ Head(toMain).sess <= stale
         => status' = status]_vars

\* Recovery "requires an explicit resume before continuing": what a crash paused is
\* not taken up by anything but the user.
RecoveryWaitsForResume ==
    [][stopped = "crash" /\ status = "paused" => status' \notin Active]_vars

\* Once nothing of Main's own is in flight, a run that the user, the browser or a
\* crash stopped is not revived by what its workers still send or finish, nor by an
\* answer to one of its old questions.
StoppedStaysStopped ==
    [][(/\ stopped \in {"user", "bridge", "crash"} /\ stopped' = stopped
        /\ status \notin Active /\ starting = 0 /\ send = NoSend)
         => status' \notin Active]_vars

\* "Apply the same deterministic completion gate" (finalizeTurn): a run that comes to
\* its end with a verdict keeps one, the old or a new one.
CompletionIsJudged ==
    [][OnCompleted /\ status' = "completed" /\ verdict => status = "completed" \/ verdict']_vars

Phase(s) == IF s \in Terminal THEN "ended"
            ELSE IF s \in Active THEN "working" ELSE "parked"

Contract == INSTANCE RunContract WITH phase <- Phase(status), verdict <- verdict

\* The run as its user sees it keeps RunContract: it ends or is parked only out of
\* work, and comes back from an end only by a new message.
KeepsContract == Contract!Spec

\* A session that was stopped ends by the host's own doing, without an answer from Main
\* or the duration timer: the abort reaches its agent, and the calls the agent waited
\* for are given up, however answers, steering and the next start interleave.
StoppedSessionEnds ==
    \A s \in 1..MaxSessions : (agent = s /\ s <= stale) ~> agent # s

\* A run that is worked on comes to rest: it ends, is parked, or waits for the user.
\* Open questions are excluded, since the user need not answer them, and so are
\* messages: one that withdraws a verdict can set a run going that a failure of the
\* workers has paused since it was read (SendSteer), and nothing works on it then.
WorkComesToRest ==
    Fairness /\ [](messages = 0 /\ \A c \in Calls : kind[c] \notin {"ask", "once"})
        => (status \in Active ~> status \notin Active)

\* A run and its agents never go on for ever unattended: what was stopped ends at the
\* host, and what works comes to rest.
RunsComeToRest == StoppedSessionEnds /\ WorkComesToRest
=============================================================================
