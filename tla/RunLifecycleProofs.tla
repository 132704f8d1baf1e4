-------------------------- MODULE RunLifecycleProofs --------------------------
(***************************************************************************)
(* Theorems about RunLifecycle, for any set of calls and any bounds; the   *)
(* last one is about patient users, the others about all.                  *)
(***************************************************************************)
EXTENDS RunLifecycle, TLAPS

LEMMA SessionFacts ==
    /\ 0 \in Session /\ 1 \in Session /\ Session \subseteq Nat
    /\ MaxSessions \in Nat /\ MaxMessages \in Nat /\ MaxStarts \in Nat
  BY BoundsAssumption DEF Session

\* What is posted is a command or an event, and what is read is one as well.
LEMMA ChannelFacts ==
    /\ Cancel \in HostCommands /\ Steer \in HostCommands
    /\ \A s \in Session : Start(s) \in HostCommands
    /\ \A c \in Calls : Result(c) \in HostCommands
    /\ \A s \in Session : Completed(s) \in HostEvents /\ Failed(s) \in HostEvents
                           /\ Exhausted(s) \in HostEvents
    /\ \A s \in Session, c \in Calls : Request(s, c) \in HostEvents
    /\ \A q \in Seq(HostCommands) : q # <<>> => Head(q) \in HostCommands /\ Tail(q) \in Seq(HostCommands)
    /\ \A q \in Seq(HostEvents) : q # <<>> => Head(q) \in HostEvents /\ Tail(q) \in Seq(HostEvents)
    /\ \A q \in Seq(HostCommands), m \in HostCommands : Append(q, m) \in Seq(HostCommands)
    /\ \A q \in Seq(HostEvents), m \in HostEvents : Append(q, m) \in Seq(HostEvents)
    /\ \A m \in HostCommands : m.type = "start" => m.sess \in Session
    /\ \A m \in HostEvents : m.type = "tool.request" => m.call \in Calls
<1>1. /\ \A q \in Seq(HostCommands) : q # <<>> => Head(q) \in HostCommands /\ Tail(q) \in Seq(HostCommands)
      /\ \A q \in Seq(HostEvents) : q # <<>> => Head(q) \in HostEvents /\ Tail(q) \in Seq(HostEvents)
      /\ \A q \in Seq(HostCommands), m \in HostCommands : Append(q, m) \in Seq(HostCommands)
      /\ \A q \in Seq(HostEvents), m \in HostEvents : Append(q, m) \in Seq(HostEvents)
  OBVIOUS
<1>2. /\ \A m \in HostCommands : m.type = "start" => m.sess \in Session
      /\ \A m \in HostEvents : m.type = "tool.request" => m.call \in Calls
  BY DEF HostCommands, HostEvents, Cancel, Steer, Start, Result, Request, Completed, Failed, Exhausted
<1>3. /\ Cancel \in HostCommands /\ Steer \in HostCommands
      /\ \A s \in Session : Start(s) \in HostCommands
      /\ \A c \in Calls : Result(c) \in HostCommands
  BY DEF HostCommands
<1>4. /\ \A s \in Session : Completed(s) \in HostEvents /\ Failed(s) \in HostEvents
                              /\ Exhausted(s) \in HostEvents
      /\ \A s \in Session, c \in Calls : Request(s, c) \in HostEvents
  BY DEF HostEvents
<1> QED BY <1>1, <1>2, <1>3, <1>4

LEMMA InitType == Init => TypeOK
<1> SUFFICES ASSUME Init PROVE TypeOK
  OBVIOUS
<1>1. CountTypeOK
  BY SessionFacts DEF Init, CountTypeOK
<1>2. MainTypeOK
  BY DEF Init, MainTypeOK, RunStatus, Sends, NoSend, Stoppers
<1>3. CallTypeOK
  BY DEF Init, CallTypeOK, CallStates, ApprovalStates
<1>4. AgentTypeOK
  BY DEF Init, AgentTypeOK
<1>5. ChannelTypeOK
  BY DEF Init, ChannelTypeOK
<1> QED BY <1>1, <1>2, <1>3, <1>4, <1>5 DEF TypeOK

USE DEF TypeOK, CountTypeOK, MainTypeOK, CallTypeOK, AgentTypeOK, ChannelTypeOK,
        mainVars, callVars, agentVars, ghosts

LEMMA UserStepType == ASSUME TypeOK, UserStep PROVE TypeOK'
<1>1. CASE Resume
  <2>1. CountTypeOK'
    BY <1>1, SessionFacts, ChannelFacts DEF Session, Resume, BeginStart, BudgetExhausted
  <2>2. MainTypeOK' /\ CallTypeOK' /\ AgentTypeOK' /\ ChannelTypeOK'
    BY <1>1, <2>1, SessionFacts, ChannelFacts
       DEF Resume, BeginStart, BudgetExhausted, Stoppers, RunStatus, CallStates,
           ApprovalStates, Sends, NoSend, Terminal
  <2> QED BY <2>1, <2>2
<1>2. CASE SendRead
  <2>1. CountTypeOK'
    BY <1>2, SessionFacts, ChannelFacts DEF Session, SendRead
  <2>2. MainTypeOK' /\ CallTypeOK' /\ AgentTypeOK' /\ ChannelTypeOK'
    BY <1>2, <2>1, SessionFacts, ChannelFacts
       DEF SendRead, Stoppers, RunStatus, CallStates, ApprovalStates, Sends, NoSend,
           Terminal
  <2> QED BY <2>1, <2>2
<1>3. CASE SendSteer
  <2>1. CountTypeOK'
    BY <1>3, SessionFacts, ChannelFacts DEF Session, SendSteer, Move
  <2>2. MainTypeOK'
    BY <1>3, <2>1, SessionFacts, ChannelFacts
       DEF SendSteer, Move, RunStatus, Stoppers, Sends, NoSend, Terminal
  <2>3. CallTypeOK' /\ AgentTypeOK' /\ ChannelTypeOK'
    BY <1>3, <2>1, SessionFacts, ChannelFacts
       DEF SendSteer, Move, CallStates, ApprovalStates
  <2> QED BY <2>1, <2>2, <2>3
<1>4. CASE SendStart
  <2>1. CountTypeOK'
    BY <1>4, SessionFacts, ChannelFacts DEF Session, SendStart, BeginStart, BudgetExhausted
  <2>2. MainTypeOK' /\ CallTypeOK' /\ AgentTypeOK' /\ ChannelTypeOK'
    BY <1>4, <2>1, SessionFacts, ChannelFacts
       DEF SendStart, BeginStart, BudgetExhausted, Stoppers, RunStatus, CallStates,
           ApprovalStates, Sends, NoSend, Terminal
  <2> QED BY <2>1, <2>2
<1>5. CASE SendRefused
  <2>1. CountTypeOK'
    BY <1>5, SessionFacts, ChannelFacts DEF Session, SendRefused
  <2>2. MainTypeOK' /\ CallTypeOK' /\ AgentTypeOK' /\ ChannelTypeOK'
    BY <1>5, <2>1, SessionFacts, ChannelFacts
       DEF SendRefused, Stoppers, RunStatus, CallStates, ApprovalStates, Sends, NoSend,
           Terminal
  <2> QED BY <2>1, <2>2
<1>6. CASE Pause
  <2>1. CountTypeOK'
    BY <1>6, SessionFacts, ChannelFacts DEF Session, Pause, StopRun, CancelPendingWork, Move
  <2>2. MainTypeOK' /\ CallTypeOK' /\ AgentTypeOK' /\ ChannelTypeOK'
    BY <1>6, <2>1, SessionFacts, ChannelFacts
       DEF Pause, StopRun, CancelPendingWork, Move, Stoppers, RunStatus, CallStates,
           ApprovalStates, Sends, NoSend, Terminal
  <2> QED BY <2>1, <2>2
<1>7. CASE CancelRun
  <2>1. CountTypeOK'
    BY <1>7, SessionFacts, ChannelFacts DEF Session, CancelRun, StopRun, CancelPendingWork, Move
  <2>2. MainTypeOK' /\ CallTypeOK' /\ AgentTypeOK' /\ ChannelTypeOK'
    BY <1>7, <2>1, SessionFacts, ChannelFacts
       DEF CancelRun, StopRun, CancelPendingWork, Move, Stoppers, RunStatus, CallStates,
           ApprovalStates, Sends, NoSend, Terminal
  <2> QED BY <2>1, <2>2
<1> QED BY <1>1, <1>2, <1>3, <1>4, <1>5, <1>6, <1>7 DEF UserStep

LEMMA AnswerStepType == ASSUME TypeOK, AnswerStep PROVE TypeOK'
<1>1. ASSUME NEW c \in Calls, Approve(c) PROVE TypeOK'
  <2>1. CountTypeOK'
    BY <1>1, SessionFacts, ChannelFacts DEF Session, Approve, Sticky
  <2>2. MainTypeOK'
    BY <1>1, <2>1, SessionFacts, ChannelFacts
       DEF Approve, Sticky, RunStatus, Stoppers, Sends, NoSend, Terminal
  <2>3. CallTypeOK'
    BY <1>1
       DEF Approve, Sticky, CallStates, ApprovalStates
  <2>4. AgentTypeOK' /\ ChannelTypeOK'
    BY <1>1, <2>1, SessionFacts, ChannelFacts
       DEF Approve, Sticky
  <2> QED BY <2>1, <2>2, <2>3, <2>4
<1>2. ASSUME NEW c \in Calls, Decline(c) PROVE TypeOK'
  <2>1. CountTypeOK'
    BY <1>2, SessionFacts, ChannelFacts DEF Session, Decline, Sticky, Answers
  <2>2. MainTypeOK'
    BY <1>2, <2>1, SessionFacts, ChannelFacts
       DEF Decline, Sticky, Answers, RunStatus, Stoppers, Sends, NoSend, Terminal
  <2>3. CallTypeOK'
    BY <1>2, <2>1, SessionFacts, ChannelFacts
       DEF Decline, Sticky, Answers, CallStates, ApprovalStates
  <2>4. AgentTypeOK'
    BY <1>2 DEF Decline
  <2>5. ChannelTypeOK'
    <3>1. toHost' \in {toHost, Append(toHost, Result(c))} /\ toMain' = toMain
      BY <1>2 DEF Decline
    <3> QED BY <3>1, ChannelFacts
  <2> QED BY <2>1, <2>2, <2>3, <2>4, <2>5
<1> QED BY <1>1, <1>2 DEF AnswerStep

LEMMA MainStepType == ASSUME TypeOK, MainStep PROVE TypeOK'
<1>1. CASE FinishStart
  <2>1. CountTypeOK'
    BY <1>1, SessionFacts, ChannelFacts DEF Session, FinishStart, Move
  <2>2. MainTypeOK' /\ CallTypeOK' /\ AgentTypeOK' /\ ChannelTypeOK'
    BY <1>1, <2>1, SessionFacts, ChannelFacts
       DEF FinishStart, Move, Stoppers, RunStatus, CallStates, ApprovalStates, Sends,
           NoSend, Terminal
  <2> QED BY <2>1, <2>2
<1>2. CASE StartFails
  <2>1. CountTypeOK'
    BY <1>2, SessionFacts, ChannelFacts DEF Session, StartFails
  <2>2. MainTypeOK'
    BY <1>2, <2>1, SessionFacts, ChannelFacts
       DEF StartFails, RunStatus, Stoppers, Sends, NoSend, Terminal
  <2>3. CallTypeOK' /\ AgentTypeOK' /\ ChannelTypeOK'
    BY <1>2, <2>1, SessionFacts, ChannelFacts
       DEF StartFails, CallStates, ApprovalStates
  <2> QED BY <2>1, <2>2, <2>3
<1>3. CASE OnToolRequest
  <2>1. CountTypeOK'
    BY <1>3, SessionFacts, ChannelFacts DEF Session, OnToolRequest, Receive, RefuseCall, DenyCall, RunCall, AskUser, PlanCall, CompleteCall, Base, BaseVerdict, Move
  <2> DEFINE c == Head(toMain).call
  <2>2. c \in Calls /\ toMain' \in Seq(HostEvents)
    BY <1>3, ChannelFacts DEF OnToolRequest, Receive
  <2>3. RefuseCall(c) \/ DenyCall(c) \/ RunCall(c) \/ AskUser(c) \/ PlanCall(c) \/ CompleteCall(c)
    BY <1>3 DEF OnToolRequest
  <2> HIDE DEF c
  <2>4. MainTypeOK'
    BY <1>3, <2>3 DEF OnToolRequest, RefuseCall, DenyCall, RunCall, AskUser, PlanCall,
          CompleteCall, Base, BaseVerdict, Move, RunStatus
  <2>5. AgentTypeOK'
    BY <1>3 DEF OnToolRequest
  <2>6. CallTypeOK' /\ toHost' \in Seq(HostCommands)
    <3>4. granted' = granted
      BY <1>3 DEF OnToolRequest
    <3>1. CASE RefuseCall(c) \/ DenyCall(c) \/ RunCall(c)
      BY <2>2, <3>1, ChannelFacts DEF CallStates, RefuseCall, DenyCall, RunCall
    <3>2. CASE AskUser(c)
      BY <2>2, <3>2, ChannelFacts DEF CallStates, ApprovalStates, AskUser
    <3>3. CASE PlanCall(c) \/ CompleteCall(c)
      <4>1. call' \in [Calls -> CallStates]
        BY <2>2, <3>3 DEF CallStates, PlanCall, CompleteCall
      <4>2. /\ UNCHANGED <<appr, held, executing>>
            /\ toHost' = Append(toHost, Result(c))
        BY <3>3 DEF PlanCall, CompleteCall
      <4> QED BY <2>2, <3>4, <4>1, <4>2, ChannelFacts
    <3> QED BY <2>3, <3>1, <3>2, <3>3, <3>4
  <2> QED BY <2>1, <2>2, <2>4, <2>5, <2>6
<1>4. CASE OnCompleted
  <2>1. CountTypeOK'
    BY <1>4, SessionFacts, ChannelFacts DEF Session, OnCompleted, Receive
  <2>2. MainTypeOK'
    BY <1>4, <2>1, SessionFacts, ChannelFacts
       DEF OnCompleted, Receive, RunStatus, Stoppers, Sends, NoSend, Terminal
  <2>3. CallTypeOK' /\ AgentTypeOK' /\ ChannelTypeOK'
    BY <1>4, <2>1, SessionFacts, ChannelFacts
       DEF OnCompleted, Receive, CallStates, ApprovalStates
  <2> QED BY <2>1, <2>2, <2>3
<1>5. CASE OnFailed
  <2>1. CountTypeOK'
    BY <1>5, SessionFacts, ChannelFacts DEF Session, OnFailed, Receive, Move
  <2>2. MainTypeOK'
    BY <1>5, <2>1, SessionFacts, ChannelFacts
       DEF OnFailed, Receive, Move, RunStatus, Stoppers, Sends, NoSend, Terminal
  <2>3. CallTypeOK' /\ AgentTypeOK' /\ ChannelTypeOK'
    BY <1>5, <2>1, SessionFacts, ChannelFacts
       DEF OnFailed, Receive, Move, CallStates, ApprovalStates
  <2> QED BY <2>1, <2>2, <2>3
<1>6. CASE OnExhausted
  <2>1. CountTypeOK'
    BY <1>6, SessionFacts, ChannelFacts DEF Session, OnExhausted, Receive, BudgetExhausted
  <2>2. MainTypeOK'
    BY <1>6, <2>1, SessionFacts, ChannelFacts
       DEF OnExhausted, Receive, BudgetExhausted, RunStatus, Stoppers, Sends, NoSend,
           Terminal
  <2>3. CallTypeOK' /\ AgentTypeOK' /\ ChannelTypeOK'
    BY <1>6, <2>1, SessionFacts, ChannelFacts
       DEF OnExhausted, Receive, BudgetExhausted, CallStates, ApprovalStates
  <2> QED BY <2>1, <2>2, <2>3
<1>7. ASSUME NEW c \in Calls, NEW ok \in BOOLEAN, FinishCall(c, ok) PROVE TypeOK'
  <2>1. CountTypeOK'
    BY <1>7, SessionFacts, ChannelFacts DEF Session, FinishCall, Sticky, Delivered
  <2>2. MainTypeOK' /\ CallTypeOK' /\ AgentTypeOK' /\ ChannelTypeOK'
    BY <1>7, <2>1, SessionFacts, ChannelFacts
       DEF FinishCall, Sticky, Delivered, Stoppers, RunStatus, CallStates,
           ApprovalStates, Sends, NoSend, Terminal
  <2> QED BY <2>1, <2>2
<1> QED BY <1>1, <1>2, <1>3, <1>4, <1>5, <1>6, <1>7 DEF MainStep

LEMMA HostStepType == ASSUME TypeOK, HostStep PROVE TypeOK'
<1>1. CASE HostStart
  <2>1. CountTypeOK'
    BY <1>1, SessionFacts, ChannelFacts DEF Session, HostStart, Take, ReportFailedStart
  <2>2. MainTypeOK'
    BY <1>1, <2>1, SessionFacts, ChannelFacts
       DEF HostStart, Take, ReportFailedStart, RunStatus, Stoppers, Sends, NoSend,
           Terminal
  <2>3. CallTypeOK' /\ AgentTypeOK' /\ ChannelTypeOK'
    BY <1>1, <2>1, SessionFacts, ChannelFacts
       DEF HostStart, Take, ReportFailedStart, CallStates, ApprovalStates
  <2> QED BY <2>1, <2>2, <2>3
<1>2. CASE HostCancel
  <2>1. CountTypeOK'
    BY <1>2, SessionFacts, ChannelFacts DEF Session, HostCancel, Take
  <2>2. MainTypeOK' /\ CallTypeOK' /\ AgentTypeOK' /\ ChannelTypeOK'
    BY <1>2, <2>1, SessionFacts, ChannelFacts
       DEF HostCancel, Take, Stoppers, RunStatus, CallStates, ApprovalStates, Sends,
           NoSend, Terminal
  <2> QED BY <2>1, <2>2
<1>3. CASE HostSteer
  <2>1. CountTypeOK'
    BY <1>3, SessionFacts, ChannelFacts DEF Session, HostSteer, Take
  <2>2. MainTypeOK' /\ CallTypeOK' /\ AgentTypeOK' /\ ChannelTypeOK'
    BY <1>3, <2>1, SessionFacts, ChannelFacts
       DEF HostSteer, Take, Stoppers, RunStatus, CallStates, ApprovalStates, Sends,
           NoSend, Terminal
  <2> QED BY <2>1, <2>2
<1>4. CASE HostResult
  <2>1. CountTypeOK'
    BY <1>4, SessionFacts, ChannelFacts DEF Session, HostResult, Take
  <2>2. MainTypeOK' /\ CallTypeOK' /\ AgentTypeOK' /\ ChannelTypeOK'
    BY <1>4, <2>1, SessionFacts, ChannelFacts
       DEF HostResult, Take, Stoppers, RunStatus, CallStates, ApprovalStates, Sends,
           NoSend, Terminal
  <2> QED BY <2>1, <2>2
<1>5. ASSUME NEW c \in Calls, NEW k \in ToolKinds, AgentRequest(c, k) PROVE TypeOK'
  <2>1. CountTypeOK'
    BY <1>5, SessionFacts, ChannelFacts DEF Session, AgentRequest
  <2>2. MainTypeOK' /\ CallTypeOK' /\ AgentTypeOK' /\ ChannelTypeOK'
    BY <1>5, <2>1, SessionFacts, ChannelFacts, BoundsAssumption
       DEF AgentRequest, Stoppers, RunStatus, CallStates, ApprovalStates, Sends, NoSend,
           Terminal
  <2> QED BY <2>1, <2>2
<1>6. CASE AgentEnd
  <2>1. CountTypeOK'
    BY <1>6, SessionFacts, ChannelFacts DEF Session, AgentEnd
  <2>2. MainTypeOK'
    BY <1>6, <2>1, SessionFacts, ChannelFacts
       DEF AgentEnd, RunStatus, Stoppers, Sends, NoSend, Terminal
  <2>3. CallTypeOK' /\ AgentTypeOK' /\ ChannelTypeOK'
    BY <1>6, <2>1, SessionFacts, ChannelFacts
       DEF AgentEnd, CallStates, ApprovalStates
  <2> QED BY <2>1, <2>2, <2>3
<1>7. CASE AgentExhaust
  <2>1. CountTypeOK'
    BY <1>7, SessionFacts, ChannelFacts DEF Session, AgentExhaust
  <2>2. MainTypeOK' /\ CallTypeOK' /\ AgentTypeOK' /\ ChannelTypeOK'
    BY <1>7, <2>1, SessionFacts, ChannelFacts
       DEF AgentExhaust, Stoppers, RunStatus, CallStates, ApprovalStates, Sends, NoSend,
           Terminal
  <2> QED BY <2>1, <2>2
<1> QED BY <1>1, <1>2, <1>3, <1>4, <1>5, <1>6, <1>7 DEF HostStep

LEMMA FaultStepType == ASSUME TypeOK, FaultStep PROVE TypeOK'
<1>1. CASE ChromeDisconnect
  <2>1. CountTypeOK'
    BY <1>1, SessionFacts, ChannelFacts DEF Session, ChromeDisconnect, StopRun, CancelPendingWork, Move
  <2>2. MainTypeOK' /\ CallTypeOK' /\ AgentTypeOK' /\ ChannelTypeOK'
    BY <1>1, <2>1, SessionFacts, ChannelFacts
       DEF ChromeDisconnect, StopRun, CancelPendingWork, Move, Stoppers, RunStatus,
           CallStates, ApprovalStates, Sends, NoSend, Terminal
  <2> QED BY <2>1, <2>2
<1>2. CASE WorkerFailure
  <2>1. CountTypeOK'
    BY <1>2, SessionFacts, ChannelFacts DEF Session, WorkerFailure, Recover, CancelPendingWork
  <2>2. MainTypeOK'
    BY <1>2, <2>1, SessionFacts, ChannelFacts
       DEF WorkerFailure, Recover, CancelPendingWork, RunStatus, Stoppers, Sends,
           NoSend, Terminal
  <2>3. CallTypeOK'
    BY <1>2, <2>1, SessionFacts, ChannelFacts
       DEF WorkerFailure, Recover, CancelPendingWork, CallStates, ApprovalStates
  <2>4. AgentTypeOK'
    BY <1>2 DEF WorkerFailure, Recover
  <2>5. ChannelTypeOK'
    BY <1>2, ChannelFacts DEF WorkerFailure, Recover
  <2> QED BY <2>1, <2>2, <2>3, <2>4, <2>5
<1>3. CASE AppRestart
  <2>1. CountTypeOK'
    BY <1>3, SessionFacts, ChannelFacts DEF Session, AppRestart, Recover, CancelPendingWork
  <2>2. MainTypeOK'
    BY <1>3, <2>1, SessionFacts, ChannelFacts
       DEF AppRestart, Recover, CancelPendingWork, RunStatus, Stoppers, Sends, NoSend,
           Terminal
  <2>3. CallTypeOK'
    BY <1>3, <2>1, SessionFacts, ChannelFacts
       DEF AppRestart, Recover, CancelPendingWork, CallStates, ApprovalStates
  <2>4. AgentTypeOK'
    BY <1>3 DEF AppRestart, Recover
  <2>5. ChannelTypeOK'
    BY <1>3, ChannelFacts DEF AppRestart, Recover
  <2> QED BY <2>1, <2>2, <2>3, <2>4, <2>5
<1> QED BY <1>1, <1>2, <1>3 DEF FaultStep

LEMMA StutterType == ASSUME TypeOK, UNCHANGED vars PROVE TypeOK'
  BY DEF vars, mainVars, callVars, agentVars, ghosts, TypeOK, CountTypeOK, MainTypeOK,
         CallTypeOK, AgentTypeOK, ChannelTypeOK

\* Every variable keeps the type its comment gives it: statuses stay in the table's
\* domain, queues carry only known messages, and the session counter never passes
\* its bound however the starts in flight interleave.
THEOREM TypeCorrect == Spec => []TypeOK
<1>1. TypeOK /\ [Next]_vars => TypeOK'
  BY UserStepType, AnswerStepType, MainStepType, HostStepType, FaultStepType, StutterType
     DEF Next
<1> QED BY InitType, <1>1, PTL DEF Spec

-----------------------------------------------------------------------------
(* The run implements its contract *)

\* What the contract's steps need: no verdict outlives the work it judged.
VerdictWhileWorking == verdict => status \in Active \cup {"completed"}

\* What the handlers do to status and outcome, in the terms of the contract.
ContractMove ==
    \/ UNCHANGED <<status, verdict>>
    \/ status \in Active /\ VerdictWhileWorking'
    \/ status \in {"paused", "waiting_user"} /\ ~verdict'
    \/ status \in Terminal /\ status' \notin Terminal /\ ~verdict'

LEMMA ContractMoves ==
    ASSUME TypeOK, TypeOK', VerdictWhileWorking, ContractMove
    PROVE  VerdictWhileWorking' /\ [Contract!Next]_<<Phase(status), verdict>>
<1> USE DEF RunStatus, Active, Terminal, Phase, VerdictWhileWorking
<1>1. CASE UNCHANGED <<status, verdict>>
  BY <1>1
<1>2. CASE status \in Active /\ VerdictWhileWorking'
  BY <1>2 DEF Contract!Next, Contract!Judge, Contract!Park, Contract!Finish
<1>3. CASE status \in {"paused", "waiting_user"} /\ ~verdict'
  BY <1>3 DEF Contract!Next, Contract!Resume, Contract!Abandon
<1>4. CASE status \in Terminal /\ status' \notin Terminal /\ ~verdict'
  BY <1>4 DEF Contract!Next, Contract!Reopen
<1> QED BY <1>1, <1>2, <1>3, <1>4 DEF ContractMove

LEMMA StepMoves == ASSUME TypeOK, VerdictWhileWorking, [Next]_vars PROVE ContractMove
<1> USE DEF ContractMove, VerdictWhileWorking, RunStatus, Active, Terminal, CanTransition,
            RunTransitions, Stops
<1>1. CASE UserStep
  <2>1. CASE Resume \/ SendStart
    BY <2>1 DEF Resume, SendStart, BeginStart, BudgetExhausted, Startable
  <2>2. CASE SendSteer
    BY <2>2 DEF SendSteer, Move
  <2>3. CASE SendRead \/ SendRefused
    BY <2>3 DEF SendRead, SendRefused
  <2>4. CASE Pause \/ CancelRun
    BY <2>4 DEF Pause, CancelRun, StopRun, Move
  <2> QED BY <1>1, <2>1, <2>2, <2>3, <2>4 DEF UserStep
<1>2. CASE AnswerStep
  <2> PICK c \in Calls : Approve(c) \/ Decline(c)
    BY <1>2 DEF AnswerStep
  <2>1. CASE Approve(c)
    BY <2>1 DEF Approve
  <2>2. CASE Decline(c)
    BY <2>2 DEF Decline
  <2> QED BY <2>1, <2>2
<1>3. CASE MainStep
  <2>1. CASE FinishStart \/ StartFails
    BY <2>1 DEF FinishStart, StartFails, Move
  <2>2. CASE OnToolRequest
    BY <2>2 DEF OnToolRequest, RefuseCall, DenyCall, RunCall, AskUser, PlanCall, CompleteCall,
                Base, BaseVerdict, Move
  <2>3. CASE OnCompleted \/ OnFailed \/ OnExhausted
    BY <2>3 DEF OnCompleted, OnFailed, OnExhausted, LateEvent, IgnoreLate, BudgetExhausted, Move
  <2>4. CASE \E c \in Calls, ok \in BOOLEAN : FinishCall(c, ok)
    BY <2>4 DEF FinishCall
  <2> QED BY <1>3, <2>1, <2>2, <2>3, <2>4 DEF MainStep
<1>4. CASE HostStep
  BY <1>4 DEF HostStep, HostStart, HostCancel, HostSteer, HostResult, AgentRequest,
              AgentEnd, AgentExhaust
<1>5. CASE FaultStep
  BY <1>5 DEF FaultStep, ChromeDisconnect, StopRun, Move, WorkerFailure, AppRestart, Recover
<1>6. CASE UNCHANGED vars
  BY <1>6 DEF vars
<1> QED BY <1>1, <1>2, <1>3, <1>4, <1>5, <1>6 DEF Next

\* The run as its user sees it implements RunContract: whatever the two workers, the
\* user and a crash do in whatever order, the run ends or parks only out of work, a
\* parked run has no verdict, and an ended one comes back only without its verdict.
THEOREM LifecycleKeepsContract == Spec => KeepsContract
<1>1. Init => VerdictWhileWorking /\ Contract!Init
  BY DEF Init, VerdictWhileWorking, Contract!Init, Phase, Terminal, Active
<1>2. TypeOK /\ TypeOK' /\ VerdictWhileWorking /\ [Next]_vars
        => VerdictWhileWorking' /\ [Contract!Next]_<<Phase(status), verdict>>
  BY StepMoves, ContractMoves
<1> QED BY <1>1, <1>2, TypeCorrect, PTL DEF Spec, KeepsContract, Contract!Spec

-----------------------------------------------------------------------------
(* Nothing unapproved takes effect *)

\* Main has not heard of the call yet.
Untouched(c) == call[c] = "none" /\ appr[c] = "none" /\ c \notin executing \cup held

FreshCalls == \A c \in Calls : kind[c] = "none" => Untouched(c)

IsRequest(i) == toMain[i].type = "tool.request"

RequestsUntouched ==
    \A i \in 1..Len(toMain) :
        IsRequest(i) => kind[toMain[i].call] # "none" /\ Untouched(toMain[i].call)

RequestsOnce ==
    \A i, j \in 1..Len(toMain) :
        IsRequest(i) /\ IsRequest(j) /\ toMain[i].call = toMain[j].call => i = j

\* EffectsAreApproved is not inductive: a call asked for twice could be put to the user
\* again while it is already under way.  It is asked for once, and untouched till then.
RequestInv == FreshCalls /\ RequestsUntouched /\ RequestsOnce

LEMMA QueueFacts ==
    /\ \A q \in Seq(HostEvents) : q # <<>> =>
          /\ 1 \in 1..Len(q) /\ Head(q) = q[1] /\ Len(Tail(q)) = Len(q) - 1
          /\ \A i \in 1..Len(Tail(q)) : i + 1 \in 1..Len(q) /\ Tail(q)[i] = q[i+1]
    /\ \A q \in Seq(HostEvents), m \in HostEvents :
          /\ Len(Append(q, m)) = Len(q) + 1 /\ Append(q, m)[Len(q) + 1] = m
          /\ \A i \in 1..Len(q) : Append(q, m)[i] = q[i]
    /\ \A q \in Seq(HostEvents) : Len(q) \in Nat /\ \A i \in 1..Len(q) : q[i] \in HostEvents
  OBVIOUS

\* Every step but a tool request and its handling leaves untouched calls untouched.
LEMMA OtherStepsRequests ==
    ASSUME TypeOK, RequestInv, kind' = kind,
           \A c \in Calls : Untouched(c) => Untouched(c)',
           \/ toMain' = toMain \/ toMain' = <<>>
           \/ toMain # <<>> /\ toMain' = Tail(toMain)
           \/ \E m \in HostEvents : m.type # "tool.request" /\ toMain' = Append(toMain, m)
    PROVE  RequestInv'
<1> USE DEF RequestInv
<1>1. FreshCalls'
  BY DEF FreshCalls
<1>2. \A i \in 1..Len(toMain) : IsRequest(i) => toMain[i].call \in Calls
  BY QueueFacts, ChannelFacts DEF IsRequest
<1>3. CASE toMain' = toMain
  BY <1>1, <1>2, <1>3 DEF RequestsUntouched, RequestsOnce, IsRequest
<1>4. CASE toMain' = <<>>
  BY <1>1, <1>4 DEF RequestsUntouched, RequestsOnce
<1>5. CASE toMain # <<>> /\ toMain' = Tail(toMain)
  <2>1. \A i \in 1..Len(toMain') : i + 1 \in 1..Len(toMain) /\ toMain'[i] = toMain[i+1]
    BY <1>5, QueueFacts
  <2>2. RequestsUntouched'
    BY <1>2, <2>1 DEF RequestsUntouched, IsRequest
  <2>3. RequestsOnce'
    BY <1>5, <2>1, QueueFacts DEF RequestsOnce, IsRequest
  <2> QED BY <1>1, <2>2, <2>3
<1>6. ASSUME NEW m \in HostEvents, m.type # "tool.request", toMain' = Append(toMain, m)
      PROVE  RequestInv'
  <2>1. \A i \in 1..Len(toMain') : \/ i \in 1..Len(toMain) /\ toMain'[i] = toMain[i]
                                   \/ toMain'[i] = m
    BY <1>6, QueueFacts
  <2>2. RequestsUntouched'
    BY <1>2, <1>6, <2>1 DEF RequestsUntouched, IsRequest
  <2>3. RequestsOnce'
    BY <1>6, <2>1, QueueFacts DEF RequestsOnce, IsRequest
  <2> QED BY <1>1, <2>2, <2>3
<1> QED BY <1>3, <1>4, <1>5, <1>6

LEMMA ToolRequestRequests ==
    ASSUME TypeOK, RequestInv, kind' = kind, toMain # <<>>, toMain' = Tail(toMain),
           Head(toMain).type = "tool.request",
           \A c \in Calls \ {Head(toMain).call} : Untouched(c) => Untouched(c)'
    PROVE  RequestInv'
<1> USE DEF RequestInv
<1> DEFINE h == Head(toMain).call
<1>1. /\ h \in Calls /\ kind[h] # "none" /\ IsRequest(1) /\ toMain[1].call = h
      /\ 1 \in 1..Len(toMain)
  BY QueueFacts, ChannelFacts DEF RequestsUntouched, IsRequest
<1>2. \A i \in 1..Len(toMain) : IsRequest(i) => toMain[i].call \in Calls
  BY QueueFacts, ChannelFacts DEF IsRequest
<1>3. \A i \in 1..Len(toMain') : i + 1 \in 1..Len(toMain) /\ toMain'[i] = toMain[i+1]
  BY QueueFacts
<1>4. FreshCalls'
  BY <1>1 DEF FreshCalls
<1>5. \A i \in 1..Len(toMain') : IsRequest(i)' => toMain'[i].call # h
  BY <1>1, <1>3, QueueFacts DEF RequestsOnce, IsRequest
<1>6. RequestsUntouched'
  BY <1>2, <1>3, <1>5 DEF RequestsUntouched, IsRequest
<1>7. RequestsOnce'
  BY <1>3, QueueFacts DEF RequestsOnce, IsRequest
<1> QED BY <1>4, <1>6, <1>7

LEMMA AgentRequestRequests ==
    ASSUME TypeOK, RequestInv, NEW c \in Calls, NEW k \in ToolKinds, AgentRequest(c, k)
    PROVE  RequestInv'
<1> USE DEF RequestInv
<1>1. /\ kind[c] = "none" /\ kind' = [kind EXCEPT ![c] = k] /\ k # "none"
      /\ toMain' = Append(toMain, Request(agent, c)) /\ Request(agent, c) \in HostEvents
      /\ UNCHANGED <<call, appr, held, executing>>
  BY BoundsAssumption, ChannelFacts DEF AgentRequest, Kinds
<1>2. \A i \in 1..Len(toMain') :
        \/ i \in 1..Len(toMain) /\ toMain'[i] = toMain[i]
        \/ i = Len(toMain) + 1 /\ toMain'[i] = Request(agent, c)
  BY <1>1, QueueFacts
<1>3. \A i \in 1..Len(toMain) : IsRequest(i) => toMain[i].call \in Calls \ {c}
  BY <1>1, QueueFacts, ChannelFacts DEF IsRequest, RequestsUntouched
<1>4. \A d \in Calls : Untouched(d)' <=> Untouched(d)
  BY <1>1 DEF Untouched
<1>5. FreshCalls'
  BY <1>1, <1>4 DEF FreshCalls
<1>6. RequestsUntouched'
  BY <1>1, <1>2, <1>3, <1>4 DEF RequestsUntouched, FreshCalls, IsRequest, Request
<1>7. RequestsOnce'
  BY <1>2, <1>3 DEF RequestsOnce, IsRequest, Request
<1> QED BY <1>5, <1>6, <1>7

\* All the steps that read a request or send one; the others are OtherStepsRequests.
LEMMA StepRequests == ASSUME TypeOK, RequestInv, [Next]_vars PROVE RequestInv'
<1> DEFINE Quiet == /\ kind' = kind /\ \A c \in Calls : Untouched(c) => Untouched(c)'
                    /\ \/ toMain' = toMain \/ toMain' = <<>>
                       \/ toMain # <<>> /\ toMain' = Tail(toMain)
                       \/ \E m \in HostEvents : m.type # "tool.request" /\ toMain' = Append(toMain, m)
<1>1. Quiet => RequestInv'
  BY OtherStepsRequests
<1>2. CASE UserStep
  <2>1. CASE Resume \/ SendStart \/ SendRead \/ SendSteer \/ SendRefused
    BY <1>1, <2>1 DEF Resume, SendStart, BeginStart, SendRead, SendSteer, SendRefused, Untouched
  <2>2. CASE Pause \/ CancelRun
    BY <1>1, <2>2 DEF Pause, CancelRun, StopRun, CancelPendingWork, Untouched
  <2> QED BY <1>2, <2>1, <2>2 DEF UserStep
<1>3. CASE AnswerStep
  <2> PICK c \in Calls : Approve(c) \/ Decline(c)
    BY <1>3 DEF AnswerStep
  <2>1. CASE Approve(c)
    <3>1. kind' = kind /\ toMain' = toMain
      BY <2>1 DEF Approve
    <3>2. ASSUME NEW d \in Calls, Untouched(d) PROVE Untouched(d)'
      <4>1. d # c
        BY <2>1, <3>2 DEF Approve, Untouched
      <4>2. call'[d] = call[d] /\ appr'[d] = appr[d]
        BY <2>1, <4>1 DEF Approve, Sticky
      <4>3. d \notin executing' \cup held'
        BY <2>1, <3>2, <4>1 DEF Approve, Untouched
      <4> QED BY <3>2, <4>2, <4>3 DEF Untouched
    <3> QED BY <1>1, <3>1, <3>2
  <2>2. CASE Decline(c)
    BY <1>1, <2>2 DEF Decline, Sticky, Untouched
  <2> QED BY <2>1, <2>2
<1>4. CASE MainStep
  <2>1. CASE FinishStart \/ StartFails
    BY <1>1, <2>1 DEF FinishStart, StartFails, Untouched
  <2>2. CASE OnToolRequest
    <3> DEFINE h == Head(toMain).call
    <3>1. toMain # <<>> /\ Head(toMain).type = "tool.request" /\ toMain' = Tail(toMain)
      BY <2>2 DEF OnToolRequest, Receive
    <3>2. RefuseCall(h) \/ DenyCall(h) \/ RunCall(h) \/ AskUser(h) \/ PlanCall(h) \/ CompleteCall(h)
      BY <2>2 DEF OnToolRequest
    <3>3. h \in Calls /\ kind' = kind
      BY <2>2, <3>1, ChannelFacts DEF OnToolRequest
    <3>4. \A c \in Calls \ {h} : Untouched(c) => Untouched(c)'
      <4> HIDE DEF h
      <4> QED BY <3>2, <3>3
          DEF RefuseCall, DenyCall, RunCall, AskUser, PlanCall, CompleteCall, Untouched
    <3> QED BY <3>1, <3>3, <3>4, ToolRequestRequests
  <2>3. CASE OnCompleted \/ OnFailed \/ OnExhausted
    BY <1>1, <2>3 DEF OnCompleted, OnFailed, OnExhausted, Receive, Untouched
  <2>4. CASE \E c \in Calls, ok \in BOOLEAN : FinishCall(c, ok)
    BY <1>1, <2>4 DEF FinishCall, Sticky, Untouched
  <2> QED BY <1>4, <2>1, <2>2, <2>3, <2>4 DEF MainStep
<1>5. CASE HostStep
  <2>1. CASE HostStart \/ AgentEnd \/ AgentExhaust
    <3>1. \A s : /\ Completed(s).type # "tool.request" /\ Failed(s).type # "tool.request"
                 /\ Exhausted(s).type # "tool.request"
      BY DEF Completed, Failed, Exhausted
    <3>2. kind' = kind /\ \A c \in Calls : Untouched(c) => Untouched(c)'
      BY <2>1 DEF HostStart, AgentEnd, AgentExhaust, Untouched
    <3>3. toMain' = toMain \/ \E s \in Session :
             \E m \in {Completed(s), Failed(s), Exhausted(s)} : toMain' = Append(toMain, m)
      BY <2>1, ChannelFacts DEF HostStart, AgentEnd, AgentExhaust, Take, ReportFailedStart
    <3> QED BY <1>1, <3>1, <3>2, <3>3, ChannelFacts
  <2>2. CASE HostCancel \/ HostSteer \/ HostResult
    BY <1>1, <2>2 DEF HostCancel, HostSteer, HostResult, Untouched
  <2>3. CASE \E c \in Calls, k \in ToolKinds : AgentRequest(c, k)
    BY <2>3, AgentRequestRequests
  <2> QED BY <1>5, <2>1, <2>2, <2>3 DEF HostStep
<1>6. CASE FaultStep
  BY <1>1, <1>6 DEF FaultStep, ChromeDisconnect, StopRun, WorkerFailure, AppRestart, Recover,
                    CancelPendingWork, Untouched
<1>7. CASE UNCHANGED vars
  BY <1>1, <1>7 DEF vars, Untouched
<1> QED BY <1>2, <1>3, <1>4, <1>5, <1>6, <1>7 DEF Next

\* A step that starts nothing and withdraws no approval.
LEMMA NothingStarted ==
    ASSUME EffectsAreApproved, kind' = kind, granted => granted',
           \A c \in Calls : appr[c] = "approved" => appr'[c] = "approved",
           \A c \in Calls : (c \in executing' \/ call'[c] = "succeeded")
                             => (c \in executing \/ call[c] = "succeeded")
    PROVE  EffectsAreApproved'
  BY DEF EffectsAreApproved, Allowed

LEMMA AnswerApproved ==
    ASSUME TypeOK, EffectsAreApproved, NEW c \in Calls, Approve(c) \/ Decline(c)
    PROVE  EffectsAreApproved'
<1>1. kind' = kind /\ (granted => granted')
  BY DEF Approve, Decline
<1>2. \A d \in Calls : appr[d] = "approved" => appr'[d] = "approved"
  BY DEF Approve, Decline
<1>3. ASSUME NEW d \in Calls, call'[d] = "succeeded" PROVE call[d] = "succeeded"
  BY <1>3 DEF Approve, Decline, Sticky
<1>4. \A d \in Calls : d \in executing' => d \in executing \/ appr'[d] = "approved"
  BY DEF Approve, Decline
<1> QED BY <1>1, <1>2, <1>3, <1>4 DEF EffectsAreApproved, Allowed

LEMMA ToolRequestApproved ==
    ASSUME TypeOK, RequestInv, EffectsAreApproved, OnToolRequest
    PROVE  EffectsAreApproved'
<1> DEFINE h == Head(toMain).call
<1>1. h \in Calls /\ kind' = kind /\ granted' = granted
  BY ChannelFacts DEF OnToolRequest, Receive
<1>2. Untouched(h)
  BY QueueFacts DEF OnToolRequest, Receive, RequestInv, RequestsUntouched, IsRequest
<1>3. RefuseCall(h) \/ DenyCall(h) \/ RunCall(h) \/ AskUser(h) \/ PlanCall(h) \/ CompleteCall(h)
  BY DEF OnToolRequest
<1> HIDE DEF h
<1>4. CASE RefuseCall(h) \/ DenyCall(h)
  BY <1>1, <1>4, NothingStarted DEF RefuseCall, DenyCall
<1>5. CASE RunCall(h)
  BY <1>1, <1>5 DEF RunCall, NeedsApproval, EffectsAreApproved, Allowed
<1>6. CASE AskUser(h)
  BY <1>1, <1>2, <1>6 DEF AskUser, Untouched, EffectsAreApproved, Allowed
<1>7. CASE PlanCall(h)
  BY <1>1, <1>7 DEF PlanCall, EffectsAreApproved, Allowed
<1>8. CASE CompleteCall(h)
  <2>1. appr' = appr /\ executing' = executing /\ kind[h] = "complete"
    BY <1>8 DEF CompleteCall
  <2>2. \A c \in Calls : c # h => call'[c] = call[c]
    BY <1>8 DEF CompleteCall
  <2> QED BY <1>1, <2>1, <2>2 DEF EffectsAreApproved, Allowed
<1> QED BY <1>3, <1>4, <1>5, <1>6, <1>7, <1>8

LEMMA StepApproved ==
    ASSUME TypeOK, RequestInv, EffectsAreApproved, [Next]_vars PROVE EffectsAreApproved'
<1>1. CASE UserStep
  <2>1. CASE Resume \/ SendStart \/ SendRead \/ SendSteer \/ SendRefused
    BY <2>1, NothingStarted DEF Resume, SendStart, BeginStart, SendRead, SendSteer, SendRefused
  <2>2. CASE Pause \/ CancelRun
    BY <2>2, NothingStarted DEF Pause, CancelRun, StopRun, CancelPendingWork
  <2> QED BY <1>1, <2>1, <2>2 DEF UserStep
<1>2. CASE AnswerStep
  BY <1>2, AnswerApproved DEF AnswerStep
<1>3. CASE MainStep
  <2>1. CASE FinishStart \/ StartFails
    BY <2>1, NothingStarted DEF FinishStart, StartFails
  <2>2. CASE OnCompleted \/ OnFailed \/ OnExhausted
    BY <2>2, NothingStarted DEF OnCompleted, OnFailed, OnExhausted
  <2>3. ASSUME NEW c \in Calls, NEW ok \in BOOLEAN, FinishCall(c, ok) PROVE EffectsAreApproved'
    <3>1. kind' = kind /\ appr' = appr /\ granted' = granted
      BY <2>3 DEF FinishCall
    <3>2. c \in executing /\ executing' \subseteq executing
      BY <2>3 DEF FinishCall
    <3>3. \A d \in Calls : call'[d] = "succeeded" => d = c \/ call[d] = "succeeded"
      BY <2>3 DEF FinishCall, Sticky
    <3> QED BY <3>1, <3>2, <3>3 DEF EffectsAreApproved, Allowed
  <2> QED BY <1>3, <2>1, <2>2, <2>3, ToolRequestApproved DEF MainStep
<1>4. CASE HostStep
  <2>1. CASE HostStart \/ HostCancel \/ HostSteer \/ HostResult \/ AgentEnd \/ AgentExhaust
    BY <2>1, NothingStarted
       DEF HostStart, HostCancel, HostSteer, HostResult, AgentEnd, AgentExhaust
  <2>2. ASSUME NEW c \in Calls, NEW k \in ToolKinds, AgentRequest(c, k) PROVE EffectsAreApproved'
    BY <2>2 DEF AgentRequest, RequestInv, FreshCalls, Untouched, EffectsAreApproved, Allowed
  <2> QED BY <1>4, <2>1, <2>2 DEF HostStep
<1>5. CASE FaultStep
  BY <1>5, NothingStarted
     DEF FaultStep, ChromeDisconnect, StopRun, WorkerFailure, AppRestart, Recover, CancelPendingWork
<1>6. CASE UNCHANGED vars
  BY <1>6, NothingStarted DEF vars
<1> QED BY <1>1, <1>2, <1>3, <1>4, <1>5, <1>6 DEF Next

LEMMA InitRequests == Init => RequestInv /\ EffectsAreApproved
  BY DEF Init, RequestInv, FreshCalls, RequestsUntouched, RequestsOnce, Untouched, EffectsAreApproved

\* Nothing the policy wants confirmed is executed, now or after any number of restarts,
\* recoveries and late answers, unless the user approved that call or granted its kind.
THEOREM ApprovalGuardsEffects == Spec => []EffectsAreApproved
<1>1. TypeOK /\ RequestInv /\ EffectsAreApproved /\ [Next]_vars
        => RequestInv' /\ EffectsAreApproved'
  BY StepRequests, StepApproved
<1> QED BY InitRequests, <1>1, TypeCorrect, PTL DEF Spec

LEMMA StepCancelled ==
    ASSUME TypeOK, RequestInv, [Next]_vars, NEW c \in Calls, call[c] = "cancelled"
    PROVE  call'[c] = "cancelled"
<1>1. CASE UserStep
  BY <1>1 DEF UserStep, Resume, SendStart, BeginStart, SendRead, SendSteer, SendRefused,
              Pause, CancelRun, StopRun, CancelPendingWork
<1>2. CASE AnswerStep
  BY <1>2 DEF AnswerStep, Approve, Decline, Sticky
<1>3. CASE OnToolRequest
  <2> DEFINE h == Head(toMain).call
  <2>1. h \in Calls /\ Untouched(h)
    BY <1>3, QueueFacts, ChannelFacts
       DEF OnToolRequest, Receive, RequestInv, RequestsUntouched, IsRequest
  <2>2. RefuseCall(h) \/ DenyCall(h) \/ RunCall(h) \/ AskUser(h) \/ PlanCall(h) \/ CompleteCall(h)
    BY <1>3 DEF OnToolRequest
  <2> HIDE DEF h
  <2>3. c # h
    BY <2>1 DEF Untouched
  <2> QED BY <2>1, <2>2, <2>3 DEF RefuseCall, DenyCall, RunCall, AskUser, PlanCall, CompleteCall
<1>4. CASE MainStep /\ ~OnToolRequest
  BY <1>4 DEF MainStep, FinishStart, StartFails, OnCompleted, OnFailed, OnExhausted, FinishCall, Sticky
<1>5. CASE HostStep
  BY <1>5 DEF HostStep, HostStart, HostCancel, HostSteer, HostResult, AgentRequest, AgentEnd, AgentExhaust
<1>6. CASE FaultStep
  BY <1>6 DEF FaultStep, ChromeDisconnect, StopRun, WorkerFailure, AppRestart, Recover, CancelPendingWork
<1>7. CASE UNCHANGED vars
  BY <1>7 DEF vars
<1> QED BY <1>1, <1>2, <1>3, <1>4, <1>5, <1>6, <1>7 DEF Next

\* "Cancellation is a durable recovery verdict": a receipt that a stop or a crash closed
\* never reports another outcome, whatever the Tool Runner and the user still answer.
THEOREM CancellationIsFinal == Spec => CancelledIsFinal
<1>1. TypeOK /\ RequestInv /\ [Next]_vars
        => [\A c \in Calls : call[c] = "cancelled" => call'[c] = "cancelled"]_vars
  BY StepCancelled
<1>2. TypeOK /\ RequestInv /\ [Next]_vars => RequestInv'
  BY StepRequests
<1> QED BY InitRequests, <1>1, <1>2, TypeCorrect, PTL DEF Spec, CancelledIsFinal

-----------------------------------------------------------------------------
(* Verdicts, questions and stops *)

\* A judged run is verified, completed, or taken back to work by the answer to an old question.
VerdictNear == verdict => status \in {"running", "verifying", "completed"}

\* What a step that leaves a verdict has done.
VerdictStep ==
    verdict' => \/ status' \in {"verifying", "completed"}
                \/ verdict /\ status = "running" /\ status' = "running"
                \/ AnswerStep

LEMMA StepVerdict ==
    ASSUME VerdictNear, [Next]_vars PROVE VerdictNear' /\ (VerdictStep \/ UNCHANGED vars)
<1> USE DEF VerdictNear, VerdictStep
<1>1. CASE UserStep
  <2>1. CASE Resume \/ SendStart
    BY <2>1 DEF Resume, SendStart, BeginStart, BudgetExhausted, Startable
  <2>2. CASE SendSteer
    BY <2>2 DEF SendSteer, Move
  <2>3. CASE SendRead \/ SendRefused
    BY <2>3 DEF SendRead, SendRefused
  <2>4. CASE Pause \/ CancelRun
    BY <2>4 DEF Pause, CancelRun, StopRun, Move
  <2> QED BY <1>1, <2>1, <2>2, <2>3, <2>4 DEF UserStep
<1>2. CASE AnswerStep
  <2> PICK c \in Calls : Approve(c) \/ Decline(c)
    BY <1>2 DEF AnswerStep
  <2>1. verdict' = verdict /\ status' \in {status, "running"}
    <3>1. CASE Approve(c)
      BY <3>1 DEF Approve
    <3>2. CASE Decline(c)
      BY <3>2 DEF Decline
    <3> QED BY <3>1, <3>2
  <2> QED BY <1>2, <2>1
<1>3. CASE MainStep
  <2>1. CASE FinishStart \/ StartFails
    BY <2>1 DEF FinishStart, StartFails, Move
  <2>2. CASE OnToolRequest
    <3> PICK c : RefuseCall(c) \/ DenyCall(c) \/ RunCall(c) \/ AskUser(c) \/ PlanCall(c) \/ CompleteCall(c)
      BY <2>2 DEF OnToolRequest
    <3>1. CASE RefuseCall(c) \/ PlanCall(c) \/ CompleteCall(c)
      BY <3>1 DEF RefuseCall, PlanCall, CompleteCall, Move
    <3>2. CASE AskUser(c)
      <4>1. (status' = status /\ verdict' = verdict) \/ ~verdict'
        BY <3>2 DEF AskUser
      <4>3. verdict => status \in {"running", "verifying", "completed"}
        OBVIOUS
      <4> QED BY <4>1, <4>3
    <3>3. CASE DenyCall(c) \/ RunCall(c)
      BY <3>3 DEF DenyCall, RunCall, Base, BaseVerdict
    <3> QED BY <3>1, <3>2, <3>3
  <2>3. CASE OnCompleted \/ OnFailed \/ OnExhausted
    BY <2>3 DEF OnCompleted, OnFailed, OnExhausted, BudgetExhausted, Move
  <2>4. CASE \E c \in Calls, ok \in BOOLEAN : FinishCall(c, ok)
    BY <2>4 DEF FinishCall, mainVars
  <2> QED BY <1>3, <2>1, <2>2, <2>3, <2>4 DEF MainStep
<1>4. CASE HostStep
  BY <1>4 DEF HostStep, HostStart, HostCancel, HostSteer, HostResult, AgentRequest,
              AgentEnd, AgentExhaust, mainVars
<1>5. CASE FaultStep
  BY <1>5 DEF FaultStep, ChromeDisconnect, StopRun, Move, WorkerFailure, AppRestart, Recover
<1>6. CASE UNCHANGED vars
  BY <1>6 DEF vars, mainVars
<1> QED BY <1>1, <1>2, <1>3, <1>4, <1>5, <1>6 DEF Next

\* A verdict is shown for a run that is being verified or completed; the one way around it is an
\* answer to a question of an earlier session (respondToApproval).  Every handler is a case:
\* what takes a judged run elsewhere clears its outcome.
THEOREM VerdictsAreWithdrawn == Spec => VerdictIsCurrent
<1>1. Init => VerdictNear
  BY DEF Init, VerdictNear
<1>2. VerdictNear /\ [Next]_vars => VerdictNear'
  BY StepVerdict
<1>3. VerdictNear /\ [Next]_vars => [VerdictStep]_vars
  BY StepVerdict
<1> QED BY <1>1, <1>2, <1>3, PTL DEF Spec, VerdictIsCurrent, VerdictStep

\* A run that waits has something stored to wait for.
WaitsForQuestion == status = "waiting_approval" => \E c \in Calls : appr[c] = "pending"

\* What a step that leaves an orphan has done.
OrphanStep == \A c \in Calls : Orphaned(c)' => Orphaned(c) \/ (OnToolRequest /\ status = "understanding")

\* A step that closes no question, or leaves 'waiting_approval', and orphans none.
LEMMA QuietQuestions ==
    ASSUME WaitsForQuestion, appr' = appr, held' = held,
           status' = status \/ status' # "waiting_approval"
    PROVE  WaitsForQuestion' /\ OrphanStep
  BY DEF WaitsForQuestion, OrphanStep, Orphaned

\* A step that closes every question.
LEMMA ClosedQuestions ==
    ASSUME CancelPendingWork, status' # "waiting_approval"
    PROVE  WaitsForQuestion' /\ OrphanStep
  BY DEF WaitsForQuestion, OrphanStep, Orphaned, CancelPendingWork

LEMMA AnsweredQuestions ==
    ASSUME TypeOK, WaitsForQuestion, NEW c \in Calls, Approve(c) \/ Decline(c)
    PROVE  WaitsForQuestion' /\ OrphanStep
<1>1. appr \in [Calls -> ApprovalStates] /\ status \in RunStatus /\ held \subseteq Calls
  BY DEF TypeOK, CallTypeOK, MainTypeOK
<1>2. held' = held \ {c}
  BY DEF Approve, Decline
<1>3. CASE appr[c] # "pending"
  <2>1. appr' = appr /\ status' = status
    BY <1>3 DEF Approve, Decline
  <2> QED BY <1>2, <1>3, <2>1 DEF WaitsForQuestion, OrphanStep, Orphaned
<1>4. CASE appr[c] = "pending"
  <2>1. PICK v \in {"approved", "denied"} : appr' = [appr EXCEPT ![c] = v]
    BY <1>4 DEF Approve, Decline, Answers
  <2>2. appr'[c] # "pending" /\ \A d \in Calls : d # c => appr'[d] = appr[d]
    BY <1>1, <2>1
  <2>3. OrphanStep
    BY <1>2, <2>2 DEF OrphanStep, Orphaned
  <2>4. status' = "waiting_approval" => status = "waiting_approval" /\ (~NonePending(appr') \/ ~CanTransition(status, "running"))
    <3>1. CASE Approve(c)
      BY <1>4, <2>1, <3>1 DEF Approve
    <3>2. CASE Decline(c)
      <4>1. PICK answer \in Answers :
              /\ appr' = [appr EXCEPT ![c] = answer]
              /\ status' = IF NonePending([appr EXCEPT ![c] = answer]) /\ CanTransition(status, "running")
                           THEN "running" ELSE status
        BY <1>4, <3>2 DEF Decline
      <4> QED BY <4>1
    <3> QED BY <3>1, <3>2
  <2>5. status = "waiting_approval" => CanTransition(status, "running")
    BY DEF CanTransition, RunTransitions, Stops
  <2> QED BY <2>3, <2>4, <2>5 DEF WaitsForQuestion, NonePending
<1> QED BY <1>3, <1>4

LEMMA AskedQuestions ==
    ASSUME TypeOK, WaitsForQuestion, OnToolRequest
    PROVE  WaitsForQuestion' /\ OrphanStep
<1> DEFINE h == Head(toMain).call
<1>1. h \in Calls
  BY ChannelFacts DEF OnToolRequest, Receive, TypeOK, ChannelTypeOK
<1>2. RefuseCall(h) \/ DenyCall(h) \/ RunCall(h) \/ AskUser(h) \/ PlanCall(h) \/ CompleteCall(h)
  BY DEF OnToolRequest
<1> HIDE DEF h
<1>3. CASE RefuseCall(h) \/ DenyCall(h) \/ RunCall(h) \/ PlanCall(h) \/ CompleteCall(h)
  <2>1. appr' = appr /\ held' = held
    BY <1>3 DEF RefuseCall, DenyCall, RunCall, PlanCall, CompleteCall
  <2>2. status' = status \/ status' # "waiting_approval"
    BY <1>3 DEF RefuseCall, DenyCall, RunCall, PlanCall, CompleteCall, Base, Move
  <2> QED BY <2>1, <2>2, QuietQuestions
<1>4. CASE AskUser(h)
  <2>1. appr' = [appr EXCEPT ![h] = "pending"] /\ appr \in [Calls -> ApprovalStates]
    BY <1>4 DEF AskUser, TypeOK, CallTypeOK
  <2>2. appr'[h] = "pending" /\ \A d \in Calls : d # h => appr'[d] = appr[d]
    BY <1>1, <2>1
  <2>3. status # "understanding" => CanTransition(Base(h), "waiting_approval")
    BY <1>4 DEF AskUser, Active, CanTransition, RunTransitions, Base, Stops
  <2>4. status # "understanding" => held' = held \cup {h}
    BY <1>4, <2>3 DEF AskUser
  <2>5. held \subseteq held'
    BY <1>4 DEF AskUser
  <2> QED BY <1>1, <2>2, <2>4, <2>5 DEF WaitsForQuestion, OrphanStep, Orphaned
<1> QED BY <1>2, <1>3, <1>4

LEMMA StepQuestions ==
    ASSUME TypeOK, WaitsForQuestion, [Next]_vars
    PROVE  WaitsForQuestion' /\ OrphanStep
<1>1. CASE UserStep
  <2>1. CASE Resume \/ SendStart
    BY <2>1, QuietQuestions DEF Resume, SendStart, BeginStart, BudgetExhausted, Startable, callVars
  <2>2. CASE SendSteer \/ SendRead \/ SendRefused
    BY <2>2, QuietQuestions DEF SendSteer, SendRead, SendRefused, Move, callVars
  <2>3. CASE Pause \/ CancelRun
    BY <2>3, ClosedQuestions DEF Pause, CancelRun, StopRun, Move
  <2> QED BY <1>1, <2>1, <2>2, <2>3 DEF UserStep
<1>2. CASE AnswerStep
  BY <1>2, AnsweredQuestions DEF AnswerStep
<1>3. CASE MainStep
  <2>1. CASE FinishStart \/ StartFails
    BY <2>1, QuietQuestions DEF FinishStart, StartFails, Move, callVars
  <2>2. CASE OnCompleted \/ OnFailed \/ OnExhausted
    BY <2>2, QuietQuestions DEF OnCompleted, OnFailed, OnExhausted, BudgetExhausted, Move, callVars
  <2>3. CASE \E c \in Calls, ok \in BOOLEAN : FinishCall(c, ok)
    BY <2>3, QuietQuestions DEF FinishCall, mainVars
  <2> QED BY <1>3, <2>1, <2>2, <2>3, AskedQuestions DEF MainStep
<1>4. CASE HostStep
  BY <1>4, QuietQuestions DEF HostStep, HostStart, HostCancel, HostSteer, HostResult, AgentRequest,
              AgentEnd, AgentExhaust, mainVars, callVars
<1>5. CASE FaultStep
  <2>1. CASE ChromeDisconnect
    BY <2>1, ClosedQuestions DEF ChromeDisconnect, StopRun, Move
  <2>2. CASE WorkerFailure \/ AppRestart
    <3>1. Recover
      BY <2>2 DEF WorkerFailure, AppRestart
    <3>2. CancelPendingWork /\ status' # "waiting_approval"
      BY <3>1 DEF Recover, Active
    <3> QED BY <3>2, ClosedQuestions
  <2> QED BY <1>5, <2>1, <2>2 DEF FaultStep
<1>6. CASE UNCHANGED vars
  BY <1>6, QuietQuestions DEF vars, mainVars, callVars
<1> QED BY <1>1, <1>2, <1>3, <1>4, <1>5, <1>6 DEF Next

\* A run that waits for an answer has a question stored, and a stored question can be answered:
\* its promise is held by Main until it is answered or withdrawn, but for one that an agent of
\* an earlier session asks while a message has the run reopened (waitForApproval).
THEOREM QuestionsFindAnswers == Spec => QuestionIsAnswerable
<1>1. Init => WaitsForQuestion
  BY DEF Init, WaitsForQuestion
<1>2. TypeOK /\ WaitsForQuestion /\ [Next]_vars => WaitsForQuestion'
  BY StepQuestions
<1>3. TypeOK /\ WaitsForQuestion /\ [Next]_vars => [OrphanStep]_vars
  BY StepQuestions
<1> QED BY <1>1, <1>2, <1>3, TypeCorrect, PTL DEF Spec, QuestionIsAnswerable, WaitsForQuestion, OrphanStep

\* A stop withdraws the questions; those of a budget's end are still open.
QuestionsWithdrawn ==
    stopped \in {"user", "bridge", "crash"} /\ status \in {"paused", "waiting_user"} => held = {}

\* What a step does to a run at rest that it does not start.
RestStep ==
    (/\ stopped \in {"user", "bridge", "crash"} /\ stopped' = stopped
     /\ status \notin Active /\ starting = 0 /\ send = NoSend)
      => status' \notin Active

LEMMA StepStopped ==
    ASSUME TypeOK, QuestionsWithdrawn, [Next]_vars PROVE QuestionsWithdrawn' /\ RestStep
<1> USE DEF QuestionsWithdrawn, RestStep
<1>0. status \in RunStatus /\ starting \in Nat
  BY DEF TypeOK, MainTypeOK, CountTypeOK
<1>1. CASE UserStep
  <2>1. CASE Resume \/ SendStart
    BY <2>1 DEF Resume, SendStart, BeginStart, BudgetExhausted
  <2>2. CASE SendSteer
    BY <2>2 DEF SendSteer, Move, NoSend, callVars, ghosts
  <2>3. CASE SendRead \/ SendRefused
    BY <2>3 DEF SendRead, SendRefused, callVars, ghosts
  <2>4. CASE Pause \/ CancelRun
    BY <2>4 DEF Pause, CancelRun, StopRun, Move, Active
  <2> QED BY <1>1, <2>1, <2>2, <2>3, <2>4 DEF UserStep
<1>2. CASE AnswerStep
  <2> PICK c \in Calls : Approve(c) \/ Decline(c)
    BY <1>2 DEF AnswerStep
  <2>1. /\ c \in held /\ held' = held \ {c} /\ UNCHANGED <<stopped, starting, send>>
        /\ status' = status \/ (status' = "running" /\ CanTransition(status, "running"))
    <3>1. CASE Approve(c)
      BY <3>1 DEF Approve, ghosts
    <3>2. CASE Decline(c)
      BY <3>2 DEF Decline, ghosts
    <3> QED BY <3>1, <3>2
  <2>2. CanTransition(status, "running") => status \in Active \cup {"paused", "waiting_user"}
    BY <1>0 DEF CanTransition, RunTransitions, Stops, RunStatus, Active
  <2> QED BY <2>1, <2>2 DEF Active
<1>3. CASE MainStep
  <2>1. CASE FinishStart \/ StartFails
    BY <1>0, <2>1 DEF FinishStart, StartFails, Move, callVars, ghosts
  <2>2. CASE OnToolRequest
    <3> PICK c : RefuseCall(c) \/ DenyCall(c) \/ RunCall(c) \/ AskUser(c) \/ PlanCall(c) \/ CompleteCall(c)
      BY <2>2 DEF OnToolRequest
    <3>1. UNCHANGED <<stopped, starting, send>>
      BY <2>2 DEF OnToolRequest, ghosts
    <3>2. status \in Active => status' \in Active
      BY DEF RefuseCall, DenyCall, RunCall, AskUser, PlanCall, CompleteCall, Base, Move, Active
    <3>3. status \notin Active => status' = status /\ held' = held
      BY DEF RefuseCall, DenyCall, RunCall, AskUser, PlanCall, CompleteCall
    <3>4. status' \in Active => status' \notin {"paused", "waiting_user"}
      BY DEF Active
    <3> QED BY <3>1, <3>2, <3>3, <3>4
  <2>3. CASE OnCompleted \/ OnFailed
    BY <2>3 DEF OnCompleted, OnFailed, Move, callVars, ghosts, Active
  <2>4. CASE OnExhausted
    BY <2>4 DEF OnExhausted, BudgetExhausted, callVars, Active
  <2>5. CASE \E c \in Calls, ok \in BOOLEAN : FinishCall(c, ok)
    BY <2>5 DEF FinishCall, mainVars, ghosts
  <2> QED BY <1>3, <2>1, <2>2, <2>3, <2>4, <2>5 DEF MainStep
<1>4. CASE HostStep
  BY <1>4 DEF HostStep, HostStart, HostCancel, HostSteer, HostResult, AgentRequest,
              AgentEnd, AgentExhaust, mainVars, callVars, ghosts
<1>5. CASE FaultStep
  <2>1. CASE ChromeDisconnect
    BY <2>1 DEF ChromeDisconnect, StopRun, Move, Active
  <2>2. CASE WorkerFailure
    BY <2>2 DEF WorkerFailure, Recover, Active
  <2>3. CASE AppRestart
    BY <2>3 DEF AppRestart, Recover, Active
  <2> QED BY <1>5, <2>1, <2>2, <2>3 DEF FaultStep
<1>6. CASE UNCHANGED vars
  BY <1>6 DEF vars, mainVars, callVars, ghosts
<1> QED BY <1>1, <1>2, <1>3, <1>4, <1>5, <1>6 DEF Next

\* A run that the user, the browser or a crash has stopped is not revived by what its workers
\* still send or finish, nor by an answer, once nothing of Main's own is in flight: a stop has
\* withdrawn the questions that an answer could have come to.
THEOREM StopsHold == Spec => StoppedStaysStopped
<1>1. Init => QuestionsWithdrawn
  BY DEF Init, QuestionsWithdrawn
<1>2. TypeOK /\ QuestionsWithdrawn /\ [Next]_vars => QuestionsWithdrawn'
  BY StepStopped
<1>3. TypeOK /\ QuestionsWithdrawn /\ [Next]_vars => [RestStep]_vars
  BY StepStopped
<1> QED BY <1>1, <1>2, <1>3, TypeCorrect, PTL DEF Spec, StoppedStaysStopped, RestStep

-----------------------------------------------------------------------------
(* Every call is answered *)

\* What is in the queue to the host: starts, and whether each is covered by a later cancel; the
\* answer to a call.
NoStartIn(q) == \A i \in 1..Len(q) : q[i].type # "start"
OneStartIn(q) == \A i, j \in 1..Len(q) : q[i].type = "start" /\ q[j].type = "start" => i = j
CancelIn(q) == \E i \in 1..Len(q) : q[i] = Cancel
CancelAfter(q, i) == \E j \in 1..Len(q) : j > i /\ q[j] = Cancel
StartsCovered(q) == \A i \in 1..Len(q) : q[i].type = "start" => CancelAfter(q, i)
AnswerIn(q, c) == \E i \in 1..Len(q) : q[i] \in {Result(c), Cancel}

\* What is in the queue to Main: no end of a session; the request of a call.
NoEndIn(q) == \A i \in 1..Len(q) : q[i].type = "tool.request"
RequestIn(q, c) == \E i \in 1..Len(q) : q[i].type = "tool.request" /\ q[i].call = c

\* One start at a time; an agent that is gone or told to go waits for nothing; a run that is not
\* active has told its host to stop; what is waited for is served.
PatStarting == starting > 0 => starting = 1 /\ agent = 0 /\ toMain = <<>> /\ NoStartIn(toHost)
PatStarts == OneStartIn(toHost) /\ (~NoStartIn(toHost) => agent = 0)
PatIdle == agent = 0 \/ aborted => waiting = {}
PatEnds == ~NoEndIn(toMain) => (agent = 0 \/ aborted) /\ NoStartIn(toHost)
PatTold == status \in Active \/ (StartsCovered(toHost) /\ (agent = 0 \/ aborted \/ CancelIn(toHost)))
PatHeld == \A c \in waiting : c \in held => appr[c] = "pending"
PatServed == \A c \in waiting : c \in executing \cup held \/ RequestIn(toMain, c) \/ AnswerIn(toHost, c)

\* The inductive invariant.
PatInv == PatStarting /\ PatStarts /\ PatIdle /\ PatEnds /\ PatTold /\ PatHeld /\ PatServed

LEMMA CommandFacts ==
    /\ \A q \in Seq(HostCommands) : Len(q) \in Nat /\ \A i \in 1..Len(q) : q[i] \in HostCommands
    /\ \A q \in Seq(HostCommands) : q # <<>> =>
          /\ 1 \in 1..Len(q) /\ Head(q) = q[1] /\ Len(Tail(q)) = Len(q) - 1
          /\ \A i \in 1..Len(Tail(q)) : i + 1 \in 1..Len(q) /\ Tail(q)[i] = q[i+1]
          /\ \A i \in 1..Len(q) : i = 1 \/ (i - 1 \in 1..Len(Tail(q)) /\ Tail(q)[i-1] = q[i])
    /\ \A q \in Seq(HostCommands), m \in HostCommands :
          /\ Len(Append(q, m)) = Len(q) + 1 /\ Append(q, m)[Len(q) + 1] = m
          /\ \A i \in 1..Len(q) : Append(q, m)[i] = q[i]
  OBVIOUS

LEMMA AppendCommand ==
    ASSUME NEW q \in Seq(HostCommands), NEW m \in HostCommands
    PROVE  LET a == Append(q, m)
           IN /\ m.type # "start" => /\ NoStartIn(q) => NoStartIn(a)
                                     /\ NoStartIn(a) => NoStartIn(q)
                                     /\ OneStartIn(q) => OneStartIn(a)
                                     /\ StartsCovered(q) => StartsCovered(a)
              /\ NoStartIn(q) => OneStartIn(a)
              /\ m = Cancel => CancelIn(a) /\ StartsCovered(a)
              /\ CancelIn(q) => CancelIn(a)
              /\ \A c : AnswerIn(q, c) => AnswerIn(a, c)
              /\ \A c : m \in {Result(c), Cancel} => AnswerIn(a, c)
<1> DEFINE a == Append(q, m)
<1>1. /\ Len(a) = Len(q) + 1 /\ a[Len(q) + 1] = m /\ Len(q) \in Nat
      /\ \A i \in 1..Len(q) : a[i] = q[i] /\ i \in 1..Len(a)
      /\ \A i \in 1..Len(a) : i \in 1..Len(q) \/ i = Len(q) + 1
      /\ Len(q) + 1 \in 1..Len(a) /\ \A i \in 1..Len(q) : i < Len(q) + 1
  BY CommandFacts
<1> HIDE DEF a
<1>2. m.type # "start" => (NoStartIn(q) <=> NoStartIn(a))
  BY <1>1 DEF NoStartIn
<1>3. m.type # "start" => (OneStartIn(q) => OneStartIn(a))
  BY <1>1 DEF OneStartIn
<1>4. m.type # "start" => (StartsCovered(q) => StartsCovered(a))
  <2>1. \A i \in 1..Len(q) : CancelAfter(q, i) => CancelAfter(a, i)
    BY <1>1 DEF CancelAfter
  <2> QED BY <1>1, <2>1 DEF StartsCovered
<1>5. NoStartIn(q) => OneStartIn(a)
  BY <1>1 DEF NoStartIn, OneStartIn
<1>6. m = Cancel => CancelIn(a) /\ StartsCovered(a)
  BY <1>1 DEF CancelIn, StartsCovered, CancelAfter, Cancel
<1>7. CancelIn(q) => CancelIn(a)
  BY <1>1 DEF CancelIn
<1>8. /\ \A c : AnswerIn(q, c) => AnswerIn(a, c)
      /\ \A c : m \in {Result(c), Cancel} => AnswerIn(a, c)
  BY <1>1 DEF AnswerIn
<1> QED BY <1>2, <1>3, <1>4, <1>5, <1>6, <1>7, <1>8 DEF a

LEMMA TailCommand ==
    ASSUME NEW q \in Seq(HostCommands), q # <<>>
    PROVE  LET t == Tail(q)
           IN /\ NoStartIn(q) => NoStartIn(t)
              /\ OneStartIn(q) => OneStartIn(t)
              /\ OneStartIn(q) /\ Head(q).type = "start" => NoStartIn(t)
              /\ Head(q).type = "start" => ~NoStartIn(q)
              /\ StartsCovered(q) => StartsCovered(t)
              /\ StartsCovered(q) /\ Head(q).type = "start" => CancelIn(t)
              /\ CancelIn(q) => Head(q) = Cancel \/ CancelIn(t)
              /\ \A c : AnswerIn(q, c) => Head(q) \in {Result(c), Cancel} \/ AnswerIn(t, c)
<1> DEFINE t == Tail(q)
<1>1. /\ 1 \in 1..Len(q) /\ Head(q) = q[1] /\ Len(q) \in Nat
      /\ \A i \in 1..Len(t) : i + 1 \in 1..Len(q) /\ t[i] = q[i+1] /\ i + 1 # 1 /\ i \in Nat
      /\ \A i \in 1..Len(q) : i = 1 \/ (i - 1 \in 1..Len(t) /\ t[i-1] = q[i])
  BY CommandFacts
<1>0. \A i, j \in 1..Len(t) : i + 1 = j + 1 => i = j
  BY <1>1
<1>0a. \A i \in 1..Len(t), j \in 1..Len(q) : j > i + 1 => j # 1 /\ j - 1 > i
  BY <1>1
<1> HIDE DEF t
<1>2. (NoStartIn(q) => NoStartIn(t)) /\ (Head(q).type = "start" => ~NoStartIn(q))
  BY <1>1 DEF NoStartIn
<1>3. OneStartIn(q) => OneStartIn(t)
  BY <1>0, <1>1 DEF OneStartIn
<1>4. OneStartIn(q) /\ Head(q).type = "start" => NoStartIn(t)
  BY <1>1 DEF OneStartIn, NoStartIn
<1>5. StartsCovered(q) => StartsCovered(t)
  <2>1. \A i \in 1..Len(t) : CancelAfter(q, i + 1) => CancelAfter(t, i)
    BY <1>0a, <1>1 DEF CancelAfter
  <2> QED BY <1>1, <2>1 DEF StartsCovered
<1>6. StartsCovered(q) /\ Head(q).type = "start" => CancelIn(t)
  <2>1. CancelAfter(q, 1) => CancelIn(t)
    BY <1>1 DEF CancelAfter, CancelIn
  <2> QED BY <1>1, <2>1 DEF StartsCovered
<1>7. CancelIn(q) => Head(q) = Cancel \/ CancelIn(t)
  BY <1>1 DEF CancelIn
<1>8. \A c : AnswerIn(q, c) => Head(q) \in {Result(c), Cancel} \/ AnswerIn(t, c)
  BY <1>1 DEF AnswerIn
<1> QED BY <1>2, <1>3, <1>4, <1>5, <1>6, <1>7, <1>8 DEF t

LEMMA EventQueues ==
    /\ \A q \in Seq(HostEvents) : q # <<>> =>
          /\ NoEndIn(q) => NoEndIn(Tail(q))
          /\ Head(q).type # "tool.request" => ~NoEndIn(q)
          /\ \A c : RequestIn(q, c) => (Head(q).type = "tool.request" /\ Head(q).call = c) \/ RequestIn(Tail(q), c)
    /\ \A q \in Seq(HostEvents), m \in HostEvents :
          /\ NoEndIn(q) /\ m.type = "tool.request" => NoEndIn(Append(q, m))
          /\ \A c : RequestIn(q, c) => RequestIn(Append(q, m), c)
          /\ m.type = "tool.request" => RequestIn(Append(q, m), m.call)
<1>1. ASSUME NEW q \in Seq(HostEvents), q # <<>>
      PROVE  /\ NoEndIn(q) => NoEndIn(Tail(q))
             /\ Head(q).type # "tool.request" => ~NoEndIn(q)
             /\ \A c : RequestIn(q, c) => (Head(q).type = "tool.request" /\ Head(q).call = c) \/ RequestIn(Tail(q), c)
  <2> DEFINE t == Tail(q)
  <2>1. /\ 1 \in 1..Len(q) /\ Head(q) = q[1]
        /\ \A i \in 1..Len(t) : i + 1 \in 1..Len(q) /\ t[i] = q[i+1]
        /\ \A i \in 1..Len(q) : i = 1 \/ (i - 1 \in 1..Len(t) /\ t[i-1] = q[i])
    BY <1>1
  <2> HIDE DEF t
  <2>2. (NoEndIn(q) => NoEndIn(t)) /\ (Head(q).type # "tool.request" => ~NoEndIn(q))
    BY <2>1 DEF NoEndIn
  <2>3. \A c : RequestIn(q, c) => (Head(q).type = "tool.request" /\ Head(q).call = c) \/ RequestIn(t, c)
    BY <2>1 DEF RequestIn
  <2> QED BY <2>2, <2>3 DEF t
<1>2. ASSUME NEW q \in Seq(HostEvents), NEW m \in HostEvents
      PROVE  /\ NoEndIn(q) /\ m.type = "tool.request" => NoEndIn(Append(q, m))
             /\ \A c : RequestIn(q, c) => RequestIn(Append(q, m), c)
             /\ m.type = "tool.request" => RequestIn(Append(q, m), m.call)
  <2> DEFINE a == Append(q, m)
  <2>1. /\ \A i \in 1..Len(q) : a[i] = q[i] /\ i \in 1..Len(a)
        /\ \A i \in 1..Len(a) : i \in 1..Len(q) \/ i = Len(q) + 1
        /\ a[Len(q) + 1] = m /\ Len(q) + 1 \in 1..Len(a)
    OBVIOUS
  <2> HIDE DEF a
  <2>2. NoEndIn(q) /\ m.type = "tool.request" => NoEndIn(a)
    BY <2>1 DEF NoEndIn
  <2>3. \A c : RequestIn(q, c) => RequestIn(a, c)
    BY <2>1 DEF RequestIn
  <2>4. m.type = "tool.request" => RequestIn(a, m.call)
    BY <2>1 DEF RequestIn
  <2> QED BY <2>2, <2>3, <2>4 DEF a
<1> QED BY <1>1, <1>2

\* The queues hold commands and events.
TypedQueues == toHost \in Seq(HostCommands) /\ toMain \in Seq(HostEvents)

\* Main's own steps leave the host's agent alone, and send it at most one command.
MainSends ==
    /\ UNCHANGED <<agent, aborted, waiting, starting>>
    /\ toMain' = toMain \/ (toMain # <<>> /\ toMain' = Tail(toMain))
    /\ toHost' = toHost \/ \E m \in HostCommands : m.type # "start" /\ toHost' = Append(toHost, m)

\* Whatever was under way for a call of the agent still is, or was answered.
StillServed ==
    \A c \in waiting : (c \in executing \cup held \/ RequestIn(toMain, c)) =>
        c \in executing' \cup held' \/ RequestIn(toMain', c) \/ AnswerIn(toHost', c)

LEMMA MainQueues ==
    ASSUME TypedQueues, PatInv, MainSends PROVE PatStarting' /\ PatStarts' /\ PatIdle' /\ PatEnds'
<1>1. NoStartIn(toHost) <=> NoStartIn(toHost')
  BY AppendCommand DEF MainSends, TypedQueues
<1>2. OneStartIn(toHost')
  BY AppendCommand DEF MainSends, TypedQueues, PatInv, PatStarts
<1>3. NoEndIn(toMain) => NoEndIn(toMain')
  BY EventQueues DEF MainSends, TypedQueues
<1>4. toMain = <<>> => toMain' = <<>>
  BY DEF MainSends
<1> QED BY <1>1, <1>2, <1>3, <1>4 DEF MainSends, PatInv, PatStarting, PatStarts, PatIdle, PatEnds

LEMMA MainTold ==
    ASSUME TypedQueues, PatInv, MainSends,
           status' \in Active \/ status' = status \/ toHost' = Append(toHost, Cancel)
    PROVE  PatTold'
<1>1. toHost' = Append(toHost, Cancel) => StartsCovered(toHost') /\ CancelIn(toHost')
  BY AppendCommand, ChannelFacts DEF TypedQueues
<1>2. /\ StartsCovered(toHost) => StartsCovered(toHost')
      /\ CancelIn(toHost) => CancelIn(toHost')
  BY AppendCommand DEF MainSends, TypedQueues
<1> QED BY <1>1, <1>2 DEF PatInv, PatTold, MainSends

LEMMA MainServed == ASSUME TypedQueues, PatInv, MainSends, StillServed PROVE PatServed'
<1>1. \A c : AnswerIn(toHost, c) => AnswerIn(toHost', c)
  BY AppendCommand DEF MainSends, TypedQueues
<1> QED BY <1>1 DEF PatInv, PatServed, MainSends, StillServed

LEMMA MainKeeps ==
    ASSUME TypedQueues, PatInv, MainSends, StillServed, PatHeld',
           status' \in Active \/ status' = status \/ toHost' = Append(toHost, Cancel)
    PROVE  PatInv'
  BY MainQueues, MainTold, MainServed DEF PatInv

\* Before the next session nothing is left of the one before.
LEMMA RestedKeeps ==
    ASSUME PatIdle, agent = 0, agent' = 0, waiting' = waiting, toMain' = <<>>,
           NoStartIn(toHost'), starting' \in {0, 1}
    PROVE  PatInv'
<1>1. waiting' = {}
  BY DEF PatIdle
<1>2. NoEndIn(toMain')
  BY DEF NoEndIn
<1>3. OneStartIn(toHost') /\ StartsCovered(toHost')
  BY DEF NoStartIn, OneStartIn, StartsCovered
<1> QED BY <1>1, <1>2, <1>3 DEF PatInv, PatStarting, PatStarts, PatIdle, PatEnds, PatTold, PatHeld, PatServed

LEMMA UserKeeps == ASSUME PatientUser, TypeOK, TypedQueues, PatInv, UserStep PROVE PatInv'
<1>1. CASE Resume \/ SendStart
  <2>1. BeginStart
    BY <1>1 DEF Resume, SendStart
  <2>2. Settled /\ toHost' = toHost /\ toMain' = toMain /\ UNCHANGED <<agent, waiting>>
    BY <2>1 DEF BeginStart, agentVars
  <2>3. starting' \in {0, 1}
    BY <2>1, <2>2 DEF BeginStart, Settled
  <2>4. NoStartIn(toHost')
    BY <2>2 DEF Settled, NoStartIn
  <2> QED BY <2>2, <2>3, <2>4, RestedKeeps DEF Settled, PatInv
<1>2. CASE SendRead \/ SendSteer \/ SendRefused
  <2>1. /\ UNCHANGED <<agent, aborted, waiting, starting, toMain, appr, held, executing>>
        /\ status' \in Active \/ status' = status
        /\ toHost' = toHost \/ toHost' = Append(toHost, Steer)
    BY <1>2 DEF SendRead, SendSteer, SendRefused, Move, Active, agentVars, callVars
  <2>2. MainSends /\ StillServed /\ PatHeld'
    BY <2>1, ChannelFacts DEF MainSends, StillServed, PatInv, PatHeld, Steer
  <2> QED BY <2>1, <2>2, MainKeeps
<1>3. CASE Pause \/ CancelRun
  <2>1. /\ UNCHANGED <<agent, aborted, waiting, starting, toMain, executing>>
        /\ toHost' = Append(toHost, Cancel) /\ held' = {}
    BY <1>3 DEF Pause, CancelRun, StopRun, agentVars
  <2>2. \A c : AnswerIn(toHost', c)
    BY <2>1, AppendCommand, ChannelFacts DEF TypedQueues
  <2>3. MainSends /\ StillServed /\ PatHeld'
    BY <2>1, <2>2, ChannelFacts DEF MainSends, StillServed, PatHeld, Cancel
  <2> QED BY <2>1, <2>3, MainKeeps
<1> QED BY <1>1, <1>2, <1>3 DEF UserStep

LEMMA AnswerKeeps == ASSUME TypeOK, TypedQueues, PatInv, AnswerStep PROVE PatInv'
<1> PICK c \in Calls : Approve(c) \/ Decline(c)
  BY DEF AnswerStep
<1>1. appr \in [Calls -> ApprovalStates] /\ status \in RunStatus /\ held \subseteq Calls
  BY DEF TypeOK, CallTypeOK, MainTypeOK
<1>2. /\ UNCHANGED <<agent, aborted, waiting, starting, toMain>> /\ held' = held \ {c}
      /\ toHost' = toHost \/ toHost' = Append(toHost, Result(c))
      /\ status' \in {status, "running"} /\ executing \subseteq executing'
      /\ \A d \in Calls : d # c => appr'[d] = appr[d]
  <2>1. CASE Approve(c)
    BY <1>1, <2>1 DEF Approve, agentVars
  <2>2. CASE Decline(c)
    BY <1>1, <2>2 DEF Decline, agentVars
  <2> QED BY <2>1, <2>2
<1>3. PatHeld'
  BY <1>1, <1>2 DEF PatInv, PatHeld
<1>4. MainSends
  BY <1>2, ChannelFacts DEF MainSends, Result
\* The question of a call that the agent waits for is open; answered, the call goes on, or
\* the agent has been told to give it up.
<1>5. c \in waiting /\ c \in held => c \in executing' \/ AnswerIn(toHost', c)
  <2> SUFFICES ASSUME c \in waiting, c \in held PROVE c \in executing' \/ AnswerIn(toHost', c)
    OBVIOUS
  <2>1. appr[c] = "pending" /\ agent # 0 /\ ~aborted
    BY DEF PatInv, PatHeld, PatIdle
  <2>2. status \notin Active => CancelIn(toHost)
    BY <2>1 DEF PatInv, PatTold
  <2>3. CancelIn(toHost) => AnswerIn(toHost', c)
    <3>1. CancelIn(toHost) => CancelIn(toHost')
      BY <1>2, AppendCommand, ChannelFacts DEF TypedQueues
    <3> QED BY <3>1 DEF CancelIn, AnswerIn
  <2>4. status \in Active => CanTransition(status, "running")
    BY DEF Active, CanTransition, RunTransitions, Stops
  <2>5. ASSUME status \in Active PROVE c \in executing' \/ AnswerIn(toHost', c)
    <3>1. CASE Approve(c)
      BY <2>1, <2>4, <2>5, <3>1 DEF Approve
    <3>2. CASE Decline(c)
      <4>1. status' \in Active
        BY <1>2, <2>5 DEF Active
      <4>2. toHost' = Append(toHost, Result(c))
        BY <2>1, <3>2, <4>1 DEF Decline
      <4> QED BY <4>2, AppendCommand, ChannelFacts DEF TypedQueues
    <3> QED BY <3>1, <3>2
  <2> QED BY <2>2, <2>3, <2>5
<1>6. StillServed
  BY <1>2, <1>5 DEF StillServed
<1> QED BY <1>2, <1>3, <1>4, <1>6, MainKeeps DEF Active

LEMMA RequestKeeps == ASSUME TypeOK, TypedQueues, PatInv, OnToolRequest PROVE PatInv'
<1> DEFINE h == Head(toMain).call
<1>1. /\ toMain # <<>> /\ toMain' = Tail(toMain) /\ Head(toMain).type = "tool.request"
      /\ UNCHANGED <<agent, aborted, waiting, starting>>
  BY DEF OnToolRequest, Receive, agentVars
<1>2. h \in Calls /\ Result(h) \in HostCommands /\ Result(h).type # "start"
  BY <1>1, ChannelFacts DEF TypedQueues, Result
<1>3. RefuseCall(h) \/ DenyCall(h) \/ RunCall(h) \/ AskUser(h) \/ PlanCall(h) \/ CompleteCall(h)
  BY DEF OnToolRequest
<1>4. \A c : RequestIn(toMain, c) => c = h \/ RequestIn(toMain', c)
  BY <1>1, EventQueues DEF TypedQueues
<1> HIDE DEF h
<1>5. appr \in [Calls -> ApprovalStates]
  BY DEF TypeOK, CallTypeOK
<1>6. /\ toHost' = toHost \/ toHost' = Append(toHost, Result(h))
      /\ h \in executing' \cup held' \/ toHost' = Append(toHost, Result(h))
      /\ executing \subseteq executing' /\ held \subseteq held' /\ held' \subseteq held \cup {h}
      /\ \A d \in Calls : d # h => appr'[d] = appr[d]
      /\ (appr'[h] = appr[h] /\ held' = held) \/ appr'[h] = "pending"
  <2>1. CASE RefuseCall(h) \/ DenyCall(h) \/ RunCall(h)
    BY <2>1 DEF RefuseCall, DenyCall, RunCall
  <2>2. CASE AskUser(h)
    BY <1>2, <1>5, <2>2 DEF AskUser
  <2>3. CASE PlanCall(h) \/ CompleteCall(h)
    BY <2>3 DEF PlanCall, CompleteCall
  <2> QED BY <1>3, <2>1, <2>2, <2>3
<1>7. status' \in Active \/ status' = status
  <2>1. CASE RefuseCall(h) \/ DenyCall(h) \/ RunCall(h)
    BY <2>1 DEF RefuseCall, DenyCall, RunCall, Base, Active
  <2>2. CASE AskUser(h)
    BY <2>2 DEF AskUser, Active
  <2>3. CASE PlanCall(h) \/ CompleteCall(h)
    BY <2>3 DEF PlanCall, CompleteCall, Active, Move
  <2> QED BY <1>3, <2>1, <2>2, <2>3
<1>8. MainSends
  BY <1>1, <1>2, <1>6 DEF MainSends
<1>9. StillServed
  <2>1. toHost' = Append(toHost, Result(h)) => AnswerIn(toHost', h)
    BY <1>2, AppendCommand DEF TypedQueues
  <2> QED BY <1>4, <1>6, <2>1 DEF StillServed
<1>10. PatHeld'
  <2> SUFFICES ASSUME NEW c \in waiting, c \in held' PROVE appr'[c] = "pending"
    BY <1>1 DEF PatHeld
  <2>1. c \in Calls
    BY DEF TypeOK, AgentTypeOK
  <2> QED BY <1>6, <2>1 DEF PatInv, PatHeld
<1> QED BY <1>7, <1>8, <1>9, <1>10, MainKeeps

\* The agent's own end is the only thing that ends the run under it.
LEMMA EndKeeps ==
    ASSUME TypedQueues, PatInv, toMain # <<>>, Head(toMain).type # "tool.request", toMain' = Tail(toMain),
           UNCHANGED <<agent, aborted, waiting, starting, toHost, held, appr, executing>>
    PROVE  PatInv'
<1>1. (agent = 0 \/ aborted) /\ NoStartIn(toHost) /\ waiting = {}
  BY EventQueues DEF TypedQueues, PatInv, PatEnds, PatIdle
<1>2. PatTold'
  BY <1>1 DEF PatTold, NoStartIn, StartsCovered
<1>3. MainSends
  BY DEF MainSends
<1>4. PatServed' /\ PatHeld'
  BY <1>1 DEF PatServed, PatHeld
<1> QED BY <1>2, <1>3, <1>4, MainQueues DEF PatInv

LEMMA MainStepKeeps == ASSUME TypeOK, TypedQueues, PatInv, MainStep PROVE PatInv'
<1>1. CASE FinishStart
  <2>1. /\ agent = 0 /\ waiting = {} /\ toMain = <<>> /\ NoStartIn(toHost) /\ starting' = 0
    BY <1>1 DEF FinishStart, PatInv, PatStarting, PatIdle, TypeOK, CountTypeOK
  <2>2. /\ UNCHANGED <<agent, aborted, waiting, toMain>> /\ status' \in Active
        /\ toHost' = Append(toHost, Start(sessions + 1)) /\ sessions + 1 \in Session
    <3>1. sessions' = sessions + 1 /\ sessions + starting \in Session /\ starting = 1
      BY <1>1 DEF FinishStart, TypeOK, CountTypeOK, PatInv, PatStarting
    <3> QED BY <1>1, <3>1 DEF FinishStart, Move, Active, agentVars
  <2>3. OneStartIn(toHost')
    BY <2>1, <2>2, AppendCommand, ChannelFacts DEF TypedQueues
  <2>4. NoEndIn(toMain')
    BY <2>1, <2>2 DEF NoEndIn
  <2> QED BY <2>1, <2>2, <2>3, <2>4 DEF PatInv, PatStarting, PatStarts, PatIdle, PatEnds, PatTold, PatHeld, PatServed
<1>2. CASE StartFails
  <2>1. /\ starting = 1 /\ starting' = 0
        /\ agent = 0 /\ toMain = <<>> /\ NoStartIn(toHost)
        /\ UNCHANGED <<agent, waiting, toHost, toMain>>
    BY <1>2 DEF StartFails, PatInv, PatStarting, agentVars
  <2> QED BY <2>1, RestedKeeps DEF PatInv
<1>3. CASE OnCompleted \/ OnFailed \/ OnExhausted
  <2>1. /\ toMain # <<>> /\ Head(toMain).type # "tool.request" /\ toMain' = Tail(toMain)
        /\ UNCHANGED <<agent, aborted, waiting, starting, toHost, held, appr, executing>>
    BY <1>3 DEF OnCompleted, OnFailed, OnExhausted, Receive, agentVars, callVars
  <2> QED BY <2>1, EndKeeps
<1>4. ASSUME NEW c \in Calls, NEW ok \in BOOLEAN, FinishCall(c, ok) PROVE PatInv'
  <2>1. /\ UNCHANGED <<agent, aborted, waiting, starting, toMain, status, appr, held>>
        /\ executing' = executing \ {c}
        /\ toHost' = toHost \/ toHost' = Append(toHost, Result(c))
        /\ status \in Active => toHost' = Append(toHost, Result(c))
    BY <1>4 DEF FinishCall, Delivered, agentVars, mainVars
  <2>2. MainSends
    BY <2>1, ChannelFacts DEF MainSends, Result
  <2>3. PatHeld'
    BY <2>1 DEF PatInv, PatHeld
  <2>4. c \in waiting => AnswerIn(toHost', c)
    <3> SUFFICES ASSUME c \in waiting PROVE AnswerIn(toHost', c)
      OBVIOUS
    <3>1. status \in Active \/ CancelIn(toHost)
      BY DEF PatInv, PatTold, PatIdle
    <3>2. CancelIn(toHost) => CancelIn(toHost')
      BY <2>1, AppendCommand, ChannelFacts DEF TypedQueues
    <3>3. CancelIn(toHost') => AnswerIn(toHost', c)
      BY DEF CancelIn, AnswerIn
    <3>4. toHost' = Append(toHost, Result(c)) => AnswerIn(toHost', c)
      BY AppendCommand, ChannelFacts DEF TypedQueues
    <3> QED BY <2>1, <3>1, <3>2, <3>3, <3>4
  <2>5. StillServed
    BY <2>1, <2>4 DEF StillServed
  <2> QED BY <2>1, <2>2, <2>3, <2>5, MainKeeps
<1> QED BY <1>1, <1>2, <1>3, <1>4, RequestKeeps DEF MainStep

LEMMA HostKeeps == ASSUME TypeOK, RequestInv, TypedQueues, PatInv, HostStep PROVE PatInv'
<1> USE DEF PatInv
<1>0. UNCHANGED <<status, starting, held, appr, executing>>
  BY DEF HostStep, HostStart, HostCancel, HostSteer, HostResult, AgentRequest, AgentEnd, AgentExhaust, mainVars, callVars
<1>1. CASE HostStart
  <2>1. toHost # <<>> /\ Head(toHost).type = "start" /\ toHost' = Tail(toHost)
    BY <1>1 DEF HostStart, Take
  <2>2. ~NoStartIn(toHost) /\ agent = 0 /\ waiting = {} /\ NoEndIn(toMain) /\ ~(starting > 0)
    BY <2>1, TailCommand DEF TypedQueues, PatStarts, PatIdle, PatEnds, PatStarting
  <2>3. /\ NoStartIn(toHost') /\ OneStartIn(toHost')
        /\ StartsCovered(toHost) => StartsCovered(toHost') /\ CancelIn(toHost')
    BY <2>1, TailCommand DEF TypedQueues, PatStarts
  <2>4. waiting' = {} /\ (toMain' = toMain \/ agent' = 0)
    BY <1>1, <2>2 DEF HostStart
  <2> QED BY <1>0, <2>2, <2>3, <2>4 DEF PatStarting, PatStarts, PatIdle, PatEnds, PatTold, PatHeld, PatServed
<1>2. CASE HostCancel
  <2>1. /\ toHost # <<>> /\ Head(toHost).type = "cancel" /\ toHost' = Tail(toHost)
        /\ waiting' = {} /\ agent' = agent /\ aborted' = (aborted \/ agent # 0) /\ toMain' = toMain
    BY <1>2 DEF HostCancel, Take
  <2>2. /\ NoStartIn(toHost) => NoStartIn(toHost')
        /\ OneStartIn(toHost') /\ (~NoStartIn(toHost') => ~NoStartIn(toHost))
        /\ StartsCovered(toHost) => StartsCovered(toHost')
    BY <2>1, TailCommand DEF TypedQueues, PatStarts
  <2> QED BY <1>0, <2>1, <2>2 DEF PatStarting, PatStarts, PatIdle, PatEnds, PatTold, PatHeld, PatServed
<1>3. CASE HostSteer \/ HostResult
  <2>1. /\ toHost # <<>> /\ Head(toHost).type # "cancel" /\ toHost' = Tail(toHost)
        /\ UNCHANGED <<agent, aborted, toMain>>
    BY <1>3 DEF HostSteer, HostResult, Take, agentVars
  <2>2. \A c \in waiting' : c \in waiting /\ Head(toHost) # Result(c)
    BY <1>3 DEF HostSteer, HostResult, Take, agentVars, Result
  <2>3. Head(toHost) # Cancel
    BY <2>1 DEF Cancel
  <2>4. /\ NoStartIn(toHost) => NoStartIn(toHost')
        /\ OneStartIn(toHost') /\ (~NoStartIn(toHost') => ~NoStartIn(toHost))
        /\ StartsCovered(toHost) => StartsCovered(toHost')
        /\ CancelIn(toHost) => CancelIn(toHost')
    BY <2>1, <2>3, TailCommand DEF TypedQueues, PatStarts
  <2>5. PatServed'
    <3>1. \A c \in waiting' : AnswerIn(toHost, c) => AnswerIn(toHost', c)
      BY <2>1, <2>2, <2>3, TailCommand DEF TypedQueues
    <3> QED BY <1>0, <2>1, <2>2, <3>1 DEF PatServed
  <2>6. PatIdle' /\ PatHeld'
    BY <1>0, <2>1, <2>2 DEF PatIdle, PatHeld
  <2> QED BY <1>0, <2>1, <2>4, <2>5, <2>6 DEF PatStarting, PatStarts, PatEnds, PatTold
<1>4. ASSUME NEW c \in Calls, NEW k \in ToolKinds, AgentRequest(c, k) PROVE PatInv'
  <2>1. /\ agent # 0 /\ ~aborted /\ waiting' = waiting \cup {c} /\ UNCHANGED <<agent, aborted, toHost>>
        /\ toMain' = Append(toMain, Request(agent, c)) /\ kind[c] = "none"
    BY <1>4 DEF AgentRequest
  <2>2. Request(agent, c) \in HostEvents /\ Request(agent, c).type = "tool.request" /\ Request(agent, c).call = c
    BY ChannelFacts DEF Request, TypeOK, CountTypeOK
  <2>3. NoEndIn(toMain) /\ ~(starting > 0)
    BY <2>1 DEF PatEnds, PatStarting
  <2>4. NoEndIn(toMain') /\ RequestIn(toMain', c) /\ \A d : RequestIn(toMain, d) => RequestIn(toMain', d)
    BY <2>1, <2>2, <2>3, EventQueues DEF TypedQueues
  <2>5. PatServed'
    BY <1>0, <2>1, <2>4 DEF PatServed
  <2>6. PatHeld'
    <3>1. c \notin held
      BY <2>1 DEF RequestInv, FreshCalls, Untouched
    <3> QED BY <1>0, <2>1, <3>1 DEF PatHeld
  <2> QED BY <1>0, <2>1, <2>3, <2>4, <2>5, <2>6 DEF PatStarting, PatStarts, PatIdle, PatEnds, PatTold
<1>5. CASE AgentEnd \/ AgentExhaust
  <2>1. /\ waiting' = {} /\ toHost' = toHost /\ agent # 0 /\ (agent' = 0 \/ (aborted' /\ agent' = agent))
    BY <1>5 DEF AgentEnd, AgentExhaust
  <2>2. NoStartIn(toHost) /\ ~(starting > 0)
    BY <2>1 DEF PatStarts, PatStarting
  <2> QED BY <1>0, <2>1, <2>2 DEF PatStarting, PatStarts, PatIdle, PatEnds, PatTold, PatHeld, PatServed
<1> QED BY <1>1, <1>2, <1>3, <1>4, <1>5 DEF HostStep

LEMMA FaultKeeps == ASSUME TypeOK, TypedQueues, PatInv, FaultStep PROVE PatInv'
<1>1. CASE ChromeDisconnect
  <2>1. /\ UNCHANGED <<agent, aborted, waiting, starting, toMain, executing>>
        /\ toHost' = Append(toHost, Cancel) /\ held' = {}
    BY <1>1 DEF ChromeDisconnect, StopRun, agentVars
  <2>2. \A c : AnswerIn(toHost', c)
    BY <2>1, AppendCommand, ChannelFacts DEF TypedQueues
  <2>3. MainSends /\ StillServed /\ PatHeld'
    BY <2>1, <2>2, ChannelFacts DEF MainSends, StillServed, PatHeld, Cancel
  <2> QED BY <2>1, <2>3, MainKeeps
<1>2. CASE WorkerFailure \/ AppRestart
  <2>1. /\ agent' = 0 /\ waiting' = {} /\ toHost' = <<>> /\ toMain' = <<>>
        /\ starting' \in {starting, 0}
    BY <1>2 DEF WorkerFailure, AppRestart, Recover
  <2>2. NoStartIn(toHost') /\ OneStartIn(toHost') /\ StartsCovered(toHost') /\ NoEndIn(toMain')
    BY <2>1 DEF NoStartIn, OneStartIn, StartsCovered, NoEndIn
  <2> QED BY <2>1, <2>2 DEF PatInv, PatStarting, PatStarts, PatIdle, PatEnds, PatTold, PatHeld, PatServed
<1> QED BY <1>1, <1>2 DEF FaultStep

LEMMA PatienceKeeps == ASSUME PatientUser, TypeOK, RequestInv, PatInv, [Next]_vars PROVE PatInv'
<1>1. TypedQueues
  BY DEF TypeOK, ChannelTypeOK, TypedQueues
<1>2. CASE UNCHANGED vars
  BY <1>2 DEF vars, mainVars, callVars, agentVars, PatInv, PatStarting, PatStarts, PatIdle, PatEnds, PatTold,
              PatHeld, PatServed
<1> QED BY <1>1, <1>2, UserKeeps, AnswerKeeps, MainStepKeeps, HostKeeps, FaultKeeps DEF Next

\* No handler drops a call: whatever the agent waits for is asked for, under way, a question that
\* can be answered, answered, or about to be given up; for users who start a run only once its
\* workers have settled, as PatientUser says.
THEOREM CallsAreAnswered == ASSUME PatientUser PROVE Spec => []EveryCallIsAnswered
<1>1. Init => PatInv
  BY DEF Init, PatInv, PatStarting, PatStarts, PatIdle, PatEnds, PatTold, PatHeld, PatServed,
         NoStartIn, OneStartIn, NoEndIn, Active
<1>2. TypeOK /\ RequestInv /\ PatInv /\ [Next]_vars => RequestInv' /\ PatInv'
  BY StepRequests, PatienceKeeps
<1>3. PatInv => EveryCallIsAnswered
  BY DEF PatInv, PatServed, EveryCallIsAnswered, RequestIn, AnswerIn
<1>4. Init => RequestInv
  BY InitRequests
<1> QED BY <1>1, <1>2, <1>3, <1>4, TypeCorrect, PTL DEF Spec
=============================================================================
