# OpenWorkbuddy in TLA+

OpenWorkbuddy is a macOS desktop application in which a language-model agent works on a user's task:
it plans, calls tools, asks for approvals, edits files and drives Chrome. This directory holds the
TLA+ models of its core, the TLC runs that check them on small instances, and the theorems TLAPS
proves about them. All paths below are relative to `src/`; `main/` and `workers/` are directories of
`apps/desktop/src/`.

## The system

Three kinds of process share the work. *Electron Main* owns the SQLite database and every decision;
the *Agent Host* and the *Tool Runner* are utility processes that Main forks and that can die. A
*Chrome extension* reaches Main through a native messaging host and a local socket, and a *window*
shows copies of what Main keeps.

| Component | State | Operations | What makes it hard | What makes it correct |
|---|---|---|---|---|
| Run coordinator `main/run-coordinator.ts` | runs.status, runs.outcome, waiters | create, start, sendMessage, pause, resume, cancel, agent events, recovery, delegate | `start` and `sendMessage` wait for files and keys in the middle; events of old agents arrive late | a stopped run is not revived; a verdict belongs to the work it judged; work comes to rest |
| Tool broker `main/tool-broker.ts` | pending approvals, file leases, drafts | handle, waitForApproval, respondToApproval, execute, completeTask | a call is suspended for hours, its run changes meanwhile | nothing runs without its approval; a cancelled receipt stays cancelled; every call is answered |
| Database `main/database.ts` | receipts, approvals, grants, turns, segments, steps, spans, audit | transitionRun, updateToolCall, recoverInterruptedWork, begin and stop segments, pruning | crashes between transactions | recovery leaves nothing under way; no active time escapes |
| Agent Host `workers/agent-host.ts`, `event-buffer.ts` | agents, timers, pendingTools, read limiters, text buffers | start, cancel, steer, tool.result, agent end, budget | abort races with answers | a stopped agent ends; no slot is lost; text arrives whole |
| Worker bridges `main/worker-bridge.ts`, failure handler in `main/index.ts` | child processes, pending requests | fork, send, exit, stop, recover | both workers are stopped when one dies | no request is forgotten |
| Tool Runner `workers/tool-runner.ts`, `runner-security.ts` | commands, managed processes, output, MCP clients | execute, cancel, start, poll, stop, connect, fetch | cancel races with completion, names resolve anew | one result per request; output is exact; requests stay public |
| Budgets, delegation | segments and counters; parent and child runs, waiters | begin, stop, increment; delegate, wait, narrow access | pause, resume, crash; a child ends in many ways | totals bound the work; access is nested; the parent is answered |
| Automations `main/automation-service.ts` | next_run_at, enabled, running set | upsert, setEnabled, runNow, tick | rows are read before awaits | no occurrence runs twice, none is forgotten |
| Chrome `main/chrome-bridge.ts`, `apps/chrome-extension/src`, `apps/native-host` | sockets, requests, grants, tabs, debugger | request, timeout, reconnect, bind, adopt, revoke | three processes die on their own; every step awaits | requests settle; a tab has one controller |
| Context, checkpoints, requests `packages/core/src/context.ts`, `workers/context-checkpoint.ts`, `model-request-pipeline.ts` | transcript, checkpoints, prompt items | compile, compress, compact, repair | cuts under a token budget | nothing falls between the parts; pairs stay whole |
| Policy, approvals, gate `packages/core/src` | grants, rules, receipts, steps | evaluate, resolveApproval, completion gate | many rules, one verdict | each effect has the leave it takes; "verified" means it |
| MCP OAuth, skills, packages, artifacts, traces | flows, directories and rows, content-addressed files, spans | authorize, import, install, snapshot, undo, trace | files and rows change between awaits | codes are used once; what was there can be got back |
| Window `renderer/src/hooks.ts` | selected run, run on view, typed messages | reload, events, send | answers cross events | what was sent stays on view, once |

`PROJECT.json` lists every component with its sources and status, the hazards at their lines, the
runs, and for each definition the source lines it stands for.

## Modules

| Module | Models |
|---|---|
| `RunStates`, `RunContract` | the status sets of a run; abstract: what a run promises its user |
| `RunLifecycle` (`MCRunLifecycle`, `RunLifecycleProofs`) | one run between Main and the Agent Host: coordinator, broker, database, dispatcher |
| `FileLeases` (`MCFileLeases`) | the queue of file-changing tools per path, over the bridge and the death of the runner |
| `ReadLimiter` | the slots for parallel reads of one agent |
| `TurnTaking` | abstract: a line for a number of places; `FileLeases` and `ReadLimiter` implement it |
| `RunBudget` | turns and active time of a run and of its current turn, over all its sessions |
| `Delegation` | the tree of sub-agents: creation, waiters, the limit, access across the tree |
| `CompletionGate` | receipts and steps of a turn and the verdict over them |
| `ChromeTabs` | grants, controllers and debugger of tabs in the extension, and the desktop's rows |
| `ChromeBridge` | requests between desktop, native host and extension; reconnection |
| `Traces`, `AuditTrail`, `SearchBudget` | spans of a run's turns; the chained log and its pruning; searches of a turn |
| `EventStream`, `RunView` | text from the model to the bubble in Main; the window's copy of a run |
| `Automations`, `McpOAuth`, `McpConnections` | scheduled runs; authorization flows of a server; its connections |
| `ProcessOutput`, `ManagedProcess` | what a command writes and who sees it; background processes across Main and runner |
| `PublicFetch` | redirects, resolution, limits and deadline of a fetch or search |
| `FileChanges` | one file under writes, edits, deletions, snapshots, undo, other programs and crashes |
| `Conversation`, `RunPreparation` | transcript, compaction and repair; what goes into a prompt |
| `SkillImport`, `PackageInstall` | a skill directory under overlapping imports; a package from preview to installation |
| `AccessPolicy` (`MCAccessPolicy`) | risk classes, access modes, answers, grants and standing rules |
| `MCServices`, `MCRuns`, `MCTools` | instances for TLC of the modules without a run of their own |
| `QueueProofs` | theorems about `FileLeases`, `ReadLimiter` |
| `PromptProofs` | theorems about `Conversation`, `RunPreparation`; sums, flattened sequences, greedy choices |
| `RunsProofs` | theorems about `RunBudget`, `Delegation`, `SearchBudget`, `EventStream` |
| `ServicesProofs` | theorems about `Automations`, `McpOAuth`, `McpConnections` |
| `ToolsProofs` | theorems about `AccessPolicy`, `FileChanges`, `PackageInstall`, `SkillImport`, `ManagedProcess`, `ProcessOutput` |
| `LinksProofs` | theorems about `ChromeBridge`, `PublicFetch`, `ChromeTabs`, `RunView` |
| `RecordsProofs` | theorems about `CompletionGate`, `AuditTrail`, `Traces` |

Each of the smaller modules prefixes its names (`Auto...`, `Gate...`, `Chr...`), so that several can
be extended by one MC module.

*How the models meet.* `RunLifecycle` says when a call is requested, approved, cancelled and
answered. For `FileLeases` a call begins where `RunLifecycle` sets it running (`tool-broker.ts`
276-281) and is opaque after that; `FileChanges` opens it and relies on the lease for one call of an
agent at a time. `ReadLimiter` begins before the request leaves the host; that Main answers it, which
its liveness assumes, is `EveryCallIsAnswered`. `AccessPolicy` refines what the `kind` of a call is
in `RunLifecycle`, `CompletionGate` the verdict that `CompleteCall` gives there, `RunBudget` the end
by a budget, `EventStream` the text events between the two channels. `ProcessOutput` is what a process
of `ManagedProcess` writes. `Conversation` starts from what `RunPreparation` has prepared.

### RunLifecycle

*Atomicity.* JavaScript runs a handler to its next real await without interruption, and SQLite calls
are synchronous, so one action is one such stretch; this holds for all modules. `start()` is cut into
`BeginStart` and `FinishStart`/`StartFails` at the awaits on the key store and the preparation;
`sendMessage()` into `SendRead` and `SendSteer`/`SendStart`/`SendRefused` at the await on attachments;
a tool call into its request, the answer to its approval and its completion.

*State.* `status` and `verdict` are `runs.status` and whether `runs.outcome` is 'verified' or
'partial'; `call` and `appr` are the states of the receipts and the stored approvals, `held` is
`ToolBroker.pendingApprovals` and `executing` the calls under way elsewhere; `starting` and `send` are
handlers suspended at an await; `toHost` and `toMain` are the two message channels; `agent`,
`aborted`, `exhausted` and `waiting` are the host's entry in `agents`, its abort signal, its
`budgetExhausted` flag and its `pendingTools`. Model content, file effects and wording are left out.

*Sessions.* Each agent started gets a number. The program has no such number (events are matched by
run id), so no guard of the model reads it except through the agent that owns it; it exists so that
properties can say which agent an event came from. `stopped` and `stale` are ghosts for the same
purpose: who stopped the run since the user last asked for it, and up to which session.

*External behaviour.* The Pi agent core is modelled by how `agent-host.ts` uses it: an agent issues
calls one at a time, or several at once if all are parallel; it ends only when none is outstanding;
abort rejects the outstanding ones. Both workers may die at any step (`WorkerFailure`), the
application may be killed and restarted (`AppRestart`), the Chrome socket may close
(`ChromeDisconnect`).

### FileLeases and ReadLimiter

`acquireFileLease` chains promises: a call awaits the tail it found for its path and leaves its own.
`tail` is the map `fileLeaseTails`, `prev` the call whose tail is awaited, `leasePhase` the await in
`handle()` at which a call stands. `Request` runs to the await of the chain, `Execute` from its
resolution to the await on the runner, `ReleaseLease` is the `finally`. `pending` is the bridge's
table, `alive` whether `ManagedWorker.process` is set, `working` what the current process serves,
`dying` what a process that was told to end may still post. `RunnerExits` is the exit handler of a
process that ended of itself; `WorkersStopped` is Main's own stop of both workers, after which that
handler returns at once; `StopRun` is a pause, a cancel or a lost browser, which forks a runner if
there is none, because `cancelRun()` sends. Two names of one file that differ by more than case or
Unicode form (a symbolic link) are two paths here as in the code.

One limiter per agent and one abort signal per limiter. `active` and `waiters` are the fields of
`ConcurrencyLimiter`; `readPhase` is the await of `run()` or of the tool's operation. `StartOperation`
is the call of the operation once the slot is granted, which looks at the signal again, `Abort` all
listeners of the signal in one dispatch, `ReleaseSlot` the `finally` with the hand-over.

Both are lines before a number of places, and `TurnTaking` says so without promises, counters and
workers: a call waits, is inside, or is gone, a place that is left is free or goes to the next in line.
`LeaseStage` and `ReadStage` map the phases of a call; a line is a path with one place, or the one
line of an agent with `Limit` places. What the mapping hides are the deaths and stops of the runner,
requests, late answers and the signal, which are stutters, except that an abort clears the line at
once (`Disperse`). `LeasesTakeTurns` and `ReadsTakeTurns` say that each is such a line.

### What belongs to a run (`MCRuns`)

* `RunBudget`: the columns of `runs` and `run_turns` (`budRun`, `budTurn`), the budgets that `start()`
  hands to the host, and what of an earlier session is still on its way. Time is a clock that any step
  may let pass. A crash leaves the open segment; the next launch closes it at its own time.
* `Delegation`: rows of three runs with parent, access and status; `delCall` is the parent's
  `delegate` call between its awaits. Statuses are gathered to what `waitForCompletion` and the limit
  tell apart.
* `ChromeTabs`: `chrGrants`, `chrOwner`, `chrArmed` are the maps of `service-worker.ts`, `chrRows` the
  desktop's `chrome_grants`; an operation (`chrOp`) is cut at each await (attaching, sending, creating
  a tab), `revokeGrant` at each detach.
* `Traces`: rows of `run_traces` and `trace_spans`, and the recorder's memory `trActive`, which a
  restart of the application clears. `AuditTrail`: a digest is the sequence of what went into it, so
  two are equal exactly if that was. `SearchBudget`: receipts of searches and their states.
* `EventStream`: characters are numbers, so that "whole" is an equation of sets and "in order, once" an
  order of numbers; the wire is one FIFO channel, Main's joining of bubbles its consumer. `RunView`:
  calls to Main are answered in order, and answers and events come over one ordered channel; the
  selected run, the run on view and what the person typed are the state of `useWorkbench`.

### Services (`MCServices`) and tools (`MCTools`)

* `Automations`: a tick reads its due rows once (`autoTick`) and awaits each run; `autoFired` is a
  ghost. `McpOAuth`: flows, codes and refresh tokens are numbers; the SDK answers or throws.
  `McpConnections`: awaits of `FingerprintedConnectionCache` as phases of its callers, resumed in the
  order in which the promise they await settles.
* `ChromeBridge`: a connection is a host process with a socket and a port; both ends learn of its
  death on their own time. `ProcessOutput`: bytes are numbered; chunks of any size straddle head and
  tail. `PublicFetch`: each hop resolves again, possibly to another address.
* `FileChanges`: an operation goes through snapshot, comparison, write and diff; other programs write
  in between; a write that a crash cuts off leaves a torn file. `ManagedProcess`: two FIFO channels,
  entries of the runner, rows of Main.
* `Conversation`: the transcript as a sequence of messages with sizes, the checkpoint as a position;
  `RunPreparation`: items with size and rank. Both algorithms are modelled with their whole control
  and one unit for sizes.
* `CompletionGate`: `gateCalls` is `tool_calls` in the order of creation, with the time of the last
  update; reads may be side by side, changes are alone. `GateVerified` is the decision of
  `verification.ts` over what `completeTask` collects, with steps left unfinished, failures not made
  good, checks that failed and evidence that is missing.
* `SkillImport` and `PackageInstall`: one step for each await, over a directory that others edit.
  `AccessPolicy`: a call is a tool, the form of its command or address, what it is aimed at and its
  body; the patterns of the policy are the class a form or path belongs to.

## Runs

| Run | Question | Instance |
|---|---|---|
| `lifecycle_restarts` | does the run keep its contract through overlapping starts, messages, stops and crashes, and does it come to rest? | 1 call of any kind, 2 sessions, 2 starts in flight, 1 message |
| `lifecycle_session` | are effects approved and questions answerable, whatever is asked in parallel? | 2 calls that need an approval, 2 sessions, 1 message, an impatient user |
| `lifecycle_patient` | is every call answered, and does a verdict belong to its work? | 2 calls of any kind, 2 sessions, no message, a user who acts when the workers are settled |
| `services` | does each service keep what it promises, and is whoever waits for one answered? | see `services.cfg` |
| `runs` | do budgets, delegation, tabs, traces, logs, text and view keep what they promise? | see `runs.cfg` |
| `tools` | do file changes, processes, requests, installations, the gate and the policy keep what they promise? | see `tools.cfg` |
| `lifecycle_late_event`, `lifecycle_recovery`, `lifecycle_judged` | statements about a run that the code does not keep (see `findings`) | smallest instance that shows each |
| `leases_stopped` | "a stopped runner's requests are settled": not kept | 3 writes of one path |
| `files_torn` | "a snapshot is there before a change": not after a crash while it is stored | 1 file, 1 crash |
| `access_logged` | "an approved call runs with its arguments": not with the ones the log has redacted | 2 runs |

*Composition by focus.* The modules extended by `MCServices`, `MCRuns` and `MCTools` share no state.
A behaviour exercises the one that `focus` names, chosen initially; the others keep one of their
initial states. So a run explores the sum of their state spaces, which is what checking each of them
alone would explore. That components with no common state do not disturb each other needs no check. `tools`
has a TLC view that leaves out `accLast`, which records what the last step ran and decides nothing:
TLC evaluates the action properties that read it on every step, also on one into a state it knows.

*Properties.* The invariants of a component are conjunctions of named parts, each with its own
comment: `AutoRunsOnTime`, `OAuthFlowsHold`, `McpServesAsConfigured`, `BrLinked`, `OutFaithful` and
`FxGoesWhereAllowed` in `services`; `BudLimitsHold`, `DelHolds`,
`ChrTabsControlled`, `AudHistoryHolds`, `SbCountsRight`, `StrTextWhole`, `TrTracesWhole` and
`ViewShowsOnce` in `runs`; `FilRecoverable`, `PkgInstalledAsShown`, `PrepPromptHolds`, `GateVerdictHonest`,
`ProcAccounted`, `ConRequestWhole`, `SkKept` and `AccAskedAndBounded` in `tools`. The type invariants
of the parts are gathered in `ServicesTypeOK`, `RunsTypeOK` and `ToolsTypeOK`, the liveness of the
services in `EveryWaitEnds`.

*Bounds.* `MaxSessions`, `MaxStarts` and `MaxMessages` bound how often the user starts the run, how
many `start()` calls overlap and how many messages are sent; `MaxQueue` bounds only the queue length
at which another stop may be requested. Two sessions are enough for an old and a new agent to meet,
two starts for a resume to overtake another, two calls for one question to be open while another is
answered. `PatientUser` restricts when the user acts, never what the system does. Three writes of one
path are the holder, its successor and a newcomer behind it; four reads and two slots make a queue of
two, the shortest in which order matters. In the other modules every `...Max...` and `...Horizon` is
a bound on how often the environment acts or on the clock, so the conflicts of two or three actors fit: two
automations and a clock of three instants let a tick pass the misfire grace; three OAuth flows are an
old, a current and a next one; three MCP connections are two that are replaced and one that stays;
three starts under a total of three turns overrun a turn's budget and the run's; three runs are a
parent, a child and a grandchild; three grants
of two tabs are one under revocation, one that takes its tab and one that takes it over again; three calls are
a change, its check and what comes after; four
searches of width two overrun a budget of two. Limits of the code (bytes, tokens, processes) are small
constants on whose both sides the inputs lie. All runs set `CHECK_DEADLOCK FALSE` because with all
bounds spent nothing is left to do.

*Fairness.* `HostSpec`, the specification of `lifecycle_restarts`, assumes only the host's command loop
and the end of its agents, which is enough for `StoppedSessionEnds`; `WorkComesToRest` states the rest
as its premise: the continuation of `start()`, Main's handling of the host's messages, and the
duration timer that `agent-host.ts` 313-317 arms for every session. Nothing is assumed about the user,
the model's choice of calls, the Tool Runner or faults, and questions and messages are excluded there:
with them a run can be 'running' with no agent. `FairSpec` of `services` assumes that timers of
automations fire and their loops go on (JavaScript's event loop). Each liveness property states what
it needs besides as a premise of its own: that callbacks and the OAuth SDK come to an end, that
promises awaited by MCP calls settle, that request, command and fetch timers fire, that Chrome reports
ports that have gone, that microtasks run. `WritesEndUnlessStopped` excludes the one case
`leases_stopped` shows, a runner that Main stops under a call (`dying` not empty). `EveryReadEnds`
assumes that Main answers, `AbortEndsReads` does not.

## Proofs

TLAPS checks every theorem for every value of the constants that the named assumptions allow. Each
proof has the same shape: an inductive invariant, a lemma for each action, a stuttering step, and the
property as a consequence. Of the 40 properties of the runs 34 are theorems.

| Module | Theorems (properties) | Assumptions |
|---|---|---|
| `RunLifecycleProofs` | `TypeCorrect` (`TypeOK`), `LifecycleKeepsContract` (`KeepsContract`), `ApprovalGuardsEffects` (`EffectsAreApproved`), `CancellationIsFinal` (`CancelledIsFinal`), `VerdictsAreWithdrawn` (`VerdictIsCurrent`), `QuestionsFindAnswers` (`QuestionIsAnswerable`), `StopsHold` (`StoppedStaysStopped`), `CallsAreAnswered` (`EveryCallIsAnswered`) | `BoundsAssumption`; for the last one `PatientUser` |
| `QueueProofs` | `WritersExclude` (`OneWriterPerFile`), `LeasesInTurn` (`LeasesTakeTurns`), `TailsCurrent`, `LeasesAreTyped`; `SlotsCounted` (`SlotsAreCounted`), `ReadsInTurn` (`ReadsTakeTurns`), `ReadsInOrder`, `SlotsBusy`, `ReadsAreTyped` | `LeaseAssumption`, `LimiterAssumption` |
| `PromptProofs` | `RequestsAreWhole` (`ConRequestWhole`), `PromptsHold` (`PrepPromptHolds`), `ConversationIsTyped`, `PreparationIsTyped` | those of the models |
| `RunsProofs` | `BudgetsHold` (`BudLimitsHold`), `DelegationHolds` (`DelHolds`), `SearchesCountRight` (`SbCountsRight`), `TextArrivesWhole` (`StrTextWhole`) | those of the models |
| `ServicesProofs` | `SchedulesAreKept` (`AutoRunsOnTime`), `SignInsHold` (`OAuthFlowsHold`), `ServedAsConfigured` (`McpServesAsConfigured`) | those of the models |
| `ToolsProofs` | `AccessIsBounded` (`AccAskedAndBounded`), `ChangesRecoverable` (`FilRecoverable`), `PackagesAsShown` (`PkgInstalledAsShown`), `SkillsAreKept` (`SkKept`), `ProcessesAccounted` (`ProcAccounted`), `OutputIsFaithful` (`OutFaithful`) | those of the models |
| `LinksProofs` | `BrowserLinked` (`BrLinked`), `FetchGoesWhereAllowed` (`FxGoesWhereAllowed`), `TabsAreControlled` (`ChrTabsControlled`), `MessagesAreShownOnce` (`ViewShowsOnce`) | those of the models |
| `RecordsProofs` | `VerdictsAreHonest` (`GateVerdictHonest`), `TamperingIsReported` (`AudHistoryHolds`), `TracesAreWhole` (`TrTracesWhole`) | those of the models |

### A run

* `TypeCorrect` goes conjunct by conjunct and needs only `BoundsAssumption`. `LifecycleKeepsContract`
  is the refinement of `RunContract`; the strengthening is `VerdictWhileWorking`: a verdict exists only
  for a run that is being worked on or has ended, because `Park` and `Abandon` of the contract require
  the verdict to be gone.
* `EffectsAreApproved` is not inductive: a request on its way must not find its call already started.
  `RequestInv` adds that a call never asked for is untouched, that it is untouched until its request is
  handled, and that it is requested once. `CancellationIsFinal` rests on it too, since a request that
  was handled twice would overwrite its receipt.
* `StopsHold` and `VerdictsAreWithdrawn` go through every handler; the questions a stop withdraws are
  what keeps an old answer from reviving the run.
* `CallsAreAnswered` follows each call that the agent waits for through Main and back. `PatInv` says
  that with a patient user there is at most one session between Main and the host: while a start is
  under way both are idle, a started agent has been told of, and a call held or served is waited for.
  With overlapping starts the property is false: a start that fails takes down the run under the agent
  that another start has set to work, and a failure of that agent's call is then not answered.

### Files, slots and what a run spends

* `LeaseInv` describes the chain of a path: arrivals have distinct ranks, a call with an older live
  call in its path awaits the youngest of them (`LinksAreClose`), links go back in time, the tail is the
  youngest live call, and whoever holds a lease awaits nobody live. Then a holder is the oldest.
* A slot is handed over without a change of `active`, which is right only if the waiter had none:
  `QueueIsExact` says that the queue holds exactly the queued reads, once each, and `QueueIsOrdered`
  that it is sorted by arrival. Cardinalities come from `FiniteSetTheorems`.
* `LeasesInTurn` and `ReadsInTurn` are the refinements of `TurnTaking`, action by action. What makes the
  steps map is in the invariants: a call whose predecessor is gone is the oldest of its path and nobody
  holds the lease (`LinksAreClose`, `HoldersAreFirst`), so that `Execute` is an `Enter`; a free slot means
  an empty queue (`NoSlotIdle`), so that an `Acquire` that is granted at once passes nobody; the head of
  the queue is the oldest that waits, so that `ReleaseSlot` is a `HandOver` to the right one.
* `BudInv`: every turn granted is in one place (reserved, granted, on its way, counted or left over),
  and segments nest. `DelInv` adds that runs not yet born have no rows; the descendants of a run are
  closed under parents, so that narrowing and deletion reach the whole tree. `SbInv` counts the queries
  that were sent with those under way.
* `StrInv`: bubbles, wire and buffer share out the numbers from one to the count of what was said, in
  this order, and each event on the wire joins the place before it to the place after it (`StrPath`);
  the open bubble begins where the last message ended, so that the message that closes it reads as it.

### Services and links

* `AutoInv`: occurrences that were run lie behind what the tick has read, the next one ahead of it; the
  lemmas about division show that `nextRun` is the first of its kind. `OAuthInv` orders the flows by
  number: a code not yet exchanged belongs to a flow that is the latest or was replaced. `McpInv` is
  ownership: a connection is in the table or in the hands of one handler.
* `BrSound`: the extension keeps one port, so at most one host process is behind it. `FxInv` adds the
  counter of hops and that the check of an address still holds when the request is made. `ChrInv` pays
  for each tab under control: it was clicked, or an operation of a live grant opened it
  (`ChrEachPaidFor`). `ViewInv` follows for each sending where the detail is that will confirm it, and
  that pieces of a reply precede every detail that has the reply.

### Tools and records

* `AccessIsBounded` is a set of action properties; its invariant `AccQuestions` says that a stored
  question keeps the risk its call was classified with, and that of a reader asks for no more. In
  `ChangesRecoverable` and `PackagesAsShown` the invariant says at which
  await an operation has looked again at what others may change. `SkInv` counts copies of a skill
  against imports that may move one away.
* `ProcInv` reads both channels in order: at most one message tells how a process ended, and behind it
  nothing about it follows. `OutInv` describes the capture by positions: the head is the beginning of the
  stream, the tail the end of the rest, and what was read of a log a beginning of it.
* `GateInv`: calls are ordered by instants and a change is alone, so a check created after it saw what
  it left. `AudInv`: the rows that stay are the youngest, and each digest is the chain of what went
  before. `TrInv`: what the recorder holds is what is open in the database, each span once.

### Prompts and requests

Both algorithms compute over sequences and sets of any size, and the induction theorems of the library
cannot be used (they take an operator as a parameter). `Induction` of `PromptProofs` replaces them: a
set of numbers that is not all of `Nat` has a least number outside it, by `WFMin`. From it follow that
functions with the rules of `SumFunctionOnSet`, `FlattenSeq` and `PrepGreedy` exist, and what they give.

* `ConInv`: `ConGroups` puts each result directly behind the message that made the call, and
  `ConCovered` ends the checkpoint where a group ends and says which messages it names. Neither is a
  property; without the first a cut before a result could go unnoticed, without the second the next
  compaction could start inside a group. `FlattenBlocks` gives each unit of a request a place of its
  own, which is how `ConPaired` speaks of positions. `ConKept` is the heart of `ConKeepsWhatFits`: sums
  of suffixes grow, so a group that is left out was over the budget, or the least suffix is kept.
* `PrepInv`: the rest is about one preparation. `PrepGreedyFits`: the last item that is taken has all
  others before it, so its own test bounds the whole. `PrepCompressBest`: what was dropped was refused
  beside items of its rank and above, and all of these stay when others give way to the checkpoint,
  because they stand before them. `FirstOnes` counts the risky receipts: of n or more numbers exactly n
  have fewer than n before them.

### What the proofs changed

* `VerdictIsCurrent` and `QuestionIsAnswerable` held on one session and are false on two: an answer to
  a question of an earlier session takes a judged run back to work with its verdict, and an agent of an
  earlier session may ask while a message has the run reopened. Both now state this one exception, and
  the runs have two sessions.
* `AccessPolicy` had a CASE with overlapping guards, which leaves the choice open; it is an IF chain in
  the order of the code. `ChromeTabs` had an expression that TLC and TLAPS read differently; it has
  parentheses. `StrNothingLost` and the captures of `ProcessOutput` are stated without folds.
* `RunPreparation` took items one after the other with folds over sorted sequences. A prompt is now a set
  of items ordered by rank and place, the greedy choice the set that agrees with its own tests, and
  giving way the largest beginning that leaves room; TLC finds the same states. `Conversation` sums and
  flattens with the operators of the community modules, and now also lets the model call an unknown tool
  alone, so that an assistant message of which nothing is left is dropped (`ConEmptied`, `model-request-pipeline.ts` 106-110).
* Several assumptions on constants were missing and are now stated, all of them of kinds or positive
  sizes: that "no run" is no run, that limits are positive, that the contents of files are told apart.

### What only TLC checks

* Liveness (`RunsComeToRest`, `EveryWaitEnds`, `WritesEndUnlessStopped`): under fairness, with ENABLED.
* `ServicesTypeOK`, `RunsTypeOK` and `ToolsTypeOK` as a whole, because they gather types of modules with
  different specifications; the proofs contain the shapes they need (`AutoShape`, `McpShape`, ...), and
  `DelegationTyped`, `SchedulesAreTyped`, `FetchTyped` and `GateIsTyped` state single ones.
* `TailsAreCurrent`, `NoSlotIdle` and the two type invariants beside them rest the other way on their
  proofs and are not run again by TLC except inside `ServicesTypeOK`.

## Observed, not claimed

Behaviour that the models contain and that no document, comment or test speaks about, so that no run
expects either outcome:

* `hooks.ts` 155: the timer set by the end of a tool reloads the run selected then; fired after a
  switch it puts that run back on view while composer and stop button act on the selected one.
* `tool-broker.ts` 279: a write queued behind another run's lease executes after its own run was
  paused; its receipt stays cancelled. `tool-broker.ts` 417: a question stays answerable after a
  budget ended its agent, and its answer sets the run running with no agent. `tool-broker.ts` 360: a
  question asked while a message has the run reopened is stored, and then refused because
  'understanding' may not wait; it stays pending with nobody behind it.
* `tool-broker.ts` 533: a start that still resolves its directory when its run is cancelled starts its
  process afterwards, and its row and a late poll overwrite 'interrupted'.
* `run-coordinator.ts` 190: of two starts that overlap, one that fails marks the run failed while the
  agent of the other works on.
* `run-coordinator.ts` 310: a message reopens a finished child, so more children may work than the
  limit lets be created. `database.ts` 1243: time between a crash and the next launch is charged.
* `runner-security.ts` 77: a call that had read the old configuration may connect with it after the
  disconnect. `skill-service.ts` 367: after a crash between two renames the skill is only in the
  hidden backup. `ipc-api.ts` 230: workspace rules are read before and written after an installation.
* `agent-host.ts` 440: the text still in the buffer when an agent fails is sent after `agent.failed`
  and dropped. `database.ts` 962: rows removed from the audit table by others are not noticed.
* `index.ts` 163: a second worker failure within a second of the first is taken for its echo (not in a
  model). `tool-broker.ts` 569: what is appended to a draft while it is committed is deleted (not in a
  model).

## Not modelled

Memory services, presenters and provider adapters are pure functions over rows; updates, migrations
and navigation short sequences around Electron and the file system; the IPC surface is wiring and
schema validation in front of the handlers modelled here; builds are scripts. Within the modelled
components: parsing, rendering and wording, framing of bytes, sandbox profiles, path resolution on the
file system (`FileChanges` starts from a resolved path), drafts of long files, progress events and
their throttle, loading of tools on demand, the content of browser actions, encryption and redaction.
`FileLeases` leaves out the restart of the application, which forgets the chain and the processes
together. `ChromeTabs` models one life of the extension. `SkillImport` leaves out crashes.

## Plan

1. Theorems for the type invariants that are parts of larger shapes.
2. A refinement for `EventStream`: an abstract mailbox.
3. Drafts of long files in `FileChanges`; a second life of the extension in `ChromeTabs`.
