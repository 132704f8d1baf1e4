------------------------------- MODULE RunStates -------------------------------
(***************************************************************************)
(* The status tables of a run, shared by every module that moves one:      *)
(* packages/core/src/state-machine.ts and the status sets at the head of   *)
(* run-coordinator.ts.                                                     *)
(***************************************************************************)

RunStatus == {"understanding", "planning", "running", "verifying",
              "waiting_approval", "waiting_user", "paused",
              "completed", "failed", "cancelled"}

\* TERMINAL_RUN_STATUSES, and isTerminalRunStatus of the core package.
Terminal == {"completed", "failed", "cancelled"}

\* ACTIVE_RUN_STATUSES: a tool request is served only in one of these.
Active == {"understanding", "planning", "running", "verifying", "waiting_approval"}

\* STARTABLE_RUN_STATUSES: start() refuses every other status.
Startable == {"understanding", "paused", "waiting_user"}

\* IGNORE_LATE_AGENT_EVENT_STATUSES: agent events are dropped in these.
IgnoreLate == {"waiting_user", "paused"} \cup Terminal

\* sendMessage hands the text to the live agent in these, and starts otherwise.
Steerable == {"running", "planning", "verifying", "waiting_approval"}

Stops == {"waiting_user", "paused", "failed", "cancelled"}

RunTransitions(from) ==
    CASE from = "understanding"    -> {"planning", "running"} \cup Stops
      [] from = "planning"         -> {"running", "waiting_approval"} \cup Stops
      [] from = "running"          -> {"verifying", "waiting_approval"} \cup Stops
      [] from = "verifying"        -> {"running", "completed", "waiting_approval"} \cup Stops
      [] from = "waiting_approval" -> {"running", "verifying"} \cup Stops
      [] from = "waiting_user"     -> {"understanding", "planning", "running", "verifying",
                                       "paused", "failed", "cancelled"}
      [] from = "paused"           -> {"understanding", "planning", "running", "verifying",
                                       "waiting_approval", "waiting_user", "cancelled"}
      [] OTHER                     -> {}

CanTransition(from, to) == from = to \/ to \in RunTransitions(from)
=============================================================================
