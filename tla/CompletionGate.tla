----------------------------- MODULE CompletionGate ----------------------------
(***************************************************************************)
(* The verdict of a turn: completeTask of tool-broker.ts and the gate of   *)
(* verification.ts, over the receipts (tool_calls) and the plan            *)
(* (task_steps) that database.ts keeps.  A run with one planned step; the  *)
(* agent issues calls one after the other, reads side by side.             *)
(*                                                                         *)
(* A hash stands for the content it is taken of; 0 is no hash in a result. *)
(* The position of a call is its created_at and `at` its updated_at: two   *)
(* calls that are not both reads never share an instant.                   *)
(***************************************************************************)
EXTENDS Integers, Sequences, FiniteSets, FiniteSetsExt

CONSTANTS
    GateFiles,      \* paths
    GateContents,   \* contents a file may get, positive
    GateMaxCalls    \* bound: calls of the run

ASSUME GateAssumption == GateContents \subseteq Nat \ {0} /\ GateMaxCalls \in Nat

VARIABLES
    gateCalls,    \* the receipts of the run in the order they were created
    gateFrom,     \* position of the first receipt of the turn
    gateStep,     \* the planned step; touched: updated_at lies in the turn
    gateClock,    \* instants at which receipts were settled
    gateVerdict   \* runs.outcome after task_complete; "open": the turn goes on

gateVars == <<gateCalls, gateFrom, gateStep, gateClock, gateVerdict>>

\* write: file_write, file_replace, file_draft_commit; check: a shell_run of a validation
\* command; act: chrome and MCP calls; plan, step: task_plan, task_step_update.
GateTools == {"write", "delete", "read", "check", "shell", "act", "fetch", "plan", "step"}
GateMutations == {"write", "delete"}
GateReads == {"read", "fetch"}
GateNotes == {"plan", "step"}
GateTargeted == {"write", "delete", "read"}

GateStepStates == {"pending", "in_progress", "blocked", "completed", "failed", "skipped"}
GateStepMoves ==
    [pending |-> {"in_progress", "blocked", "skipped", "failed"},
     in_progress |-> {"blocked", "completed", "failed", "skipped"},
     blocked |-> {"pending", "in_progress", "failed", "skipped"},
     completed |-> {}, failed |-> {"pending", "in_progress"}, skipped |-> {"pending"}]

GateTypeOK ==
    /\ gateCalls \in Seq([tool : GateTools, file : GateFiles, hash : GateContents \cup {0}, at : Nat,
                          state : {"running", "succeeded", "failed", "cancelled"}])
    /\ gateFrom \in 1..Len(gateCalls) + 1
    /\ gateStep \in [exists : BOOLEAN, status : GateStepStates, evidence : BOOLEAN, touched : BOOLEAN]
    /\ gateClock \in Nat /\ gateVerdict \in {"open", "none", "verified", "partial"}

GateInit ==
    /\ gateCalls = <<>> /\ gateFrom = 1 /\ gateClock = 0 /\ gateVerdict = "open"
    /\ gateStep = [exists |-> FALSE, status |-> "pending", evidence |-> FALSE, touched |-> FALSE]

-----------------------------------------------------------------------------
(* The turn *)

GateTurn == gateFrom..Len(gateCalls)
GateIs(tools, states) == {i \in GateTurn : gateCalls[i].tool \in tools /\ gateCalls[i].state \in states}
GateRunning == GateIs(GateTools, {"running"})

\* handle: a call after a verdict withdraws it.  Which file a call is about only matters
\* for some tools.
GateCall(tool, file) ==
    /\ Len(gateCalls) < GateMaxCalls
    /\ \A i \in GateRunning : {tool, gateCalls[i].tool} \subseteq GateReads
    /\ tool \in GateTargeted \/ file = CHOOSE f \in GateFiles : TRUE
    /\ gateCalls' = Append(gateCalls, [tool |-> tool, file |-> file, hash |-> 0, at |-> gateClock,
                                       state |-> "running"])
    /\ gateVerdict' = "open"
    /\ UNCHANGED <<gateFrom, gateStep, gateClock>>

GateSettled(i, state, hash) ==
    /\ gateClock' = gateClock + 1
    /\ gateCalls' = [gateCalls EXCEPT ![i].state = state, ![i].hash = hash, ![i].at = gateClock + 1]

\* updateToolCall with a result: a write reports the hash of what it wrote, a read of
\* what it found, which others may have written since; a removal reports none.
GateSucceeds(i, content) ==
    /\ i \in GateRunning /\ gateCalls[i].tool \notin GateNotes
    /\ (content # 0) = (gateCalls[i].tool \in {"write", "read"})
    /\ GateSettled(i, "succeeded", content)
    /\ UNCHANGED <<gateFrom, gateStep, gateVerdict>>

\* A call fails, or a pause cancels it.
GateFails(i, state) ==
    /\ i \in GateRunning /\ GateSettled(i, state, 0)
    /\ UNCHANGED <<gateFrom, gateStep, gateVerdict>>

\* replaceSteps: a step that is there under its title is left as it is.
GatePlan(i) ==
    /\ i \in GateRunning /\ gateCalls[i].tool = "plan"
    /\ gateStep' = IF gateStep.exists THEN gateStep
                   ELSE [exists |-> TRUE, status |-> "pending", evidence |-> FALSE, touched |-> TRUE]
    /\ GateSettled(i, "succeeded", 0) /\ UNCHANGED <<gateFrom, gateVerdict>>

GateEvidenced(status, evidence) == status = "completed" => evidence

\* updateTaskStep, which throws for a move that is not allowed or a completion without
\* evidence.
GateStepUpdate(i, status, evidence) ==
    /\ i \in GateRunning /\ gateCalls[i].tool = "step" /\ gateStep.exists
    /\ status \in {gateStep.status} \cup GateStepMoves[gateStep.status]
    /\ GateEvidenced(status, gateStep.evidence \/ evidence)
    /\ gateStep' = [gateStep EXCEPT !.status = status, !.evidence = @ \/ evidence, !.touched = TRUE]
    /\ GateSettled(i, "succeeded", 0) /\ UNCHANGED <<gateFrom, gateVerdict>>

GateTurnStart == Len(gateCalls) + 1

\* markRunTurnStarted: the next message of the user.
GateNewTurn ==
    /\ gateVerdict # "open" /\ gateVerdict' = "open" /\ gateFrom' = GateTurnStart
    /\ gateStep' = [gateStep EXCEPT !.touched = FALSE]
    /\ UNCHANGED <<gateCalls, gateClock>>

-----------------------------------------------------------------------------
(* completeTask *)

GateRelevant == GateIs(GateTools \ GateNotes, {"running", "succeeded", "failed", "cancelled"})
GateChecksPassed == GateIs({"check"}, {"succeeded"})
GateMutated == GateIs(GateMutations, {"succeeded"})
GateLatest == CHOOSE i \in GateMutated : \A j \in GateMutated : gateCalls[j].at <= gateCalls[i].at

\* Faulty variant: a read or check counts whenever it was made.
GateSinceAny(i) == TRUE
GateSinceLatest(i) == gateCalls[i].at >= gateCalls[GateLatest].at

\* The latest mutation was read back (the hash is compared, not the path), or checked.
GateReadBack ==
    \E i \in GateIs({"read"}, {"succeeded"}) :
        /\ GateSinceLatest(i) /\ gateCalls[GateLatest].hash # 0
        /\ gateCalls[i].hash = gateCalls[GateLatest].hash
GateChecked == \E i \in GateChecksPassed : GateSinceLatest(i)

\* Host-made checks that passed, and those that failed or were never made.
GatePassed ==
    \/ GateChecksPassed # {} \/ GateIs({"fetch"}, {"succeeded"}) # {}
    \/ GateMutated # {} /\ GateReadBack
    \/ GateIs({"act"}, {"succeeded"}) # {} /\ GateIs({"act"}, {"failed"}) = {}
GateLacking ==
    \/ GateIs({"check"}, {"running", "failed", "cancelled"}) # {}
    \/ GateMutated # {} /\ ~GateReadBack /\ ~GateChecked
    \/ GateIs({"act"}, {"failed"}) # {}
    \/ GateIs({"act"}, {"running", "cancelled"}) # {} /\ GateIs({"act"}, {"succeeded"}) = {}

\* A later call of the same tool and target succeeded.
GateRecovered(i) ==
    \E j \in GateTurn : /\ j > i /\ gateCalls[j].state = "succeeded"
                        /\ gateCalls[j].tool = gateCalls[i].tool /\ gateCalls[j].file = gateCalls[i].file
GateUnresolved == {i \in GateIs(GateTools \ (GateReads \cup {"shell"}), {"failed"}) : ~GateRecovered(i)}

GateStepDone == gateStep.exists /\ gateStep.touched => gateStep.status = "completed" /\ gateStep.evidence

GateVerified(unverified) ==
    /\ GateStepDone /\ GateRunning = {} /\ ~GateLacking /\ GateUnresolved = {}
    /\ ~unverified /\ GatePassed

GateJudged == GateRelevant # {}

\* task_complete, or finalizeTurn at the end of an agent that did not call it.
GateComplete(unverified) ==
    /\ gateVerdict = "open" /\ GateRunning = {}
    /\ gateVerdict' = IF ~GateJudged THEN "none"
                      ELSE IF GateVerified(unverified) THEN "verified" ELSE "partial"
    /\ UNCHANGED <<gateCalls, gateFrom, gateStep, gateClock>>

GateNext ==
    \/ \E tool \in GateTools, file \in GateFiles : GateCall(tool, file)
    \/ \E i \in GateRunning :
          \/ \E content \in GateContents \cup {0} : GateSucceeds(i, content)
          \/ \E state \in {"failed", "cancelled"} : GateFails(i, state)
    \/ \E i \in GateRunning :
          GatePlan(i) \/ \E status \in GateStepStates, e \in BOOLEAN : GateStepUpdate(i, status, e)
    \/ GateNewTurn \/ \E unverified \in BOOLEAN : GateComplete(unverified)

GateSpec == GateInit /\ [][GateNext]_gateVars

-----------------------------------------------------------------------------
(* Properties *)

\* A verified turn that changed files has looked at the result: after the last change a
\* validation was begun and succeeded, or a read was begun that returned what was written.
GateLastWriteChecked ==
    gateVerdict = "verified" /\ GateMutated # {} =>
        \E j \in GateTurn :
            /\ j > Max(GateMutated) /\ gateCalls[j].state = "succeeded"
            /\ \/ gateCalls[j].tool = "check"
               \/ gateCalls[j].tool = "read" /\ gateCalls[j].hash = gateCalls[Max(GateMutated)].hash

\* A failed write is never forgotten: in a verified turn the same operation on the same
\* file succeeded later.
GateFailuresMadeGood ==
    gateVerdict = "verified" =>
        \A i \in GateIs(GateMutations, {"failed"}) :
            \E j \in GateIs(GateMutations, {"succeeded"}) : j > i /\ gateCalls[j].file = gateCalls[i].file

\* A completed step always rests on evidence, and a verified turn leaves no step that it
\* worked on unfinished.
GateStepsHonest ==
    /\ gateStep.exists /\ gateStep.status = "completed" => gateStep.evidence
    /\ gateVerdict = "verified" /\ gateStep.touched => gateStep.status = "completed"

\* Plain conversation gets no verdict, and every other turn gets one.
GatePlainTalk == gateVerdict # "open" => (gateVerdict = "none" <=> GateRelevant = {})

\* "verified" means it: the last change was looked at, every failed one made good, every
\* step worked on finished on evidence, and only turns that did something are judged.
GateVerdictHonest ==
    /\ GateLastWriteChecked
    /\ GateFailuresMadeGood
    /\ GateStepsHonest
    /\ GatePlainTalk
=============================================================================
