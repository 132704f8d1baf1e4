--------------------------------- MODULE Traces --------------------------------
(* The hierarchical trace of a run's turns: trace-recorder.ts keeps in memory what is *)
(* open, database.ts the rows of run_traces and trace_spans. The coordinator calls the *)
(* recorder as worker events arrive, so a call may name a turn that is over; the       *)
(* application may stop between any two of them.                                       *)
EXTENDS Naturals, FiniteSets

CONSTANTS
    TrRuns,      \* the runs
    TrKeys,      \* ids a model gives its tool calls, used again in later turns
    TrMaxRows    \* bound on traces and spans

TrNone == 0
TrOpen == {"running", "waiting"}
TrEnds == {"succeeded", "failed", "cancelled", "interrupted"}

VARIABLES
    trTraces,   \* run_traces: the run and the status of each, by number
    trSpans,    \* trace_spans: trace, kind and status of each, by number
    trActive    \* what the recorder holds of each run: the open trace, its root, the
                \* open model span and the open spans of tool calls and approvals

trVars == <<trTraces, trSpans, trActive>>

TrIdle == [trace |-> TrNone, root |-> TrNone, model |-> TrNone, tools |-> {}, asks |-> {}]

TrRoomFor(n) == Cardinality(DOMAIN trSpans) + n <= TrMaxRows
TrNewSpan == Cardinality(DOMAIN trSpans) + 1
TrSpan(t, parent, kind, status) ==
    [trace |-> t, parent |-> parent, kind |-> kind, status |-> status]
TrWith(spans, s) == [i \in DOMAIN spans \cup {Cardinality(DOMAIN spans) + 1} |->
                        IF i \in DOMAIN spans THEN spans[i] ELSE s]

--------------------------------------------------------------------------------
(* Rows. *)

\* finishTraceSpan writes the status whatever the row says.
TrClose(spans, ids, status) ==
    [i \in DOMAIN spans |-> IF i \in ids THEN [spans[i] EXCEPT !.status = status]
                                         ELSE spans[i]]

\* finishRunTrace sweeps what is still open, then closes the trace.
TrSweep(spans, ts) ==
    TrClose(spans, {i \in DOMAIN spans : spans[i].trace \in ts /\ spans[i].status \in TrOpen},
            "interrupted")

TrOpenOf(r) == {t \in DOMAIN trTraces : trTraces[t].run = r /\ trTraces[t].status = "running"}

TrEndTraces(ts, status) ==
    [t \in DOMAIN trTraces |-> IF t \in ts THEN [trTraces[t] EXCEPT !.status = status]
                                           ELSE trTraces[t]]

\* finishRun: the open model span, the open calls and questions, the root, the trace.
TrHeld(a) == ({a.model, a.root} \ {TrNone}) \cup a.asks \cup {x[2] : x \in a.tools}
TrFinished(a, status) == TrSweep(TrClose(trSpans, TrHeld(a), status), {a.trace})

--------------------------------------------------------------------------------
(* The recorder's calls. *)

\* interruptRun at the start of a turn: the held trace, or what the database has open.
TrOverBefore(r) == IF trActive[r].trace # TrNone THEN {trActive[r].trace} ELSE TrOpenOf(r)
TrOver(r) == TrOverBefore(r)

TrSpansAfter(r) ==
    IF trActive[r].trace # TrNone /\ TrOver(r) # {} THEN TrFinished(trActive[r], "interrupted")
    ELSE TrSweep(trSpans, TrOver(r))

\* Faulty variant: a new turn keeps what the last one held.
TrFreshBeside(r, t) == [trActive[r] EXCEPT !.trace = t, !.root = TrNewSpan]
TrFresh(r, t) == [TrIdle EXCEPT !.trace = t, !.root = TrNewSpan]

TrStartTurn(r) ==
    LET t == Cardinality(DOMAIN trTraces) + 1 IN
    /\ TrRoomFor(1)
    /\ trTraces' = [u \in DOMAIN trTraces \cup {t} |->
                      IF u = t THEN [run |-> r, status |-> "running"]
                      ELSE TrEndTraces(TrOver(r), "interrupted")[u]]
    /\ trSpans' = TrWith(TrSpansAfter(r), TrSpan(t, TrNone, "run_turn", "running"))
    /\ trActive' = [trActive EXCEPT ![r] = TrFresh(r, t)]

TrStartModelTurn(r) ==
    LET a == trActive[r] IN
    /\ a.trace # TrNone /\ TrRoomFor(1)
    /\ trSpans' = TrWith(TrClose(trSpans, {a.model}, "succeeded"),
                         TrSpan(a.trace, a.root, "model_turn", "running"))
    /\ trActive' = [trActive EXCEPT ![r].model = TrNewSpan]
    /\ UNCHANGED trTraces

TrFinishModelTurn(r, failed) ==
    LET a == trActive[r] IN
    /\ a.model # TrNone
    /\ trSpans' = TrClose(trSpans, {a.model}, IF failed THEN "failed" ELSE "succeeded")
    /\ trActive' = [trActive EXCEPT ![r].model = TrNone]
    /\ UNCHANGED trTraces

TrStartTool(r, k) ==
    LET a == trActive[r] IN
    /\ a.trace # TrNone /\ \A x \in a.tools : x[1] # k
    /\ TrRoomFor(1)
    /\ trSpans' = TrWith(trSpans, TrSpan(a.trace, IF a.model # TrNone THEN a.model ELSE a.root,
                                         "tool_call", "running"))
    /\ trActive' = [trActive EXCEPT ![r].tools = @ \cup {<<k, TrNewSpan>>}]
    /\ UNCHANGED trTraces

TrToolsWithout(a, x) == a.tools \ {x}

TrFinishTool(r, k, failed) ==
    LET a == trActive[r] IN
    \E x \in a.tools :
        /\ x[1] = k
        /\ trSpans' = TrClose(trSpans, {x[2]}, IF failed THEN "failed" ELSE "succeeded")
        /\ trActive' = [trActive EXCEPT ![r].tools = TrToolsWithout(a, x)]
        /\ UNCHANGED trTraces

\* A question is opened; no code calls the recorder when it is answered.
TrStartApproval(r) ==
    LET a == trActive[r] IN
    /\ a.trace # TrNone /\ TrRoomFor(1)
    /\ trSpans' = TrWith(trSpans, TrSpan(a.trace, a.root, "approval_wait", "waiting"))
    /\ trActive' = [trActive EXCEPT ![r].asks = @ \cup {TrNewSpan}]
    /\ UNCHANGED trTraces

\* Context stages, checkpoints and verdicts are spans of an instant.
TrInstant(r, kind, status) ==
    LET a == trActive[r] IN
    /\ a.trace # TrNone /\ TrRoomFor(1)
    /\ trSpans' = TrWith(trSpans, TrSpan(a.trace, a.root, kind, status))
    /\ UNCHANGED <<trTraces, trActive>>

\* The end of a turn: completion, failure, pause, cancel, budget, lost Chrome.
TrFinishRun(r, status) ==
    LET a == trActive[r] IN
    /\ a.trace # TrNone
    /\ trSpans' = TrFinished(a, status)
    /\ trTraces' = TrEndTraces({a.trace}, status)
    /\ trActive' = [trActive EXCEPT ![r] = TrIdle]

\* The application stops; at its next start the database closes what was left open.
TrRestart ==
    LET open == UNION {TrOpenOf(r) : r \in TrRuns} IN
    /\ open # {}
    /\ trSpans' = TrSweep(trSpans, open)
    /\ trTraces' = TrEndTraces(open, "interrupted")
    /\ trActive' = [r \in TrRuns |-> TrIdle]

TrInit == trTraces = <<>> /\ trSpans = <<>> /\ trActive = [r \in TrRuns |-> TrIdle]

TrNext ==
    \/ \E r \in TrRuns :
         \/ TrStartTurn(r) \/ TrStartModelTurn(r) \/ TrStartApproval(r)
         \/ \E f \in BOOLEAN : \/ TrFinishModelTurn(r, f)
                               \/ \E k \in TrKeys : TrFinishTool(r, k, f)
         \/ \E k \in TrKeys : TrStartTool(r, k)
         \/ TrInstant(r, "context_stage", "failed") \/ TrInstant(r, "checkpoint", "succeeded")
         \/ \E s \in TrEnds : TrFinishRun(r, s)
    \/ TrRestart

TrSpec == TrInit /\ [][TrNext]_trVars

--------------------------------------------------------------------------------
(* Properties. *)

\* What the recorder holds of a run is what the database has open of its newest turn, so
\* no span is left that nobody will close (TraceRecorder.active).
TrTypeOK ==
    /\ \A t \in DOMAIN trTraces : trTraces[t].status \in TrEnds \cup {"running"}
    /\ \A i \in DOMAIN trSpans : trSpans[i].status \in TrEnds \cup TrOpen
    /\ \A r \in TrRuns : LET a == trActive[r] IN
          a.trace # TrNone =>
             /\ TrOpenOf(r) = {a.trace}
             /\ TrHeld(a) = {i \in DOMAIN trSpans : /\ trSpans[i].trace = a.trace
                                                    /\ trSpans[i].status \in TrOpen}

\* A trace that is over has no open span, also when the application stopped in between
\* (finishRunTrace), and a run has one open trace at most.
TrClosedTogether ==
    /\ \A i \in DOMAIN trSpans :
          trTraces[trSpans[i].trace].status # "running" => trSpans[i].status \notin TrOpen
    /\ \A r \in TrRuns : Cardinality(TrOpenOf(r)) <= 1

\* Parents are spans of the same trace, and all but the root have one.
TrOneTree ==
    \A i \in DOMAIN trSpans : LET s == trSpans[i] IN
       IF s.kind = "run_turn" THEN s.parent = TrNone
       ELSE s.parent \in DOMAIN trSpans /\ trSpans[s.parent].trace = s.trace

\* What a span or a trace ended with stays: the end of the turn does not write over the
\* failure of a call (finishTraceSpan writes unconditionally).
TrEndsStay ==
    [][/\ \A i \in DOMAIN trSpans :
            trSpans[i].status \in TrEnds => trSpans'[i].status = trSpans[i].status
       /\ \A t \in DOMAIN trTraces :
            trTraces[t].status \in TrEnds => trTraces'[t].status = trTraces[t].status]_trVars

\* Every trace is one tree that ends as a whole and whose ends stay, across late events,
\* stops and restarts (TraceRecorder).
TrTracesWhole == []TrClosedTogether /\ []TrOneTree /\ TrEndsStay
================================================================================
