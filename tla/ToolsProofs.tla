----------------------------- MODULE ToolsProofs ------------------------------
(***************************************************************************)
(* Theorems about what tools do: AccessPolicy, FileChanges,                *)
(* PackageInstall, SkillImport, ManagedProcess and ProcessOutput, for any  *)
(* calls, contents, packages, imports, processes and limits of output.     *)
(*                                                                         *)
(* AccessPolicy is a case analysis: each answer of the policy is traced to *)
(* the question, the rule or the mode that allows it.  FileChanges and     *)
(* PackageInstall follow what an operation remembers: others may change    *)
(* the file between its steps, and the invariant says at which places it   *)
(* has looked again.  SkillImport counts: no import gives up a copy of the *)
(* skill unless there are more copies than imports that may take one away. *)
(*                                                                         *)
(* ManagedProcess reads the two queues in order: behind a message that     *)
(* tells an outcome nothing tells another.  ProcessOutput describes what   *)
(* is kept of a stream by positions: the head is its beginning, the tail   *)
(* the end of the rest, and what was read of a log is the beginning of the *)
(* log.                                                                    *)
(***************************************************************************)
EXTENDS AccessPolicy, FileChanges, PackageInstall, SkillImport, ManagedProcess, ProcessOutput,
        FiniteSetTheorems, SequenceTheorems, TLAPS

-----------------------------------------------------------------------------
(* AccessPolicy: what needs an answer *)

\* A question is about a call somebody made and carries its risk; one of a read-only run is
\* about reading.
AccQuestions ==
    \A q \in accPending :
        /\ q.call \in AccCalls /\ q.risk = AccBase(q.call, AccDeclared(q.call)).risk
        /\ q.run \in AccReadOnly => ~AccBeyondReading(q.call)

\* The calls, by their fields.
AccCall == [tool : AccTools, form : AccForms, aim : DOMAIN AccGuarded, body : Nat]

LEMMA AccCallsKnown ==
    ASSUME NEW c \in AccCalls
    PROVE  /\ c \in AccCall /\ c.tool \in AccTools /\ c.form \in AccForms
           /\ AccGuarded[c.aim] \in {"plain", "sensitive", "protected"}
           /\ c.form \in {"rm", "push"} => c.tool = "shell"
           /\ c.form = "login" => c.tool = "web.fetch"
<1>1. c \in AccCall
  BY AccAssumption DEF AccCall
<1>2. c.tool \in AccTools /\ c.form \in AccForms
  BY <1>1 DEF AccCall
<1> QED BY <1>1, <1>2, AccAssumption

\* The log hides the body of a call and nothing else.
LEMMA AccLoggedSame ==
    ASSUME NEW c \in AccCalls
    PROVE  AccLogged(c).tool = c.tool /\ AccLogged(c).form = c.form /\ AccLogged(c).aim = c.aim
  BY AccCallsKnown DEF AccLogged, AccCall

LEMMA AccBaseFields ==
    ASSUME NEW c, NEW declared
    PROVE  /\ AccForbidden(c) => AccBase(c, declared).effect = "deny" /\ AccBase(c, declared).risk = "high"
           /\ ~AccForbidden(c) => /\ AccBase(c, declared).risk = AccRisk(c, declared)
                                  /\ AccBase(c, declared).effect = IF AccRisk(c, declared) = "readonly" THEN "allow" ELSE "ask"
           /\ AccBase(c, declared).sensitive = FALSE
  BY DEF AccBase

\* What the run's mode makes of the classification: the risk stays.
LEMMA AccDecisionFields ==
    ASSUME NEW c \in AccCalls, NEW mode
    PROVE  LET base == AccBase(c, AccDeclared(c))
               d == AccDecision(c, mode)
           IN /\ d.risk = base.risk
              /\ AccGuarded[c.aim] = "protected" => d.effect = "deny"
              /\ AccGuarded[c.aim] = "sensitive" => d.effect = "ask" /\ d.sensitive
              /\ AccGuarded[c.aim] = "plain" =>
                    d.effect = IF mode = "full_disk" /\ base.effect = "ask" /\ AccOrdinary(c, base.risk) THEN "allow" ELSE base.effect
<1> DEFINE base == AccBase(c, AccDeclared(c))
<1>1. base = [effect |-> base.effect, risk |-> base.risk, sensitive |-> FALSE]
  BY DEF AccBase
<1>2. AccGuarded[c.aim] \in {"plain", "sensitive", "protected"}
  BY AccCallsKnown
<1>3. CASE AccGuarded[c.aim] = "protected"
  <2>1. AccDecision(c, mode) = [base EXCEPT !.effect = "deny"]
    BY <1>3 DEF AccDecision
  <2> QED BY <1>1, <1>3, <2>1
<1>4. CASE AccGuarded[c.aim] = "sensitive"
  <2>1. AccDecision(c, mode) = [base EXCEPT !.effect = "ask", !.sensitive = TRUE]
    BY <1>4 DEF AccDecision
  <2> QED BY <1>1, <1>4, <2>1
<1>5. CASE AccGuarded[c.aim] = "plain"
  <2>1. AccDecision(c, mode) = IF mode = "full_disk" /\ base.effect = "ask" /\ AccOrdinary(c, base.risk)
                               THEN [base EXCEPT !.effect = "allow"] ELSE base
    BY <1>5 DEF AccDecision
  <2> QED BY <1>1, <1>5, <2>1
<1> QED BY <1>2, <1>3, <1>4, <1>5

\* The risk of the calls the properties speak about.
LEMMA AccRiskOf ==
    ASSUME NEW c \in AccCalls
    PROVE  /\ c.tool \in {"file.delete", "mcp", "click"} \/ c.form \in {"rm", "push"} =>
                 AccRisk(c, AccDeclared(c)) \in {"external", "high"} /\ ~AccOrdinary(c, AccRisk(c, AccDeclared(c)))
           /\ c.form = "login" => AccRisk(c, AccDeclared(c)) = "external" /\ ~AccOrdinary(c, "external")
           /\ c.tool \in {"file.write", "file.edit"} => AccRisk(c, AccDeclared(c)) = "reversible"
<1>1. /\ c.tool \in AccTools /\ c.form \in AccForms
      /\ c.form \in {"rm", "push"} => c.tool = "shell"
      /\ c.form = "login" => c.tool = "web.fetch"
  BY AccCallsKnown
<1>2. CASE c.tool \in {"file.delete", "mcp", "click"}
  BY <1>1, <1>2 DEF AccRisk, AccDeclared, AccOrdinary
<1>3. CASE c.form \in {"rm", "push"}
  <2>1. c.tool = "shell" /\ AccDeclared(c) = "high"
    BY <1>1, <1>3 DEF AccDeclared
  <2>2. AccRisk(c, AccDeclared(c)) = "high"
    BY <2>1 DEF AccRisk
  <2> QED BY <1>3, <2>1, <2>2 DEF AccOrdinary
<1>4. CASE c.form = "login"
  BY <1>1, <1>4 DEF AccRisk, AccDeclared, AccOrdinary
<1>5. CASE c.tool \in {"file.write", "file.edit"}
  BY <1>1, <1>5 DEF AccRisk, AccDeclared
<1> QED BY <1>1, <1>2, <1>3, <1>4, <1>5

\* What nobody may do unasked.
AccMustAsk(c) ==
    \/ AccGuarded[c.aim] = "sensitive" \/ c.tool \in {"file.delete", "mcp", "click"} \/ c.form \in {"rm", "push", "login"}

\* A call that must be asked about each time never runs unasked.
LEMMA AccAskedOnce ==
    ASSUME NEW c \in AccCalls, NEW mode, AccMustAsk(c)
    PROVE  LET d == AccDecision(c, mode) IN d.effect = "deny" \/ (d.effect = "ask" /\ AccOnceOnly(d))
<1>1. AccGuarded[c.aim] \in {"plain", "sensitive", "protected"}
  BY AccCallsKnown
<1>2. CASE AccGuarded[c.aim] # "plain"
  BY <1>1, <1>2, AccDecisionFields DEF AccOnceOnly
<1>3. CASE AccGuarded[c.aim] = "plain" /\ AccForbidden(c)
  BY <1>3, AccDecisionFields, AccBaseFields
<1>4. CASE AccGuarded[c.aim] = "plain" /\ ~AccForbidden(c)
  <2>1. AccRisk(c, AccDeclared(c)) \in {"external", "high"} /\ ~AccOrdinary(c, AccRisk(c, AccDeclared(c)))
    BY <1>4, AccRiskOf DEF AccMustAsk
  <2> QED BY <1>4, <2>1, AccDecisionFields, AccBaseFields DEF AccOnceOnly
<1> QED BY <1>2, <1>3, <1>4

\* A forbidden command is refused or put to the user.
LEMMA AccForbiddenWaits ==
    ASSUME NEW c \in AccCalls, NEW mode, AccForbidden(c)
    PROVE  LET d == AccDecision(c, mode) IN d.effect = "deny" \/ (d.effect = "ask" /\ AccOnceOnly(d))
<1>1. AccGuarded[c.aim] \in {"plain", "sensitive", "protected"}
  BY AccCallsKnown
<1>2. CASE AccGuarded[c.aim] # "plain"
  BY <1>1, <1>2, AccDecisionFields DEF AccOnceOnly
<1>3. CASE AccGuarded[c.aim] = "plain"
  BY <1>3, AccDecisionFields, AccBaseFields
<1> QED BY <1>2, <1>3

LEMMA AccWritesWait ==
    ASSUME NEW c \in AccCalls, c.tool \in {"file.write", "file.edit"}
    PROVE  AccDecision(c, "approval").effect \in {"deny", "ask"}
<1>1. ~AccForbidden(c)
  BY DEF AccForbidden
<1>2. AccGuarded[c.aim] \in {"plain", "sensitive", "protected"}
  BY AccCallsKnown
<1>3. CASE AccGuarded[c.aim] # "plain"
  BY <1>2, <1>3, AccDecisionFields
<1>4. CASE AccGuarded[c.aim] = "plain"
  <2>1. AccRisk(c, AccDeclared(c)) = "reversible"
    BY AccRiskOf
  <2> QED BY <1>1, <1>4, <2>1, AccDecisionFields, AccBaseFields
<1> QED BY <1>3, <1>4

\* What reads, and what may be put in its place by the answer to a question about it.
LEMMA AccReading ==
    ASSUME NEW c \in AccCalls, ~AccBeyondReading(c)
    PROVE  c.tool \in {"file.read", "web.search", "web.fetch", "shell"} /\ (c.tool = "shell" => c.form = "ls")
<1>1. c.tool \in AccTools /\ AccDeclared(c) = "read"
  BY AccCallsKnown DEF AccBeyondReading
<1> QED BY <1>1 DEF AccDeclared, AccTools

LEMMA AccEditReads ==
    ASSUME NEW q, NEW c \in AccCalls, q.call \in AccCalls, q.risk = AccBase(q.call, AccDeclared(q.call)).risk,
           ~AccBeyondReading(q.call), c.tool = q.call.tool, ~AccChanged(q, c)
    PROVE  c.tool \in {"file.read", "web.search", "web.fetch", "shell"} /\ (c.tool = "shell" => c.form = "ls")
<1>1. q.call.tool \in {"file.read", "web.search", "web.fetch", "shell"} /\ (q.call.tool = "shell" => q.call.form = "ls")
      /\ AccDeclared(q.call) = "read"
  BY AccReading DEF AccBeyondReading
<1>2. ASSUME c.tool = "shell" PROVE c.form = "ls"
  <2>0. AccShellRisk("ls") = "readonly"
    BY DEF AccShellRisk
  <2>1. AccRisk(q.call, "read") = "readonly" /\ ~AccForbidden(q.call)
    <3>1. q.call.tool = "shell" /\ q.call.form = "ls"
      BY <1>1, <1>2
    <3> QED BY <2>0, <3>1 DEF AccRisk, AccForbidden
  <2>2. q.risk = "readonly"
    <3>1. q.risk = AccBase(q.call, "read").risk
      BY <1>1
    <3> QED BY <2>1, <3>1, AccBaseFields
  <2>3. ~AccForbidden(c)
    BY <1>1, AccBaseFields DEF AccChanged
  <2>4. AccRisk(c, "read") = AccShellRisk(c.form)
    BY <1>2 DEF AccRisk
  <2>5. ~(AccRank[AccShellRisk(c.form)] > AccRank["readonly"])
    <3>1. ~(AccRank[AccBase(c, AccDeclared(q.call)).risk] > AccRank[q.risk])
      BY DEF AccChanged, AccRiskier
    <3>2. ~(AccRank[AccBase(c, "read").risk] > AccRank["readonly"])
      BY <1>1, <2>2, <3>1
    <3>3. AccBase(c, "read").risk = AccShellRisk(c.form)
      BY <2>3, <2>4, AccBaseFields
    <3> QED BY <3>2, <3>3
  <2>6. AccShellRisk(c.form) \in {"readonly", "high", "external", "reversible"}
    BY DEF AccShellRisk
  <2>7. AccShellRisk(c.form) = "readonly"
    BY <2>5, <2>6 DEF AccRank
  <2> QED BY <2>7 DEF AccShellRisk
<1> QED BY <1>1, <1>2

LEMMA AccInitHolds == AccInit => AccQuestions
  BY DEF AccInit, AccQuestions

\* Questions are asked by AccHandle only.
LEMMA AccHandleKeeps ==
    ASSUME AccQuestions, NEW r \in AccRuns, NEW c \in AccCalls, AccHandle(r, c) PROVE AccQuestions'
<1> DEFINE d == AccDecision(c, accMode[r])
           q == [id |-> AccFreeId, run |-> r, call |-> c, risk |-> d.risk, once |-> AccOnceOnly(d), until |-> accClock + AccDay]
<1>1. accPending' = accPending \/ (accPending' = accPending \cup {q} /\ ~(r \in AccReadOnly /\ AccBeyondReading(c)))
  BY DEF AccHandle
<1>2. q.call = c /\ q.run = r /\ q.risk = AccBase(c, AccDeclared(c)).risk
  BY AccDecisionFields
<1> HIDE DEF q
<1> QED BY <1>1, <1>2 DEF AccQuestions

LEMMA AccStepKeeps == AccQuestions /\ [AccNext]_accVars => AccQuestions'
<1> SUFFICES ASSUME AccQuestions, [AccNext]_accVars PROVE AccQuestions'
  OBVIOUS
<1>1. CASE \E r \in AccRuns, c \in AccCalls : AccHandle(r, c)
  BY <1>1, AccHandleKeeps
<1>2. CASE accPending' \subseteq accPending
  BY <1>2 DEF AccQuestions
<1>3. CASE UNCHANGED accVars
  BY <1>3, <1>2 DEF accVars
<1> QED BY <1>1, <1>2, <1>3 DEF AccNext, AccApprove, AccEdit, AccDecline, AccSwitchMode, AccAddRule, AccRemoveRule, AccRestart, AccTick

\* How a call comes to run: as it was made, or in answer to a question, with its logged or
\* with edited arguments.
LEMMA AccHowRun ==
    ASSUME AccNext, AccRan
    PROVE  \/ \E r \in AccRuns, c \in AccCalls :
                 LET d == AccDecision(c, accMode[r])
                 IN /\ accLast' = [run |-> r, asked |-> c, ran |-> c] /\ d.effect # "deny"
                    /\ ~(r \in AccReadOnly /\ AccBeyondReading(c))
                    /\ ~(d.effect = "ask" /\ (AccOnceOnly(d) \/ ~AccGranted(r, c)))
           \/ \E q \in accPending : \E c :
                 /\ accLast' = [run |-> q.run, asked |-> q.call, ran |-> c] /\ AccAnswered(q)
                 /\ \/ c = AccLogged(q.call) /\ ~AccChanged(q, AccLogged(q.call))
                    \/ c \in AccCalls /\ c.tool = q.call.tool /\ ~AccChanged(q, c)
<1>1. ASSUME NEW r \in AccRuns, NEW c \in AccCalls, AccHandle(r, c)
      PROVE  LET d == AccDecision(c, accMode[r])
             IN /\ accLast' = [run |-> r, asked |-> c, ran |-> c] /\ d.effect # "deny"
                /\ ~(r \in AccReadOnly /\ AccBeyondReading(c))
                /\ ~(d.effect = "ask" /\ (AccOnceOnly(d) \/ ~AccGranted(r, c)))
  BY <1>1 DEF AccHandle, AccRunsNow, AccRan
<1>2. ASSUME NEW q \in accPending, NEW s, AccApprove(q, s)
      PROVE  /\ accLast' = [run |-> q.run, asked |-> q.call, ran |-> AccLogged(q.call)] /\ AccAnswered(q)
             /\ ~AccChanged(q, AccLogged(q.call))
  BY <1>2 DEF AccApprove, AccRunsNow, AccAnswered
<1>3. ASSUME NEW q \in accPending, NEW c \in AccCalls, AccEdit(q, c)
      PROVE  /\ accLast' = [run |-> q.run, asked |-> q.call, ran |-> c] /\ AccAnswered(q)
             /\ c.tool = q.call.tool /\ ~AccChanged(q, c)
  BY <1>3 DEF AccEdit, AccAnswered
<1>4. CASE accLast' = AccIdle
  BY <1>4 DEF AccRan
<1> QED BY <1>1, <1>2, <1>3, <1>4 DEF AccNext, AccDecline, AccSwitchMode, AccAddRule, AccRemoveRule, AccRestart, AccTick

\* What every step does.
AccStepWrites ==
    (AccRan /\ accLast'.ran.tool \in {"file.write", "file.edit"}
            /\ accMode[accLast'.run] = "approval")
    => \/ \E q \in accPending : AccAnswered(q) /\ q.run = accLast'.run
       \/ [run |-> accLast'.run, call |-> accLast'.ran] \in accGrants
       \/ \E u \in accRules : /\ u.home = AccHome[accLast'.run]
                              /\ u.tool = accLast'.ran.tool
                              /\ u.path = accLast'.ran.aim
                              /\ accClock < u.until
AccStepAsks ==
    (AccRan /\ \/ AccGuarded[accLast'.ran.aim] = "sensitive"
               \/ accLast'.ran.tool \in {"file.delete", "mcp", "click"}
               \/ accLast'.ran.form \in {"rm", "push", "login"})
    => \E q \in accPending : AccAnswered(q) /\ q.run = accLast'.run
AccStepReads ==
    (AccRan /\ accLast'.run \in AccReadOnly)
    => /\ accLast'.ran.tool \in {"file.read", "web.search", "web.fetch", "shell"}
       /\ accLast'.ran.tool = "shell" => accLast'.ran.form = "ls"
AccStepSpares == AccRan => ~AccForbidden(accLast'.ran)

LEMMA AccRunsAllowed ==
    ASSUME AccQuestions, AccNext, AccRan
    PROVE  AccStepWrites /\ AccStepAsks /\ AccStepReads /\ AccStepSpares
<1>1. ASSUME NEW r \in AccRuns, NEW c \in AccCalls,
             accLast' = [run |-> r, asked |-> c, ran |-> c], AccDecision(c, accMode[r]).effect # "deny",
             ~(r \in AccReadOnly /\ AccBeyondReading(c)),
             ~(AccDecision(c, accMode[r]).effect = "ask" /\ (AccOnceOnly(AccDecision(c, accMode[r])) \/ ~AccGranted(r, c)))
      PROVE  AccStepWrites /\ AccStepAsks /\ AccStepReads /\ AccStepSpares
  <2>1. accLast'.run = r /\ accLast'.ran = c
    BY <1>1
  <2>2. AccStepWrites
    <3> SUFFICES ASSUME c.tool \in {"file.write", "file.edit"}, accMode[r] = "approval"
                 PROVE  AccGranted(r, c)
      BY <2>1 DEF AccStepWrites, AccGranted, AccRuleCovers
    <3>1. AccDecision(c, "approval").effect \in {"deny", "ask"}
      BY AccWritesWait
    <3> QED BY <1>1, <3>1
  <2>3. AccStepAsks
    <3>1. ~AccMustAsk(c)
      BY <1>1, AccAskedOnce
    <3> QED BY <2>1, <3>1 DEF AccStepAsks, AccMustAsk
  <2>4. AccStepReads
    BY <1>1, <2>1, AccReading DEF AccStepReads
  <2>5. AccStepSpares
    <3>1. ~AccForbidden(c)
      BY <1>1, AccForbiddenWaits
    <3> QED BY <2>1, <3>1 DEF AccStepSpares
  <2> QED BY <2>2, <2>3, <2>4, <2>5
<1>2. ASSUME NEW q \in accPending, NEW c, AccAnswered(q), ~AccChanged(q, c),
             accLast' = [run |-> q.run, asked |-> q.call, ran |-> c],
             (c = AccLogged(q.call)) \/ (c \in AccCalls /\ c.tool = q.call.tool)
      PROVE  AccStepWrites /\ AccStepAsks /\ AccStepReads /\ AccStepSpares
  <2>1. accLast'.run = q.run /\ accLast'.ran = c
    BY <1>2
  <2>2. AccStepWrites /\ AccStepAsks
    BY <1>2, <2>1 DEF AccStepWrites, AccStepAsks
  <2>3. AccStepSpares
    <3>1. AccBase(c, AccDeclared(q.call)).effect # "deny"
      BY <1>2 DEF AccChanged
    <3>2. ~AccForbidden(c)
      BY <3>1, AccBaseFields
    <3> QED BY <2>1, <3>2 DEF AccStepSpares
  <2>4. AccStepReads
    <3> SUFFICES ASSUME q.run \in AccReadOnly
                 PROVE  c.tool \in {"file.read", "web.search", "web.fetch", "shell"} /\ (c.tool = "shell" => c.form = "ls")
      BY <2>1 DEF AccStepReads
    <3>1. q.call \in AccCalls /\ q.risk = AccBase(q.call, AccDeclared(q.call)).risk /\ ~AccBeyondReading(q.call)
      BY DEF AccQuestions
    <3>2. CASE c = AccLogged(q.call)
      <4>1. c.tool = q.call.tool /\ c.form = q.call.form
        BY <3>1, <3>2, AccLoggedSame
      <4> QED BY <3>1, <4>1, AccReading
    <3>3. CASE c \in AccCalls /\ c.tool = q.call.tool
      BY <1>2, <3>1, <3>3, AccEditReads
    <3> QED BY <1>2, <3>2, <3>3
  <2> QED BY <2>2, <2>3, <2>4
<1> QED BY <1>1, <1>2, AccHowRun

LEMMA AccStepBound ==
    AccQuestions /\ [AccNext]_accVars
    => /\ [AccStepWrites]_accVars /\ [AccStepAsks]_accVars
       /\ [AccStepReads]_accVars /\ [AccStepSpares]_accVars
<1>1. ASSUME ~AccRan PROVE AccStepWrites /\ AccStepAsks /\ AccStepReads /\ AccStepSpares
  BY <1>1 DEF AccStepWrites, AccStepAsks, AccStepReads, AccStepSpares
<1> QED BY <1>1, AccRunsAllowed

\* Whatever modes, rules, earlier answers, edited arguments and restarts come together: a file is
\* written only with an answer, a grant or a valid rule for it unless the mode allows it; a
\* sensitive file, a deletion, a click or a destructive command takes an answer of its own; a
\* run that may only read does nothing else; commands that drive applications never run (the
\* access policy and its use in ToolBroker).
THEOREM AccessIsBounded == AccSpec => AccAskedAndBounded
<1>1. AccInit => AccQuestions
  BY AccInitHolds
<1>2. AccQuestions /\ [AccNext]_accVars => AccQuestions'
  BY AccStepKeeps
<1>3. AccSpec => AccWritesAuthorised
  <2>1. AccQuestions /\ [AccNext]_accVars => [AccStepWrites]_accVars
    BY AccStepBound
  <2> QED BY <1>1, <1>2, <2>1, PTL DEF AccSpec, AccWritesAuthorised, AccStepWrites
<1>4. AccSpec => AccEachTimeAsked
  <2>1. AccQuestions /\ [AccNext]_accVars => [AccStepAsks]_accVars
    BY AccStepBound
  <2> QED BY <1>1, <1>2, <2>1, PTL DEF AccSpec, AccEachTimeAsked, AccStepAsks
<1>5. AccSpec => AccReadersOnlyRead
  <2>1. AccQuestions /\ [AccNext]_accVars => [AccStepReads]_accVars
    BY AccStepBound
  <2> QED BY <1>1, <1>2, <2>1, PTL DEF AccSpec, AccReadersOnlyRead, AccStepReads
<1>6. AccSpec => AccAppsAreOffLimits
  <2>1. AccQuestions /\ [AccNext]_accVars => [AccStepSpares]_accVars
    BY AccStepBound
  <2> QED BY <1>1, <1>2, <2>1, PTL DEF AccSpec, AccAppsAreOffLimits, AccStepSpares
<1> QED BY <1>3, <1>4, <1>5, <1>6 DEF AccAskedAndBounded

-----------------------------------------------------------------------------
(* FileChanges: snapshots, renames and undo *)

\* A content that the artifact store has in full, or was storing when the application ended.
FilKept(c) == filStore[c] = "whole" \/ c \in filTornAt

\* Nothing is stored in part but what is being stored, or was when the application ended.
FilPartials ==
    \A c \in FilAnything : filStore[c] = "partial" =>
        c \in filTornAt \/ (filOp["agent"].at = "storing" /\ filOp["agent"].snap = c)

\* What the call of an agent has found out of the file it is about to change: its kind and
\* the snapshot decide how far it may go.
FilPlanned(op) ==
    /\ op.at \in {"snapshot", "store", "storing", "target", "recheck", "rename", "link"} =>
          op.kind \in {"write", "commit", "replace"}
    /\ op.at # "idle" => op.content # 0
    /\ op.at # "capture" => ~op.created
    /\ op.at = "snapshot" => op.snap = 0
    /\ op.at \in {"store", "storing"} => op.snap # 0 /\ op.expected \in {0, op.snap}
    /\ op.at = "target" /\ op.snap # 0 => op.expected \in {0, op.snap}
    /\ op.at = "target" /\ op.kind = "replace" => op.snap # 0
    /\ op.at \in {"recheck", "rename"} /\ ~op.slip => op.snap # 0 /\ op.expected = op.snap
    /\ op.at = "capture" /\ ~op.slip => op.was = (IF op.created THEN 0 ELSE op.snap) /\ (op.created \/ op.snap # 0)

FilSnapped(op) == op.at \in {"target", "recheck", "rename"} \/ (op.at = "capture" /\ ~op.slip /\ ~op.created)

\* The last look at the file holds unless the operation has missed a write.
FilLastLook(op) ==
    /\ op.at \in {"copied", "unlink"} => op.expected \in filTrash
    /\ op.at \in FilPast /\ ~op.slip => filDisk = op.expected

FilAgentKnows ==
    /\ FilPlanned(filOp["agent"]) /\ FilLastLook(filOp["agent"])
    /\ FilSnapped(filOp["agent"]) /\ filOp["agent"].snap # 0 => FilKept(filOp["agent"].snap)

\* What an undo puts back is what its change had found.
FilRestores(op) ==
    /\ op.kind = "restore" /\ op.at \in {"target", "recheck", "rename", "move", "copied", "unlink"} /\ op.expected # 0
    /\ op.at \in {"move", "copied", "unlink"} => op.created
    /\ op.created => op.content = 0

FilUndoKnows ==
    LET op == filOp["undo"]
    IN op.at # "idle" =>
       /\ FilRestores(op) /\ FilLastLook(op) /\ op.diff \in 1..Len(filDiffs)
       /\ ~filDiffs[op.diff].slip /\ filDiffs[op.diff].was \notin filTornAt => op.content = filDiffs[op.diff].was

FilDiffsKnow ==
    \A d \in 1..Len(filDiffs) :
        /\ filDiffs[d].after # 0
        /\ ~filDiffs[d].slip => IF filDiffs[d].created THEN filDiffs[d].was = 0
                                ELSE filDiffs[d].was = filDiffs[d].snap /\ FilKept(filDiffs[d].snap)

FilDiff == [snap : FilAnything, after : FilAnything, created : BOOLEAN, was : FilAnything, slip : BOOLEAN]
FilEnd == [diff : Nat, now : FilAnything, slip : BOOLEAN]
\* Types, with operations kept whole.
FilShape ==
    /\ filDisk \in FilAnything /\ filStore \in [FilAnything -> {"none", "partial", "whole"}]
    /\ filOp \in [FilWho -> FilOps] /\ filDiffs \in Seq(FilDiff) /\ filUndone \in FilEnd
    /\ filUndone.diff \in 0..Len(filDiffs)

\* The inductive invariant: what each operation remembers of the file is what it found there.
FilSound == FilPartials /\ FilAgentKnows /\ FilUndoKnows /\ FilDiffsKnow /\ FilNothingLost /\ FilUndoExact

LEMMA FilValues ==
    /\ 0 \in FilAnything /\ FilContents \subseteq FilAnything /\ 0 \notin FilContents
    /\ \A c \in FilAnything : FilTorn(c) \in FilAnything
    /\ FilIdle \in FilOps /\ FilIdle.at = "idle" /\ FilIdle.diff = 0 /\ ~FilIdle.created /\ ~FilIdle.slip
    /\ "agent" \in FilWho /\ "undo" \in FilWho /\ \A w \in FilWho : w = "agent" \/ w = "undo"
<1>1. 0 \in FilAnything /\ FilContents \subseteq FilAnything /\ 0 \notin FilContents
  BY FilAssumption DEF FilAnything
<1>2. \A c \in FilAnything : FilTorn(c) \in FilAnything
  <2>1. \A c \in FilContents : c \in Int
    BY FilAssumption
  <2>2. \A c \in FilContents : 0 - (0 - c) = c
    <3>1. \A c \in Int : 0 - (0 - c) = c
      OBVIOUS
    <3> QED BY <2>1, <3>1
  <2>3. \A c \in FilContents : FilTorn(c) \in FilAnything /\ FilTorn(FilTorn(c)) = c
    BY <2>2 DEF FilTorn, FilAnything
  <2>4. FilTorn(0) = 0
    BY DEF FilTorn
  <2>5. \A c \in FilAnything : c \in FilContents \/ c = 0 \/ \E d \in FilContents : c = FilTorn(d)
    BY DEF FilAnything
  <2> QED BY <1>1, <2>3, <2>4, <2>5
<1>3. FilIdle \in FilOps /\ FilIdle.at = "idle" /\ FilIdle.diff = 0 /\ ~FilIdle.created /\ ~FilIdle.slip
  BY <1>1 DEF FilIdle, FilOps
<1> QED BY <1>1, <1>2, <1>3 DEF FilWho

\* What is kept stays, whatever happens.
FilGrows ==
    /\ \A c \in FilAnything : filStore[c] = "whole" => filStore'[c] = "whole"
    /\ filTrash \subseteq filTrash' /\ filTornAt \subseteq filTornAt'
    /\ Len(filDiffs') \in Nat /\ Len(filDiffs) <= Len(filDiffs') /\ \A d \in 1..Len(filDiffs) : filDiffs'[d] = filDiffs[d]

\* A step of somebody else: the operation of w is where it was, or has missed a write.
FilOthers(w) ==
    \/ filOp'[w] = filOp[w] /\ (filDisk' = filDisk \/ filOp[w].at \notin FilPast)
    \/ filOp'[w] = [filOp[w] EXCEPT !.slip = TRUE] /\ filOp[w].at \in FilPast

LEMMA FilFields ==
    ASSUME FilShape, NEW w \in FilWho
    PROVE  /\ filOp[w] \in FilOps /\ filOp[w].expected \in FilAnything /\ filOp[w].content \in FilAnything
           /\ filOp[w].snap \in FilAnything /\ filOp[w].was \in FilAnything
           /\ filOp[w].created \in BOOLEAN /\ filOp[w].slip \in BOOLEAN /\ filOp[w].diff \in Nat
<1>1. filOp[w] \in FilOps
  BY DEF FilShape
<1> QED BY <1>1 DEF FilOps

LEMMA FilKeptStays == ASSUME FilGrows PROVE \A c \in FilAnything : FilKept(c) => FilKept(c)'
  BY DEF FilGrows, FilKept

\* The fields of an operation that has missed a write.
LEMMA FilSlipFields ==
    ASSUME NEW op \in FilOps
    PROVE  LET o == [op EXCEPT !.slip = TRUE]
           IN /\ o.slip /\ o.kind = op.kind /\ o.at = op.at /\ o.expected = op.expected /\ o.content = op.content
              /\ o.snap = op.snap /\ o.was = op.was /\ o.created = op.created /\ o.diff = op.diff /\ o \in FilOps
  BY DEF FilOps

LEMMA FilLookKept == ASSUME FilShape, FilGrows, NEW w \in FilWho, FilOthers(w), FilLastLook(filOp[w]) PROVE FilLastLook(filOp[w])'
<1>1. filOp[w] \in FilOps /\ filTrash \subseteq filTrash'
  BY FilFields DEF FilGrows
<1>2. CASE filOp'[w] = filOp[w]
  <2>1. filDisk' = filDisk \/ filOp[w].at \notin FilPast \/ filOp[w].slip
    BY <1>1, <1>2, FilSlipFields DEF FilOthers
  <2> QED BY <1>1, <1>2, <2>1 DEF FilLastLook
<1>3. CASE filOp'[w] # filOp[w]
  <2>1. filOp'[w].slip /\ filOp'[w].at = filOp[w].at /\ filOp'[w].expected = filOp[w].expected
    BY <1>1, <1>3, FilSlipFields DEF FilOthers
  <2> QED BY <1>1, <2>1 DEF FilLastLook
<1> QED BY <1>2, <1>3

LEMMA FilAgentKept == ASSUME FilShape, FilAgentKnows, FilGrows, FilOthers("agent") PROVE FilAgentKnows'
<1>0. FilPlanned(filOp["agent"]) /\ FilLastLook(filOp["agent"]) /\ filOp["agent"] \in FilOps
      /\ filOp["agent"].snap \in FilAnything /\ (FilSnapped(filOp["agent"]) /\ filOp["agent"].snap # 0 => FilKept(filOp["agent"].snap))
  BY FilFields, FilValues DEF FilAgentKnows
<1>1. FilLastLook(filOp["agent"])'
  BY <1>0, FilLookKept, FilValues
<1>2. FilSnapped(filOp["agent"]) /\ filOp["agent"].snap # 0 => filStore'[filOp["agent"].snap] = "whole" \/ filOp["agent"].snap \in filTornAt'
  BY <1>0 DEF FilGrows, FilKept
<1>3. CASE filOp'["agent"] = filOp["agent"]
  BY <1>0, <1>1, <1>2, <1>3 DEF FilAgentKnows, FilKept, FilPlanned, FilSnapped
<1>4. CASE filOp'["agent"] # filOp["agent"]
  <2> DEFINE op == filOp["agent"] op2 == filOp'["agent"]
  <2>1. /\ op2.slip /\ op2.kind = op.kind /\ op2.at = op.at /\ op2.content = op.content /\ op2.was = op.was
        /\ op2.snap = op.snap /\ op2.expected = op.expected /\ op2.created = op.created /\ op.at \in {"rename", "unlink"}
    BY <1>0, <1>4, FilSlipFields DEF FilOthers, FilPast
  <2> HIDE DEF op, op2
  <2>2. FilPlanned(op) => FilPlanned(op2)
    BY <2>1 DEF FilPlanned
  <2>3. FilSnapped(op2) => FilSnapped(op)
    BY <2>1 DEF FilSnapped
  <2>4. (FilSnapped(op2) /\ op2.snap # 0) => filStore'[op2.snap] = "whole" \/ op2.snap \in filTornAt'
    BY <1>2, <2>1, <2>3 DEF op
  <2> QED BY <1>0, <1>1, <2>2, <2>4 DEF FilAgentKnows, FilKept, op, op2
<1> QED BY <1>3, <1>4

LEMMA FilUndoKept == ASSUME FilShape, FilUndoKnows, FilGrows, FilOthers("undo") PROVE FilUndoKnows'
<1>1. filOp["undo"] \in FilOps
  BY FilFields, FilValues
<1>2. filTrash \subseteq filTrash' /\ filTornAt \subseteq filTornAt'
  BY DEF FilGrows
<1>3. filOp["undo"].diff \in 1..Len(filDiffs) => filOp["undo"].diff \in 1..Len(filDiffs') /\ filDiffs'[filOp["undo"].diff] = filDiffs[filOp["undo"].diff]
  <2>1. Len(filDiffs) \in Nat
    BY DEF FilShape
  <2> QED BY <2>1 DEF FilGrows
<1>4. filOp["undo"].at # "idle" => FilLastLook(filOp["undo"])'
  BY FilLookKept, FilValues DEF FilUndoKnows
<1>5. CASE filOp'["undo"] = filOp["undo"]
  BY <1>2, <1>3, <1>4, <1>5 DEF FilUndoKnows, FilRestores
<1>6. CASE filOp'["undo"] # filOp["undo"]
  <2> DEFINE op == filOp["undo"] op2 == filOp'["undo"]
  <2>1. /\ op2.slip /\ op2.kind = op.kind /\ op2.at = op.at /\ op2.content = op.content
        /\ op2.diff = op.diff /\ op2.expected = op.expected /\ op2.created = op.created
    BY <1>1, <1>6, FilSlipFields DEF FilOthers
  <2>2. FilRestores(op) => FilRestores(op2)
    BY <2>1 DEF FilRestores
  <2> QED BY <1>2, <1>3, <1>4, <2>1, <2>2 DEF FilUndoKnows
<1> QED BY <1>5, <1>6

\* What is known of finished changes stays known.
LEMMA FilRestKept ==
    ASSUME FilShape, FilSound, FilGrows
    PROVE  /\ filDiffs' = filDiffs => FilDiffsKnow'
           /\ filUndone' = filUndone => FilUndoExact'
           /\ filGone' = filGone => FilNothingLost'
<1>0. FilDiffsKnow /\ FilUndoExact /\ FilNothingLost
  BY DEF FilSound
<1>1. ASSUME filDiffs' = filDiffs PROVE FilDiffsKnow'
  <2>1. \A d \in 1..Len(filDiffs) : filDiffs[d] \in FilDiff
    BY DEF FilShape
  <2>2. \A d \in 1..Len(filDiffs) : filDiffs[d].snap \in FilAnything
    BY <2>1 DEF FilDiff
  <2>3. \A d \in 1..Len(filDiffs) : FilKept(filDiffs[d].snap) => filStore'[filDiffs[d].snap] = "whole" \/ filDiffs[d].snap \in filTornAt'
    BY <2>2 DEF FilKept, FilGrows
  <2> QED BY <1>0, <1>1, <2>3 DEF FilDiffsKnow, FilKept
<1>2. ASSUME filUndone' = filUndone PROVE FilUndoExact'
  <2>1. filUndone.diff \in 0..Len(filDiffs) /\ Len(filDiffs) \in Nat
    BY DEF FilShape
  <2>2. filUndone.diff # 0 => filDiffs'[filUndone.diff] = filDiffs[filUndone.diff]
    BY <2>1 DEF FilGrows
  <2>3. filTornAt \subseteq filTornAt'
    BY DEF FilGrows
  <2> QED BY <1>0, <1>2, <2>2, <2>3 DEF FilUndoExact
<1>3. ASSUME filGone' = filGone PROVE FilNothingLost'
  <2>1. FilWhole \subseteq FilWhole'
    BY DEF FilWhole, FilGrows
  <2>2. filTrash \subseteq filTrash' /\ filTornAt \subseteq filTornAt'
    BY DEF FilGrows
  <2> QED BY <1>0, <1>3, <2>1, <2>2 DEF FilNothingLost
<1> QED BY <1>1, <1>2, <1>3

LEMMA FilInitHolds == FilInit => FilShape /\ FilSound
<1> SUFFICES ASSUME FilInit PROVE FilShape /\ FilSound
  OBVIOUS
<1>1. /\ filOp["agent"] = FilIdle /\ filOp["undo"] = FilIdle /\ filOp \in [FilWho -> FilOps]
  BY FilValues DEF FilInit
<1>2. filDisk \in FilAnything /\ filStore \in [FilAnything -> {"none", "partial", "whole"}]
  BY FilValues DEF FilInit
<1>3. filDiffs \in Seq(FilDiff) /\ Len(filDiffs) = 0 /\ filUndone.diff = 0
  BY DEF FilInit
<1>4. filUndone \in FilEnd
  BY FilValues DEF FilInit, FilEnd
<1>5. FilShape
  BY <1>1, <1>2, <1>3, <1>4 DEF FilShape
<1>6. FilPartials /\ FilNothingLost
  BY DEF FilInit, FilPartials, FilNothingLost
<1>7. FilAgentKnows /\ FilUndoKnows
  BY <1>1, FilValues DEF FilAgentKnows, FilUndoKnows, FilPast, FilPlanned, FilLastLook, FilSnapped
<1>8. FilDiffsKnow /\ FilUndoExact
  BY <1>3 DEF FilDiffsKnow, FilUndoExact
<1> QED BY <1>5, <1>6, <1>7, <1>8 DEF FilSound

-----------------------------------------------------------------------------
(* One operation moves *)

\* Where an operation can be.
FilPlaces == {"idle", "snapshot", "store", "storing", "target", "recheck", "rename", "link", "capture", "look",
              "move", "copied", "unlink"}

LEMMA FilAtFields ==
    ASSUME NEW op \in FilOps, NEW at \in FilPlaces
    PROVE  LET o == [op EXCEPT !.at = at]
           IN /\ o \in FilOps /\ o.at = at /\ o.kind = op.kind /\ o.expected = op.expected /\ o.content = op.content
              /\ o.snap = op.snap /\ o.was = op.was /\ o.created = op.created /\ o.slip = op.slip /\ o.diff = op.diff
  BY DEF FilOps, FilPlaces

\* w goes on, nobody else does.
LEMMA FilGoesFields ==
    ASSUME FilShape, NEW w \in FilWho, NEW at \in FilPlaces, FilGoes(w, at)
    PROVE  LET o == filOp'[w]
               op == filOp[w]
           IN /\ o.at = at /\ o.kind = op.kind /\ o.expected = op.expected /\ o.content = op.content
              /\ o.snap = op.snap /\ o.was = op.was /\ o.created = op.created /\ o.slip = op.slip /\ o.diff = op.diff
              /\ filOp' \in [FilWho -> FilOps] /\ \A v \in FilWho : v # w => filOp'[v] = filOp[v]
<1>1. filOp \in [FilWho -> FilOps] /\ filOp[w] \in FilOps
  BY DEF FilShape
<1>2. filOp' = [filOp EXCEPT ![w] = [filOp[w] EXCEPT !.at = at]]
  BY DEF FilGoes
<1>3. [filOp[w] EXCEPT !.at = at] \in FilOps
  BY <1>1, FilAtFields
<1>4. filOp'[w] = [filOp[w] EXCEPT !.at = at] /\ filOp' \in [FilWho -> FilOps] /\ \A v \in FilWho : v # w => filOp'[v] = filOp[v]
  BY <1>1, <1>2, <1>3
<1> QED BY <1>1, <1>4, FilAtFields

LEMMA FilFailsFields ==
    ASSUME FilShape, NEW w \in FilWho, FilFails(w)
    PROVE  filOp'[w] = FilIdle /\ filOp' \in [FilWho -> FilOps] /\ \A v \in FilWho : v # w => filOp'[v] = filOp[v]
  BY FilValues DEF FilShape, FilFails

\* Of an operation that is idle nothing has to be known.
LEMMA FilIdleKnows ==
    /\ FilPlanned(FilIdle) /\ FilLastLook(FilIdle) /\ ~FilSnapped(FilIdle) /\ FilLastLook(FilIdle)'
  BY FilValues DEF FilPlanned, FilLastLook, FilSnapped, FilPast

LEMMA FilGrowing == ASSUME FilShape, FilNext PROVE FilGrows
<1>1. ASSUME NEW c \in FilAnything, filStore[c] = "whole" PROVE filStore'[c] = "whole"
  <2>1. \/ filStore' = filStore
        \/ \E d : filStore[d] = "none" /\ filStore' = [filStore EXCEPT ![d] = "partial"]
        \/ \E d : filStore' = [filStore EXCEPT ![d] = "whole"]
    BY DEF FilNext, FilCall, FilSnapshot, FilStore, FilStored, FilLink, FilCapture, FilLook, FilCrash, FilTarget, FilRecheck,
           FilRename, FilCopied, FilUnlink, FilMove, FilUndo, FilOutside, FilLooks
  <2> QED BY <1>1, <2>1 DEF FilShape
<1>2. filTrash \subseteq filTrash'
  BY DEF FilNext, FilCall, FilSnapshot, FilStore, FilStored, FilLink, FilCapture, FilLook, FilCrash, FilTarget, FilRecheck,
         FilRename, FilCopied, FilUnlink, FilMove, FilUndo, FilOutside, FilLooks
<1>3. filTornAt \subseteq filTornAt'
  BY DEF FilNext, FilCall, FilSnapshot, FilStore, FilStored, FilLink, FilCapture, FilLook, FilCrash, FilTarget, FilRecheck,
         FilRename, FilCopied, FilUnlink, FilMove, FilUndo, FilOutside, FilLooks, FilNoted
<1>4. filDiffs' = filDiffs \/ \E e : filDiffs' = Append(filDiffs, e)
  BY DEF FilNext, FilCall, FilSnapshot, FilStore, FilStored, FilLink, FilCapture, FilLook, FilCrash, FilTarget, FilRecheck,
         FilRename, FilCopied, FilUnlink, FilMove, FilUndo, FilOutside, FilLooks, FilNoted
<1>5. Len(filDiffs') \in Nat /\ Len(filDiffs) <= Len(filDiffs') /\ \A d \in 1..Len(filDiffs) : filDiffs'[d] = filDiffs[d]
  BY <1>4 DEF FilShape
<1> QED BY <1>1, <1>2, <1>3, <1>5 DEF FilGrows

\* A step that writes nothing down and leaves the file and what others know alone.
LEMMA FilQuietStep ==
    ASSUME FilShape, FilSound, FilGrows, filDisk' \in FilAnything, filOp' \in [FilWho -> FilOps],
           UNCHANGED <<filDiffs, filUndone>>, filGone' = filGone,
           filStore' \in [FilAnything -> {"none", "partial", "whole"}],
           FilPartials', FilAgentKnows', FilUndoKnows'
    PROVE  FilShape' /\ FilSound'
<1>1. FilShape'
  BY DEF FilShape
<1> QED BY <1>1, FilRestKept DEF FilSound

LEMMA FilPartialsKept ==
    ASSUME FilShape, FilPartials, FilGrows, filStore' = filStore,
           filOp["agent"].at # "storing" \/ filOp'["agent"] = filOp["agent"]
    PROVE  FilPartials'
  BY DEF FilPartials, FilGrows

\* The agent goes on without writing, the undo is where it was.
LEMMA FilAgentLooks ==
    ASSUME FilShape, FilSound, FilGrows, FilLooks, filOp["agent"].at # "storing", filOp' \in [FilWho -> FilOps],
           filOp'["undo"] = filOp["undo"], FilAgentKnows'
    PROVE  FilShape' /\ FilSound'
<1>1. FilPartials' /\ FilUndoKnows'
  BY FilPartialsKept, FilUndoKept DEF FilOthers, FilLooks, FilSound
<1>2. FilShape
  OBVIOUS
<1> QED BY <1>1, FilQuietStep DEF FilLooks, FilShape

\* An operation that gives up, or ends.
LEMMA FilFailing ==
    ASSUME FilShape, FilSound, FilGrows, NEW w \in FilWho, FilFails(w), FilLooks, filOp[w].at # "storing"
    PROVE  FilShape' /\ FilSound'
<1>1. filOp'[w] = FilIdle /\ filOp' \in [FilWho -> FilOps] /\ \A v \in FilWho : v # w => filOp'[v] = filOp[v]
  BY FilFailsFields
<1>2. CASE w = "agent"
  <2>1. FilAgentKnows'
    BY <1>1, <1>2, FilIdleKnows DEF FilAgentKnows, FilLastLook
  <2> QED BY <1>1, <1>2, <2>1, FilAgentLooks, FilValues
<1>3. CASE w = "undo"
  <2>1. FilUndoKnows'
    BY <1>1, <1>3, FilValues DEF FilUndoKnows
  <2>2. FilPartials' /\ FilAgentKnows'
    BY <1>1, <1>3, FilValues, FilPartialsKept, FilAgentKept DEF FilOthers, FilLooks, FilSound
  <2> QED BY <1>1, <2>1, <2>2, FilQuietStep DEF FilLooks, FilShape
<1> QED BY <1>2, <1>3, FilValues

LEMMA FilCallKeeps ==
    ASSUME FilShape, FilSound, FilGrows, NEW kind \in {"write", "commit", "replace", "delete"},
           NEW e \in FilContents \cup {0}, NEW c \in FilContents, FilCall(kind, e, c)
    PROVE  FilShape' /\ FilSound'
<1> DEFINE at == IF kind = "delete" THEN "look" ELSE "snapshot"
           op == [FilIdle EXCEPT !.kind = kind, !.expected = e, !.content = c, !.at = at]
<1>1. /\ filOp["agent"] = FilIdle /\ filOp' = [filOp EXCEPT !["agent"] = op]
      /\ UNCHANGED <<filDisk, filTrash, filStore, filDiffs, filGone, filUndone, filTornAt>>
  BY DEF FilCall
<1>2. op \in FilOps /\ op.kind = kind /\ op.expected = e /\ op.content = c /\ op.at = at /\ op.snap = 0
      /\ ~op.created /\ ~op.slip
  BY FilValues DEF FilOps, FilIdle
<1>3. c # 0 /\ (at = "look" \/ (at = "snapshot" /\ kind # "delete"))
  BY FilValues
<1> HIDE DEF op, at
<1>4. filOp' \in [FilWho -> FilOps] /\ filOp'["agent"] = op /\ filOp'["undo"] = filOp["undo"]
  BY <1>1, <1>2, FilValues DEF FilShape
<1>5. FilPlanned(op) /\ ~FilSnapped(op) /\ op.at \notin FilPast /\ op.at \notin {"copied", "unlink"}
  BY <1>2, <1>3 DEF FilPlanned, FilSnapped, FilPast
<1>6. FilAgentKnows'
  BY <1>4, <1>5 DEF FilAgentKnows, FilLastLook
<1>7. FilPartials' /\ FilUndoKnows'
  BY <1>1, <1>4, FilValues, FilPartialsKept, FilUndoKept DEF FilOthers, FilSound
<1> QED BY <1>1, <1>4, <1>6, <1>7, FilQuietStep DEF FilShape

LEMMA FilSnapshotKeeps == ASSUME FilShape, FilSound, FilGrows, FilSnapshot PROVE FilShape' /\ FilSound'
<1> DEFINE op == filOp["agent"]
<1>0. op.at = "snapshot" /\ FilLooks /\ FilPlanned(op) /\ op \in FilOps
  BY FilValues, FilFields DEF FilSnapshot, FilSound, FilAgentKnows
<1>1. CASE FilFails("agent")
  BY <1>0, <1>1, FilFailing, FilValues
<1>2. CASE FilGoes("agent", "target") /\ filDisk = 0 /\ op.kind # "replace"
  <2> DEFINE o == filOp'["agent"]
  <2>1. /\ o.at = "target" /\ o.kind = op.kind /\ o.snap = op.snap /\ o.content = op.content /\ o.created = op.created
        /\ filOp' \in [FilWho -> FilOps] /\ filOp'["undo"] = filOp["undo"]
    BY <1>2, FilGoesFields, FilValues DEF FilPlaces
  <2>2. FilAgentKnows'
    BY <1>0, <1>2, <2>1 DEF FilAgentKnows, FilPlanned, FilLastLook, FilSnapped, FilPast
  <2> QED BY <1>0, <2>1, <2>2, FilAgentLooks
<1>3. CASE /\ filDisk # 0 /\ op.expected \in {0, filDisk}
           /\ filOp' = [filOp EXCEPT !["agent"].snap = filDisk, !["agent"].at = "store"]
  <2> DEFINE o == [op EXCEPT !.snap = filDisk, !.at = "store"]
  <2>1. /\ o \in FilOps /\ o.at = "store" /\ o.kind = op.kind /\ o.snap = filDisk /\ o.content = op.content
        /\ o.created = op.created /\ o.expected = op.expected
    BY <1>0 DEF FilOps, FilShape
  <2>2. filOp' = [filOp EXCEPT !["agent"] = o]
    BY <1>3
  <2> HIDE DEF o
  <2>3. filOp' \in [FilWho -> FilOps] /\ filOp'["agent"] = o /\ filOp'["undo"] = filOp["undo"]
    BY <2>1, <2>2, FilValues DEF FilShape
  <2>4. FilAgentKnows'
    BY <1>0, <1>3, <2>1, <2>3 DEF FilAgentKnows, FilPlanned, FilLastLook, FilSnapped, FilPast
  <2> QED BY <1>0, <2>3, <2>4, FilAgentLooks
<1> QED BY <1>1, <1>2, <1>3 DEF FilSnapshot

LEMMA FilStoreKeeps == ASSUME FilShape, FilSound, FilGrows, FilStore PROVE FilShape' /\ FilSound'
<1> DEFINE op == filOp["agent"] o == filOp'["agent"]
<1>0. /\ op.at = "store" /\ FilPlanned(op) /\ op.snap \in FilAnything /\ FilPartials
      /\ UNCHANGED <<filDisk, filTrash, filDiffs, filGone, filUndone, filTornAt>>
  BY FilFields, FilValues DEF FilStore, FilSound, FilAgentKnows, FilNoted
<1>1. PICK at \in {"storing", "target"} : FilGoes("agent", at)
      /\ IF at = "storing" THEN filStore[op.snap] = "none" /\ filStore' = [filStore EXCEPT ![op.snap] = "partial"]
         ELSE filStore[op.snap] # "none" /\ filStore' = filStore
  BY DEF FilStore
<1>2. /\ o.at = at /\ o.kind = op.kind /\ o.snap = op.snap /\ o.content = op.content /\ o.created = op.created
      /\ o.expected = op.expected /\ filOp' \in [FilWho -> FilOps] /\ filOp'["undo"] = filOp["undo"]
  BY <1>1, FilGoesFields, FilValues DEF FilPlaces
<1>3. filStore' \in [FilAnything -> {"none", "partial", "whole"}]
  BY <1>1 DEF FilShape
<1>4. FilPartials'
  BY <1>0, <1>1, <1>2 DEF FilPartials, FilShape
<1>5. FilPlanned(o) /\ FilLastLook(filOp["agent"])'
  BY <1>0, <1>2 DEF FilPlanned, FilLastLook, FilPast
<1>6. FilSnapped(o) => filStore'[o.snap] = "whole" \/ o.snap \in filTornAt'
  <2>1. CASE at = "storing"
    BY <1>2, <2>1 DEF FilSnapped
  <2>2. CASE at = "target"
    <3>1. filStore[op.snap] \in {"partial", "whole"}
      BY <1>0, <1>1, <2>2 DEF FilShape
    <3> QED BY <1>0, <1>1, <1>2, <2>2, <3>1 DEF FilPartials
  <2> QED BY <2>1, <2>2
<1>7. FilAgentKnows'
  BY <1>5, <1>6 DEF FilAgentKnows, FilKept, FilPlanned, FilSnapped
<1>8. FilUndoKnows'
  BY <1>0, <1>2, FilUndoKept DEF FilOthers, FilSound
<1> QED BY <1>0, <1>2, <1>3, <1>4, <1>7, <1>8, FilQuietStep DEF FilShape

LEMMA FilStoredKeeps == ASSUME FilShape, FilSound, FilGrows, FilStored PROVE FilShape' /\ FilSound'
<1> DEFINE op == filOp["agent"] o == filOp'["agent"]
<1>0. /\ op.at = "storing" /\ FilPlanned(op) /\ op.snap \in FilAnything /\ FilPartials
      /\ filStore' = [filStore EXCEPT ![op.snap] = "whole"] /\ FilGoes("agent", "target")
      /\ UNCHANGED <<filDisk, filTrash, filDiffs, filGone, filUndone, filTornAt>>
  BY FilFields, FilValues DEF FilStored, FilSound, FilAgentKnows, FilNoted
<1>2. /\ o.at = "target" /\ o.kind = op.kind /\ o.snap = op.snap /\ o.content = op.content /\ o.created = op.created
      /\ o.expected = op.expected /\ filOp' \in [FilWho -> FilOps] /\ filOp'["undo"] = filOp["undo"]
  BY <1>0, FilGoesFields, FilValues DEF FilPlaces
<1>3. filStore' \in [FilAnything -> {"none", "partial", "whole"}] /\ filStore'[o.snap] = "whole"
  BY <1>0, <1>2 DEF FilShape
<1>4. FilPartials'
  BY <1>0, <1>2 DEF FilPartials, FilShape
<1>5. FilPlanned(o) /\ FilLastLook(filOp["agent"])'
  BY <1>0, <1>2 DEF FilPlanned, FilLastLook, FilPast
<1>7. FilAgentKnows'
  BY <1>3, <1>5 DEF FilAgentKnows, FilKept, FilPlanned
<1>8. FilUndoKnows'
  BY <1>0, <1>2, FilUndoKept DEF FilOthers, FilSound
<1> QED BY <1>0, <1>2, <1>3, <1>4, <1>7, <1>8, FilQuietStep DEF FilShape

\* The steps that agent and undo have in common and that only look.
LEMMA FilLooking ==
    ASSUME FilShape, FilSound, FilGrows, NEW w \in FilWho, FilLooks, filOp[w].at # "storing",
           filOp' \in [FilWho -> FilOps], \A v \in FilWho : v # w => filOp'[v] = filOp[v],
           w = "agent" => FilAgentKnows', w = "undo" => FilUndoKnows'
    PROVE  FilShape' /\ FilSound'
<1>1. CASE w = "agent"
  BY <1>1, FilAgentLooks, FilValues
<1>2. CASE w = "undo"
  <2>1. FilPartials' /\ FilAgentKnows'
    BY <1>2, FilValues, FilPartialsKept, FilAgentKept DEF FilOthers, FilLooks, FilSound
  <2> QED BY <1>2, <2>1, FilQuietStep DEF FilLooks, FilShape
<1> QED BY <1>1, <1>2, FilValues

LEMMA FilTargetKeeps == ASSUME FilShape, FilSound, FilGrows, NEW w \in FilWho, FilTarget(w) PROVE FilShape' /\ FilSound'
<1> DEFINE op == filOp[w] o == filOp'[w]
<1>0. /\ op.at = "target" /\ FilLooks /\ op \in FilOps
      /\ w = "agent" => FilPlanned(op) /\ (op.snap # 0 => FilKept(op.snap))
      /\ w = "undo" => FilUndoKnows /\ FilRestores(op)
  BY FilFields DEF FilTarget, FilSound, FilAgentKnows, FilUndoKnows, FilSnapped
<1>1. CASE FilFails(w)
  BY <1>0, <1>1, FilFailing
<1>2. CASE FilGoes(w, "link") /\ op.expected = 0
  <2>1. /\ o.at = "link" /\ o.kind = op.kind /\ o.snap = op.snap /\ o.content = op.content /\ o.created = op.created
        /\ filOp' \in [FilWho -> FilOps] /\ \A v \in FilWho : v # w => filOp'[v] = filOp[v]
    BY <1>2, FilGoesFields DEF FilPlaces
  <2>2. w = "agent"
    BY <1>0, <1>2, FilValues DEF FilRestores
  <2>3. FilPlanned(o) /\ ~FilSnapped(o) /\ FilLastLook(filOp[w])'
    BY <1>0, <2>1, <2>2 DEF FilPlanned, FilSnapped, FilLastLook, FilPast
  <2>4. FilAgentKnows'
    BY <2>2, <2>3 DEF FilAgentKnows, FilPlanned, FilSnapped
  <2> QED BY <1>0, <2>1, <2>2, <2>4, FilLooking, FilValues
<1>3. CASE /\ op.expected # 0 /\ op.expected = filDisk
           /\ filOp' = [filOp EXCEPT ![w].at = IF op.kind = "restore" /\ op.created THEN "move" ELSE "recheck",
                                     ![w].slip = FilCameBack(op)]
  <2> DEFINE at == IF op.kind = "restore" /\ op.created THEN "move" ELSE "recheck"
             slip == FilCameBack(op)
  <2>0. at \in {"move", "recheck"} /\ slip \in BOOLEAN
    BY DEF FilCameBack
  <2>1. filOp' = [filOp EXCEPT ![w] = [op EXCEPT !.at = at, !.slip = slip]]
    BY <1>3
  <2> HIDE DEF at, slip
  <2>2. [op EXCEPT !.at = at, !.slip = slip] \in FilOps
    BY <1>0, <2>0 DEF FilOps
  <2>3. /\ filOp' \in [FilWho -> FilOps] /\ o = [op EXCEPT !.at = at, !.slip = slip]
        /\ \A v \in FilWho : v # w => filOp'[v] = filOp[v]
    BY <2>1, <2>2 DEF FilShape
  <2>4. /\ o.at = at /\ o.slip = slip /\ o.kind = op.kind /\ o.snap = op.snap /\ o.content = op.content
        /\ o.created = op.created /\ o.expected = op.expected /\ o.diff = op.diff
    BY <1>0, <2>0, <2>3 DEF FilOps
  <2>5. ASSUME w = "agent" PROVE FilAgentKnows'
    <3>1. at = "recheck" /\ (slip <=> op.kind # "replace" /\ op.snap = 0)
      BY <1>0, <2>5 DEF FilPlanned, FilCameBack, at, slip
    <3>2. FilPlanned(o)
      BY <1>0, <1>3, <2>4, <2>5, <3>1 DEF FilPlanned
    <3>3. FilLastLook(filOp[w])'
      BY <2>4, <3>1 DEF FilLastLook, FilPast
    <3>4. op.snap # 0 => filStore'[op.snap] = "whole" \/ op.snap \in filTornAt'
      BY <1>0, <2>5 DEF FilKept, FilLooks
    <3> QED BY <2>4, <2>5, <3>2, <3>3, <3>4 DEF FilAgentKnows, FilKept, FilPlanned
  <2>6. ASSUME w = "undo" PROVE FilUndoKnows'
    <3>1. (at = "move" <=> op.created) /\ op.at # "idle"
      BY <1>0, <2>6 DEF FilRestores, at
    <3>2. FilRestores(o) /\ FilLastLook(filOp[w])'
      BY <1>0, <2>0, <2>4, <2>6, <3>1 DEF FilRestores, FilLastLook, FilPast
    <3> QED BY <1>0, <2>4, <2>6, <3>1, <3>2 DEF FilUndoKnows, FilRestores, FilLooks
  <2> QED BY <1>0, <2>3, <2>5, <2>6, FilLooking
<1> QED BY <1>1, <1>2, <1>3 DEF FilTarget

LEMMA FilRecheckKeeps == ASSUME FilShape, FilSound, FilGrows, NEW w \in FilWho, FilRecheck(w) PROVE FilShape' /\ FilSound'
<1> DEFINE op == filOp[w] o == filOp'[w]
<1>0. /\ op.at = "recheck" /\ FilLooks /\ op \in FilOps
      /\ w = "agent" => FilPlanned(op) /\ (op.snap # 0 => FilKept(op.snap))
      /\ w = "undo" => FilUndoKnows /\ FilRestores(op)
  BY FilFields DEF FilRecheck, FilSound, FilAgentKnows, FilUndoKnows, FilSnapped
<1>1. CASE FilFails(w)
  BY <1>0, <1>1, FilFailing
<1>2. CASE FilGoes(w, "rename") /\ filDisk = op.expected
  <2>1. /\ o.at = "rename" /\ o.kind = op.kind /\ o.snap = op.snap /\ o.content = op.content /\ o.created = op.created
        /\ o.slip = op.slip /\ o.expected = op.expected /\ o.diff = op.diff
        /\ filOp' \in [FilWho -> FilOps] /\ \A v \in FilWho : v # w => filOp'[v] = filOp[v]
    BY <1>2, FilGoesFields DEF FilPlaces
  <2>2. FilLastLook(filOp[w])'
    BY <1>0, <1>2, <2>1 DEF FilLastLook, FilLooks
  <2>3. ASSUME w = "agent" PROVE FilAgentKnows'
    <3>1. FilPlanned(o)
      BY <1>0, <2>1, <2>3 DEF FilPlanned
    <3>2. op.snap # 0 => filStore'[op.snap] = "whole" \/ op.snap \in filTornAt'
      BY <1>0, <2>3 DEF FilKept, FilLooks
    <3> QED BY <2>1, <2>2, <2>3, <3>1, <3>2 DEF FilAgentKnows, FilKept, FilPlanned
  <2>4. ASSUME w = "undo" PROVE FilUndoKnows'
    <3>1. FilRestores(o)
      BY <1>0, <2>1, <2>4 DEF FilRestores
    <3> QED BY <1>0, <2>1, <2>2, <2>4, <3>1 DEF FilUndoKnows, FilRestores, FilLooks
  <2> QED BY <1>0, <2>1, <2>3, <2>4, FilLooking
<1> QED BY <1>1, <1>2 DEF FilRecheck, FilSame

LEMMA FilLookKeeps == ASSUME FilShape, FilSound, FilGrows, FilLook PROVE FilShape' /\ FilSound'
<1> DEFINE op == filOp["agent"] o == [op EXCEPT !.expected = filDisk, !.at = "move"]
<1>0. op.at = "look" /\ FilLooks /\ op \in FilOps /\ FilPlanned(op)
  BY FilFields, FilValues DEF FilLook, FilSound, FilAgentKnows
<1>1. CASE FilFails("agent")
  BY <1>0, <1>1, FilFailing, FilValues
<1>2. CASE filOp' = [filOp EXCEPT !["agent"].expected = filDisk, !["agent"].at = "move"]
  <2>1. /\ o \in FilOps /\ o.at = "move" /\ o.created = op.created /\ o.content = op.content
    BY <1>0 DEF FilOps, FilShape
  <2>2. filOp' = [filOp EXCEPT !["agent"] = o]
    BY <1>2
  <2> HIDE DEF o
  <2>3. filOp' \in [FilWho -> FilOps] /\ filOp'["agent"] = o /\ filOp'["undo"] = filOp["undo"]
    BY <2>1, <2>2, FilValues DEF FilShape
  <2>4. FilAgentKnows'
    BY <1>0, <2>1, <2>3 DEF FilAgentKnows, FilPlanned, FilLastLook, FilSnapped, FilPast
  <2> QED BY <1>0, <2>3, <2>4, FilAgentLooks
<1> QED BY <1>1, <1>2 DEF FilLook

LEMMA FilCopiedKeeps == ASSUME FilShape, FilSound, FilGrows, NEW w \in FilWho, FilCopied(w) PROVE FilShape' /\ FilSound'
<1> DEFINE op == filOp[w] o == filOp'[w]
<1>0. /\ op.at = "copied" /\ FilLooks /\ op \in FilOps /\ FilLastLook(op)
      /\ w = "agent" => FilPlanned(op)
      /\ w = "undo" => FilUndoKnows /\ FilRestores(op)
  BY FilFields, FilValues DEF FilCopied, FilSound, FilAgentKnows, FilUndoKnows
<1>1. CASE FilFails(w)
  BY <1>0, <1>1, FilFailing
<1>2. CASE FilGoes(w, "unlink") /\ filDisk = op.expected
  <2>1. /\ o.at = "unlink" /\ o.kind = op.kind /\ o.snap = op.snap /\ o.content = op.content /\ o.created = op.created
        /\ o.slip = op.slip /\ o.expected = op.expected /\ o.diff = op.diff
        /\ filOp' \in [FilWho -> FilOps] /\ \A v \in FilWho : v # w => filOp'[v] = filOp[v]
    BY <1>2, FilGoesFields DEF FilPlaces
  <2>2. FilLastLook(filOp[w])'
    BY <1>0, <1>2, <2>1 DEF FilLastLook, FilLooks
  <2>3. ASSUME w = "agent" PROVE FilAgentKnows'
    BY <1>0, <2>1, <2>2, <2>3 DEF FilAgentKnows, FilPlanned, FilSnapped
  <2>4. ASSUME w = "undo" PROVE FilUndoKnows'
    <3>1. FilRestores(o)
      BY <1>0, <2>1, <2>4 DEF FilRestores
    <3> QED BY <1>0, <2>1, <2>2, <2>4, <3>1 DEF FilUndoKnows, FilRestores, FilLooks
  <2> QED BY <1>0, <2>1, <2>3, <2>4, FilLooking
<1> QED BY <1>1, <1>2 DEF FilCopied, FilSame

LEMMA FilUndoKeeps ==
    ASSUME FilShape, FilSound, FilGrows, NEW d \in 1..Len(filDiffs), FilUndo(d) PROVE FilShape' /\ FilSound'
<1> DEFINE diff == filDiffs[d]
           stored == IF diff.created THEN 0 ELSE IF filStore[diff.snap] = "whole" THEN diff.snap ELSE FilTorn(diff.snap)
           op == [FilIdle EXCEPT !.kind = "restore", !.at = "target", !.expected = diff.after, !.content = stored,
                                 !.created = diff.created, !.diff = d]
<1>0. /\ filOp["undo"] = FilIdle /\ filOp' = [filOp EXCEPT !["undo"] = op]
      /\ UNCHANGED <<filDisk, filTrash, filStore, filDiffs, filGone, filUndone, filTornAt>>
  BY DEF FilUndo
<1>1. diff \in FilDiff /\ d \in Nat
  BY DEF FilShape
<1>2. diff.snap \in FilAnything /\ diff.after \in FilAnything /\ diff.created \in BOOLEAN /\ stored \in FilAnything
  BY <1>1, FilValues DEF FilDiff
<1>3. diff.after # 0 /\ (~diff.slip => IF diff.created THEN diff.was = 0 ELSE diff.was = diff.snap /\ FilKept(diff.snap))
  BY DEF FilSound, FilDiffsKnow
<1>4. ~diff.slip /\ diff.was \notin filTornAt => stored = diff.was
  BY <1>3 DEF FilKept
<1>5. diff.created => stored = 0
  OBVIOUS
<1> HIDE DEF stored, diff
<1>6. /\ op \in FilOps /\ op.kind = "restore" /\ op.at = "target" /\ op.expected = diff.after /\ op.content = stored
      /\ op.created = diff.created /\ op.diff = d
  BY <1>1, <1>2, FilValues DEF FilOps, FilIdle
<1> HIDE DEF op
<1>7. filOp' \in [FilWho -> FilOps] /\ filOp'["undo"] = op /\ filOp'["agent"] = filOp["agent"]
  BY <1>0, <1>6, FilValues DEF FilShape
<1>8. FilRestores(op) /\ FilLastLook(filOp["undo"])'
  BY <1>3, <1>5, <1>6, <1>7 DEF FilRestores, FilLastLook, FilPast
<1>9. FilUndoKnows'
  BY <1>0, <1>4, <1>6, <1>7, <1>8 DEF FilUndoKnows, FilRestores, diff
<1>10. FilPartials' /\ FilAgentKnows'
  BY <1>0, <1>7, FilPartialsKept, FilAgentKept DEF FilOthers, FilSound
<1> QED BY <1>0, <1>7, <1>9, <1>10, FilQuietStep DEF FilShape

LEMMA FilCaptureKeeps == ASSUME FilShape, FilSound, FilGrows, FilCapture PROVE FilShape' /\ FilSound'
<1> DEFINE op == filOp["agent"]
           diff == [snap |-> op.snap, after |-> op.content, created |-> FilCreated(op), was |-> op.was, slip |-> op.slip]
<1>0. /\ op.at = "capture" /\ FilFails("agent") /\ filDiffs' = Append(filDiffs, diff)
      /\ UNCHANGED <<filDisk, filTrash, filStore, filGone, filUndone, filTornAt>>
  BY DEF FilCapture
<1>1. /\ op \in FilOps /\ FilPlanned(op) /\ (FilSnapped(op) /\ op.snap # 0 => FilKept(op.snap))
      /\ op.snap \in FilAnything /\ op.content \in FilAnything /\ op.was \in FilAnything /\ op.created \in BOOLEAN /\ op.slip \in BOOLEAN
  BY FilFields, FilValues DEF FilSound, FilAgentKnows
<1>2. diff \in FilDiff /\ diff.after = op.content /\ diff.slip = op.slip /\ diff.created = op.created /\ diff.was = op.was /\ diff.snap = op.snap
  BY <1>1 DEF FilDiff, FilCreated
<1>3. ~op.slip => IF op.created THEN op.was = 0 ELSE op.was = op.snap /\ FilKept(op.snap)
  BY <1>0, <1>1 DEF FilPlanned, FilSnapped
<1>4. op.content # 0
  BY <1>0, <1>1 DEF FilPlanned
<1> HIDE DEF diff
<1>5. /\ filDiffs' \in Seq(FilDiff) /\ Len(filDiffs') = Len(filDiffs) + 1 /\ Len(filDiffs) \in Nat
      /\ filDiffs'[Len(filDiffs) + 1] = diff /\ \A d \in 1..Len(filDiffs) : filDiffs'[d] = filDiffs[d]
  BY <1>0, <1>2 DEF FilShape
<1>6. FilDiffsKnow'
  <2> SUFFICES ASSUME NEW d \in 1..Len(filDiffs')
               PROVE  /\ filDiffs'[d].after # 0
                      /\ ~filDiffs'[d].slip => IF filDiffs'[d].created THEN filDiffs'[d].was = 0
                                               ELSE filDiffs'[d].was = filDiffs'[d].snap /\ FilKept(filDiffs'[d].snap)
    BY <1>0 DEF FilDiffsKnow, FilKept
  <2>1. CASE d = Len(filDiffs) + 1
    BY <1>2, <1>3, <1>4, <1>5, <2>1
  <2>2. CASE d # Len(filDiffs) + 1
    <3>1. d \in 1..Len(filDiffs)
      BY <1>5, <2>2
    <3> QED BY <1>5, <3>1 DEF FilDiffsKnow, FilSound
  <2> QED BY <2>1, <2>2
<1>7. filOp'["agent"] = FilIdle /\ filOp' \in [FilWho -> FilOps] /\ filOp'["undo"] = filOp["undo"]
  BY <1>0, FilFailsFields, FilValues
<1>8. FilPartials' /\ FilUndoKnows'
  BY <1>0, <1>7, FilPartialsKept, FilUndoKept DEF FilOthers, FilSound
<1>9. FilAgentKnows'
  BY <1>7, FilIdleKnows DEF FilAgentKnows, FilLastLook
<1>10. FilShape'
  BY <1>0, <1>5, <1>7 DEF FilShape
<1> QED BY <1>0, <1>6, <1>8, <1>9, <1>10, FilRestKept DEF FilSound

-----------------------------------------------------------------------------
(* The file is written *)

\* Whoever writes: every other operation is where it was, or has missed the write.
LEMMA FilSlipping ==
    ASSUME FilShape, NEW w, NEW v \in FilWho, v # w, filOp'[v] = FilSlips(w)[v]
    PROVE  FilOthers(v) /\ filOp'[v] \in FilOps /\ (filOp[v].at = "storing" => filOp'[v] = filOp[v])
<1>1. filOp[v] \in FilOps
  BY FilFields
<1>2. CASE filOp[v].at \in FilPast
  BY <1>1, <1>2, FilSlipFields DEF FilSlips, FilOthers, FilPast
<1>3. CASE filOp[v].at \notin FilPast
  BY <1>1, <1>3 DEF FilSlips, FilOthers
<1> QED BY <1>2, <1>3

LEMMA FilSlipsType == ASSUME FilShape, NEW w PROVE FilSlips(w) \in [FilWho -> FilOps] /\ \A v \in FilWho : v = w => FilSlips(w)[v] = filOp[v]
<1>1. \A v \in FilWho : filOp[v] \in FilOps
  BY FilFields
<1>2. \A v \in FilWho : [filOp[v] EXCEPT !.slip = TRUE] \in FilOps
  BY <1>1, FilSlipFields
<1> QED BY <1>1, <1>2 DEF FilSlips

LEMMA FilOutsideKeeps ==
    ASSUME FilShape, FilSound, FilGrows, NEW c \in FilContents \cup {0}, FilOutside(c) PROVE FilShape' /\ FilSound'
<1>1. filOp' = FilSlips("outside") /\ filDisk' = c
      /\ UNCHANGED <<filTrash, filStore, filDiffs, filGone, filUndone, filTornAt>>
  BY DEF FilOutside
<1>2. filOp' \in [FilWho -> FilOps] /\ FilOthers("agent") /\ FilOthers("undo")
      /\ (filOp["agent"].at = "storing" => filOp'["agent"] = filOp["agent"])
  BY <1>1, FilSlipping, FilSlipsType, FilValues DEF FilWho
<1>3. FilPartials' /\ FilAgentKnows' /\ FilUndoKnows'
  BY <1>1, <1>2, FilPartialsKept, FilAgentKept, FilUndoKept DEF FilSound
<1>4. filDisk' \in FilAnything
  BY <1>1, FilValues
<1> QED BY <1>1, <1>2, <1>3, <1>4, FilQuietStep DEF FilShape

\* What a last step of an agent removes is kept.
LEMMA FilNothingMoreLost ==
    ASSUME FilShape, FilSound, FilGrows, NEW c, filGone' = filGone \/ filGone' = filGone \cup {c},
           filGone' = filGone \/ c \in filTrash' \/ (c \in FilAnything /\ FilKept(c))
    PROVE  FilNothingLost'
<1>1. FilWhole \subseteq FilWhole' /\ filTrash \subseteq filTrash' /\ filTornAt \subseteq filTornAt'
  BY DEF FilWhole, FilGrows
<1>2. c \in FilAnything /\ FilKept(c) => c \in FilWhole' \/ c \in filTornAt'
  BY <1>1 DEF FilKept, FilWhole, FilGrows
<1>3. filGone \ filTornAt \subseteq filTrash \cup FilWhole
  BY DEF FilSound, FilNothingLost
<1> QED BY <1>1, <1>2, <1>3 DEF FilNothingLost

\* The end of an undo that left `now`.
LEMMA FilUndoEnds ==
    ASSUME FilShape, FilSound, FilGrows, filOp["undo"].at # "idle", NEW now \in FilAnything, now = filOp["undo"].content,
           FilRestored(filOp["undo"], now), filDiffs' = filDiffs
    PROVE  FilUndoExact' /\ filUndone' \in FilEnd /\ filUndone'.diff \in 0..Len(filDiffs')
<1> DEFINE op == filOp["undo"] end == [diff |-> op.diff, now |-> now, slip |-> op.slip \/ filDiffs[op.diff].slip]
<1>0. /\ op.diff \in 1..Len(filDiffs) /\ op.diff \in Nat /\ op.slip \in BOOLEAN
      /\ ~filDiffs[op.diff].slip /\ filDiffs[op.diff].was \notin filTornAt => op.content = filDiffs[op.diff].was
  BY FilFields, FilValues DEF FilSound, FilUndoKnows
<1>1. filUndone' = end /\ filTornAt \subseteq filTornAt'
  BY DEF FilRestored, FilGrows
<1>2. filDiffs[op.diff].slip \in BOOLEAN
  <2>1. filDiffs[op.diff] \in FilDiff
    BY <1>0 DEF FilShape
  <2> QED BY <2>1 DEF FilDiff
<1>3. /\ end \in FilEnd /\ end.diff = op.diff /\ end.now = now /\ end.slip = (op.slip \/ filDiffs[op.diff].slip)
  BY <1>0, <1>2 DEF FilEnd
<1> HIDE DEF end
<1>4. FilUndoExact'
  BY <1>0, <1>1, <1>3 DEF FilUndoExact
<1> QED BY <1>0, <1>1, <1>3, <1>4

\* An undo that is over knows nothing.
LEMMA FilUndoOver == ASSUME filOp'["undo"] = FilIdle PROVE FilUndoKnows'
  BY FilValues DEF FilUndoKnows

LEMMA FilRenameAgent == ASSUME FilShape, FilSound, FilGrows, FilRename("agent") PROVE FilShape' /\ FilSound'
<1> DEFINE op == filOp["agent"] o == [FilSlips("agent")["agent"] EXCEPT !.at = "capture", !.was = filDisk]
<1>0. /\ op.at = "rename" /\ filDisk' = op.content /\ filGone' = FilRemoved(op)
      /\ UNCHANGED <<filTrash, filStore, filDiffs, filUndone, filTornAt, filCount>>
      /\ filOp' = [FilSlips("agent") EXCEPT !["agent"] = o]
  BY DEF FilRename
<1>1. /\ op \in FilOps /\ FilPlanned(op) /\ FilLastLook(op) /\ (op.snap # 0 => FilKept(op.snap))
      /\ op.snap \in FilAnything /\ op.content \in FilAnything
  BY <1>0, FilFields, FilValues DEF FilSound, FilAgentKnows, FilSnapped
<1>2. FilSlips("agent") \in [FilWho -> FilOps] /\ FilSlips("agent")["agent"] = op
  BY FilSlipsType, FilValues
<1>3. /\ o \in FilOps /\ o.at = "capture" /\ o.was = filDisk /\ o.kind = op.kind /\ o.content = op.content
      /\ o.snap = op.snap /\ o.slip = op.slip /\ o.created = op.created
  BY <1>1, <1>2 DEF FilOps, FilShape
<1> HIDE DEF o
<1>4. filOp' \in [FilWho -> FilOps] /\ filOp'["agent"] = o /\ filOp'["undo"] = FilSlips("agent")["undo"]
  BY <1>0, <1>2, <1>3, FilValues
<1>5. FilOthers("undo")
  BY <1>4, FilSlipping, FilValues
<1>6. ~op.slip => filDisk = op.snap /\ op.snap # 0
  BY <1>0, <1>1 DEF FilPlanned, FilLastLook, FilPast
<1>7. FilAgentKnows'
  <2>1. FilPlanned(o)
    BY <1>0, <1>1, <1>3, <1>6 DEF FilPlanned
  <2>2. FilLastLook(filOp["agent"])'
    BY <1>3, <1>4 DEF FilLastLook, FilPast
  <2>3. op.snap # 0 => filStore'[op.snap] = "whole" \/ op.snap \in filTornAt'
    BY <1>0, <1>1 DEF FilKept
  <2> QED BY <1>3, <1>4, <2>1, <2>2, <2>3 DEF FilAgentKnows, FilKept
<1>8. FilPartials' /\ FilUndoKnows'
  BY <1>0, <1>5, FilPartialsKept, FilUndoKept DEF FilSound
<1>9. FilNothingLost'
  BY <1>0, <1>1, <1>6, FilNothingMoreLost DEF FilRemoved
<1>10. FilShape'
  BY <1>0, <1>1, <1>4 DEF FilShape
<1> QED BY <1>0, <1>7, <1>8, <1>9, <1>10, FilRestKept DEF FilSound

LEMMA FilLinkKeeps == ASSUME FilShape, FilSound, FilGrows, FilLink PROVE FilShape' /\ FilSound'
<1> DEFINE op == filOp["agent"]
           o == [FilSlips("agent")["agent"] EXCEPT !.at = "capture", !.was = filDisk, !.created = TRUE]
<1>0. /\ op \in FilOps /\ FilPlanned(op) /\ op.content \in FilAnything /\ op.at = "link"
  BY FilFields, FilValues DEF FilSound, FilAgentKnows, FilLink
<1>1. CASE filDisk # 0
  BY <1>0, <1>1, FilFailing, FilValues DEF FilLink, FilLinks, FilLooks
<1>2. CASE filDisk = 0
  <2>0. /\ filDisk' = op.content /\ filGone' = filGone \cup ({filDisk} \ {0})
        /\ UNCHANGED <<filTrash, filStore, filDiffs, filUndone, filTornAt, filCount>>
        /\ filOp' = [FilSlips("agent") EXCEPT !["agent"] = o]
    BY <1>2 DEF FilLink, FilLinks
  <2>1. filGone' = filGone
    BY <1>2, <2>0
  <2>2. FilSlips("agent") \in [FilWho -> FilOps] /\ FilSlips("agent")["agent"] = op
    BY FilSlipsType, FilValues
  <2>3. /\ o \in FilOps /\ o.at = "capture" /\ o.was = filDisk /\ o.kind = op.kind /\ o.content = op.content /\ o.created
    BY <1>0, <2>2 DEF FilOps, FilShape
  <2> HIDE DEF o
  <2>4. filOp' \in [FilWho -> FilOps] /\ filOp'["agent"] = o /\ filOp'["undo"] = FilSlips("agent")["undo"]
    BY <2>0, <2>2, <2>3, FilValues
  <2>5. FilOthers("undo")
    BY <2>4, FilSlipping, FilValues
  <2>6. FilAgentKnows'
    <3>1. FilPlanned(o) /\ ~FilSnapped(o)
      BY <1>0, <1>2, <2>3 DEF FilPlanned, FilSnapped
    <3>2. FilLastLook(filOp["agent"])'
      BY <2>3, <2>4 DEF FilLastLook, FilPast
    <3> QED BY <2>4, <3>1, <3>2 DEF FilAgentKnows
  <2>7. FilPartials' /\ FilUndoKnows'
    BY <1>0, <2>0, <2>5, FilPartialsKept, FilUndoKept DEF FilSound
  <2>8. FilShape'
    BY <1>0, <2>0, <2>4 DEF FilShape
  <2> QED BY <2>0, <2>1, <2>6, <2>7, <2>8, FilRestKept DEF FilSound
<1> QED BY <1>1, <1>2

\* The operation of w ends with the file replaced or removed: by the undo, or by a deletion.
LEMMA FilEnding ==
    ASSUME FilShape, FilSound, FilGrows, NEW w \in FilWho, NEW now \in FilAnything, filOp[w].at \notin {"idle", "storing"},
           filOp' = [FilSlips(w) EXCEPT ![w] = FilIdle], filDisk' = now,
           IF w = "undo" THEN now = filOp[w].content /\ FilRestored(filOp[w], now) ELSE UNCHANGED filUndone,
           UNCHANGED <<filStore, filDiffs, filTornAt>>,
           filGone' = filGone \/ (filGone' = FilRemoved(filOp[w]) /\ (filOp[w].slip \/ filDisk \in filTrash'))
    PROVE  FilShape' /\ FilSound'
<1>1. filOp' \in [FilWho -> FilOps] /\ filOp'[w] = FilIdle /\ \A v \in FilWho : v # w => filOp'[v] = FilSlips(w)[v]
  BY FilSlipsType, FilValues
<1>2. \A v \in FilWho : v # w => FilOthers(v) /\ (filOp[v].at = "storing" => filOp'[v] = filOp[v])
  BY <1>1, FilSlipping
<1>3. FilAgentKnows' /\ (filOp["agent"].at # "storing" \/ filOp'["agent"] = filOp["agent"])
  <2>1. CASE w = "agent"
    BY <1>1, <2>1, FilIdleKnows DEF FilAgentKnows, FilLastLook
  <2>2. CASE w = "undo"
    BY <1>2, <2>2, FilAgentKept, FilValues DEF FilSound
  <2> QED BY <2>1, <2>2, FilValues
<1>4. FilPartials'
  BY <1>3, FilPartialsKept DEF FilSound
<1>5. FilUndoKnows' /\ FilUndoExact' /\ filUndone' \in FilEnd /\ filUndone'.diff \in 0..Len(filDiffs')
  <2>1. CASE w = "agent"
    BY <1>2, <2>1, FilUndoKept, FilRestKept, FilValues DEF FilSound, FilShape
  <2>2. CASE w = "undo"
    BY <1>1, <2>2, FilUndoOver, FilUndoEnds
  <2> QED BY <2>1, <2>2, FilValues
<1>6. FilNothingLost'
  BY FilNothingMoreLost DEF FilRemoved
<1>7. FilShape'
  BY <1>1, <1>5 DEF FilShape
<1> QED BY <1>3, <1>4, <1>5, <1>6, <1>7, FilRestKept DEF FilSound

LEMMA FilRenameUndo == ASSUME FilShape, FilSound, FilGrows, FilRename("undo") PROVE FilShape' /\ FilSound'
<1>1. /\ filOp["undo"].at = "rename" /\ filDisk' = filOp["undo"].content /\ filGone' = filGone
      /\ filOp' = [FilSlips("undo") EXCEPT !["undo"] = FilIdle] /\ FilRestored(filOp["undo"], filOp["undo"].content)
      /\ UNCHANGED <<filStore, filDiffs, filTornAt>>
  BY DEF FilRename
<1> QED BY <1>1, FilEnding, FilFields, FilValues

LEMMA FilMoveKeeps ==
    ASSUME FilShape, FilSound, FilGrows, NEW w \in FilWho, NEW sameVolume \in BOOLEAN, FilMove(w, sameVolume)
    PROVE  FilShape' /\ FilSound'
<1> DEFINE op == filOp[w] o == filOp'[w]
<1>0. /\ op.at = "move" /\ op \in FilOps /\ op.content \in FilAnything /\ UNCHANGED <<filStore, filDiffs, filTornAt, filCount>>
      /\ w = "agent" => FilPlanned(op)
      /\ w = "undo" => FilUndoKnows /\ FilRestores(op) /\ op.content = 0
  BY FilFields DEF FilMove, FilSound, FilAgentKnows, FilUndoKnows, FilRestores
<1>1. CASE filDisk # op.expected
  BY <1>0, <1>1, FilFailing DEF FilMove, FilSame, FilLooks
<1>2. CASE filDisk = op.expected /\ sameVolume
  <2>1. filDisk' = 0 /\ filDisk \in filTrash' /\ filGone' = FilRemoved(op) /\ FilEnds(w, 0)
    BY <1>2 DEF FilMove, FilSame
  <2> QED BY <1>0, <2>1, FilEnding, FilValues DEF FilEnds
<1>3. CASE filDisk = op.expected /\ ~sameVolume
  <2>1. filTrash' = filTrash \cup {filDisk} /\ FilGoes(w, "copied") /\ UNCHANGED <<filDisk, filGone, filUndone>>
    BY <1>3 DEF FilMove, FilSame
  <2>2. /\ o.at = "copied" /\ o.kind = op.kind /\ o.snap = op.snap /\ o.content = op.content /\ o.created = op.created
        /\ o.slip = op.slip /\ o.expected = op.expected /\ o.diff = op.diff
        /\ filOp' \in [FilWho -> FilOps] /\ \A v \in FilWho : v # w => filOp'[v] = filOp[v]
    BY <2>1, FilGoesFields DEF FilPlaces
  <2>3. FilLastLook(filOp[w])'
    BY <1>3, <2>1, <2>2 DEF FilLastLook, FilPast
  <2>4. FilAgentKnows'
    <3>1. CASE w = "agent"
      BY <1>0, <2>2, <2>3, <3>1 DEF FilAgentKnows, FilPlanned, FilSnapped
    <3>2. CASE w = "undo"
      BY <2>1, <2>2, <3>2, FilAgentKept, FilValues DEF FilSound, FilOthers
    <3> QED BY <3>1, <3>2, FilValues
  <2>5. FilUndoKnows'
    <3>1. CASE w = "undo"
      <4>1. FilRestores(o)
        BY <1>0, <2>2, <3>1 DEF FilRestores
      <4> QED BY <1>0, <2>2, <2>3, <3>1, <4>1 DEF FilUndoKnows
    <3>2. CASE w = "agent"
      BY <2>1, <2>2, <3>2, FilUndoKept, FilValues DEF FilSound, FilOthers
    <3> QED BY <3>1, <3>2, FilValues
  <2>6. FilPartials'
    BY <1>0, <2>2, FilPartialsKept, FilValues DEF FilSound
  <2> QED BY <1>0, <2>1, <2>2, <2>4, <2>5, <2>6, FilQuietStep DEF FilShape
<1> QED BY <1>1, <1>2, <1>3

LEMMA FilUnlinkKeeps == ASSUME FilShape, FilSound, FilGrows, NEW w \in FilWho, FilUnlink(w) PROVE FilShape' /\ FilSound'
<1> DEFINE op == filOp[w]
<1>0. /\ op.at = "unlink" /\ FilLastLook(op) /\ UNCHANGED <<filTrash, filStore, filDiffs, filTornAt, filCount>>
      /\ w = "undo" => op.content = 0
  BY FilValues DEF FilUnlink, FilSound, FilAgentKnows, FilUndoKnows, FilRestores
<1>1. CASE filDisk = 0
  BY <1>0, <1>1, FilFailing DEF FilUnlink, FilLooks
<1>2. CASE filDisk # 0
  <2>1. filDisk' = 0 /\ filGone' = FilRemoved(op) /\ FilEnds(w, 0)
    BY <1>2 DEF FilUnlink
  <2>2. op.slip \/ filDisk \in filTrash'
    BY <1>0 DEF FilLastLook, FilPast
  <2> QED BY <1>0, <2>1, <2>2, FilEnding, FilValues DEF FilEnds
<1> QED BY <1>1, <1>2

\* What was being stored when the application ended is now known to be in part there.
LEMMA FilCrashKeeps == ASSUME FilShape, FilSound, FilGrows, FilCrash PROVE FilShape' /\ FilSound'
<1>1. /\ filOp' = [w \in FilWho |-> FilIdle]
      /\ filTornAt' = filTornAt \cup {filOp[w].snap : w \in {v \in FilWho : filOp[v].at = "storing"}}
      /\ UNCHANGED <<filDisk, filTrash, filStore, filDiffs, filGone, filUndone>>
  BY DEF FilCrash
<1>2. filOp' \in [FilWho -> FilOps] /\ filOp'["agent"] = FilIdle /\ filOp'["undo"] = FilIdle
  BY <1>1, FilValues
<1>3. FilAgentKnows' /\ FilUndoKnows'
  BY <1>2, FilIdleKnows, FilUndoOver DEF FilAgentKnows, FilLastLook
<1>4. FilPartials'
  BY <1>1, FilValues DEF FilPartials, FilSound
<1> QED BY <1>1, <1>2, <1>3, <1>4, FilQuietStep DEF FilShape

LEMMA FilStepKeeps == FilShape /\ FilSound /\ [FilNext]_filVars => FilShape' /\ FilSound'
<1> SUFFICES ASSUME FilShape, FilSound, [FilNext]_filVars PROVE FilShape' /\ FilSound'
  OBVIOUS
<1>1. CASE UNCHANGED filVars
  <2>1. UNCHANGED <<filDisk, filTrash, filStore, filOp, filDiffs, filGone, filUndone, filTornAt, filCount>>
    BY <1>1 DEF filVars
  <2>2. FilGrows
    BY <2>1 DEF FilGrows, FilShape
  <2>3. FilPartials' /\ FilAgentKnows' /\ FilUndoKnows'
    BY <2>1, <2>2, FilPartialsKept, FilAgentKept, FilUndoKept DEF FilSound, FilOthers
  <2> QED BY <2>1, <2>2, <2>3, FilQuietStep DEF FilShape
<1>2. CASE FilNext
  <2>1. FilGrows
    BY <1>2, FilGrowing
  <2> QED BY <1>2, <2>1, FilCallKeeps, FilSnapshotKeeps, FilStoreKeeps, FilStoredKeeps, FilLinkKeeps, FilCaptureKeeps,
             FilLookKeeps, FilCrashKeeps, FilTargetKeeps, FilRecheckKeeps, FilRenameAgent, FilRenameUndo, FilCopiedKeeps,
             FilUnlinkKeeps, FilMoveKeeps, FilUndoKeeps, FilOutsideKeeps, FilValues DEF FilNext
<1> QED BY <1>1, <1>2

\* What a tool replaces or deletes is in the trash or in the artifact store in full, and an undo
\* leaves the file as its change had found it, though others write the file between any two
\* steps and the application may end at any of them; excepted are, as in the property, writes
\* that no comparison of the code can see and snapshots cut off by a crash (FileChangeStore,
\* restoreVersion).
THEOREM ChangesRecoverable == FilSpec => []FilRecoverable
<1>1. FilShape /\ FilSound => FilRecoverable
  BY DEF FilSound, FilRecoverable
<1> QED BY <1>1, FilInitHolds, FilStepKeeps, PTL DEF FilSpec

-----------------------------------------------------------------------------
(* PackageInstall: what was shown *)

\* What was read of each selection.
PkgBooks == [PkgChoices -> [PkgFiles -> PkgRead]]
\* Types.
PkgShape ==
    /\ pkgDisk \in [PkgFiles -> PkgContents] /\ pkgSlip \subseteq PkgChoices
    /\ pkgSelected \in PkgBooks /\ pkgShown \in PkgBooks /\ pkgHashes \in PkgBooks
    /\ pkgTaken \in PkgBooks /\ pkgInstalled \in PkgBooks /\ pkgAt \in [PkgChoices -> PkgPlaces]

\* Nothing is in hand, or installed, before the handler came to it.
PkgFresh(s) ==
    /\ pkgAt[s] \in {"idle", "chosen"} => pkgHashes[s] = PkgUnread /\ pkgTaken[s] = PkgUnread
    /\ pkgAt[s] \notin {"writing", "done"} => pkgInstalled[s] = PkgUnread

\* What an inspection took for use is what it hashed, and what an installation goes on
\* with is what was shown.
PkgInHand(s) ==
    /\ pkgAt[s] \in {"choosing", "inspecting"} => pkgTaken[s]["part"] \in {PkgNone, pkgHashes[s]["part"]}
    /\ pkgAt[s] \in {"template", "skill", "writing", "done"} =>
          pkgHashes[s] = pkgShown[s] /\ pkgTaken[s]["part"] = pkgShown[s]["part"] /\ pkgHashes[s]["skill"] # PkgNone
    /\ pkgAt[s] \in {"skill", "writing", "done"} => pkgTaken[s]["template"] = pkgShown[s]["template"]

\* A skill that no longer is the one that was hashed was changed since.
PkgSkillKnown(s) ==
    pkgAt[s] \in {"inspecting", "template", "skill"} /\ pkgHashes[s]["skill"] # PkgNone
        => pkgDisk["skill"] = pkgHashes[s]["skill"] \/ s \in pkgSlip

\* What the user confirmed is what the fingerprint they saw stands for.
PkgConfirmed(s) ==
    /\ \A f \in PkgFiles : pkgInstalled[s][f] \notin {PkgNone, pkgShown[s][f]} => f = "skill" /\ s \in pkgSlip
    /\ pkgSelected[s] # PkgUnread => pkgSelected[s] = pkgShown[s]

\* What is known of one selection, wherever its handler is.
PkgFine(s) == PkgFresh(s) /\ PkgInHand(s) /\ PkgSkillKnown(s) /\ PkgConfirmed(s)

\* The inductive invariant.
PkgInv == PkgShape /\ \A s \in PkgChoices : PkgFine(s)

LEMMA PkgFacts ==
    /\ "part" \in PkgFiles /\ "template" \in PkgFiles /\ "skill" \in PkgFiles
    /\ \A f \in PkgFiles : f \in {"part", "template", "skill"}
    /\ PkgUnread \in [PkgFiles -> PkgRead] /\ \A f \in PkgFiles : PkgUnread[f] = PkgNone
    /\ PkgNone \in PkgRead /\ \A c \in PkgContents : c \in PkgRead /\ c # PkgNone
  BY PkgAssumption DEF PkgFiles, PkgUnread, PkgRead, PkgNone

LEMMA PkgPlaceSet ==
    ASSUME PkgShape, NEW s \in PkgChoices, NEW at \in PkgPlaces, PkgGoes(s, at)
    PROVE  /\ pkgAt' \in [PkgChoices -> PkgPlaces] /\ pkgAt'[s] = at
           /\ \A z \in PkgChoices : z # s => pkgAt'[z] = pkgAt[z]
  BY DEF PkgShape, PkgGoes

\* What a step does not touch of a selection stays as good as it was.
PkgUntouched(z) ==
    /\ pkgAt'[z] = pkgAt[z] /\ pkgHashes'[z] = pkgHashes[z] /\ pkgTaken'[z] = pkgTaken[z]
    /\ pkgShown'[z] = pkgShown[z] /\ pkgSelected'[z] = pkgSelected[z] /\ pkgInstalled'[z] = pkgInstalled[z]

LEMMA PkgOthers ==
    ASSUME NEW z, PkgFine(z), PkgUntouched(z), UNCHANGED <<pkgDisk, pkgSlip>> PROVE PkgFine(z)'
<1>1. PkgFresh(z)' /\ PkgInHand(z)'
  BY DEF PkgFine, PkgUntouched, PkgFresh, PkgInHand
<1>2. PkgSkillKnown(z)'
  BY DEF PkgFine, PkgUntouched, PkgSkillKnown
<1>3. PkgConfirmed(z)'
  BY DEF PkgFine, PkgUntouched, PkgConfirmed
<1> QED BY <1>1, <1>2, <1>3 DEF PkgFine

\* A step of one selection.
LEMMA PkgOneStep ==
    ASSUME PkgInv, NEW s \in PkgChoices, \A z \in PkgChoices : z # s => PkgUntouched(z),
           UNCHANGED <<pkgDisk, pkgSlip>>, PkgShape', PkgFine(s)'
    PROVE  PkgInv'
  BY PkgOthers DEF PkgInv

LEMMA PkgChooseKeeps == ASSUME PkgInv, NEW s \in PkgChoices, PkgChoose(s) PROVE PkgInv'
<1>1. /\ pkgAt[s] = "idle" /\ PkgGoes(s, "choosing")
      /\ UNCHANGED <<pkgDisk, pkgSlip, pkgSelected, pkgShown, pkgHashes, pkgTaken, pkgInstalled>>
  BY DEF PkgChoose
<1>2. PkgShape /\ PkgFine(s)
  BY DEF PkgInv
<1>3. /\ pkgAt' \in [PkgChoices -> PkgPlaces] /\ pkgAt'[s] = "choosing"
      /\ \A z \in PkgChoices : z # s => pkgAt'[z] = pkgAt[z]
  BY <1>1, <1>2, PkgPlaceSet DEF PkgPlaces
<1>4. PkgShape'
  BY <1>1, <1>2, <1>3 DEF PkgShape
<1>5. PkgFine(s)'
  <2>1. PkgFresh(s)' /\ PkgInHand(s)' /\ PkgSkillKnown(s)'
    BY <1>1, <1>2, <1>3, PkgFacts DEF PkgFine, PkgFresh, PkgInHand, PkgSkillKnown
  <2>2. PkgConfirmed(s)'
    BY <1>1, <1>2 DEF PkgFine, PkgConfirmed
  <2> QED BY <2>1, <2>2 DEF PkgFine
<1> QED BY <1>1, <1>3, <1>4, <1>5, PkgOneStep DEF PkgUntouched

LEMMA PkgScanKeeps ==
    ASSUME PkgInv, NEW s \in PkgChoices, NEW f \in PkgFiles, PkgScan(s, f) PROVE PkgInv'
<1>1. /\ pkgAt[s] \in {"choosing", "inspecting"} /\ pkgHashes[s][f] = PkgNone
      /\ pkgHashes' = [pkgHashes EXCEPT ![s][f] = pkgDisk[f]]
      /\ UNCHANGED <<pkgDisk, pkgSlip, pkgSelected, pkgShown, pkgAt, pkgTaken, pkgInstalled>>
  BY DEF PkgScan
<1>2. PkgShape /\ PkgFine(s)
  BY DEF PkgInv
<1>3. pkgDisk[f] \in PkgRead /\ pkgHashes \in PkgBooks
  BY <1>2, PkgFacts DEF PkgShape
<1>4. /\ pkgHashes' \in PkgBooks /\ pkgHashes'[s][f] = pkgDisk[f]
      /\ \A g \in PkgFiles : g # f => pkgHashes'[s][g] = pkgHashes[s][g]
      /\ \A z \in PkgChoices : z # s => pkgHashes'[z] = pkgHashes[z]
  BY <1>1, <1>3 DEF PkgBooks
<1>5. PkgShape'
  BY <1>1, <1>2, <1>4 DEF PkgShape
<1>6. PkgFine(s)'
  <2>1. PkgFresh(s)'
    BY <1>1, <1>2 DEF PkgFine, PkgFresh
  <2>2. PkgInHand(s)'
    <3>1. pkgTaken[s]["part"] \in {PkgNone, pkgHashes[s]["part"]}
      BY <1>1, <1>2 DEF PkgFine, PkgInHand
    <3>2. f = "part" => pkgTaken[s]["part"] = PkgNone
      BY <1>1, <3>1
    <3>3. pkgTaken'[s]["part"] \in {PkgNone, pkgHashes'[s]["part"]}
      BY <1>1, <1>4, <3>1, <3>2, PkgFacts
    <3> QED BY <1>1, <3>3 DEF PkgInHand
  <2>3. PkgSkillKnown(s)'
    BY <1>1, <1>2, <1>4, PkgFacts DEF PkgFine, PkgSkillKnown
  <2>4. PkgConfirmed(s)'
    BY <1>1, <1>2 DEF PkgFine, PkgConfirmed
  <2> QED BY <2>1, <2>2, <2>3, <2>4 DEF PkgFine
<1> QED BY <1>1, <1>4, <1>5, <1>6, PkgOneStep DEF PkgUntouched

LEMMA PkgFailKeeps ==
    ASSUME PkgInv, NEW s \in PkgChoices, PkgFails(s), pkgAt[s] \notin {"writing", "done"},
           UNCHANGED <<pkgDisk, pkgSlip, pkgShown, pkgHashes, pkgTaken, pkgInstalled>>,
           pkgSelected' \in PkgBooks, pkgSelected'[s] \in {pkgSelected[s], PkgUnread},
           \A z \in PkgChoices : z # s => pkgSelected'[z] = pkgSelected[z]
    PROVE  PkgInv'
<1>2. PkgShape /\ PkgFine(s)
  BY DEF PkgInv
<1>3. /\ pkgAt' \in [PkgChoices -> PkgPlaces] /\ pkgAt'[s] = "failed"
      /\ \A z \in PkgChoices : z # s => pkgAt'[z] = pkgAt[z]
  BY <1>2, PkgPlaceSet DEF PkgPlaces, PkgFails
<1>4. PkgShape'
  BY <1>2, <1>3 DEF PkgShape
<1>5. PkgFine(s)'
  <2>1. PkgFresh(s)' /\ PkgInHand(s)' /\ PkgSkillKnown(s)'
    BY <1>2, <1>3 DEF PkgFine, PkgFresh, PkgInHand, PkgSkillKnown
  <2>2. PkgConfirmed(s)'
    BY <1>2 DEF PkgFine, PkgConfirmed
  <2> QED BY <2>1, <2>2 DEF PkgFine
<1> QED BY <1>3, <1>4, <1>5, PkgOneStep DEF PkgUntouched

LEMMA PkgPartKeeps == ASSUME PkgInv, NEW s \in PkgChoices, PkgPartRead(s) PROVE PkgInv'
<1>1. /\ pkgAt[s] \in {"choosing", "inspecting"}
      /\ UNCHANGED <<pkgDisk, pkgSlip, pkgSelected, pkgShown, pkgHashes, pkgInstalled>>
  BY DEF PkgPartRead
<1>2. PkgShape /\ PkgFine(s)
  BY DEF PkgInv
<1>3. CASE ~PkgUnchanged(s, "part")
  <2>1. PkgFails(s) /\ UNCHANGED pkgTaken
    BY <1>3 DEF PkgPartRead
  <2> QED BY <1>1, <1>2, <2>1, PkgFailKeeps DEF PkgShape
<1>4. CASE PkgUnchanged(s, "part")
  <2>1. pkgTaken' = [pkgTaken EXCEPT ![s]["part"] = pkgDisk["part"]] /\ pkgAt' = pkgAt
    BY <1>4 DEF PkgPartRead
  <2>2. pkgDisk["part"] \in PkgRead /\ pkgTaken \in PkgBooks
    BY <1>2, PkgFacts DEF PkgShape
  <2>3. /\ pkgTaken' \in PkgBooks /\ pkgTaken'[s]["part"] = pkgDisk["part"]
        /\ \A g \in PkgFiles : g # "part" => pkgTaken'[s][g] = pkgTaken[s][g]
        /\ \A z \in PkgChoices : z # s => pkgTaken'[z] = pkgTaken[z]
    BY <2>1, <2>2, PkgFacts DEF PkgBooks
  <2>4. PkgShape'
    BY <1>1, <1>2, <2>1, <2>3 DEF PkgShape
  <2>5. PkgFresh(s)' /\ PkgSkillKnown(s)' /\ PkgConfirmed(s)'
    BY <1>1, <1>2, <2>1 DEF PkgFine, PkgFresh, PkgSkillKnown, PkgConfirmed
  <2>6. PkgInHand(s)'
    <3>1. pkgTaken'[s]["part"] = pkgHashes'[s]["part"]
      BY <1>1, <1>4, <2>3 DEF PkgUnchanged
    <3> QED BY <1>1, <2>1, <3>1 DEF PkgInHand
  <2> QED BY <1>1, <2>1, <2>3, <2>4, <2>5, <2>6, PkgOneStep DEF PkgUntouched, PkgFine
<1> QED BY <1>3, <1>4

LEMMA PkgPreviewKeeps == ASSUME PkgInv, NEW s \in PkgChoices, PkgPreview(s) PROVE PkgInv'
<1> DEFINE shown == [pkgHashes[s] EXCEPT !["part"] = pkgTaken[s]["part"]]
<1>1. /\ pkgAt[s] = "choosing" /\ PkgInspected(s) /\ PkgGoes(s, "chosen")
      /\ UNCHANGED <<pkgDisk, pkgSlip, pkgInstalled>>
      /\ pkgSelected' = [pkgSelected EXCEPT ![s] = pkgHashes[s]]
      /\ pkgShown' = [pkgShown EXCEPT ![s] = shown]
      /\ pkgHashes' = [pkgHashes EXCEPT ![s] = PkgUnread] /\ pkgTaken' = [pkgTaken EXCEPT ![s] = PkgUnread]
  BY DEF PkgPreview
<1>2. PkgShape /\ PkgFine(s)
  BY DEF PkgInv
<1>3. pkgHashes[s] \in [PkgFiles -> PkgRead]
  BY <1>2 DEF PkgShape, PkgBooks
<1>4. shown = pkgHashes[s]
  <2>1. pkgTaken[s]["part"] = pkgHashes[s]["part"]
    BY <1>1, <1>2 DEF PkgFine, PkgInHand, PkgInspected
  <2> QED BY <1>3, <2>1
<1> HIDE DEF shown
<1>5. /\ pkgAt' \in [PkgChoices -> PkgPlaces] /\ pkgAt'[s] = "chosen"
      /\ \A z \in PkgChoices : z # s => pkgAt'[z] = pkgAt[z]
  BY <1>1, <1>2, PkgPlaceSet DEF PkgPlaces
<1>6. /\ pkgSelected' \in PkgBooks /\ pkgSelected'[s] = pkgHashes[s]
      /\ \A z \in PkgChoices : z # s => pkgSelected'[z] = pkgSelected[z]
  BY <1>1, <1>2, <1>3 DEF PkgShape, PkgBooks
<1>7. /\ pkgShown' \in PkgBooks /\ pkgShown'[s] = pkgHashes[s]
      /\ \A z \in PkgChoices : z # s => pkgShown'[z] = pkgShown[z]
  BY <1>1, <1>2, <1>3, <1>4 DEF PkgShape, PkgBooks
<1>8. /\ pkgHashes' \in PkgBooks /\ pkgHashes'[s] = PkgUnread
      /\ \A z \in PkgChoices : z # s => pkgHashes'[z] = pkgHashes[z]
  BY <1>1, <1>2, PkgFacts DEF PkgShape, PkgBooks
<1>9. /\ pkgTaken' \in PkgBooks /\ pkgTaken'[s] = PkgUnread
      /\ \A z \in PkgChoices : z # s => pkgTaken'[z] = pkgTaken[z]
  BY <1>1, <1>2, PkgFacts DEF PkgShape, PkgBooks
<1>10. PkgShape'
  BY <1>1, <1>2, <1>5, <1>6, <1>7, <1>8, <1>9 DEF PkgShape
<1>11. pkgInstalled'[s] = PkgUnread
  BY <1>1, <1>2 DEF PkgFine, PkgFresh
<1>12. PkgFine(s)'
  <2>1. PkgFresh(s)' /\ PkgInHand(s)' /\ PkgSkillKnown(s)'
    BY <1>5, <1>8, <1>9, <1>11 DEF PkgFresh, PkgInHand, PkgSkillKnown
  <2>2. PkgConfirmed(s)'
    BY <1>6, <1>7, <1>11, PkgFacts DEF PkgConfirmed
  <2> QED BY <2>1, <2>2 DEF PkgFine
<1> QED BY <1>1, <1>5, <1>6, <1>7, <1>8, <1>9, <1>10, <1>12, PkgOneStep DEF PkgUntouched

LEMMA PkgConfirmKeeps ==
    ASSUME PkgInv, NEW s \in PkgChoices, NEW inTime \in BOOLEAN, PkgConfirm(s, inTime) PROVE PkgInv'
<1>1. /\ pkgAt[s] = "chosen" /\ pkgSelected' = [pkgSelected EXCEPT ![s] = PkgUnread]
      /\ PkgGoes(s, IF inTime THEN "inspecting" ELSE "failed")
      /\ UNCHANGED <<pkgDisk, pkgSlip, pkgShown, pkgHashes, pkgTaken, pkgInstalled>>
  BY DEF PkgConfirm, PkgSelectedWithout
<1>2. PkgShape /\ PkgFine(s)
  BY DEF PkgInv
<1>3. /\ pkgSelected' \in PkgBooks /\ pkgSelected'[s] = PkgUnread
      /\ \A z \in PkgChoices : z # s => pkgSelected'[z] = pkgSelected[z]
  BY <1>1, <1>2, PkgFacts DEF PkgShape, PkgBooks
<1>4. CASE ~inTime
  BY <1>1, <1>3, <1>4, PkgFailKeeps DEF PkgFails
<1>5. CASE inTime
  <2>1. /\ pkgAt' \in [PkgChoices -> PkgPlaces] /\ pkgAt'[s] = "inspecting"
        /\ \A z \in PkgChoices : z # s => pkgAt'[z] = pkgAt[z]
    BY <1>1, <1>2, <1>5, PkgPlaceSet DEF PkgPlaces
  <2>2. PkgShape'
    BY <1>1, <1>2, <1>3, <2>1 DEF PkgShape
  <2>3. pkgHashes[s] = PkgUnread /\ pkgTaken[s] = PkgUnread /\ pkgInstalled[s] = PkgUnread
    BY <1>1, <1>2 DEF PkgFine, PkgFresh
  <2>4. PkgFine(s)'
    <3>1. PkgFresh(s)' /\ PkgInHand(s)' /\ PkgSkillKnown(s)'
      BY <1>1, <2>1, <2>3, PkgFacts DEF PkgFresh, PkgInHand, PkgSkillKnown
    <3>2. PkgConfirmed(s)'
      BY <1>1, <1>3, <2>3, PkgFacts DEF PkgConfirmed
    <3> QED BY <3>1, <3>2 DEF PkgFine
  <2> QED BY <1>1, <1>3, <2>1, <2>2, <2>4, PkgOneStep DEF PkgUntouched
<1> QED BY <1>4, <1>5

LEMMA PkgChecksKeeps == ASSUME PkgInv, NEW s \in PkgChoices, PkgChecks(s) PROVE PkgInv'
<1>1. /\ pkgAt[s] = "inspecting" /\ PkgInspected(s)
      /\ UNCHANGED <<pkgDisk, pkgSlip, pkgSelected, pkgShown, pkgHashes, pkgTaken, pkgInstalled>>
      /\ (PkgSame(s) /\ PkgGoes(s, "template")) \/ PkgFails(s)
  BY DEF PkgChecks
<1>2. PkgShape /\ PkgFine(s)
  BY DEF PkgInv
<1>3. CASE PkgFails(s)
  BY <1>1, <1>2, <1>3, PkgFailKeeps DEF PkgShape
<1>4. CASE PkgSame(s) /\ PkgGoes(s, "template")
  <2>1. /\ pkgAt' \in [PkgChoices -> PkgPlaces] /\ pkgAt'[s] = "template"
        /\ \A z \in PkgChoices : z # s => pkgAt'[z] = pkgAt[z]
    BY <1>2, <1>4, PkgPlaceSet DEF PkgPlaces
  <2>2. PkgShape'
    BY <1>1, <1>2, <2>1 DEF PkgShape
  <2>3. pkgHashes[s] = pkgShown[s] /\ pkgTaken[s]["part"] = pkgHashes[s]["part"] /\ pkgHashes[s]["skill"] # PkgNone
    BY <1>1, <1>2, <1>4, PkgFacts DEF PkgFine, PkgInHand, PkgInspected, PkgSame, PkgScanned
  <2>4. PkgFresh(s)' /\ PkgInHand(s)'
    BY <1>1, <1>2, <2>1, <2>3 DEF PkgFine, PkgFresh, PkgInHand
  <2>5. PkgSkillKnown(s)' /\ PkgConfirmed(s)'
    BY <1>1, <1>2, <2>1 DEF PkgFine, PkgSkillKnown, PkgConfirmed
  <2> QED BY <1>1, <2>1, <2>2, <2>4, <2>5, PkgOneStep DEF PkgUntouched, PkgFine
<1> QED BY <1>1, <1>3, <1>4

LEMMA PkgTemplateKeeps == ASSUME PkgInv, NEW s \in PkgChoices, PkgTemplateRead(s) PROVE PkgInv'
<1>1. /\ pkgAt[s] = "template"
      /\ UNCHANGED <<pkgDisk, pkgSlip, pkgSelected, pkgShown, pkgHashes, pkgInstalled>>
  BY DEF PkgTemplateRead
<1>2. PkgShape /\ PkgFine(s)
  BY DEF PkgInv
<1>3. CASE ~PkgUnchanged(s, "template")
  <2>1. PkgFails(s) /\ UNCHANGED pkgTaken
    BY <1>3 DEF PkgTemplateRead
  <2> QED BY <1>1, <1>2, <2>1, PkgFailKeeps DEF PkgShape
<1>4. CASE PkgUnchanged(s, "template")
  <2>1. pkgTaken' = [pkgTaken EXCEPT ![s]["template"] = pkgDisk["template"]] /\ PkgGoes(s, "skill")
    BY <1>4 DEF PkgTemplateRead
  <2>2. pkgDisk["template"] \in PkgRead /\ pkgTaken \in PkgBooks
    BY <1>2, PkgFacts DEF PkgShape
  <2>3. /\ pkgTaken' \in PkgBooks /\ pkgTaken'[s]["template"] = pkgDisk["template"]
        /\ \A g \in PkgFiles : g # "template" => pkgTaken'[s][g] = pkgTaken[s][g]
        /\ \A z \in PkgChoices : z # s => pkgTaken'[z] = pkgTaken[z]
    BY <2>1, <2>2, PkgFacts DEF PkgBooks
  <2>4. /\ pkgAt' \in [PkgChoices -> PkgPlaces] /\ pkgAt'[s] = "skill"
        /\ \A z \in PkgChoices : z # s => pkgAt'[z] = pkgAt[z]
    BY <1>2, <2>1, PkgPlaceSet DEF PkgPlaces
  <2>5. PkgShape'
    BY <1>1, <1>2, <2>3, <2>4 DEF PkgShape
  <2>6. PkgFresh(s)' /\ PkgSkillKnown(s)' /\ PkgConfirmed(s)'
    BY <1>1, <1>2, <2>4 DEF PkgFine, PkgFresh, PkgSkillKnown, PkgConfirmed
  <2>7. PkgInHand(s)'
    <3>1. /\ pkgHashes[s] = pkgShown[s] /\ pkgTaken[s]["part"] = pkgShown[s]["part"]
          /\ pkgHashes[s]["skill"] # PkgNone
      BY <1>1, <1>2 DEF PkgFine, PkgInHand
    <3>2. pkgTaken'[s]["part"] = pkgShown[s]["part"]
      BY <2>3, <3>1, PkgFacts
    <3>3. pkgTaken'[s]["template"] = pkgShown[s]["template"]
      BY <1>4, <2>3, <3>1 DEF PkgUnchanged
    <3> QED BY <1>1, <2>4, <3>1, <3>2, <3>3 DEF PkgInHand
  <2> QED BY <1>1, <2>3, <2>4, <2>5, <2>6, <2>7, PkgOneStep DEF PkgUntouched, PkgFine
<1> QED BY <1>3, <1>4

LEMMA PkgImportKeeps ==
    ASSUME PkgInv, NEW s \in PkgChoices, NEW ok \in BOOLEAN, PkgSkillImported(s, ok) PROVE PkgInv'
<1>1. /\ pkgAt[s] = "skill"
      /\ UNCHANGED <<pkgDisk, pkgSlip, pkgSelected, pkgShown, pkgHashes, pkgTaken>>
  BY DEF PkgSkillImported
<1>2. PkgShape /\ PkgFine(s)
  BY DEF PkgInv
<1>3. CASE ~ok
  <2>1. PkgFails(s) /\ UNCHANGED pkgInstalled
    BY <1>3 DEF PkgSkillImported
  <2> QED BY <1>1, <1>2, <2>1, PkgFailKeeps DEF PkgShape
<1>4. CASE ok
  <2>1. pkgInstalled' = [pkgInstalled EXCEPT ![s]["skill"] = pkgDisk["skill"], ![s]["part"] = pkgTaken[s]["part"]]
    BY <1>4 DEF PkgSkillImported
  <2>2. PkgGoes(s, "writing")
    BY <1>4 DEF PkgSkillImported
  <2>3. pkgDisk["skill"] \in PkgRead /\ pkgTaken[s]["part"] \in PkgRead /\ pkgInstalled \in PkgBooks
    BY <1>2, PkgFacts DEF PkgShape, PkgBooks
  <2>4. /\ pkgInstalled' \in PkgBooks /\ pkgInstalled'[s]["skill"] = pkgDisk["skill"]
        /\ pkgInstalled'[s]["part"] = pkgTaken[s]["part"]
        /\ pkgInstalled'[s]["template"] = pkgInstalled[s]["template"]
        /\ \A z \in PkgChoices : z # s => pkgInstalled'[z] = pkgInstalled[z]
    BY <2>1, <2>3, PkgFacts DEF PkgBooks
  <2>5. /\ pkgAt' \in [PkgChoices -> PkgPlaces] /\ pkgAt'[s] = "writing"
        /\ \A z \in PkgChoices : z # s => pkgAt'[z] = pkgAt[z]
    BY <1>2, <2>2, PkgPlaceSet DEF PkgPlaces
  <2>6. PkgShape'
    BY <1>1, <1>2, <2>4, <2>5 DEF PkgShape
  <2>7. PkgFresh(s)' /\ PkgSkillKnown(s)' /\ PkgInHand(s)'
    BY <1>1, <1>2, <2>5 DEF PkgFine, PkgFresh, PkgSkillKnown, PkgInHand
  <2>8. PkgConfirmed(s)'
    <3>1. pkgInstalled'[s]["template"] = PkgNone
      BY <1>1, <1>2, <2>4, PkgFacts DEF PkgFine, PkgFresh
    <3>2. pkgInstalled'[s]["part"] = pkgShown[s]["part"]
      BY <1>1, <1>2, <2>4 DEF PkgFine, PkgInHand
    <3>3. pkgInstalled'[s]["skill"] = pkgShown[s]["skill"] \/ s \in pkgSlip
      BY <1>1, <1>2, <2>4 DEF PkgFine, PkgInHand, PkgSkillKnown
    <3>4. \A f \in PkgFiles : pkgInstalled'[s][f] \notin {PkgNone, pkgShown[s][f]} => f = "skill" /\ s \in pkgSlip
      BY <3>1, <3>2, <3>3 DEF PkgFiles
    <3> QED BY <1>1, <1>2, <3>4 DEF PkgFine, PkgConfirmed
  <2> QED BY <1>1, <2>4, <2>5, <2>6, <2>7, <2>8, PkgOneStep DEF PkgUntouched, PkgFine
<1> QED BY <1>3, <1>4

LEMMA PkgListKeeps == ASSUME PkgInv, NEW s \in PkgChoices, PkgListedNow(s) PROVE PkgInv'
<1>1. /\ pkgAt[s] = "writing" /\ PkgGoes(s, "done")
      /\ pkgInstalled' = [pkgInstalled EXCEPT ![s]["template"] = pkgTaken[s]["template"]]
      /\ UNCHANGED <<pkgDisk, pkgSlip, pkgSelected, pkgShown, pkgHashes, pkgTaken>>
  BY DEF PkgListedNow
<1>2. PkgShape /\ PkgFine(s)
  BY DEF PkgInv
<1>3. pkgTaken[s]["template"] \in PkgRead /\ pkgInstalled \in PkgBooks
  BY <1>2, PkgFacts DEF PkgShape, PkgBooks
<1>4. /\ pkgInstalled' \in PkgBooks /\ pkgInstalled'[s]["template"] = pkgTaken[s]["template"]
      /\ \A g \in PkgFiles : g # "template" => pkgInstalled'[s][g] = pkgInstalled[s][g]
      /\ \A z \in PkgChoices : z # s => pkgInstalled'[z] = pkgInstalled[z]
  BY <1>1, <1>3, PkgFacts DEF PkgBooks
<1>5. /\ pkgAt' \in [PkgChoices -> PkgPlaces] /\ pkgAt'[s] = "done"
      /\ \A z \in PkgChoices : z # s => pkgAt'[z] = pkgAt[z]
  BY <1>1, <1>2, PkgPlaceSet DEF PkgPlaces
<1>6. PkgShape'
  BY <1>1, <1>2, <1>4, <1>5 DEF PkgShape
<1>7. PkgFresh(s)' /\ PkgSkillKnown(s)' /\ PkgInHand(s)'
  BY <1>1, <1>2, <1>5 DEF PkgFine, PkgFresh, PkgSkillKnown, PkgInHand
<1>8. PkgConfirmed(s)'
  <2>1. pkgInstalled'[s]["template"] = pkgShown[s]["template"]
    BY <1>1, <1>2, <1>4 DEF PkgFine, PkgInHand
  <2>2. \A f \in PkgFiles : pkgInstalled'[s][f] \notin {PkgNone, pkgShown[s][f]} => f = "skill" /\ s \in pkgSlip
    BY <1>2, <1>4, <2>1 DEF PkgFine, PkgConfirmed
  <2> QED BY <1>1, <1>2, <2>2 DEF PkgFine, PkgConfirmed
<1> QED BY <1>1, <1>4, <1>5, <1>6, <1>7, <1>8, PkgOneStep DEF PkgUntouched, PkgFine

\* The directory is edited: a skill that was hashed no longer is what was hashed, and that
\* is noted.
LEMMA PkgEditKeeps ==
    ASSUME PkgInv, NEW f \in PkgFiles, NEW c \in PkgContents, PkgChanges(f, c) PROVE PkgInv'
<1>1. /\ pkgDisk' = [pkgDisk EXCEPT ![f] = c]
      /\ pkgSlip' = IF f = "skill" THEN pkgSlip \cup {s \in PkgChoices : pkgAt[s] \in {"inspecting", "template", "skill"}
                                                                     /\ pkgHashes[s]["skill"] # PkgNone} ELSE pkgSlip
      /\ UNCHANGED <<pkgSelected, pkgShown, pkgAt, pkgHashes, pkgTaken, pkgInstalled>>
  BY DEF PkgChanges
<1>2. PkgShape /\ \A s \in PkgChoices : PkgFine(s)
  BY DEF PkgInv
<1>3. pkgSlip \subseteq pkgSlip' /\ pkgSlip' \subseteq PkgChoices
  BY <1>1, <1>2 DEF PkgShape
<1>4. PkgShape'
  BY <1>1, <1>2, <1>3 DEF PkgShape
<1>5. ASSUME NEW s \in PkgChoices PROVE PkgFine(s)'
  <2>1. PkgFresh(s)' /\ PkgInHand(s)'
    BY <1>1, <1>2 DEF PkgFine, PkgFresh, PkgInHand
  <2>2. PkgConfirmed(s)'
    BY <1>1, <1>2, <1>3 DEF PkgFine, PkgConfirmed
  <2>3. CASE f = "skill"
    <3>1. PkgSkillKnown(s)'
      BY <1>1, <2>3 DEF PkgSkillKnown
    <3> QED BY <2>1, <2>2, <3>1 DEF PkgFine
  <2>4. CASE f # "skill"
    <3>1. pkgDisk'["skill"] = pkgDisk["skill"] /\ pkgSlip' = pkgSlip
      BY <1>1, <1>2, <2>4, PkgFacts DEF PkgShape
    <3>2. PkgSkillKnown(s)'
      BY <1>1, <1>2, <3>1 DEF PkgFine, PkgSkillKnown
    <3> QED BY <2>1, <2>2, <3>2 DEF PkgFine
  <2> QED BY <2>3, <2>4
<1> QED BY <1>4, <1>5 DEF PkgInv

LEMMA PkgRestKeeps ==
    ASSUME PkgInv, UNCHANGED <<pkgDisk, pkgSlip, pkgSelected, pkgShown, pkgAt, pkgHashes, pkgTaken, pkgInstalled>>
    PROVE  PkgInv'
<1>1. PkgShape'
  BY DEF PkgInv, PkgShape
<1>2. \A z \in PkgChoices : PkgFine(z)'
  BY PkgOthers DEF PkgInv, PkgUntouched
<1> QED BY <1>1, <1>2 DEF PkgInv

LEMMA PkgStepKeeps == PkgInv /\ [PkgNext]_pkgVars => PkgInv'
<1> SUFFICES ASSUME PkgInv, [PkgNext]_pkgVars PROVE PkgInv'
  OBVIOUS
<1>1. CASE UNCHANGED pkgVars
  <2>1. UNCHANGED <<pkgDisk, pkgSlip, pkgSelected, pkgShown, pkgAt, pkgHashes, pkgTaken, pkgInstalled>>
    BY <1>1 DEF pkgVars
  <2> QED BY <2>1, PkgRestKeeps
<1>2. CASE PkgUserRules
  <2>1. UNCHANGED <<pkgDisk, pkgSlip, pkgSelected, pkgShown, pkgAt, pkgHashes, pkgTaken, pkgInstalled>>
    BY <1>2 DEF PkgUserRules
  <2> QED BY <2>1, PkgRestKeeps
<1>3. ASSUME NEW f \in PkgFiles, NEW c \in PkgContents, PkgChanges(f, c) PROVE PkgInv'
  BY <1>3, PkgEditKeeps
<1>4. ASSUME NEW s \in PkgChoices,
             \/ PkgChoose(s) \/ PkgPartRead(s) \/ PkgPreview(s) \/ PkgChecks(s) \/ PkgTemplateRead(s)
             \/ PkgListedNow(s)
      PROVE  PkgInv'
  BY <1>4, PkgChooseKeeps, PkgPartKeeps, PkgPreviewKeeps, PkgChecksKeeps, PkgTemplateKeeps, PkgListKeeps
<1>5. ASSUME NEW s \in PkgChoices, NEW f \in PkgFiles, PkgScan(s, f) PROVE PkgInv'
  BY <1>5, PkgScanKeeps
<1>6. ASSUME NEW s \in PkgChoices, NEW ok \in BOOLEAN, PkgConfirm(s, ok) \/ PkgSkillImported(s, ok) PROVE PkgInv'
  BY <1>6, PkgConfirmKeeps, PkgImportKeeps
<1> QED BY <1>1, <1>2, <1>3, <1>4, <1>5, <1>6 DEF PkgNext

LEMMA PkgStartsFine == PkgInit => PkgInv
<1> SUFFICES ASSUME PkgInit PROVE PkgInv
  OBVIOUS
<1>1. /\ pkgAt = [s \in PkgChoices |-> "idle"] /\ pkgSlip = {}
      /\ pkgSelected = [s \in PkgChoices |-> PkgUnread] /\ pkgShown = [s \in PkgChoices |-> PkgUnread]
      /\ pkgHashes = [s \in PkgChoices |-> PkgUnread] /\ pkgTaken = [s \in PkgChoices |-> PkgUnread]
      /\ pkgInstalled = [s \in PkgChoices |-> PkgUnread]
  BY DEF PkgInit
<1>2. pkgDisk \in [PkgFiles -> PkgContents]
  BY DEF PkgInit
<1>3. PkgShape
  BY <1>1, <1>2, PkgFacts DEF PkgShape, PkgBooks, PkgPlaces
<1>4. ASSUME NEW s \in PkgChoices PROVE PkgFine(s)
  <2>1. /\ pkgAt[s] = "idle" /\ pkgHashes[s] = PkgUnread /\ pkgTaken[s] = PkgUnread
        /\ pkgInstalled[s] = PkgUnread /\ pkgSelected[s] = PkgUnread
    BY <1>1
  <2>2. PkgFresh(s) /\ PkgInHand(s) /\ PkgSkillKnown(s)
    BY <2>1 DEF PkgFresh, PkgInHand, PkgSkillKnown
  <2>3. PkgConfirmed(s)
    BY <2>1, PkgFacts DEF PkgConfirmed
  <2> QED BY <2>2, <2>3 DEF PkgFine
<1> QED BY <1>3, <1>4 DEF PkgInv

\* What is installed of a package is what was shown to the user who confirmed it, though its
\* files change between the look, the confirmation and the copies; only the skill, which is
\* copied once more, may carry a later edit (CapabilityPackageService).
THEOREM PackagesAsShown == PkgSpec => []PkgInstalledAsShown
<1>1. PkgInv => PkgInstalledAsShown
  BY DEF PkgInv, PkgFine, PkgConfirmed, PkgInstalledAsShown, PkgAsConfirmed, PkgPreviewHonest
<1> QED BY <1>1, PkgStartsFine, PkgStepKeeps, PTL DEF PkgSpec

-----------------------------------------------------------------------------
(* SkillImport: imports that overlap *)

\* What is remembered of the beginning of an import.
SkBefores ==
    [dir : SkContents \cup {"none"}, row : [version : SkContents \cup {"none"}, enabled : BOOLEAN], alone : BOOLEAN]

\* An import has a backup only after it moved the directory aside.
SkNoBackupYet(i) == skOp[i] \in {"new", "copying", "copied"} => skBackup[i] = "none"

\* An import that has been alone finds the directory and the row as it left them.
SkUndisturbed(i) ==
    /\ SkActive = {i}
    /\ skOp[i] # "clearing" => skRow = skBefore[i].row
    /\ skOp[i] \in {"copying", "copied", "undoing"} => skDir = skBefore[i].dir /\ skBackup[i] = "none"
    /\ skOp[i] = "placing" => skDir = "none"
    /\ skOp[i] \in {"placing", "placed", "restoring"} => skBackup[i] = skBefore[i].dir
SkAloneFine(i) == i \in SkActive /\ skBefore[i].alone => SkUndisturbed(i)

\* The copies of the skill: the one in its place and the hidden backups; and the imports
\* that may yet take one away.
SkBacked == {i \in SkImports : skBackup[i] # "none"}
SkTakers == {i \in SkImports : skOp[i] \in {"placed", "clearing", "restoring"}}
SkInPlace == IF skDir = "none" THEN 0 ELSE 1
SkCopiesLeft == SkInPlace + Cardinality(SkBacked) >= 1 + Cardinality(SkTakers)

\* Or the skill has not been installed at all.
SkNowhere ==
    /\ skDir # "installed" /\ \A i \in SkImports : skBackup[i] # "installed" /\ skBefore[i].dir # "installed"

\* The inductive invariant: as many copies as there are imports that may take one away, and one more.
SkInv ==
    /\ SkTypeOK /\ \A i \in SkImports : SkNoBackupYet(i) /\ SkAloneFine(i)
    /\ skRemoving = "no" => SkNowhere \/ SkCopiesLeft

LEMMA OneMore ==
    ASSUME NEW S, IsFiniteSet(S), NEW x
    PROVE  /\ IsFiniteSet(S \cup {x}) /\ IsFiniteSet(S \ {x})
           /\ Cardinality(S) \in Nat /\ Cardinality(S \cup {x}) \in Nat /\ Cardinality(S \ {x}) \in Nat
           /\ x \notin S => Cardinality(S \cup {x}) = Cardinality(S) + 1
           /\ x \in S => Cardinality(S \ {x}) = Cardinality(S) - 1
           /\ x \notin S => S \ {x} = S
           /\ x \in S => S \cup {x} = S
<1>1. IsFiniteSet(S \cup {x}) /\ IsFiniteSet(S \ {x})  BY FS_AddElement, FS_RemoveElement
<1>2. Cardinality(S) \in Nat /\ Cardinality(S \cup {x}) \in Nat /\ Cardinality(S \ {x}) \in Nat  BY <1>1, FS_CardinalityType
<1>3. x \notin S => Cardinality(S \cup {x}) = Cardinality(S) + 1  BY FS_AddElement
<1>4. x \in S => Cardinality(S \ {x}) = Cardinality(S) - 1  BY FS_RemoveElement
<1>5. (x \notin S => S \ {x} = S) /\ (x \in S => S \cup {x} = S)  OBVIOUS
<1> QED  BY <1>1, <1>2, <1>3, <1>4, <1>5

LEMMA CountsAreFinite == IsFiniteSet(SkBacked) /\ IsFiniteSet(SkTakers) /\ SkInPlace \in {0, 1}
<1>1. IsFiniteSet(SkImports)  BY SkAssumption
<1>2. SkBacked \subseteq SkImports /\ SkTakers \subseteq SkImports  BY DEF SkBacked, SkTakers
<1> QED  BY <1>1, <1>2, FS_Subset DEF SkInPlace

LEMMA SkInitInv == SkInit => SkInv
<1> SUFFICES ASSUME SkInit PROVE SkInv  OBVIOUS
<1>1. SkTypeOK
  <2>1. skRow \in [version : SkContents, enabled : BOOLEAN] \cup {SkNone}  BY DEF SkInit, SkContents
  <2>2. [dir |-> "none", row |-> SkNone, alone |-> TRUE] \in SkBefores  BY DEF SkBefores, SkNone
  <2>3. skBefore \in [SkImports -> SkBefores]  BY <2>2 DEF SkInit
  <2> QED  BY <2>1, <2>3, SkAssumption DEF SkInit, SkTypeOK, SkContents, SkPhases, SkBefores
<1>2. ASSUME NEW i \in SkImports PROVE SkNoBackupYet(i) /\ SkAloneFine(i)
  BY DEF SkInit, SkNoBackupYet, SkAloneFine, SkActive
<1>3. SkNowhere \/ SkCopiesLeft
  <2>1. CASE skDir = "none"  BY <2>1 DEF SkInit, SkNowhere
  <2>2. CASE skDir = "installed"
    <3>1. SkBacked = {} /\ SkTakers = {} /\ SkInPlace = 1  BY <2>2 DEF SkInit, SkBacked, SkTakers, SkInPlace
    <3> QED  BY <3>1, FS_EmptySet DEF SkCopiesLeft
  <2> QED  BY <2>1, <2>2 DEF SkInit
<1> QED  BY <1>1, <1>2, <1>3 DEF SkInv

LEMMA CompanyTyped ==
    ASSUME SkTypeOK
    PROVE  /\ SkCompany \in [SkImports -> SkBefores] /\ \A i \in SkActive : ~SkCompany[i].alone
           /\ \A i \in SkImports : i \notin SkActive => SkCompany[i] = skBefore[i]
<1>1. ASSUME NEW i \in SkImports PROVE [skBefore[i] EXCEPT !.alone = FALSE] \in SkBefores /\ ~[skBefore[i] EXCEPT !.alone = FALSE].alone
  <2>1. skBefore[i] \in SkBefores  BY DEF SkTypeOK, SkBefores
  <2>2. PICK n : n = [skBefore[i] EXCEPT !.alone = FALSE]  OBVIOUS
  <2>3. n \in SkBefores /\ ~n.alone  BY <2>1, <2>2 DEF SkBefores
  <2> QED  BY <2>2, <2>3
<1>2. ASSUME NEW i \in SkImports PROVE skBefore[i] \in SkBefores  BY DEF SkTypeOK, SkBefores
<1>3. SkActive \subseteq SkImports  BY DEF SkActive
<1> QED  BY <1>1, <1>2, <1>3 DEF SkCompany

LEMMA StepKeepsType == SkTypeOK /\ [SkNext]_skVars => SkTypeOK'
<1> SUFFICES ASSUME SkTypeOK, [SkNext]_skVars PROVE SkTypeOK'  OBVIOUS
<1> USE SkAssumption DEF SkGoes, SkRest, SkPhases
<1>0. SkCompany \in [SkImports -> SkBefores]  BY CompanyTyped
<1>a. skRow \in [version : SkContents, enabled : BOOLEAN] \cup {SkNone}  BY DEF SkTypeOK
<1>b. SkEnabled \in BOOLEAN  BY <1>a DEF SkEnabled
<1>c. \A v \in SkContents : [version |-> v, enabled |-> SkEnabled] \in [version : SkContents, enabled : BOOLEAN]  BY <1>b
<1>1. ASSUME NEW i \in SkImports, SkBegin(i) PROVE SkTypeOK'
  <2>1. [dir |-> skDir, row |-> skRow, alone |-> SkActive = {} /\ skRemoving \in {"no", "done"}] \in SkBefores
    <3>1. skRow \in [version : SkContents \cup {"none"}, enabled : BOOLEAN]
      <4>1. CASE skRow = SkNone  BY <4>1 DEF SkNone
      <4>2. CASE skRow \in [version : SkContents, enabled : BOOLEAN]  BY <4>2
      <4> QED  BY <1>a, <4>1, <4>2
    <3> QED  BY <3>1 DEF SkTypeOK, SkBefores
  <2>2. skBefore' \in [SkImports -> SkBefores]  BY <1>1, <1>0, <2>1 DEF SkBegin
  <2> QED  BY <1>1, <2>2 DEF SkTypeOK, SkBegin, SkBefores
<1>2. ASSUME NEW i \in SkImports, NEW ok \in BOOLEAN, SkCopies(i, ok) PROVE SkTypeOK'  BY <1>2 DEF SkCopies, SkTypeOK
<1>3. ASSUME NEW i \in SkImports, SkMovesAside(i) PROVE SkTypeOK'  BY <1>3 DEF SkMovesAside, SkTypeOK
<1>4. ASSUME NEW i \in SkImports, SkPlaces(i) PROVE SkTypeOK'
  <2>0. i \in SkContents  BY DEF SkContents
  <2>1. CASE skDir = "none"  BY <1>4, <2>0, <2>1 DEF SkPlaces, SkTypeOK
  <2>2. CASE skDir # "none"  BY <1>4, <2>2 DEF SkPlaces, SkTypeOK
  <2> QED  BY <2>1, <2>2
<1>5. ASSUME NEW i \in SkImports, NEW ok \in BOOLEAN, SkRecords(i, ok) PROVE SkTypeOK'
  <2>0. i \in SkContents  BY DEF SkContents
  <2>1. skRow' \in [version : SkContents, enabled : BOOLEAN] \cup {SkNone}  BY <1>5, <1>a, <1>c, <2>0 DEF SkRecords, SkUpsert
  <2>2. skOp' \in [SkImports -> SkPhases] /\ \A j \in SkImports : skOp'[j] = "failed" => skOp[j] = "failed"
    BY <1>5 DEF SkRecords, SkTypeOK
  <2> QED  BY <1>5, <2>1, <2>2 DEF SkTypeOK, SkRecords
<1>6. ASSUME NEW i \in SkImports, SkClears(i) PROVE SkTypeOK'  BY <1>6 DEF SkClears, SkTypeOK
<1>7. ASSUME NEW i \in SkImports, SkUndoes(i) PROVE SkTypeOK'
  <2>1. skDir' \in SkContents \cup {"none"}  BY <1>7 DEF SkUndoes, SkBackupMoved, SkTypeOK
  <2>2. skBackup' \in [SkImports -> SkContents \cup {"none"}]  BY <1>7 DEF SkUndoes, SkTypeOK
  <2>3. skOp' = [skOp EXCEPT ![i] = "failed"] /\ skCopy' = [skCopy EXCEPT ![i] = "none"]
        /\ UNCHANGED <<skRow, skBefore, skScan, skRemoving, skCount>>
    BY <1>7 DEF SkUndoes, SkCopiesWithout
  <2> QED  BY <2>1, <2>2, <2>3 DEF SkTypeOK
<1>8. CASE SkScanParses  BY <1>8 DEF SkScanParses, SkTypeOK
<1>9. CASE SkScanRecords
  <2>1. skRow' \in [version : SkContents, enabled : BOOLEAN] \cup {SkNone}
    <3>1. skScan \in SkContents  BY <1>9 DEF SkScanRecords, SkTypeOK
    <3> QED  BY <1>9, <1>a, <1>c, <3>1 DEF SkScanRecords, SkUpsert
  <2> QED  BY <1>9, <1>0, <2>1 DEF SkScanRecords, SkTypeOK, SkBefores
<1>10. CASE SkRemoveBegins  BY <1>10, <1>0 DEF SkRemoveBegins, SkTypeOK, SkBefores
<1>11. CASE SkRemoveDeletes  BY <1>11, <1>0 DEF SkRemoveDeletes, SkTypeOK, SkBefores
<1>12. CASE SkRemoveUnlists  BY <1>12, <1>0 DEF SkRemoveUnlists, SkTypeOK, SkBefores
<1>13. ASSUME NEW on \in BOOLEAN, SkSetEnabled(on) PROVE SkTypeOK'
  <2>1. PICK n : n = [skRow EXCEPT !.enabled = on]  OBVIOUS
  <2>2. n \in [version : SkContents, enabled : BOOLEAN]  BY <1>13, <1>a, <2>1 DEF SkSetEnabled
  <2>3. skCount' \in 0..SkMaxSwitches  BY <1>13 DEF SkSetEnabled, SkTypeOK
  <2> QED  BY <1>13, <1>0, <2>1, <2>2, <2>3 DEF SkSetEnabled, SkTypeOK, SkBefores
<1>14. CASE UNCHANGED skVars  BY <1>14 DEF skVars, SkTypeOK
<1> QED  BY <1>1, <1>2, <1>3, <1>4, <1>5, <1>6, <1>7, <1>8, <1>9, <1>10, <1>11, <1>12, <1>13, <1>14 DEF SkNext

\* An action that is not an import's own leaves the imports where they are, and either
\* changes neither directory nor row or gives every import at work company.
SkNotAnImport ==
    /\ UNCHANGED <<skOp, skBackup>>
    /\ (UNCHANGED <<skDir, skRow, skBefore>> \/ skBefore' = SkCompany)

LEMMA OthersAreCompany ==
    ASSUME SkScanParses \/ SkScanRecords \/ SkRemoveBegins \/ SkRemoveDeletes \/ SkRemoveUnlists
           \/ (\E on \in BOOLEAN : SkSetEnabled(on)) \/ UNCHANGED skVars
    PROVE  SkNotAnImport
BY DEF SkScanParses, SkScanRecords, SkRemoveBegins, SkRemoveDeletes, SkRemoveUnlists, SkSetEnabled, skVars, SkNotAnImport

LEMMA OthersKeepImports ==
    ASSUME SkInv, SkNotAnImport, NEW k \in SkImports
    PROVE  SkNoBackupYet(k)' /\ SkAloneFine(k)'
<1>1. SkNoBackupYet(k)'  BY DEF SkInv, SkNotAnImport, SkNoBackupYet
<1>2. CASE UNCHANGED <<skDir, skRow, skBefore>>
  <2>1. SkAloneFine(k)'  BY <1>2 DEF SkInv, SkNotAnImport, SkAloneFine, SkUndisturbed, SkActive
  <2> QED  BY <1>1, <2>1
<1>3. CASE skBefore' = SkCompany
  <2>1. SkActive' = SkActive  BY DEF SkNotAnImport, SkActive
  <2>2. k \in SkActive => ~skBefore'[k].alone
    BY <1>3, CompanyTyped DEF SkInv
  <2>3. SkAloneFine(k)'  BY <2>1, <2>2 DEF SkAloneFine
  <2> QED  BY <1>1, <2>3
<1> QED  BY <1>2, <1>3 DEF SkNotAnImport

\* An import at work is the only one that moves; the others keep what they had.
LEMMA ImportsKeepImports ==
    ASSUME SkInv, NEW i \in SkImports, NEW k \in SkImports,
           SkBegin(i) \/ SkMovesAside(i) \/ SkPlaces(i) \/ SkClears(i) \/ SkUndoes(i)
           \/ \E ok \in BOOLEAN : SkCopies(i, ok) \/ SkRecords(i, ok)
    PROVE  SkNoBackupYet(k)' /\ SkAloneFine(k)'
<1>1. SkTypeOK /\ SkNoBackupYet(k) /\ SkNoBackupYet(i) /\ SkAloneFine(k) /\ SkAloneFine(i)  BY DEF SkInv
<1>2. skOp \in [SkImports -> SkPhases] /\ DOMAIN skBackup = SkImports /\ DOMAIN skBefore = SkImports  BY <1>1 DEF SkTypeOK
<1> USE DEF SkGoes, SkRest
<1>3. ASSUME SkBegin(i) PROVE SkNoBackupYet(k)' /\ SkAloneFine(k)'
  <2>1. skOp[i] = "new" /\ skOp' = [skOp EXCEPT ![i] = "copying"] /\ UNCHANGED <<skDir, skRow, skBackup>>  BY <1>3 DEF SkBegin
  <2>2. SkNoBackupYet(k)'  BY <1>1, <1>2, <2>1 DEF SkNoBackupYet
  <2>3. SkActive' = SkActive \cup {i} /\ i \notin SkActive  BY <1>2, <2>1 DEF SkActive
  <2>4. PICK n : n = [dir |-> skDir, row |-> skRow, alone |-> SkActive = {} /\ skRemoving \in {"no", "done"}]  OBVIOUS
  <2>5. skBefore' = [SkCompany EXCEPT ![i] = n] /\ SkCompany \in [SkImports -> SkBefores]
    BY <1>3, <1>1, <2>4, CompanyTyped DEF SkBegin
  <2>6. CASE k = i
    <3>1. skBefore'[k] = n /\ n.dir = skDir /\ n.row = skRow /\ (n.alone => SkActive = {})  BY <2>4, <2>5, <2>6
    <3>2. skOp'[k] = "copying" /\ skBackup'[k] = "none"  BY <1>1, <1>2, <2>1, <2>6 DEF SkNoBackupYet
    <3>3. SkAloneFine(k)'  BY <2>1, <2>3, <2>6, <3>1, <3>2 DEF SkAloneFine, SkUndisturbed
    <3> QED  BY <2>2, <3>3
  <2>7. CASE k # i
    <3>1. skBefore'[k] = SkCompany[k]  BY <2>5, <2>7
    <3>2. k \in SkActive' => k \in SkActive  BY <2>3, <2>7
    <3>3. SkAloneFine(k)'  BY <1>1, <3>1, <3>2, CompanyTyped DEF SkAloneFine
    <3> QED  BY <2>2, <3>3
  <2> QED  BY <2>6, <2>7
<1>4. ASSUME ~SkBegin(i) PROVE SkNoBackupYet(k)' /\ SkAloneFine(k)'
  <2>1. i \in SkActive /\ skBefore' = skBefore
    BY <1>4 DEF SkActive, SkMovesAside, SkPlaces, SkClears, SkUndoes, SkCopies, SkRecords
  <2>2. CASE k # i
    <3>1. skOp'[k] = skOp[k] /\ skBackup'[k] = skBackup[k]
      BY <1>2, <1>4, <2>2 DEF SkMovesAside, SkPlaces, SkClears, SkUndoes, SkCopies, SkRecords
    <3>2. ~(k \in SkActive /\ skBefore[k].alone)  BY <1>1, <2>1, <2>2 DEF SkAloneFine, SkUndisturbed
    <3>3. k \in SkActive' <=> k \in SkActive  BY <3>1 DEF SkActive
    <3> QED  BY <1>1, <2>1, <3>1, <3>2, <3>3 DEF SkNoBackupYet, SkAloneFine
  <2>3. CASE k = i
    <3>1. SkActive' \subseteq SkActive
      BY <1>2, <1>4, <2>1 DEF SkActive, SkMovesAside, SkPlaces, SkClears, SkUndoes, SkCopies, SkRecords
    <3>2. SkNoBackupYet(i)'
      BY <1>1, <1>2, <1>4 DEF SkNoBackupYet, SkMovesAside, SkPlaces, SkClears, SkUndoes, SkCopies, SkRecords
    <3>3. ASSUME i \in SkActive', skBefore[i].alone PROVE SkUndisturbed(i)'
      <4>1. SkUndisturbed(i)  BY <1>1, <2>1, <3>3 DEF SkAloneFine
      <4>2. SkActive' = {i}  BY <3>1, <3>3, <4>1 DEF SkUndisturbed
      <4>3. ASSUME NEW ok \in BOOLEAN, SkCopies(i, ok) PROVE SkUndisturbed(i)'
        BY <1>2, <4>1, <4>2, <4>3, <2>1 DEF SkUndisturbed, SkCopies
      <4>4. ASSUME SkMovesAside(i) PROVE SkUndisturbed(i)'
        BY <1>2, <4>1, <4>2, <4>4, <2>1 DEF SkUndisturbed, SkMovesAside
      <4>5. ASSUME SkPlaces(i) PROVE SkUndisturbed(i)'
        BY <1>2, <4>1, <4>2, <4>5, <2>1 DEF SkUndisturbed, SkPlaces
      <4>6. ASSUME NEW ok \in BOOLEAN, SkRecords(i, ok) PROVE SkUndisturbed(i)'
        <5>1. CASE ok /\ skDir # "none"  BY <1>2, <4>1, <4>2, <4>6, <2>1, <5>1 DEF SkUndisturbed, SkRecords
        <5>2. CASE ~(ok /\ skDir # "none")  BY <1>2, <4>1, <4>2, <4>6, <2>1, <5>2 DEF SkUndisturbed, SkRecords
        <5> QED  BY <5>1, <5>2
      <4>7. ASSUME SkClears(i) \/ SkUndoes(i) PROVE FALSE
        BY <1>2, <3>3, <4>7 DEF SkActive, SkClears, SkUndoes
      <4> QED  BY <1>4, <4>3, <4>4, <4>5, <4>6, <4>7
    <3> QED  BY <2>1, <2>3, <3>2, <3>3 DEF SkAloneFine
  <2> QED  BY <2>2, <2>3
<1> QED  BY <1>3, <1>4

-----------------------------------------------------------------------------
(* A copy is left *)

LEMMA NowhereStays ==
    ASSUME SkTypeOK, SkNowhere, [SkNext]_skVars
    PROVE  SkNowhere'
<1> USE SkAssumption DEF SkTypeOK, SkNowhere, SkGoes, SkRest
<1>0. ASSUME NEW i \in SkImports PROVE i # "installed" /\ SkCompany[i].dir # "installed"
  <2>1. skBefore[i] \in SkBefores  BY DEF SkBefores
  <2>2. PICK n : n = [skBefore[i] EXCEPT !.alone = FALSE]  OBVIOUS
  <2>3. n.dir = skBefore[i].dir  BY <2>1, <2>2 DEF SkBefores
  <2> QED  BY <2>2, <2>3 DEF SkCompany
<1>1. ASSUME NEW i \in SkImports, SkBegin(i) PROVE SkNowhere'
  <2>1. SkCompany \in [SkImports -> SkBefores]  BY CompanyTyped
  <2>2. PICK n : n = [dir |-> skDir, row |-> skRow, alone |-> SkActive = {} /\ skRemoving \in {"no", "done"}]  OBVIOUS
  <2>3. n.dir = skDir  BY <2>2
  <2>4. skBefore' = [SkCompany EXCEPT ![i] = n]  BY <1>1, <2>2 DEF SkBegin
  <2>5. UNCHANGED <<skDir, skBackup>>  BY <1>1 DEF SkBegin
  <2> QED  BY <1>0, <2>1, <2>3, <2>4, <2>5
<1>2. ASSUME NEW i \in SkImports, NEW ok \in BOOLEAN, SkCopies(i, ok) \/ SkRecords(i, ok) PROVE SkNowhere'
  BY <1>2 DEF SkCopies, SkRecords
<1>3. ASSUME NEW i \in SkImports, SkMovesAside(i) PROVE SkNowhere'  BY <1>3 DEF SkMovesAside
<1>4. ASSUME NEW i \in SkImports, SkPlaces(i) PROVE SkNowhere'  BY <1>0, <1>4 DEF SkPlaces
<1>5. ASSUME NEW i \in SkImports, SkClears(i) PROVE SkNowhere'  BY <1>5 DEF SkClears
<1>6. ASSUME NEW i \in SkImports, SkUndoes(i) PROVE SkNowhere'  BY <1>6 DEF SkUndoes, SkBackupMoved
<1>7. CASE SkScanParses  BY <1>7 DEF SkScanParses
<1>8. CASE SkScanRecords  BY <1>0, <1>8 DEF SkScanRecords
<1>9. CASE SkRemoveBegins \/ SkRemoveDeletes \/ SkRemoveUnlists
  BY <1>0, <1>9 DEF SkRemoveBegins, SkRemoveDeletes, SkRemoveUnlists
<1>10. ASSUME NEW on \in BOOLEAN, SkSetEnabled(on) PROVE SkNowhere'  BY <1>0, <1>10 DEF SkSetEnabled
<1>11. CASE UNCHANGED skVars  BY <1>11 DEF skVars
<1> QED  BY <1>1, <1>2, <1>3, <1>4, <1>5, <1>6, <1>7, <1>8, <1>9, <1>10, <1>11 DEF SkNext

\* What a step of one import does to the three counts.
LEMMA ImportCounts ==
    ASSUME SkInv, SkCopiesLeft, NEW i \in SkImports,
           SkBegin(i) \/ SkMovesAside(i) \/ SkPlaces(i) \/ SkClears(i) \/ SkUndoes(i)
           \/ \E ok \in BOOLEAN : SkCopies(i, ok) \/ SkRecords(i, ok)
    PROVE  SkCopiesLeft'
<1>1. SkTypeOK /\ SkNoBackupYet(i)  BY DEF SkInv
<1>2. skOp \in [SkImports -> SkPhases] /\ skBackup \in [SkImports -> SkContents \cup {"none"}]  BY <1>1 DEF SkTypeOK
<1> DEFINE B == SkBacked
           T == SkTakers
           D == SkInPlace
<1>3. IsFiniteSet(B) /\ IsFiniteSet(T) /\ D \in {0, 1} /\ D + Cardinality(B) >= 1 + Cardinality(T)
  BY CountsAreFinite DEF SkCopiesLeft
<1>4. i \in B <=> skBackup[i] # "none"  BY DEF SkBacked
<1>5. i \in T <=> skOp[i] \in {"placed", "clearing", "restoring"}  BY DEF SkTakers
<1>6. D = IF skDir = "none" THEN 0 ELSE 1  BY DEF SkInPlace
<1>7. /\ Cardinality(B) \in Nat /\ Cardinality(B \cup {i}) \in Nat /\ Cardinality(B \ {i}) \in Nat
      /\ i \notin B => Cardinality(B \cup {i}) = Cardinality(B) + 1
      /\ i \in B => Cardinality(B \ {i}) = Cardinality(B) - 1
      /\ i \notin B => B \ {i} = B
  BY <1>3, OneMore
<1>8. /\ Cardinality(T) \in Nat /\ Cardinality(T \cup {i}) \in Nat /\ Cardinality(T \ {i}) \in Nat
      /\ i \notin T => Cardinality(T \cup {i}) = Cardinality(T) + 1
      /\ i \in T => Cardinality(T \ {i}) = Cardinality(T) - 1
  BY <1>3, OneMore
<1> USE DEF SkGoes, SkRest
\* Nothing is moved.
<1>9. ASSUME SkBegin(i) \/ (\E ok \in BOOLEAN : SkCopies(i, ok) \/ SkRecords(i, ok)) PROVE SkCopiesLeft'
  <2>1. UNCHANGED <<skDir, skBackup>>  BY <1>9 DEF SkBegin, SkCopies, SkRecords
  <2>2. SkTakers' = T
    <3>1. CASE SkBegin(i) \/ \E ok \in BOOLEAN : SkCopies(i, ok)  BY <1>2, <3>1 DEF SkBegin, SkCopies, SkTakers
    <3>2. ASSUME NEW ok \in BOOLEAN, SkRecords(i, ok) PROVE SkTakers' = T
      <4>1. skOp[i] = "placed" /\ (skOp' = [skOp EXCEPT ![i] = "clearing"] \/ skOp' = [skOp EXCEPT ![i] = "restoring"])
        BY <3>2 DEF SkRecords
      <4> QED  BY <1>2, <4>1 DEF SkTakers
    <3> QED  BY <1>9, <3>1, <3>2
  <2>3. SkBacked' = B /\ SkInPlace' = D  BY <2>1 DEF SkBacked, SkInPlace
  <2> QED  BY <1>3, <2>2, <2>3 DEF SkCopiesLeft
\* What was in its place becomes a backup.
<1>10. ASSUME SkMovesAside(i) PROVE SkCopiesLeft'
  <2>1. skOp[i] = "copied" /\ skOp' = [skOp EXCEPT ![i] = "placing"] /\ skBackup' = [skBackup EXCEPT ![i] = skDir] /\ skDir' = "none"
    BY <1>10 DEF SkMovesAside
  <2>2. i \notin B  BY <1>1, <1>4, <2>1 DEF SkNoBackupYet
  <2>3. SkTakers' = T /\ SkInPlace' = 0  BY <1>2, <2>1 DEF SkTakers, SkInPlace
  <2>4. CASE skDir = "none"
    <3>1. SkBacked' = B  BY <1>2, <2>1, <2>2, <2>4 DEF SkBacked
    <3> QED  BY <1>3, <1>6, <2>3, <2>4, <3>1 DEF SkCopiesLeft
  <2>5. CASE skDir # "none"
    <3>1. SkBacked' = B \cup {i}  BY <1>2, <2>1, <2>5 DEF SkBacked
    <3>2. D = 1 /\ Cardinality(B \cup {i}) = Cardinality(B) + 1  BY <1>6, <1>7, <2>2, <2>5
    <3>3. 0 + Cardinality(B \cup {i}) >= 1 + Cardinality(T)  BY <1>3, <1>7, <1>8, <3>2
    <3> QED  BY <2>3, <3>1, <3>3 DEF SkCopiesLeft
  <2> QED  BY <2>4, <2>5
\* A version is placed, and may be taken back.
<1>11. ASSUME SkPlaces(i) PROVE SkCopiesLeft'
  <2>1. SkBacked' = B  BY <1>11 DEF SkPlaces, SkBacked
  <2>2. CASE skDir = "none"
    <3>1. skOp[i] = "placing" /\ skOp' = [skOp EXCEPT ![i] = "placed"] /\ skDir' = i  BY <1>11, <2>2 DEF SkPlaces
    <3>2. SkTakers' = T \cup {i} /\ i \notin T  BY <1>2, <3>1 DEF SkTakers
    <3>3. SkInPlace' = 1  BY <3>1, SkAssumption DEF SkInPlace
    <3>4. 1 + Cardinality(B) >= 1 + Cardinality(T \cup {i})  BY <1>3, <1>6, <1>7, <1>8, <2>2, <3>2
    <3> QED  BY <2>1, <3>2, <3>3, <3>4 DEF SkCopiesLeft
  <2>3. CASE skDir # "none"
    <3>1. skOp[i] = "placing" /\ skOp' = [skOp EXCEPT ![i] = "undoing"] /\ skDir' = skDir  BY <1>11, <2>3 DEF SkPlaces
    <3>2. SkTakers' = T /\ SkInPlace' = D  BY <1>2, <3>1 DEF SkTakers, SkInPlace
    <3> QED  BY <1>3, <2>1, <3>2 DEF SkCopiesLeft
  <2> QED  BY <2>2, <2>3
\* The backup is given up by one that takes nothing any more.
<1>12. ASSUME SkClears(i) PROVE SkCopiesLeft'
  <2>1. skOp[i] = "clearing" /\ skOp' = [skOp EXCEPT ![i] = "done"] /\ skBackup' = [skBackup EXCEPT ![i] = "none"] /\ skDir' = skDir
    BY <1>12 DEF SkClears
  <2>2. SkTakers' = T \ {i} /\ i \in T  BY <1>2, <2>1 DEF SkTakers
  <2>3. SkBacked' = B \ {i} /\ SkInPlace' = D  BY <1>2, <2>1 DEF SkBacked, SkInPlace
  <2>4. D + Cardinality(B \ {i}) >= 1 + Cardinality(T \ {i})
    <3>1. CASE i \in B  BY <1>3, <1>7, <1>8, <2>2, <3>1
    <3>2. CASE i \notin B
      <4>1. B \ {i} = B  BY <1>7, <3>2
      <4>2. Cardinality(T \ {i}) = Cardinality(T) - 1  BY <1>8, <2>2
      <4>3. D + Cardinality(B) >= 1 + (Cardinality(T) - 1)  BY <1>3, <1>7, <1>8
      <4> QED  BY <4>1, <4>2, <4>3
    <3> QED  BY <3>1, <3>2
  <2> QED  BY <2>2, <2>3, <2>4 DEF SkCopiesLeft
\* What was placed goes and the backup returns.
<1>13. ASSUME SkUndoes(i) PROVE SkCopiesLeft'
  <2>1. skOp' = [skOp EXCEPT ![i] = "failed"]  BY <1>13 DEF SkUndoes
  <2>2. SkTakers' = T \ {i}  BY <1>2, <2>1 DEF SkTakers
  <2>3. CASE skOp[i] = "restoring" \/ skDir = "none"
    <3>1. skDir' = skBackup[i] /\ skBackup' = [skBackup EXCEPT ![i] = "none"]
      BY <1>13, <1>2, <2>3 DEF SkUndoes, SkBackupMoved
    <3>2. SkBacked' = B \ {i}  BY <1>2, <3>1 DEF SkBacked
    <3>3. SkInPlace' = IF i \in B THEN 1 ELSE 0  BY <1>4, <3>1 DEF SkInPlace
    <3>4. SkInPlace' + Cardinality(B \ {i}) = Cardinality(B)  BY <1>7, <3>3
    <3>5. Cardinality(B) >= 1 + Cardinality(T \ {i})
      <4>1. CASE skOp[i] = "restoring"  BY <1>3, <1>5, <1>7, <1>8, <4>1
      <4>2. CASE skOp[i] # "restoring"
        <5>1. D = 0 /\ i \notin T  BY <1>13, <1>5, <1>6, <2>3, <4>2 DEF SkUndoes
        <5>2. T \ {i} = T  BY <5>1
        <5> QED  BY <1>3, <1>7, <5>1, <5>2
      <4> QED  BY <4>1, <4>2
    <3> QED  BY <2>2, <3>2, <3>4, <3>5 DEF SkCopiesLeft
  <2>4. CASE skOp[i] = "undoing" /\ skDir # "none"
    <3>1. skDir' = skDir /\ skBackup' = skBackup  BY <1>13, <2>4 DEF SkUndoes, SkBackupMoved
    <3>2. SkBacked' = B /\ SkInPlace' = D  BY <3>1 DEF SkBacked, SkInPlace
    <3>3. T \ {i} = T  BY <1>5, <2>4
    <3> QED  BY <1>3, <2>2, <3>2, <3>3 DEF SkCopiesLeft
  <2> QED  BY <1>13, <2>3, <2>4 DEF SkUndoes
<1> QED  BY <1>9, <1>10, <1>11, <1>12, <1>13

LEMMA StepKeepsInv == SkInv /\ [SkNext]_skVars => SkInv'
<1> SUFFICES ASSUME SkInv, [SkNext]_skVars PROVE SkInv'  OBVIOUS
<1>1. SkTypeOK'  BY StepKeepsType DEF SkInv
<1>2. CASE \E i \in SkImports : \/ SkBegin(i) \/ SkMovesAside(i) \/ SkPlaces(i) \/ SkClears(i) \/ SkUndoes(i)
                               \/ \E ok \in BOOLEAN : SkCopies(i, ok) \/ SkRecords(i, ok)
  <2>1. PICK i \in SkImports : \/ SkBegin(i) \/ SkMovesAside(i) \/ SkPlaces(i) \/ SkClears(i) \/ SkUndoes(i)
                               \/ \E ok \in BOOLEAN : SkCopies(i, ok) \/ SkRecords(i, ok)
    BY <1>2
  <2>2. \A k \in SkImports : SkNoBackupYet(k)' /\ SkAloneFine(k)'  BY <2>1, ImportsKeepImports
  <2>3. skRemoving' = skRemoving
    BY <2>1 DEF SkBegin, SkMovesAside, SkPlaces, SkClears, SkUndoes, SkCopies, SkRecords, SkRest
  <2>4. skRemoving = "no" => SkNowhere' \/ SkCopiesLeft'  BY <2>1, NowhereStays, ImportCounts DEF SkInv
  <2> QED  BY <1>1, <2>2, <2>3, <2>4 DEF SkInv
<1>3. CASE \/ SkScanParses \/ SkScanRecords \/ SkRemoveBegins \/ SkRemoveDeletes \/ SkRemoveUnlists
           \/ (\E on \in BOOLEAN : SkSetEnabled(on)) \/ UNCHANGED skVars
  <2>1. SkNotAnImport  BY <1>3, OthersAreCompany
  <2>2. \A k \in SkImports : SkNoBackupYet(k)' /\ SkAloneFine(k)'  BY <2>1, OthersKeepImports
  <2>3. ASSUME skRemoving' = "no" PROVE SkNowhere' \/ SkCopiesLeft'
    <3>1. skDir' = skDir /\ skRemoving = "no"
      BY <1>3, <2>3 DEF SkScanParses, SkScanRecords, SkRemoveBegins, SkRemoveDeletes, SkRemoveUnlists, SkSetEnabled, skVars
    <3>2. CASE SkNowhere  BY <3>2, NowhereStays DEF SkInv
    <3>3. CASE SkCopiesLeft
      <4>1. SkBacked' = SkBacked /\ SkTakers' = SkTakers /\ SkInPlace' = SkInPlace
        BY <2>1, <3>1 DEF SkNotAnImport, SkBacked, SkTakers, SkInPlace
      <4> QED  BY <3>3, <4>1 DEF SkCopiesLeft
    <3> QED  BY <3>1, <3>2, <3>3 DEF SkInv
  <2> QED  BY <1>1, <2>2, <2>3 DEF SkInv
<1> QED  BY <1>2, <1>3 DEF SkNext

LEMMA InvLosesNone == SkInv => SkNoneLost
<1> SUFFICES ASSUME SkInv, SkActive = {}, skRemoving = "no", NEW i \in SkImports, skBefore[i].dir = "installed"
             PROVE  skDir # "none" \/ \E j \in SkImports : skBackup[j] # "none"
  BY DEF SkNoneLost
<1>1. SkCopiesLeft  BY DEF SkInv, SkNowhere
<1>2. SkTakers = {}  BY DEF SkTakers, SkActive
<1>3. SkInPlace + Cardinality(SkBacked) >= 1 + Cardinality({})  BY <1>1, <1>2 DEF SkCopiesLeft
<1>4. Cardinality({}) = 0  BY FS_EmptySet
<1>5. skDir = "none" /\ SkBacked = {} => FALSE  BY <1>3, <1>4 DEF SkInPlace
<1> QED  BY <1>5 DEF SkBacked

\* Each import that fails alone puts back what it found.
LEMMA FailurePutsBack ==
    ASSUME SkInv, SkNext, NEW i \in SkImports, skOp[i] # "failed", skOp'[i] = "failed", skBefore[i].alone
    PROVE  skDir' = skBefore[i].dir /\ skRow' = skBefore[i].row
<1>1. skOp \in [SkImports -> SkPhases] /\ SkAloneFine(i)  BY DEF SkInv, SkTypeOK
<1>2. SkUndoes(i)
  BY <1>1 DEF SkNext, SkBegin, SkMovesAside, SkPlaces, SkClears, SkUndoes, SkCopies, SkRecords, SkGoes,
     SkScanParses, SkScanRecords, SkRemoveBegins, SkRemoveDeletes, SkRemoveUnlists, SkSetEnabled
<1>3. SkUndisturbed(i)  BY <1>1, <1>2 DEF SkAloneFine, SkActive, SkUndoes
<1>4. skRow' = skRow /\ skRow = skBefore[i].row  BY <1>2, <1>3 DEF SkUndoes, SkUndisturbed
<1>5. CASE skOp[i] = "undoing"  BY <1>2, <1>3, <1>4, <1>5 DEF SkUndoes, SkUndisturbed, SkBackupMoved
<1>6. CASE skOp[i] = "restoring"  BY <1>2, <1>3, <1>4, <1>6 DEF SkUndoes, SkUndisturbed, SkBackupMoved
<1> QED  BY <1>2, <1>5, <1>6 DEF SkUndoes

LEMMA SwitchStays ==
    ASSUME SkTypeOK, SkNext, skRow # SkNone, skRow' # SkNone, skCount' = skCount
    PROVE  skRow'.enabled = skRow.enabled
<1>1. \A v : SkUpsert(v) => skRow'.enabled = skRow.enabled  BY DEF SkUpsert, SkEnabled
<1>2. skCount \in Nat  BY SkAssumption DEF SkTypeOK
<1>3. ASSUME NEW on \in BOOLEAN, SkSetEnabled(on) PROVE FALSE  BY <1>2, <1>3 DEF SkSetEnabled
<1>4. skRow' = skRow \/ \E v : SkUpsert(v)
  BY <1>3 DEF SkNext, SkBegin, SkMovesAside, SkPlaces, SkClears, SkUndoes, SkCopies, SkRecords,
     SkScanParses, SkScanRecords, SkRemoveBegins, SkRemoveDeletes, SkRemoveUnlists
<1> QED  BY <1>1, <1>4

LEMMA SkInvHolds == SkSpec => []SkInv
<1>1. SkInv /\ [SkNext]_skVars => SkInv'  BY StepKeepsInv
<1> QED  BY SkInitInv, <1>1, PTL DEF SkSpec

\* Imports of a skill that overlap, fail and cross a scan never lose the skill that was
\* installed; one that fails alone leaves directory and row as they were; and nothing but the
\* user switches a skill on or off (SkillService.importSkill, scan, remove).
THEOREM SkillsAreKept == SkSpec => SkKept
<1>1. SkInv' => SkNoneLost'  BY InvLosesNone, PTL
<1>2. SkInv /\ [SkNext]_skVars => [\A i \in SkImports : skOp[i] # "failed" /\ skOp'[i] = "failed" /\ skBefore[i].alone =>
                                       skDir' = skBefore[i].dir /\ skRow' = skBefore[i].row]_skVars
  BY FailurePutsBack
<1>3. SkInv /\ [SkNext]_skVars =>
        [skRow # SkNone /\ skRow' # SkNone /\ skCount' = skCount => skRow'.enabled = skRow.enabled]_skVars
  BY SwitchStays DEF SkInv
<1> QED  BY SkInvHolds, <1>1, <1>2, <1>3, PTL DEF SkSpec, SkKept, SkFailureRestores, SkSwitchKept

-----------------------------------------------------------------------------
(* ManagedProcess: one outcome for each process *)

\* What Main sends to the runner, and what comes back.
ProcCommands == [op : {"start", "poll", "stop"}, id : ProcIds] \cup [op : {"cancel-run"}]
ProcReplyType == [op : {"start", "poll", "stop"}, id : ProcIds, status : ProcStatus \cup {"error"}]

\* Types.
ProcShape ==
    /\ procDown \in Seq(ProcCommands) /\ procBack \in Seq(ProcReplyType)
    /\ procOpening \subseteq ProcIds /\ procEntry \in [ProcIds -> ProcStatus \cup {"none"}]
    /\ procRow \in [ProcIds -> ProcStatus \cup {"none", "interrupted"}]
    /\ procStoring \subseteq [id : ProcIds, status : ProcFinal]

\* Of a process that is being started nothing else is under way: neither Main nor the
\* runner knows it.
ProcUnborn(p) ==
    procEntry[p] = "none" /\ procRow[p] = "none" /\ \A j \in 1..Len(procBack) : procBack[j].id # p
ProcStartsOnce ==
    /\ \A i \in 1..Len(procDown) : procDown[i].op = "start" =>
          /\ ProcUnborn(procDown[i].id) /\ procDown[i].id \notin procOpening
          /\ \A j \in 1..Len(procDown) : procDown[j].op = "start" /\ procDown[j].id = procDown[i].id => j = i
    /\ \A p \in procOpening : ProcUnborn(p)
    /\ \A j \in 1..Len(procBack) : procBack[j].op = "start" =>
          /\ procBack[j].status \in {"running", "error"} /\ procRow[procBack[j].id] = "none"
          /\ procBack[j].status = "error" => procEntry[procBack[j].id] = "none"
          /\ \A k \in 1..Len(procBack) : procBack[k].id = procBack[j].id => k = j

\* Main asks for processes that it has a row of, and stores logs of no others.
ProcAsksKnown ==
    /\ \A i \in 1..Len(procDown) : procDown[i].op \in {"poll", "stop"} => procRow[procDown[i].id] # "none"
    /\ \A j \in 1..Len(procBack) : procBack[j].op \in {"poll", "stop"} => procRow[procBack[j].id] # "none"
    /\ \A s \in procStoring : procRow[s.id] # "none"

\* Once an outcome is known somewhere between runner and table, whatever comes behind
\* says the same.
ProcSays(p, f) == procEntry[p] \in {f, "none"}
ProcOneOutcome ==
    /\ \A p \in ProcIds : procRow[p] \in ProcFinal =>
          /\ ProcSays(p, procRow[p])
          /\ \A j \in 1..Len(procBack) : procBack[j].id = p => procBack[j].status \in {procRow[p], "error"}
          /\ \A s \in procStoring : s.id = p => s.status = procRow[p]
    /\ \A s \in procStoring :
          /\ ProcSays(s.id, s.status)
          /\ \A j \in 1..Len(procBack) : procBack[j].id = s.id => procBack[j].status \in {s.status, "error"}
          /\ \A q \in procStoring : q.id = s.id => q.status = s.status
    /\ \A i \in 1..Len(procBack) : procBack[i].status \in ProcFinal =>
          /\ ProcSays(procBack[i].id, procBack[i].status)
          /\ \A j \in i..Len(procBack) : procBack[j].id = procBack[i].id => procBack[j].status \in {procBack[i].status, "error"}

\* How many run is part of the invariant: a start is let through by a count.
ProcRunningSet == {p \in ProcIds : ProcRunning(p)}
ProcFew == IsFiniteSet(ProcRunningSet) /\ Cardinality(ProcRunningSet) <= ProcLimit

\* The inductive invariant.
ProcInv == ProcShape /\ ProcStartsOnce /\ ProcAsksKnown /\ ProcOneOutcome /\ ProcNoneUnknown /\ ProcFew

-----------------------------------------------------------------------------
(* Queues. *)

LEMMA ProcAppended ==
    ASSUME NEW S, NEW s \in Seq(S), NEW x \in S, NEW t, t = Append(s, x)
    PROVE  /\ t \in Seq(S) /\ Len(t) = Len(s) + 1 /\ Len(s) \in Nat /\ t[Len(s) + 1] = x
           /\ \A i \in 1..Len(s) : t[i] = s[i]
           /\ \A i \in 1..Len(t) : i \in 1..Len(s) \/ i = Len(s) + 1
  OBVIOUS

LEMMA ProcTaken ==
    ASSUME NEW S, NEW s \in Seq(S), s # <<>>, NEW t, t = Tail(s)
    PROVE  /\ t \in Seq(S) /\ Len(t) = Len(s) - 1 /\ Len(t) \in Nat /\ Head(s) = s[1] /\ s[1] \in S /\ 1 \in 1..Len(s)
           /\ \A i \in 1..Len(t) : t[i] = s[i + 1] /\ i + 1 \in 1..Len(s) /\ i + 1 # 1
  OBVIOUS

LEMMA ProcMessages ==
    ASSUME ProcShape
    PROVE  /\ \A i \in 1..Len(procDown) : /\ procDown[i].op \in {"start", "poll", "stop", "cancel-run"}
                                          /\ procDown[i].op # "cancel-run" => procDown[i].id \in ProcIds
           /\ \A i \in 1..Len(procBack) : /\ procBack[i].op \in {"start", "poll", "stop"} /\ procBack[i].id \in ProcIds
                                          /\ procBack[i].status \in ProcStatus \cup {"error"}
           /\ \A s \in procStoring : s.id \in ProcIds /\ s.status \in ProcFinal
<1>1. \A i \in 1..Len(procDown) : procDown[i] \in ProcCommands
  BY DEF ProcShape
<1>2. \A i \in 1..Len(procBack) : procBack[i] \in ProcReplyType
  BY DEF ProcShape
<1>3. \A s \in procStoring : s.id \in ProcIds /\ s.status \in ProcFinal
  BY DEF ProcShape
<1>4. \A c \in ProcCommands : c.op \in {"start", "poll", "stop", "cancel-run"} /\ (c.op # "cancel-run" => c.id \in ProcIds)
  BY DEF ProcCommands
<1>5. \A c \in ProcReplyType : c.op \in {"start", "poll", "stop"} /\ c.id \in ProcIds /\ c.status \in ProcStatus \cup {"error"}
  BY DEF ProcReplyType
<1> QED BY <1>1, <1>2, <1>3, <1>4, <1>5

LEMMA ProcInitHolds == ProcInit => ProcInv
<1> SUFFICES ASSUME ProcInit PROVE ProcInv
  OBVIOUS
<1>1. procDown = <<>> /\ procBack = <<>> /\ procOpening = {} /\ procStoring = {}
      /\ procEntry = [p \in ProcIds |-> "none"] /\ procRow = [p \in ProcIds |-> "none"]
  BY DEF ProcInit
<1>2. ProcShape
  BY <1>1 DEF ProcShape, ProcStatus, ProcFinal
<1>3. ProcStartsOnce /\ ProcAsksKnown /\ ProcOneOutcome
  BY <1>1 DEF ProcStartsOnce, ProcAsksKnown, ProcOneOutcome, ProcFinal
<1>4. ProcNoneUnknown /\ ProcRunningSet = {}
  BY <1>1 DEF ProcNoneUnknown, ProcRunningSet, ProcRunning
<1>5. ProcFew
  BY <1>4, FS_EmptySet, ProcAssumption DEF ProcFew
<1> QED BY <1>2, <1>3, <1>4, <1>5 DEF ProcInv

-----------------------------------------------------------------------------
(* Main. *)

LEMMA ProcFewStays == ASSUME ProcFew, UNCHANGED procEntry PROVE ProcFew'
  BY DEF ProcFew, ProcRunningSet, ProcRunning

LEMMA ProcStartStep == ASSUME ProcInv, NEW p \in ProcIds, ProcStart(p) PROVE ProcInv'
<1>1. PICK x : x = [op |-> "start", id |-> p]
  OBVIOUS
<1>2. x \in ProcCommands /\ x.op = "start" /\ x.id = p
  BY <1>1 DEF ProcCommands
<1>3. /\ procDown' = Append(procDown, x) /\ procRow[p] = "none" /\ procEntry[p] = "none" /\ p \notin procOpening
      /\ \A i \in 1..Len(procDown) : procDown[i].op = "start" => procDown[i].id # p
      /\ \A i \in 1..Len(procBack) : procBack[i].id # p
      /\ procBack' = procBack /\ procOpening' = procOpening /\ procEntry' = procEntry
      /\ procRow' = procRow /\ procStoring' = procStoring
  BY <1>1 DEF ProcStart, ProcRunner, ProcTable
<1>4. /\ procDown' \in Seq(ProcCommands) /\ Len(procDown') = Len(procDown) + 1 /\ Len(procDown) \in Nat
      /\ procDown'[Len(procDown) + 1] = x
      /\ \A i \in 1..Len(procDown) : procDown'[i] = procDown[i]
      /\ \A i \in 1..Len(procDown') : i \in 1..Len(procDown) \/ i = Len(procDown) + 1
  BY <1>2, <1>3, ProcAppended DEF ProcInv, ProcShape
<1>5. ProcShape'
  BY <1>3, <1>4 DEF ProcInv, ProcShape
<1>6. ProcStartsOnce'
  BY <1>2, <1>3, <1>4 DEF ProcInv, ProcStartsOnce, ProcUnborn
<1>7. ProcAsksKnown' /\ ProcOneOutcome' /\ ProcNoneUnknown'
  BY <1>2, <1>3, <1>4 DEF ProcInv, ProcAsksKnown, ProcOneOutcome, ProcNoneUnknown, ProcRunning, ProcSays
<1>8. ProcFew'
  BY <1>3, ProcFewStays DEF ProcInv
<1> QED BY <1>5, <1>6, <1>7, <1>8 DEF ProcInv

LEMMA ProcAskStep ==
    ASSUME ProcInv, NEW p \in ProcIds, NEW op \in {"poll", "stop"}, ProcAsk(p, op) PROVE ProcInv'
<1>1. PICK x : x = [op |-> op, id |-> p]
  OBVIOUS
<1>2. x \in ProcCommands /\ x.op = op /\ x.id = p
  BY <1>1 DEF ProcCommands
<1>3. /\ procDown' = Append(procDown, x) /\ procRow[p] # "none"
      /\ procBack' = procBack /\ procOpening' = procOpening /\ procEntry' = procEntry
      /\ procRow' = procRow /\ procStoring' = procStoring
  BY <1>1 DEF ProcAsk, ProcRunner, ProcTable
<1>4. /\ procDown' \in Seq(ProcCommands) /\ Len(procDown') = Len(procDown) + 1 /\ Len(procDown) \in Nat
      /\ procDown'[Len(procDown) + 1] = x
      /\ \A i \in 1..Len(procDown) : procDown'[i] = procDown[i]
      /\ \A i \in 1..Len(procDown') : i \in 1..Len(procDown) \/ i = Len(procDown) + 1
  BY <1>2, <1>3, ProcAppended DEF ProcInv, ProcShape
<1>5. ProcShape'
  BY <1>3, <1>4 DEF ProcInv, ProcShape
<1>6. ProcStartsOnce'
  BY <1>2, <1>3, <1>4 DEF ProcInv, ProcStartsOnce, ProcUnborn
<1>7. ProcAsksKnown' /\ ProcOneOutcome' /\ ProcNoneUnknown'
  BY <1>2, <1>3, <1>4 DEF ProcInv, ProcAsksKnown, ProcOneOutcome, ProcNoneUnknown, ProcRunning, ProcSays
<1>8. ProcFew'
  BY <1>3, ProcFewStays DEF ProcInv
<1> QED BY <1>5, <1>6, <1>7, <1>8 DEF ProcInv

LEMMA ProcInterruptedRows ==
    ASSUME ProcShape, procRow' = ProcInterrupted
    PROVE  /\ procRow' \in [ProcIds -> ProcStatus \cup {"none", "interrupted"}]
           /\ \A p \in ProcIds : /\ procRow'[p] = "none" <=> procRow[p] = "none"
                                 /\ procRow'[p] \in ProcFinal <=> procRow[p] \in ProcFinal
                                 /\ procRow[p] \in ProcFinal => procRow'[p] = procRow[p]
  BY DEF ProcShape, ProcInterrupted, ProcFinal

LEMMA ProcPauseStep == ASSUME ProcInv, ProcPause PROVE ProcInv'
<1>1. PICK x : x = [op |-> "cancel-run"]
  OBVIOUS
<1>2. x \in ProcCommands /\ x.op = "cancel-run"
  BY <1>1 DEF ProcCommands
<1>3. /\ procDown' = Append(procDown, x) /\ procRow' = ProcInterrupted
      /\ procBack' = procBack /\ procOpening' = procOpening /\ procEntry' = procEntry
      /\ procStoring' = procStoring
  BY <1>1 DEF ProcPause, ProcRunner
<1>4. /\ procDown' \in Seq(ProcCommands) /\ Len(procDown') = Len(procDown) + 1 /\ Len(procDown) \in Nat
      /\ procDown'[Len(procDown) + 1] = x
      /\ \A i \in 1..Len(procDown) : procDown'[i] = procDown[i]
      /\ \A i \in 1..Len(procDown') : i \in 1..Len(procDown) \/ i = Len(procDown) + 1
  BY <1>2, <1>3, ProcAppended DEF ProcInv, ProcShape
<1>5. /\ procRow' \in [ProcIds -> ProcStatus \cup {"none", "interrupted"}]
      /\ \A p \in ProcIds : /\ procRow'[p] = "none" <=> procRow[p] = "none"
                            /\ procRow'[p] \in ProcFinal <=> procRow[p] \in ProcFinal
                            /\ procRow[p] \in ProcFinal => procRow'[p] = procRow[p]
  BY <1>3, ProcInterruptedRows DEF ProcInv
<1>6. ProcShape'
  BY <1>3, <1>4, <1>5 DEF ProcInv, ProcShape
<1>7. /\ \A i \in 1..Len(procDown) : procDown[i].op # "cancel-run" => procDown[i].id \in ProcIds
      /\ \A i \in 1..Len(procBack) : procBack[i].id \in ProcIds
      /\ \A s \in procStoring : s.id \in ProcIds /\ procOpening \subseteq ProcIds
  BY ProcMessages DEF ProcInv, ProcShape
<1>70. procOpening \subseteq ProcIds
  BY DEF ProcInv, ProcShape
<1>8. ProcStartsOnce'
  BY <1>2, <1>3, <1>4, <1>5, <1>7, <1>70 DEF ProcInv, ProcStartsOnce, ProcUnborn
<1>9. ProcAsksKnown'
  BY <1>2, <1>3, <1>4, <1>5, <1>7 DEF ProcInv, ProcAsksKnown
<1>10. ProcOneOutcome'
  BY <1>3, <1>5, <1>7 DEF ProcInv, ProcOneOutcome, ProcSays
<1>11. ProcNoneUnknown'
  BY <1>3, <1>5 DEF ProcInv, ProcNoneUnknown, ProcRunning
<1>12. ProcFew'
  BY <1>3, ProcFewStays DEF ProcInv
<1> QED BY <1>6, <1>8, <1>9, <1>10, <1>11, <1>12 DEF ProcInv

LEMMA ProcRunnerDiesStep == ASSUME ProcInv, ProcRunnerDies PROVE ProcInv'
<1>1. /\ procDown' = <<>> /\ procBack' = <<>> /\ procOpening' = {} /\ procEntry' = [p \in ProcIds |-> "none"]
      /\ procRow' = ProcInterrupted /\ procStoring' = procStoring
  BY DEF ProcRunnerDies
<1>2. /\ procRow' \in [ProcIds -> ProcStatus \cup {"none", "interrupted"}]
      /\ \A p \in ProcIds : /\ procRow'[p] = "none" <=> procRow[p] = "none"
                            /\ procRow'[p] \in ProcFinal <=> procRow[p] \in ProcFinal
                            /\ procRow[p] \in ProcFinal => procRow'[p] = procRow[p]
  BY <1>1, ProcInterruptedRows DEF ProcInv
<1>3. \A s \in procStoring : s.id \in ProcIds
  BY ProcMessages DEF ProcInv
<1>4. ProcShape'
  BY <1>1, <1>2 DEF ProcInv, ProcShape
<1>5. ProcStartsOnce' /\ ProcAsksKnown' /\ ProcNoneUnknown' /\ ProcRunningSet' = {}
  BY <1>1, <1>2, <1>3 DEF ProcInv, ProcStartsOnce, ProcAsksKnown, ProcNoneUnknown, ProcRunningSet, ProcRunning
<1>6. ProcOneOutcome'
  BY <1>1, <1>2, <1>3 DEF ProcInv, ProcOneOutcome, ProcSays
<1>7. ProcFew'
  BY <1>5, FS_EmptySet, ProcAssumption DEF ProcFew
<1> QED BY <1>4, <1>5, <1>6, <1>7 DEF ProcInv

\* The answer in front is one of the queue, and the others move up.
LEMMA ProcAnswerStep == ASSUME ProcInv, ProcAnswer PROVE ProcInv'
<1>1. PICK res : res = Head(procBack)
  OBVIOUS
<1>2. PICK p : p = res.id
  OBVIOUS
<1>3. /\ procBack # <<>> /\ procBack' = Tail(procBack)
      /\ procDown' = procDown /\ procOpening' = procOpening /\ procEntry' = procEntry
      /\ \/ res.status # "error" /\ procRow' = [procRow EXCEPT ![p] = res.status] /\ procStoring' = procStoring
         \/ /\ res.op = "poll" /\ res.status \in ProcFinal /\ procRow' = procRow
            /\ procStoring' = procStoring \cup {[id |-> p, status |-> res.status]}
         \/ res.status = "error" /\ procRow' = procRow /\ procStoring' = procStoring
  BY <1>1, <1>2 DEF ProcAnswer, ProcRunner, ProcTable, ProcHeard
<1>4. /\ procBack' \in Seq(ProcReplyType) /\ Len(procBack') = Len(procBack) - 1 /\ Len(procBack') \in Nat
      /\ res = procBack[1] /\ 1 \in 1..Len(procBack) /\ res \in ProcReplyType
      /\ \A i \in 1..Len(procBack') : procBack'[i] = procBack[i + 1] /\ i + 1 \in 1..Len(procBack) /\ i + 1 # 1
  BY <1>1, <1>3, ProcTaken DEF ProcInv, ProcShape
<1>5. /\ res.op \in {"start", "poll", "stop"} /\ p \in ProcIds /\ res.status \in ProcStatus \cup {"error"}
  BY <1>2, <1>4 DEF ProcReplyType
<1>6. PICK n : n = [id |-> p, status |-> res.status]
  OBVIOUS
<1>7. n.id = p /\ n.status = res.status /\ (res.status \in ProcFinal => n \in [id : ProcIds, status : ProcFinal])
  BY <1>5, <1>6
<1>8. ProcShape'
  BY <1>3, <1>4, <1>5, <1>6, <1>7 DEF ProcInv, ProcShape
\* Known facts, by name.
<1>9. ProcShape /\ ProcStartsOnce /\ ProcAsksKnown /\ ProcOneOutcome /\ ProcNoneUnknown
      /\ procRow \in [ProcIds -> ProcStatus \cup {"none", "interrupted"}]
  BY DEF ProcInv, ProcShape
<1>10. "none" \notin ProcStatus \cup {"error"} /\ "error" \notin ProcStatus /\ "running" \notin ProcFinal /\ "none" \notin ProcFinal
       /\ "error" \notin ProcFinal
  BY DEF ProcStatus, ProcFinal
\* The rows: only that of p changes, and not back to none.
<1>11. \A q \in ProcIds : procRow'[q] = procRow[q] \/ (q = p /\ procRow'[q] = res.status /\ res.status # "error")
  BY <1>3, <1>5, <1>9
<1>12. \A q \in ProcIds : procRow[q] # "none" => procRow'[q] # "none"
  BY <1>5, <1>10, <1>11
<1>13. \A i \in 1..Len(procBack') : procBack'[i].id = p => res.op # "start" /\ procBack'[i].op # "start"
  BY <1>2, <1>4, <1>9 DEF ProcStartsOnce
<1>14. \A i \in 1..Len(procDown) : procDown[i].op = "start" => procDown[i].id # p
  BY <1>2, <1>4, <1>9 DEF ProcStartsOnce, ProcUnborn
<1>15. p \notin procOpening
  BY <1>2, <1>4, <1>9 DEF ProcStartsOnce, ProcUnborn
<1>16. /\ \A i \in 1..Len(procDown) : procDown[i].op # "cancel-run" => procDown[i].id \in ProcIds
       /\ \A i \in 1..Len(procBack) : procBack[i].id \in ProcIds /\ procBack[i].op \in {"start", "poll", "stop"}
       /\ \A s \in procStoring : s.id \in ProcIds
       /\ procOpening \subseteq ProcIds
  BY <1>9, ProcMessages DEF ProcShape
<1>17. ProcStartsOnce'
  <2>1. \A q \in ProcIds : q # p /\ ProcUnborn(q) => ProcUnborn(q)'
    BY <1>3, <1>4, <1>11 DEF ProcUnborn
  <2>2. \A i \in 1..Len(procDown') : procDown'[i].op = "start" =>
          /\ ProcUnborn(procDown[i].id)' /\ procDown'[i].id \notin procOpening'
          /\ \A j \in 1..Len(procDown') : procDown'[j].op = "start" /\ procDown'[j].id = procDown'[i].id => j = i
    BY <1>3, <1>9, <1>14, <1>16, <2>1 DEF ProcStartsOnce
  <2>3. \A q \in procOpening' : ProcUnborn(q)'
    BY <1>3, <1>9, <1>15, <1>16, <2>1 DEF ProcStartsOnce
  <2>4. ASSUME NEW j \in 1..Len(procBack'), procBack'[j].op = "start"
        PROVE  /\ procBack'[j].status \in {"running", "error"} /\ procRow'[procBack'[j].id] = "none"
               /\ procBack'[j].status = "error" => procEntry'[procBack'[j].id] = "none"
               /\ \A k \in 1..Len(procBack') : procBack'[k].id = procBack'[j].id => k = j
    <3>1. procBack'[j] = procBack[j + 1] /\ j + 1 \in 1..Len(procBack) /\ procBack'[j].id # p
      BY <1>4, <1>13, <2>4
    <3>2. procBack[j + 1].status \in {"running", "error"} /\ procRow[procBack[j + 1].id] = "none"
          /\ (procBack[j + 1].status = "error" => procEntry[procBack[j + 1].id] = "none")
          /\ \A k \in 1..Len(procBack) : procBack[k].id = procBack[j + 1].id => k = j + 1
      BY <1>9, <2>4, <3>1 DEF ProcStartsOnce
    <3>3. procRow'[procBack'[j].id] = "none"
      BY <1>11, <1>16, <3>1, <3>2
    <3>4. \A k \in 1..Len(procBack') : procBack'[k].id = procBack'[j].id => k = j
      BY <1>4, <3>1, <3>2
    <3> QED BY <1>3, <3>1, <3>2, <3>3, <3>4
  <2> QED BY <1>3, <2>2, <2>3, <2>4 DEF ProcStartsOnce
<1>18. ProcAsksKnown'
  <2>1. procStoring' \subseteq procStoring \cup {n} /\ (procStoring' # procStoring => res.op = "poll")
    BY <1>3, <1>6
  <2>2. res.op = "poll" => procRow[p] # "none"
    BY <1>2, <1>4, <1>9 DEF ProcAsksKnown
  <2> QED BY <1>3, <1>4, <1>5, <1>7, <1>9, <1>12, <1>16, <2>1, <2>2 DEF ProcAsksKnown
<1>19. ProcOneOutcome'
  \* What the answer in front says of p holds for all the rest.
  <2>1. res.status \in ProcFinal =>
           /\ ProcSays(p, res.status)
           /\ \A j \in 1..Len(procBack) : procBack[j].id = p => procBack[j].status \in {res.status, "error"}
    BY <1>2, <1>4, <1>9 DEF ProcOneOutcome
  <2>2. \A s \in procStoring : s.id = p => res.status \in {s.status, "error"}
    BY <1>2, <1>4, <1>9 DEF ProcOneOutcome
  <2>3. procRow[p] \in ProcFinal => res.status \in {procRow[p], "error"}
    BY <1>2, <1>4, <1>5, <1>9 DEF ProcOneOutcome
  <2>4. \A j \in 1..Len(procBack') : procBack'[j] = procBack[j + 1] /\ j + 1 \in 1..Len(procBack)
    BY <1>4
  <2>5. \A q \in ProcIds : procRow'[q] \in ProcFinal =>
          /\ ProcSays(q, procRow[q])'
          /\ \A j \in 1..Len(procBack') : procBack'[j].id = q => procBack'[j].status \in {procRow'[q], "error"}
          /\ \A s \in procStoring' : s.id = q => s.status = procRow'[q]
    <3> SUFFICES ASSUME NEW q \in ProcIds, procRow'[q] \in ProcFinal
                 PROVE  /\ ProcSays(q, procRow[q])'
                        /\ \A j \in 1..Len(procBack') : procBack'[j].id = q => procBack'[j].status \in {procRow'[q], "error"}
                        /\ \A s \in procStoring' : s.id = q => s.status = procRow'[q]
      OBVIOUS
    <3>1. CASE procRow'[q] = procRow[q]
      <4>1. ProcSays(q, procRow[q])'
        BY <1>3, <1>9, <3>1 DEF ProcOneOutcome, ProcSays
      <4>2. \A j \in 1..Len(procBack') : procBack'[j].id = q => procBack'[j].status \in {procRow'[q], "error"}
        BY <1>9, <2>4, <3>1 DEF ProcOneOutcome
      <4>3. \A s \in procStoring : s.id = q => s.status = procRow'[q]
        BY <1>9, <3>1 DEF ProcOneOutcome
      <4>4. procStoring' # procStoring /\ p = q => n.status = procRow'[q]
        BY <1>3, <1>7, <1>10, <2>3, <3>1
      <4>5. procStoring' \subseteq procStoring \cup {n}
        BY <1>3, <1>6
      <4> QED BY <1>7, <4>1, <4>2, <4>3, <4>4, <4>5
    <3>2. CASE q = p /\ procRow'[q] = res.status /\ res.status # "error" /\ procRow'[q] # procRow[q]
      <4>1. procStoring' = procStoring
        BY <1>3, <3>2
      <4> QED BY <1>3, <2>1, <2>2, <2>4, <3>2, <4>1 DEF ProcSays
    <3> QED BY <1>11, <3>1, <3>2
  <2>6. \A s \in procStoring' :
          /\ ProcSays(s.id, s.status)'
          /\ \A j \in 1..Len(procBack') : procBack'[j].id = s.id => procBack'[j].status \in {s.status, "error"}
          /\ \A q \in procStoring' : q.id = s.id => q.status = s.status
    <3>1. procStoring' \subseteq procStoring \cup {n} /\ (procStoring' # procStoring => res.status \in ProcFinal)
      BY <1>3, <1>6
    <3>2. \A s \in procStoring : s.id = p /\ procStoring' # procStoring => s.status = n.status
      BY <1>7, <1>10, <2>2, <3>1
    <3>3. \A s \in procStoring :
          /\ ProcSays(s.id, s.status)'
          /\ \A j \in 1..Len(procBack') : procBack'[j].id = s.id => procBack'[j].status \in {s.status, "error"}
          /\ \A q \in procStoring : q.id = s.id => q.status = s.status
      BY <1>3, <1>9, <2>4 DEF ProcOneOutcome, ProcSays
    <3>4. procStoring' # procStoring =>
          /\ ProcSays(n.id, n.status)'
          /\ \A j \in 1..Len(procBack') : procBack'[j].id = n.id => procBack'[j].status \in {n.status, "error"}
      BY <1>3, <1>7, <2>1, <2>4, <3>1 DEF ProcSays
    <3> QED BY <1>7, <3>1, <3>2, <3>3, <3>4
  <2>7. ASSUME NEW i \in 1..Len(procBack'), procBack'[i].status \in ProcFinal
        PROVE  /\ ProcSays(procBack[i].id, procBack[i].status)'
               /\ \A j \in i..Len(procBack') : procBack'[j].id = procBack'[i].id => procBack'[j].status \in {procBack'[i].status, "error"}
    <3>1. /\ ProcSays(procBack[i + 1].id, procBack[i + 1].status)
          /\ \A j \in (i + 1)..Len(procBack) : procBack[j].id = procBack[i + 1].id => procBack[j].status \in {procBack[i + 1].status, "error"}
      BY <1>9, <2>4, <2>7 DEF ProcOneOutcome
    <3>2. \A j \in i..Len(procBack') : procBack'[j] = procBack[j + 1] /\ j + 1 \in (i + 1)..Len(procBack)
      BY <1>4
    <3> QED BY <1>3, <2>4, <3>1, <3>2 DEF ProcSays
  <2> QED BY <2>5, <2>6, <2>7 DEF ProcOneOutcome
<1>20. ProcNoneUnknown'
  <2>1. ASSUME NEW q \in ProcIds, ProcRunning(q)', procRow'[q] = "none"
        PROVE  \E i \in 1..Len(procBack') : procBack'[i].op = "start" /\ procBack'[i].id = q
    <3>1. procRow[q] = "none" /\ procEntry[q] = "running"
      BY <1>3, <1>12, <2>1 DEF ProcRunning
    <3>2. PICK i \in 1..Len(procBack) : procBack[i].op = "start" /\ procBack[i].id = q
      BY <1>9, <3>1 DEF ProcNoneUnknown, ProcRunning
    <3>3. i # 1
      <4>1. CASE i = 1
        <5>1. p = q /\ res.op = "start" /\ res.status # "error"
          BY <1>2, <1>4, <1>9, <3>1, <3>2, <4>1 DEF ProcStartsOnce
        <5>2. procRow'[q] = res.status
          BY <1>3, <1>5, <1>9, <5>1
        <5> QED BY <1>5, <1>10, <2>1, <5>2
      <4> QED BY <4>1
    <3>4. i - 1 \in 1..Len(procBack') /\ procBack'[i - 1] = procBack[i]
      BY <1>4, <3>3
    <3> QED BY <3>2, <3>4
  <2> QED BY <2>1 DEF ProcNoneUnknown
<1>21. ProcFew'
  BY <1>3, ProcFewStays DEF ProcInv
<1> QED BY <1>8, <1>17, <1>18, <1>19, <1>20, <1>21 DEF ProcInv

LEMMA ProcStoredStep == ASSUME ProcInv, NEW s \in procStoring, ProcStored(s) PROVE ProcInv'
<1>1. PICK p : p = s.id
  OBVIOUS
<1>2. /\ procStoring' = procStoring \ {s} /\ procRow' = [procRow EXCEPT ![p] = s.status]
      /\ procDown' = procDown /\ procBack' = procBack /\ procOpening' = procOpening /\ procEntry' = procEntry
  BY <1>1 DEF ProcStored, ProcRunner
<1>3. ProcShape /\ ProcStartsOnce /\ ProcAsksKnown /\ ProcOneOutcome /\ ProcNoneUnknown
      /\ procRow \in [ProcIds -> ProcStatus \cup {"none", "interrupted"}]
  BY DEF ProcInv, ProcShape
<1>4. p \in ProcIds /\ s.status \in ProcFinal /\ procRow[p] # "none" /\ s.status \in ProcStatus /\ s.status # "none"
  BY <1>1, <1>3, ProcMessages DEF ProcAsksKnown, ProcStatus, ProcFinal
<1>5. /\ \A i \in 1..Len(procDown) : procDown[i].op # "cancel-run" => procDown[i].id \in ProcIds
      /\ \A i \in 1..Len(procBack) : procBack[i].id \in ProcIds
      /\ \A q \in procStoring : q.id \in ProcIds
      /\ procOpening \subseteq ProcIds
  BY <1>3, ProcMessages DEF ProcShape
<1>6. ProcShape'
  BY <1>2, <1>3, <1>4 DEF ProcShape
<1>7. \A q \in ProcIds : procRow'[q] = "none" <=> procRow[q] = "none"
  BY <1>2, <1>3, <1>4
<1>8. ProcStartsOnce'
  BY <1>2, <1>3, <1>5, <1>7 DEF ProcStartsOnce, ProcUnborn
<1>9. ProcAsksKnown'
  BY <1>2, <1>3, <1>5, <1>7 DEF ProcAsksKnown
<1>10. ProcOneOutcome'
  <2>1. /\ ProcSays(p, s.status)
        /\ \A j \in 1..Len(procBack) : procBack[j].id = p => procBack[j].status \in {s.status, "error"}
        /\ \A q \in procStoring : q.id = p => q.status = s.status
    BY <1>1, <1>3 DEF ProcOneOutcome
  <2>2. \A q \in ProcIds : IF q = p THEN procRow'[q] = s.status ELSE procRow'[q] = procRow[q]
    BY <1>2, <1>3, <1>4
  <2>3. \A q \in ProcIds : procRow'[q] \in ProcFinal =>
          /\ ProcSays(q, procRow[q])'
          /\ \A j \in 1..Len(procBack') : procBack'[j].id = q => procBack'[j].status \in {procRow'[q], "error"}
          /\ \A r \in procStoring' : r.id = q => r.status = procRow'[q]
    BY <1>2, <1>3, <2>1, <2>2 DEF ProcOneOutcome, ProcSays
  <2> QED BY <1>2, <1>3, <2>3 DEF ProcOneOutcome, ProcSays
<1>11. ProcNoneUnknown'
  BY <1>2, <1>3, <1>7 DEF ProcNoneUnknown, ProcRunning
<1>12. ProcFew'
  BY <1>2, ProcFewStays DEF ProcInv
<1> QED BY <1>6, <1>8, <1>9, <1>10, <1>11, <1>12 DEF ProcInv

-----------------------------------------------------------------------------
(* The Tool Runner. *)

\* An entry that has ended says what it said, or is forgotten.
ProcEntriesSettle ==
    \A p \in ProcIds : /\ procEntry[p] \in ProcFinal => procEntry'[p] \in {procEntry[p], "none"}
                       /\ procEntry[p] = "none" => procEntry'[p] = "none"
                       /\ procEntry'[p] = "running" => procEntry[p] = "running"

LEMMA ProcSaysStill ==
    ASSUME ProcEntriesSettle, NEW p \in ProcIds, NEW f \in ProcFinal, ProcSays(p, f)
    PROVE  ProcSays(p, f)'
  BY DEF ProcEntriesSettle, ProcSays

LEMMA ProcFewer ==
    ASSUME ProcFew, ProcEntriesSettle
    PROVE  ProcFew'
<1>1. ProcRunningSet' \subseteq ProcRunningSet
  BY DEF ProcEntriesSettle, ProcRunningSet, ProcRunning
<1>2. IsFiniteSet(ProcRunningSet') /\ Cardinality(ProcRunningSet') <= Cardinality(ProcRunningSet)
  BY <1>1, FS_Subset DEF ProcFew
<1>3. Cardinality(ProcRunningSet') \in Nat /\ Cardinality(ProcRunningSet) \in Nat /\ ProcLimit \in Nat
  BY <1>2, FS_CardinalityType, ProcAssumption DEF ProcFew
<1> QED BY <1>2, <1>3 DEF ProcFew

\* The first k commands are gone.
ProcDownFrom(k) ==
    /\ procDown' \in Seq(ProcCommands)
    /\ \A i \in 1..Len(procDown') : procDown'[i] = procDown[i + k] /\ i + k \in 1..Len(procDown)

LEMMA ProcDownStays == ProcShape /\ procDown' = procDown => ProcDownFrom(0)
  BY DEF ProcShape, ProcDownFrom

LEMMA ProcDownStartsOnce ==
    ASSUME ProcShape, ProcStartsOnce, NEW k \in Nat, ProcDownFrom(k), NEW i \in 1..Len(procDown'), procDown'[i].op = "start",
           NEW p, p = procDown'[i].id
    PROVE  /\ ProcUnborn(p) /\ p \notin procOpening /\ p \in ProcIds
           /\ \A j \in 1..Len(procDown') : procDown'[j].op = "start" /\ procDown'[j].id = p => j = i
<1>1. procDown'[i] = procDown[i + k] /\ i + k \in 1..Len(procDown)
  BY DEF ProcDownFrom
<1>2. /\ ProcUnborn(p) /\ p \notin procOpening
      /\ \A j \in 1..Len(procDown) : procDown[j].op = "start" /\ procDown[j].id = p => j = i + k
  BY <1>1 DEF ProcStartsOnce
<1>3. p \in ProcIds
  BY <1>1, ProcMessages
<1>4. ASSUME NEW j \in 1..Len(procDown'), procDown'[j].op = "start", procDown'[j].id = p PROVE j = i
  <2>1. procDown'[j] = procDown[j + k] /\ j + k \in 1..Len(procDown)
    BY DEF ProcDownFrom
  <2>2. j + k = i + k
    BY <1>2, <1>4, <2>1
  <2>3. i \in Nat /\ j \in Nat
    BY DEF ProcDownFrom
  <2> QED BY <2>2, <2>3
<1> QED BY <1>2, <1>3, <1>4

LEMMA ProcDownKnown ==
    ASSUME ProcAsksKnown, NEW k \in Nat, ProcDownFrom(k), procRow' = procRow
    PROVE  \A i \in 1..Len(procDown') : procDown'[i].op \in {"poll", "stop"} => procRow'[procDown'[i].id] # "none"
  BY DEF ProcAsksKnown, ProcDownFrom

\* Entries end or are forgotten, and nothing else happens.
LEMMA ProcSettleStep ==
    ASSUME ProcInv, ProcEntriesSettle, procEntry' \in [ProcIds -> ProcStatus \cup {"none"}],
           NEW k \in Nat, ProcDownFrom(k), UNCHANGED <<procBack, procOpening, procRow, procStoring>>
    PROVE  ProcInv'
<1>1. ProcShape /\ ProcStartsOnce /\ ProcAsksKnown /\ ProcOneOutcome /\ ProcNoneUnknown /\ ProcFew
  BY DEF ProcInv
<1>2. /\ \A i \in 1..Len(procDown) : procDown[i].op # "cancel-run" => procDown[i].id \in ProcIds
      /\ \A i \in 1..Len(procBack) : procBack[i].id \in ProcIds
      /\ \A q \in procStoring : q.id \in ProcIds /\ q.status \in ProcFinal
      /\ procOpening \subseteq ProcIds
  BY <1>1, ProcMessages DEF ProcShape
<1>3. ProcShape'
  BY <1>1 DEF ProcShape, ProcDownFrom
<1>4. ProcStartsOnce'
  <2>1. \A q \in ProcIds : ProcUnborn(q) => ProcUnborn(q)'
    BY DEF ProcUnborn, ProcEntriesSettle
  <2>2. ASSUME NEW i \in 1..Len(procDown'), procDown'[i].op = "start", NEW p, p = procDown'[i].id
        PROVE  /\ ProcUnborn(p)' /\ p \notin procOpening'
               /\ \A j \in 1..Len(procDown') : procDown'[j].op = "start" /\ procDown'[j].id = p => j = i
    BY <1>1, <2>1, <2>2, ProcDownStartsOnce
  <2>3. \A q \in procOpening' : ProcUnborn(q)'
    BY <1>1, <1>2, <2>1 DEF ProcStartsOnce
  <2>4. \A j \in 1..Len(procBack') : procBack'[j].op = "start" =>
          /\ procBack'[j].status \in {"running", "error"} /\ procRow'[procBack'[j].id] = "none"
          /\ procBack'[j].status = "error" => procEntry'[procBack'[j].id] = "none"
          /\ \A m \in 1..Len(procBack') : procBack'[m].id = procBack'[j].id => m = j
    BY <1>1, <1>2 DEF ProcStartsOnce, ProcEntriesSettle
  <2> QED BY <2>2, <2>3, <2>4 DEF ProcStartsOnce, ProcUnborn
<1>5. ProcAsksKnown'
  BY <1>1, ProcDownKnown DEF ProcAsksKnown
<1>6. ProcOneOutcome'
  <2>1. \A q \in ProcIds : procRow[q] \in ProcFinal => ProcSays(q, procRow[q])'
    BY <1>1, ProcSaysStill DEF ProcOneOutcome
  <2>2. \A s \in procStoring : ProcSays(s.id, s.status)'
    BY <1>1, <1>2, ProcSaysStill DEF ProcOneOutcome
  <2>3. \A i \in 1..Len(procBack) : procBack[i].status \in ProcFinal => ProcSays(procBack[i].id, procBack[i].status)'
    BY <1>1, <1>2, ProcSaysStill DEF ProcOneOutcome
  <2> QED BY <1>1, <2>1, <2>2, <2>3 DEF ProcOneOutcome, ProcSays
<1>7. ProcNoneUnknown'
  BY <1>1 DEF ProcNoneUnknown, ProcEntriesSettle, ProcRunning
<1>8. ProcFew'
  BY <1>1, ProcFewer
<1> QED BY <1>3, <1>4, <1>5, <1>6, <1>7, <1>8 DEF ProcInv

LEMMA ProcEndsStep ==
    ASSUME ProcInv, NEW p \in ProcIds,
           \/ \E status \in {"succeeded", "failed"} : ProcExits(p, status)
           \/ ProcGivenUp(p) \/ ProcForgotten(p)
    PROVE  ProcInv'
<1>1. procEntry \in [ProcIds -> ProcStatus \cup {"none"}]
  BY DEF ProcInv, ProcShape
<1>2. PICK n : /\ procEntry' = [procEntry EXCEPT ![p] = n]
               /\ \/ procEntry[p] = "running" /\ n \in {"succeeded", "failed"}
                  \/ n = procEntry[p]
                  \/ procEntry[p] \in ProcFinal /\ n = "none"
  <2>1. CASE ProcGivenUp(p)
    BY <2>1 DEF ProcGivenUp, ProcRunning
  <2>2. CASE ProcForgotten(p)
    BY <2>2 DEF ProcForgotten
  <2>3. ASSUME NEW status \in {"succeeded", "failed"}, ProcExits(p, status)
        PROVE  \E n : /\ procEntry' = [procEntry EXCEPT ![p] = n]
                      /\ \/ procEntry[p] = "running" /\ n \in {"succeeded", "failed"}
                         \/ n = procEntry[p]
    <3>1. procEntry' = [procEntry EXCEPT ![p] = ProcOutcome(p, status)]
      BY <2>3 DEF ProcExits
    <3>2. CASE procEntry[p] = "running"
      <4>1. ProcOutcome(p, status) = status
        BY <3>2 DEF ProcOutcome, ProcRunning
      <4> QED BY <3>1, <3>2, <4>1
    <3>3. CASE procEntry[p] # "running"
      <4>1. ProcOutcome(p, status) = procEntry[p]
        BY <3>3 DEF ProcOutcome, ProcRunning
      <4> QED BY <3>1, <4>1
    <3> QED BY <3>2, <3>3
  <2> QED BY <2>1, <2>2, <2>3
<1>3. n \in ProcStatus \cup {"none"}
  BY <1>1, <1>2 DEF ProcStatus, ProcFinal
<1>4. procEntry' \in [ProcIds -> ProcStatus \cup {"none"}]
  BY <1>1, <1>2, <1>3
<1>5. ProcEntriesSettle
  BY <1>1, <1>2 DEF ProcEntriesSettle, ProcFinal
<1>6. UNCHANGED <<procBack, procOpening, procRow, procStoring>> /\ procDown' = procDown
  BY DEF ProcExits, ProcGivenUp, ProcForgotten, ProcTable
<1>7. ProcDownFrom(0)
  BY <1>6, ProcDownStays DEF ProcInv
<1> QED BY <1>4, <1>5, <1>6, <1>7, ProcSettleStep

LEMMA ProcQuietStep ==
    ASSUME ProcInv, UNCHANGED <<procDown, procBack, procOpening, procEntry, procRow, procStoring>>
    PROVE  ProcInv'
<1>1. ProcEntriesSettle /\ procEntry' \in [ProcIds -> ProcStatus \cup {"none"}]
  BY DEF ProcEntriesSettle, ProcInv, ProcShape
<1>2. ProcDownFrom(0)
  BY ProcDownStays DEF ProcInv
<1> QED BY <1>1, <1>2, ProcSettleStep

\* A reply that says what the entry says joins the queue.
LEMMA ProcReplyStep ==
    ASSUME ProcInv, ProcEntriesSettle, procEntry' \in [ProcIds -> ProcStatus \cup {"none"}],
           NEW k \in Nat, ProcDownFrom(k), UNCHANGED <<procOpening, procRow, procStoring>>,
           NEW x \in ProcReplyType, procBack' = Append(procBack, x), x.op \in {"poll", "stop"}, procRow[x.id] # "none",
           x.status = procEntry'[x.id] \/ x.status = "error"
    PROVE  ProcInv'
<1>1. ProcShape /\ ProcStartsOnce /\ ProcAsksKnown /\ ProcOneOutcome /\ ProcNoneUnknown /\ ProcFew
  BY DEF ProcInv
<1>2. /\ \A i \in 1..Len(procBack) : procBack[i].id \in ProcIds
      /\ \A q \in procStoring : q.id \in ProcIds /\ q.status \in ProcFinal
      /\ procOpening \subseteq ProcIds
  BY <1>1, ProcMessages DEF ProcShape
<1>3. /\ procBack' \in Seq(ProcReplyType) /\ Len(procBack') = Len(procBack) + 1 /\ Len(procBack) \in Nat
      /\ procBack'[Len(procBack) + 1] = x
      /\ \A i \in 1..Len(procBack) : procBack'[i] = procBack[i]
      /\ \A i \in 1..Len(procBack') : i \in 1..Len(procBack) \/ i = Len(procBack) + 1
  BY <1>1, ProcAppended DEF ProcShape
<1>4. PICK p : p = x.id
  OBVIOUS
<1>5. p \in ProcIds /\ x.status \in ProcStatus \cup {"error"}
  BY <1>4 DEF ProcReplyType
<1>6. ProcShape'
  BY <1>1, <1>3 DEF ProcShape, ProcDownFrom
<1>7. ProcStartsOnce'
  <2>1. \A q \in ProcIds : ProcUnborn(q) => ProcUnborn(q)'
    BY <1>3, <1>4 DEF ProcUnborn, ProcEntriesSettle
  <2>2. ASSUME NEW i \in 1..Len(procDown'), procDown'[i].op = "start", NEW q, q = procDown'[i].id
        PROVE  /\ ProcUnborn(q)' /\ q \notin procOpening'
               /\ \A j \in 1..Len(procDown') : procDown'[j].op = "start" /\ procDown'[j].id = q => j = i
    BY <1>1, <2>1, <2>2, ProcDownStartsOnce
  <2>3. \A q \in procOpening' : ProcUnborn(q)'
    BY <1>1, <1>2, <2>1 DEF ProcStartsOnce
  <2>4. ASSUME NEW j \in 1..Len(procBack'), procBack'[j].op = "start"
        PROVE  /\ procBack'[j].status \in {"running", "error"} /\ procRow'[procBack'[j].id] = "none"
               /\ procBack'[j].status = "error" => procEntry'[procBack'[j].id] = "none"
               /\ \A m \in 1..Len(procBack') : procBack'[m].id = procBack'[j].id => m = j
    <3>1. j \in 1..Len(procBack) /\ procBack'[j] = procBack[j]
      BY <1>3, <2>4
    <3>2. /\ procBack[j].status \in {"running", "error"} /\ procRow[procBack[j].id] = "none"
          /\ procBack[j].status = "error" => procEntry[procBack[j].id] = "none"
          /\ \A m \in 1..Len(procBack) : procBack[m].id = procBack[j].id => m = j
      BY <1>1, <2>4, <3>1 DEF ProcStartsOnce
    <3>3. p # procBack[j].id
      BY <1>4, <3>2
    <3>4. procBack'[j].status = "error" => procEntry'[procBack'[j].id] = "none"
      BY <1>2, <3>1, <3>2 DEF ProcEntriesSettle
    <3>5. \A m \in 1..Len(procBack') : procBack'[m].id = procBack'[j].id => m = j
      BY <1>3, <1>4, <3>1, <3>2, <3>3
    <3> QED BY <3>1, <3>2, <3>4, <3>5
  <2> QED BY <2>2, <2>3, <2>4 DEF ProcStartsOnce, ProcUnborn
<1>8. ProcAsksKnown'
  <2>1. \A j \in 1..Len(procBack') : procBack'[j].op \in {"poll", "stop"} => procRow'[procBack'[j].id] # "none"
    BY <1>1, <1>3 DEF ProcAsksKnown
  <2> QED BY <1>1, <2>1, ProcDownKnown DEF ProcAsksKnown
<1>9. ProcOneOutcome'
  \* The new reply says what was said of p.
  <2>1. ASSUME NEW f \in ProcFinal, ProcSays(p, f) PROVE x.status \in {f, "error"} \/ x.status = "none"
    BY <1>4, <2>1, ProcSaysStill, <1>5 DEF ProcSays
  <2>2. "none" \notin ProcStatus \cup {"error"}
    BY DEF ProcStatus, ProcFinal
  <2>3. ASSUME NEW q \in ProcIds, procRow'[q] \in ProcFinal
        PROVE  /\ ProcSays(q, procRow[q])'
               /\ \A j \in 1..Len(procBack') : procBack'[j].id = q => procBack'[j].status \in {procRow'[q], "error"}
               /\ \A s \in procStoring' : s.id = q => s.status = procRow'[q]
    <3>1. /\ ProcSays(q, procRow[q])
          /\ \A j \in 1..Len(procBack) : procBack[j].id = q => procBack[j].status \in {procRow[q], "error"}
          /\ \A s \in procStoring : s.id = q => s.status = procRow[q]
      BY <1>1, <2>3 DEF ProcOneOutcome
    <3>2. ProcSays(q, procRow[q])'
      BY <2>3, <3>1, ProcSaysStill
    <3>3. x.id = q => x.status \in {procRow[q], "error"}
      BY <1>4, <1>5, <2>1, <2>2, <2>3, <3>1
    <3> QED BY <1>3, <3>1, <3>2, <3>3
  <2>4. ASSUME NEW s \in procStoring
        PROVE  /\ ProcSays(s.id, s.status)'
               /\ \A j \in 1..Len(procBack') : procBack'[j].id = s.id => procBack'[j].status \in {s.status, "error"}
               /\ \A q \in procStoring' : q.id = s.id => q.status = s.status
    <3>1. /\ ProcSays(s.id, s.status)
          /\ \A j \in 1..Len(procBack) : procBack[j].id = s.id => procBack[j].status \in {s.status, "error"}
          /\ \A q \in procStoring : q.id = s.id => q.status = s.status
      BY <1>1 DEF ProcOneOutcome
    <3>2. ProcSays(s.id, s.status)'
      BY <1>2, <3>1, ProcSaysStill
    <3>3. x.id = s.id => x.status \in {s.status, "error"}
      BY <1>2, <1>4, <1>5, <2>1, <2>2, <3>1
    <3> QED BY <1>3, <3>1, <3>2, <3>3
  <2>5. ASSUME NEW i \in 1..Len(procBack'), procBack'[i].status \in ProcFinal, NEW q, q = procBack'[i].id,
               NEW f, f = procBack'[i].status
        PROVE  /\ ProcSays(q, f)'
               /\ \A j \in i..Len(procBack') : procBack'[j].id = q => procBack'[j].status \in {f, "error"}
    <3>1. CASE i \in 1..Len(procBack)
      <4>1. procBack[i].status = f /\ procBack[i].id = q /\ f \in ProcFinal /\ q \in ProcIds
        BY <1>2, <1>3, <2>5, <3>1
      <4>2. /\ ProcSays(q, f)
            /\ \A j \in i..Len(procBack) : procBack[j].id = q => procBack[j].status \in {f, "error"}
        BY <1>1, <3>1, <4>1 DEF ProcOneOutcome
      <4>3. ProcSays(q, f)'
        BY <4>1, <4>2, ProcSaysStill
      <4>4. x.id = q => x.status \in {f, "error"}
        BY <1>4, <1>5, <2>1, <2>2, <4>1, <4>2
      <4>5. \A j \in i..Len(procBack') : j = Len(procBack) + 1 \/ (j \in i..Len(procBack) /\ procBack'[j] = procBack[j])
        BY <1>3, <3>1
      <4> QED BY <1>3, <4>2, <4>3, <4>4, <4>5
    <3>2. CASE i = Len(procBack) + 1
      <4>1. f = x.status /\ q = p /\ f # "error" /\ procEntry'[p] = f
        BY <1>3, <1>4, <2>5, <3>2 DEF ProcFinal
      <4>2. \A j \in i..Len(procBack') : j = i
        BY <1>3, <3>2
      <4> QED BY <2>5, <4>1, <4>2 DEF ProcSays
    <3> QED BY <1>3, <3>1, <3>2
  <2> QED BY <2>3, <2>4, <2>5 DEF ProcOneOutcome, ProcSays
<1>10. ProcNoneUnknown'
  BY <1>1, <1>3 DEF ProcNoneUnknown, ProcEntriesSettle, ProcRunning
<1>11. ProcFew'
  BY <1>1, ProcFewer
<1> QED BY <1>6, <1>7, <1>8, <1>9, <1>10, <1>11 DEF ProcInv

LEMMA ProcStoppingSettles ==
    ASSUME ProcShape, NEW S, ProcStopping(S)
    PROVE  ProcEntriesSettle /\ procEntry' \in [ProcIds -> ProcStatus \cup {"none"}]
<1>1. procEntry' = [p \in ProcIds |-> IF p \in S /\ ProcRunning(p) THEN "stopped" ELSE procEntry[p]]
  BY DEF ProcStopping
<1>2. procEntry \in [ProcIds -> ProcStatus \cup {"none"}]
  BY DEF ProcShape
<1> QED BY <1>1, <1>2 DEF ProcEntriesSettle, ProcRunning, ProcStatus, ProcFinal

LEMMA ProcTakeStep == ASSUME ProcInv, ProcTake PROVE ProcInv'
<1>1. PICK cmd : cmd = Head(procDown)
  OBVIOUS
<1>2. /\ procDown # <<>> /\ procDown' = Tail(procDown) /\ procRow' = procRow /\ procStoring' = procStoring
  BY DEF ProcTake, ProcTable
<1>3. ProcShape /\ ProcStartsOnce /\ ProcAsksKnown /\ ProcOneOutcome /\ ProcNoneUnknown /\ ProcFew
  BY DEF ProcInv
<1>4. /\ procDown' \in Seq(ProcCommands) /\ cmd = procDown[1] /\ cmd \in ProcCommands /\ 1 \in 1..Len(procDown)
      /\ \A i \in 1..Len(procDown') : procDown'[i] = procDown[i + 1] /\ i + 1 \in 1..Len(procDown) /\ i + 1 # 1
  BY <1>1, <1>2, <1>3, ProcTaken DEF ProcShape
<1>5. ProcDownFrom(1)
  BY <1>4 DEF ProcDownFrom
<1>6. cmd.op \in {"start", "poll", "stop", "cancel-run"} /\ (cmd.op # "cancel-run" => cmd.id \in ProcIds)
  BY <1>4 DEF ProcCommands
<1>7. procEntry \in [ProcIds -> ProcStatus \cup {"none"}]
  BY <1>3 DEF ProcShape
<1>8. CASE cmd.op = "start"
  <2>1. PICK p : p = cmd.id
    OBVIOUS
  <2>2. /\ procOpening' = procOpening \cup {p} /\ procBack' = procBack /\ procEntry' = procEntry
    BY <1>1, <1>8, <2>1 DEF ProcTake
  <2>3. p \in ProcIds /\ ProcUnborn(p)
    BY <1>3, <1>4, <1>6, <1>8, <2>1 DEF ProcStartsOnce
  <2>4. \A q \in ProcIds : ProcUnborn(q) => ProcUnborn(q)'
    BY <1>2, <2>2 DEF ProcUnborn
  <2>5. ASSUME NEW i \in 1..Len(procDown'), procDown'[i].op = "start", NEW q, q = procDown'[i].id
        PROVE  /\ ProcUnborn(q)' /\ q \notin procOpening'
               /\ \A j \in 1..Len(procDown') : procDown'[j].op = "start" /\ procDown'[j].id = q => j = i
    <3>1. /\ ProcUnborn(q) /\ q \notin procOpening /\ q \in ProcIds
          /\ \A j \in 1..Len(procDown') : procDown'[j].op = "start" /\ procDown'[j].id = q => j = i
      BY <1>3, <1>5, <2>5, ProcDownStartsOnce
    <3>2. procDown'[i] = procDown[i + 1] /\ i + 1 \in 1..Len(procDown) /\ i + 1 # 1
      BY <1>4
    <3>3. q # p
      BY <1>3, <1>4, <1>8, <2>1, <2>5, <3>2 DEF ProcStartsOnce
    <3> QED BY <2>2, <2>4, <3>1, <3>3
  <2>6. \A q \in procOpening' : ProcUnborn(q)'
    BY <1>3, <2>2, <2>3, <2>4 DEF ProcStartsOnce, ProcShape
  <2>7. \A j \in 1..Len(procBack') : procBack'[j].op = "start" =>
          /\ procBack'[j].status \in {"running", "error"} /\ procRow'[procBack'[j].id] = "none"
          /\ procBack'[j].status = "error" => procEntry'[procBack'[j].id] = "none"
          /\ \A m \in 1..Len(procBack') : procBack'[m].id = procBack'[j].id => m = j
    BY <1>2, <1>3, <2>2 DEF ProcStartsOnce
  <2>8. ProcStartsOnce'
    BY <2>5, <2>6, <2>7 DEF ProcStartsOnce, ProcUnborn
  <2>9. ProcShape'
    BY <1>2, <1>3, <1>4, <2>2, <2>3 DEF ProcShape
  <2>10. ProcAsksKnown'
    BY <1>2, <1>3, <1>5, <2>2, ProcDownKnown DEF ProcAsksKnown
  <2>11. ProcOneOutcome'
    BY <1>2, <1>3, <2>2 DEF ProcOneOutcome, ProcSays
  <2>12. ProcNoneUnknown'
    BY <1>2, <1>3, <2>2 DEF ProcNoneUnknown, ProcRunning
  <2>13. ProcFew'
    BY <1>3, <2>2, ProcFewStays
  <2> QED BY <2>8, <2>9, <2>10, <2>11, <2>12, <2>13 DEF ProcInv
<1>9. CASE cmd.op = "cancel-run"
  <2>1. ProcStopping(ProcIds) /\ procBack' = procBack /\ procOpening' = procOpening
    BY <1>1, <1>9 DEF ProcTake
  <2> QED BY <1>2, <1>3, <1>5, <2>1, ProcStoppingSettles, ProcSettleStep
<1>10. CASE cmd.op = "stop"
  <2>1. PICK p : p = cmd.id
    OBVIOUS
  <2>2. p \in ProcIds /\ procRow[p] # "none"
    BY <1>3, <1>4, <1>6, <1>10, <2>1 DEF ProcAsksKnown
  <2>3. PICK said : said = IF procEntry[p] = "none" THEN "error" ELSE IF ProcRunning(p) THEN "stopped" ELSE procEntry[p]
    OBVIOUS
  <2>4. PICK x : x = [op |-> "stop", id |-> p, status |-> said]
    OBVIOUS
  <2>5. /\ ProcStopping({p}) /\ procOpening' = procOpening /\ procBack' = Append(procBack, x)
    BY <1>1, <1>10, <2>1, <2>3, <2>4 DEF ProcTake, ProcReplies
  <2>6. procEntry' = [q \in ProcIds |-> IF q \in {p} /\ ProcRunning(q) THEN "stopped" ELSE procEntry[q]]
    BY <2>5 DEF ProcStopping
  <2>7. said = procEntry'[p] \/ said = "error"
    BY <2>2, <2>3, <2>6
  <2>8. said \in ProcStatus \cup {"error"}
    BY <1>7, <2>2, <2>3 DEF ProcStatus, ProcFinal
  <2>9. x \in ProcReplyType /\ x.op = "stop" /\ x.id = p /\ x.status = said
    BY <2>2, <2>4, <2>8 DEF ProcReplyType
  <2>10. ProcEntriesSettle /\ procEntry' \in [ProcIds -> ProcStatus \cup {"none"}]
    BY <1>3, <2>5, ProcStoppingSettles
  <2> QED BY <1>2, <1>5, <2>2, <2>5, <2>7, <2>9, <2>10, ProcReplyStep
<1>11. CASE cmd.op = "poll"
  <2>1. PICK p : p = cmd.id
    OBVIOUS
  <2>2. p \in ProcIds /\ procRow[p] # "none"
    BY <1>3, <1>4, <1>6, <1>11, <2>1 DEF ProcAsksKnown
  <2>3. PICK said : said = IF procEntry[p] = "none" THEN "error" ELSE procEntry[p]
    OBVIOUS
  <2>4. PICK x : x = [op |-> "poll", id |-> p, status |-> said]
    OBVIOUS
  <2>5. /\ procEntry' = procEntry /\ procOpening' = procOpening /\ procBack' = Append(procBack, x)
    BY <1>1, <1>11, <2>1, <2>3, <2>4 DEF ProcTake, ProcReplies
  <2>6. said \in ProcStatus \cup {"error"} /\ (said = procEntry'[p] \/ said = "error")
    BY <1>7, <2>2, <2>3, <2>5
  <2>7. x \in ProcReplyType /\ x.op = "poll" /\ x.id = p /\ x.status = said
    BY <2>2, <2>4, <2>6 DEF ProcReplyType
  <2>8. ProcEntriesSettle /\ procEntry' \in [ProcIds -> ProcStatus \cup {"none"}]
    BY <1>7, <2>5 DEF ProcEntriesSettle
  <2> QED BY <1>2, <1>5, <2>2, <2>5, <2>6, <2>7, <2>8, ProcReplyStep
<1> QED BY <1>6, <1>8, <1>9, <1>10, <1>11

\* Of a process that is being started nobody has said anything yet.
LEMMA ProcSpawnStep == ASSUME ProcInv, NEW p \in ProcIds, ProcSpawn(p) PROVE ProcInv'
<1>1. ProcShape /\ ProcStartsOnce /\ ProcAsksKnown /\ ProcOneOutcome /\ ProcNoneUnknown /\ ProcFew
  BY DEF ProcInv
<1>2. /\ \A i \in 1..Len(procBack) : procBack[i].id \in ProcIds
      /\ \A q \in procStoring : q.id \in ProcIds /\ q.status \in ProcFinal
      /\ procOpening \subseteq ProcIds /\ procEntry \in [ProcIds -> ProcStatus \cup {"none"}]
  BY <1>1, ProcMessages DEF ProcShape
<1>3. PICK said : said = IF ProcMany THEN "error" ELSE "running"
  OBVIOUS
<1>4. PICK x : x = [op |-> "start", id |-> p, status |-> said]
  OBVIOUS
<1>5. x \in ProcReplyType /\ x.op = "start" /\ x.id = p /\ x.status = said
  BY <1>3, <1>4 DEF ProcReplyType, ProcStatus
<1>6. /\ p \in procOpening /\ procOpening' = procOpening \ {p} /\ procBack' = Append(procBack, x)
      /\ procEntry' = IF ProcMany THEN procEntry ELSE [procEntry EXCEPT ![p] = "running"]
      /\ procDown' = procDown /\ procRow' = procRow /\ procStoring' = procStoring
  BY <1>3, <1>4 DEF ProcSpawn, ProcReplies, ProcTable
<1>7. procEntry[p] = "none" /\ procRow[p] = "none" /\ \A j \in 1..Len(procBack) : procBack[j].id # p
  BY <1>1, <1>6 DEF ProcStartsOnce, ProcUnborn
<1>8. /\ procBack' \in Seq(ProcReplyType) /\ Len(procBack') = Len(procBack) + 1 /\ Len(procBack) \in Nat
      /\ procBack'[Len(procBack) + 1] = x
      /\ \A i \in 1..Len(procBack) : procBack'[i] = procBack[i]
      /\ \A i \in 1..Len(procBack') : i \in 1..Len(procBack) \/ i = Len(procBack) + 1
  BY <1>1, <1>5, <1>6, ProcAppended DEF ProcShape
<1>9. /\ \A q \in ProcIds : q # p => procEntry'[q] = procEntry[q]
      /\ procEntry'[p] = (IF ProcMany THEN "none" ELSE "running")
      /\ procEntry' \in [ProcIds -> ProcStatus \cup {"none"}]
  <2>1. CASE ProcMany
    BY <1>2, <1>6, <1>7, <2>1
  <2>2. CASE ~ProcMany
    BY <1>2, <1>6, <2>2 DEF ProcStatus
  <2> QED BY <2>1, <2>2
<1>10. ProcShape'
  BY <1>1, <1>2, <1>6, <1>8, <1>9 DEF ProcShape
<1>11. ProcStartsOnce'
  <2>1. \A q \in ProcIds : q # p /\ ProcUnborn(q) => ProcUnborn(q)'
    BY <1>5, <1>6, <1>8, <1>9 DEF ProcUnborn
  <2>2. ProcDownFrom(0)
    BY <1>1, <1>6, ProcDownStays
  <2>3. ASSUME NEW i \in 1..Len(procDown'), procDown'[i].op = "start", NEW q, q = procDown'[i].id
        PROVE  /\ ProcUnborn(q)' /\ q \notin procOpening'
               /\ \A j \in 1..Len(procDown') : procDown'[j].op = "start" /\ procDown'[j].id = q => j = i
    BY <1>1, <1>6, <2>1, <2>2, <2>3, ProcDownStartsOnce
  <2>4. \A q \in procOpening' : ProcUnborn(q)'
    BY <1>1, <1>2, <1>6, <2>1 DEF ProcStartsOnce
  <2>5. ASSUME NEW j \in 1..Len(procBack'), procBack'[j].op = "start"
        PROVE  /\ procBack'[j].status \in {"running", "error"} /\ procRow'[procBack'[j].id] = "none"
               /\ procBack'[j].status = "error" => procEntry'[procBack'[j].id] = "none"
               /\ \A m \in 1..Len(procBack') : procBack'[m].id = procBack'[j].id => m = j
    <3>1. CASE j \in 1..Len(procBack)
      <4>1. procBack'[j] = procBack[j] /\ procBack[j].id # p /\ procBack[j].id \in ProcIds
        BY <1>2, <1>7, <1>8, <3>1
      <4>2. /\ procBack[j].status \in {"running", "error"} /\ procRow[procBack[j].id] = "none"
            /\ procBack[j].status = "error" => procEntry[procBack[j].id] = "none"
            /\ \A m \in 1..Len(procBack) : procBack[m].id = procBack[j].id => m = j
        BY <1>1, <2>5, <3>1, <4>1 DEF ProcStartsOnce
      <4>3. \A m \in 1..Len(procBack') : procBack'[m].id = procBack'[j].id => m = j
        BY <1>5, <1>8, <4>1, <4>2
      <4> QED BY <1>6, <1>9, <4>1, <4>2, <4>3
    <3>2. CASE j = Len(procBack) + 1
      <4>1. procBack'[j] = x
        BY <1>8, <3>2
      <4>2. \A m \in 1..Len(procBack') : procBack'[m].id = procBack'[j].id => m = j
        BY <1>5, <1>7, <1>8, <3>2, <4>1
      <4>3. x.status \in {"running", "error"} /\ (x.status = "error" => procEntry'[p] = "none")
        BY <1>3, <1>5, <1>9
      <4> QED BY <1>5, <1>6, <1>7, <4>1, <4>2, <4>3
    <3> QED BY <1>8, <3>1, <3>2
  <2> QED BY <2>3, <2>4, <2>5 DEF ProcStartsOnce, ProcUnborn
<1>12. ProcAsksKnown'
  BY <1>1, <1>5, <1>6, <1>8 DEF ProcAsksKnown
<1>13. ProcOneOutcome'
  <2>1. \A s \in procStoring : s.id # p
    BY <1>1, <1>7 DEF ProcAsksKnown
  <2>2. "running" \notin ProcFinal /\ "error" \notin ProcFinal /\ "none" \notin ProcFinal
    BY DEF ProcFinal
  <2>3. ASSUME NEW q \in ProcIds, procRow'[q] \in ProcFinal
        PROVE  /\ ProcSays(q, procRow[q])'
               /\ \A j \in 1..Len(procBack') : procBack'[j].id = q => procBack'[j].status \in {procRow'[q], "error"}
               /\ \A s \in procStoring' : s.id = q => s.status = procRow'[q]
    <3>1. q # p
      BY <1>6, <1>7, <2>2, <2>3
    <3>2. procRow[q] \in ProcFinal
      BY <1>6, <2>3
    <3> QED BY <1>1, <1>5, <1>6, <1>8, <1>9, <3>1, <3>2 DEF ProcOneOutcome, ProcSays
  <2>4. ASSUME NEW s \in procStoring
        PROVE  /\ ProcSays(s.id, s.status)'
               /\ \A j \in 1..Len(procBack') : procBack'[j].id = s.id => procBack'[j].status \in {s.status, "error"}
               /\ \A q \in procStoring' : q.id = s.id => q.status = s.status
    BY <1>1, <1>2, <1>5, <1>6, <1>8, <1>9, <2>1 DEF ProcOneOutcome, ProcSays
  <2>5. ASSUME NEW i \in 1..Len(procBack'), procBack'[i].status \in ProcFinal, NEW q, q = procBack'[i].id,
               NEW f, f = procBack'[i].status
        PROVE  /\ ProcSays(q, f)'
               /\ \A j \in i..Len(procBack') : procBack'[j].id = q => procBack'[j].status \in {f, "error"}
    <3>1. i \in 1..Len(procBack)
      BY <1>3, <1>5, <1>8, <2>2, <2>5
    <3>2. procBack[i].status = f /\ procBack[i].id = q /\ f \in ProcFinal /\ q # p /\ q \in ProcIds
      BY <1>2, <1>7, <1>8, <2>5, <3>1
    <3>3. /\ ProcSays(q, f)
          /\ \A j \in i..Len(procBack) : procBack[j].id = q => procBack[j].status \in {f, "error"}
      BY <1>1, <3>1, <3>2 DEF ProcOneOutcome
    <3>4. \A j \in i..Len(procBack') : procBack'[j] = x \/ (j \in i..Len(procBack) /\ procBack'[j] = procBack[j])
      BY <1>8, <3>1
    <3> QED BY <1>5, <1>9, <3>2, <3>3, <3>4 DEF ProcSays
  <2> QED BY <1>6, <2>3, <2>4, <2>5 DEF ProcOneOutcome, ProcSays
<1>14. ProcNoneUnknown'
  <2>1. ASSUME NEW q \in ProcIds, ProcRunning(q)', procRow'[q] = "none"
        PROVE  \E i \in 1..Len(procBack') : procBack'[i].op = "start" /\ procBack'[i].id = q
    <3>1. CASE q = p
      <4>1. Len(procBack) + 1 \in 1..Len(procBack')
        BY <1>8
      <4> QED BY <1>5, <1>8, <3>1, <4>1
    <3>2. CASE q # p
      <4>1. procRow[q] = "none" /\ procEntry[q] = "running"
        BY <1>6, <1>9, <2>1, <3>2 DEF ProcRunning
      <4>2. PICK i \in 1..Len(procBack) : procBack[i].op = "start" /\ procBack[i].id = q
        BY <1>1, <4>1 DEF ProcNoneUnknown, ProcRunning
      <4> QED BY <1>8, <4>2
    <3> QED BY <3>1, <3>2
  <2> QED BY <2>1 DEF ProcNoneUnknown
<1>15. ProcFew'
  <2>1. CASE ProcMany
    <3>1. procEntry' = procEntry
      BY <1>6, <2>1
    <3> QED BY <1>1, <3>1, ProcFewStays
  <2>2. CASE ~ProcMany
    <3>1. PICK S : S = ProcRunningSet
      OBVIOUS
    <3>2. IsFiniteSet(S) /\ ProcRunningSet' \subseteq S \cup {p}
      BY <1>1, <1>9, <3>1 DEF ProcFew, ProcRunningSet, ProcRunning
    <3>3. Cardinality(S) \in Nat /\ ProcLimit \in Nat
      BY <3>2, FS_CardinalityType, ProcAssumption
    <3>4. ~(Cardinality(S) >= ProcLimit)
      BY <2>2, <3>1 DEF ProcMany, ProcRunningSet
    <3>5. IsFiniteSet(S \cup {p}) /\ (Cardinality(S \cup {p}) = Cardinality(S) \/ Cardinality(S \cup {p}) = Cardinality(S) + 1)
      BY <3>2, FS_AddElement
    <3>6. IsFiniteSet(ProcRunningSet') /\ Cardinality(ProcRunningSet') <= Cardinality(S \cup {p})
      BY <3>2, <3>5, FS_Subset
    <3>7. Cardinality(ProcRunningSet') \in Nat
      BY <3>6, FS_CardinalityType
    <3>8. Cardinality(ProcRunningSet') <= ProcLimit
      BY <3>3, <3>4, <3>5, <3>6, <3>7
    <3> QED BY <3>6, <3>8 DEF ProcFew
  <2> QED BY <2>1, <2>2
<1> QED BY <1>10, <1>11, <1>12, <1>13, <1>14, <1>15 DEF ProcInv

LEMMA ProcInvKept == ProcInv /\ [ProcNext]_procVars => ProcInv'
<1> SUFFICES ASSUME ProcInv, [ProcNext]_procVars PROVE ProcInv'
  OBVIOUS
<1>1. CASE ProcNext
  <2>1. ASSUME NEW p \in ProcIds, ProcStart(p) \/ ProcSpawn(p) \/ ProcGivenUp(p) \/ ProcForgotten(p) PROVE ProcInv'
    BY <2>1, ProcStartStep, ProcSpawnStep, ProcEndsStep
  <2>2. ASSUME NEW p \in ProcIds, NEW op \in {"poll", "stop"}, ProcAsk(p, op) PROVE ProcInv'
    BY <2>2, ProcAskStep
  <2>3. ASSUME NEW p \in ProcIds, NEW status \in {"succeeded", "failed"}, ProcExits(p, status) PROVE ProcInv'
    BY <2>3, ProcEndsStep
  <2>4. CASE ProcPause \/ ProcAnswer \/ ProcTake \/ ProcRunnerDies
    BY <2>4, ProcPauseStep, ProcAnswerStep, ProcTakeStep, ProcRunnerDiesStep
  <2>5. CASE ProcResume
    <3>1. UNCHANGED <<procDown, procBack, procOpening, procEntry, procRow, procStoring>>
      BY <2>5 DEF ProcResume, ProcRunner, ProcTable
    <3> QED BY <3>1, ProcQuietStep
  <2>6. ASSUME NEW s \in procStoring, ProcStored(s) PROVE ProcInv'
    BY <2>6, ProcStoredStep
  <2> QED BY <1>1, <2>1, <2>2, <2>3, <2>4, <2>5, <2>6 DEF ProcNext
<1>2. CASE UNCHANGED procVars
  <2>1. UNCHANGED <<procDown, procBack, procOpening, procEntry, procRow, procStoring>>
    BY <1>2 DEF procVars
  <2> QED BY <2>1, ProcQuietStep
<1> QED BY <1>1, <1>2

\* A row changes in four places, and each says what the row said.
LEMMA ProcRowsStay ==
    ASSUME ProcInv, [ProcNext]_procVars, NEW p \in ProcIds, procRow[p] \in ProcFinal
    PROVE  procRow'[p] = procRow[p]
<1>1. ProcOneOutcome /\ procRow \in [ProcIds -> ProcStatus \cup {"none", "interrupted"}] /\ ProcShape
  BY DEF ProcInv, ProcShape
<1>2. CASE procRow' = procRow
  BY <1>2
<1>3. CASE procRow' = ProcInterrupted
  BY <1>1, <1>3, ProcInterruptedRows
<1>4. CASE ProcAnswer
  <2>1. PICK res : res = Head(procBack)
    OBVIOUS
  <2>2. /\ procBack # <<>>
        /\ procRow' = procRow \/ (res.status # "error" /\ procRow' = [procRow EXCEPT ![res.id] = res.status])
    BY <1>4, <2>1 DEF ProcAnswer, ProcTable
  <2>3. res = procBack[1] /\ 1 \in 1..Len(procBack)
    BY <1>1, <2>1, <2>2, ProcTaken DEF ProcShape
  <2>4. res.id = p => res.status \in {procRow[p], "error"}
    BY <1>1, <2>3 DEF ProcOneOutcome
  <2> QED BY <1>1, <2>2, <2>4
<1>5. ASSUME NEW s \in procStoring, ProcStored(s) PROVE procRow'[p] = procRow[p]
  <2>1. procRow' = [procRow EXCEPT ![s.id] = s.status]
    BY <1>5 DEF ProcStored
  <2>2. s.id = p => s.status = procRow[p]
    BY <1>1 DEF ProcOneOutcome
  <2> QED BY <1>1, <2>1, <2>2
<1>6. \/ procRow' = procRow \/ procRow' = ProcInterrupted \/ ProcAnswer \/ \E s \in procStoring : ProcStored(s)
  <2>1. CASE UNCHANGED procVars
    BY <2>1 DEF procVars
  <2>2. CASE \E q \in ProcIds : ProcStart(q) \/ ProcSpawn(q) \/ ProcGivenUp(q) \/ ProcForgotten(q)
    BY <2>2 DEF ProcStart, ProcSpawn, ProcGivenUp, ProcForgotten, ProcTable
  <2>3. CASE \E q \in ProcIds : (\E op \in {"poll", "stop"} : ProcAsk(q, op))
                                \/ \E status \in {"succeeded", "failed"} : ProcExits(q, status)
    BY <2>3 DEF ProcAsk, ProcExits, ProcTable
  <2>4. CASE ProcPause \/ ProcResume \/ ProcTake \/ ProcRunnerDies
    BY <2>4 DEF ProcPause, ProcResume, ProcTake, ProcRunnerDies, ProcTable
  <2> QED BY <2>1, <2>2, <2>3, <2>4 DEF ProcNext
<1> QED BY <1>2, <1>3, <1>4, <1>5, <1>6

\* However commands, answers and logs being stored cross with processes that end by themselves,
\* with a run that is paused and with a runner that dies: no more processes run than the limit, every
\* process that runs has a row or is being told of, and a process has one outcome, which stays
\* the one in its row (ToolBroker, the Tool Runner and the table of managed processes).
THEOREM ProcessesAccounted == ProcSpec => ProcAccounted
<1>1. ProcSpec => []ProcInv
  BY ProcInitHolds, ProcInvKept, PTL DEF ProcSpec
<1>2. ProcInv => ProcNoneUnknown /\ ProcLimitHolds
  BY DEF ProcInv, ProcFew, ProcLimitHolds, ProcRunningSet
<1>3. ProcInv /\ [ProcNext]_procVars => [\A p \in ProcIds : procRow[p] \in ProcFinal => procRow'[p] = procRow[p]]_procVars
  BY ProcRowsStay
<1> QED BY <1>1, <1>2, <1>3, PTL DEF ProcAccounted, ProcOutcomeStays, ProcSpec

-----------------------------------------------------------------------------
(* ProcessOutput: beginning and end of a stream *)

\* s holds the n bytes that follow the first from.
OutRun(s, from, n) == s \in Seq(Nat) /\ from \in Nat /\ n \in Nat /\ Len(s) = n /\ \A i \in 1..n : s[i] = from + i

\* The head is the beginning of what was written and is filled first; the tail is the end
\* of the rest, as much as fits.
OutCapturedAs(head, tail, total) ==
    /\ OutRun(head, 0, Len(head)) /\ Len(head) <= OutHeadLimit /\ Len(head) <= total
    /\ Len(head) < OutHeadLimit => Len(head) = total
    /\ Len(tail) <= total /\ OutRun(tail, total - Len(tail), Len(tail))
    /\ Len(tail) = OutSmaller(total - Len(head), OutTailLimit)
\* Only a command captures; a background process is followed instead.
OutCaptured == outTool = "command" => OutCapturedAs(outHead, outTail, outTotal)

\* What has been read is the beginning of what has been written.
OutFollowedAs(text, seen) ==
    /\ text \in Seq(Nat) /\ seen \in Seq(Nat) /\ Len(seen) <= Len(text)
    /\ \A i \in 1..Len(seen) : seen[i] = text[i]
OutFollowed == OutFollowedAs(outText, outSeen)

\* The inductive invariant.
OutInv == outTotal \in Nat /\ outTool \in {"command", "background"} /\ OutCaptured /\ OutFollowed /\ OutReachable

-----------------------------------------------------------------------------
(* Stretches of the stream. *)

LEMMA OutLimits == OutHeadLimit \in Nat /\ 1 <= OutHeadLimit /\ OutTailLimit \in Nat /\ OutHeadLimit + OutTailLimit = OutMaxBytes
<1>1. OutMaxBytes \in Nat /\ OutMaxBytes >= 2
  BY OutAssumption
<1>2. (3 * OutMaxBytes) \div 4 \in Nat /\ (3 * OutMaxBytes) \div 4 <= OutMaxBytes
  BY <1>1
<1> QED BY <1>1, <1>2 DEF OutHeadLimit, OutTailLimit

LEMMA OutRunSub ==
    ASSUME NEW s, NEW from, NEW n, OutRun(s, from, n), NEW a \in 1..(n + 1), NEW b \in (a - 1)..n,
           NEW t, t = SubSeq(s, a, b), NEW g, g = from + a - 1, NEW m, m = b - a + 1
    PROVE  OutRun(t, g, m)
<1>1. n \in Nat /\ from \in Nat /\ a \in Nat /\ b \in Nat /\ a >= 1
  BY DEF OutRun
<1>2. \A i \in a..b : s[i] \in Nat /\ s[i] = from + i
  BY <1>1 DEF OutRun
<1>3. /\ t \in Seq(Nat) /\ Len(t) = (IF a <= b THEN b - a + 1 ELSE 0)
      /\ \A i \in 1..(b - a + 1) : t[i] = s[a + i - 1]
  BY <1>1, <1>2, SubSeqProperties
<1>4. ASSUME NEW i \in 1..m PROVE t[i] = g + i
  <2>1. a + i - 1 \in a..b
    BY <1>1
  <2>2. t[i] = s[a + i - 1]
    BY <1>3
  <2> QED BY <1>1, <1>2, <2>1, <2>2
<1>5. m \in Nat /\ g \in Nat /\ Len(t) = m
  BY <1>1, <1>3
<1> QED BY <1>3, <1>4, <1>5 DEF OutRun

LEMMA OutRunLast ==
    ASSUME NEW s, NEW from, NEW n, OutRun(s, from, n), NEW k \in Nat, NEW t, t = OutLast(s, k),
           NEW m, m = OutSmaller(n, k), NEW g, g = from + n - m
    PROVE  OutRun(t, g, m)
<1>1. n \in Nat /\ from \in Nat /\ Len(s) = n
  BY DEF OutRun
<1>2. CASE n > k
  <2>1. t = SubSeq(s, n - k + 1, n) /\ m = k
    BY <1>1, <1>2 DEF OutLast, OutSmaller
  <2>2. n - k + 1 \in 1..(n + 1) /\ n \in ((n - k + 1) - 1)..n /\ m = n - (n - k + 1) + 1 /\ g = from + (n - k + 1) - 1
    BY <1>1, <1>2, <2>1
  <2>3. PICK a : a = n - k + 1
    OBVIOUS
  <2> QED BY <2>1, <2>2, <2>3, OutRunSub
<1>3. CASE n <= k
  <2>1. t = SubSeq(s, 1, n) /\ m = n
    BY <1>1, <1>3 DEF OutLast, OutSmaller
  <2>2. 1 \in 1..(n + 1) /\ n \in (1 - 1)..n /\ m = n - 1 + 1 /\ g = from + 1 - 1
    BY <1>1, <2>1
  <2> QED BY <2>1, <2>2, OutRunSub
<1> QED BY <1>1, <1>2, <1>3

LEMMA OutRunJoin ==
    ASSUME NEW s, NEW from, NEW n, OutRun(s, from, n), NEW u, NEW g, g = from + n, NEW m, OutRun(u, g, m),
           NEW t, t = s \o u, NEW k, k = n + m
    PROVE  OutRun(t, from, k)
<1>1. n \in Nat /\ from \in Nat /\ m \in Nat /\ Len(s) = n /\ Len(u) = m /\ s \in Seq(Nat) /\ u \in Seq(Nat)
  BY DEF OutRun
<1>2. /\ t \in Seq(Nat) /\ Len(t) = n + m
      /\ \A i \in 1..(n + m) : t[i] = IF i <= n THEN s[i] ELSE u[i - n]
  BY <1>1, ConcatProperties
<1>3. ASSUME NEW i \in 1..k PROVE t[i] = from + i
  <2>1. CASE i <= n
    <3>1. t[i] = s[i] /\ i \in 1..n
      BY <1>1, <1>2, <2>1
    <3> QED BY <3>1 DEF OutRun
  <2>2. CASE i > n
    <3>1. t[i] = u[i - n] /\ i - n \in 1..m
      BY <1>1, <1>2, <2>2
    <3>2. u[i - n] = g + (i - n)
      BY <3>1 DEF OutRun
    <3> QED BY <1>1, <3>1, <3>2
  <2> QED BY <1>1, <2>1, <2>2
<1> QED BY <1>1, <1>2, <1>3 DEF OutRun

LEMMA OutRunNone == ASSUME NEW s, NEW from \in Nat, NEW n, OutRun(s, n, 0) PROVE OutRun(s, from, 0) /\ s = <<>>
<1>1. s \in Seq(Nat) /\ Len(s) = 0
  BY DEF OutRun
<1>2. s = <<>>
  BY <1>1
<1> QED BY <1>1, <1>2 DEF OutRun

LEMMA OutRunBuilt == ASSUME NEW from \in Nat, NEW n \in Nat, NEW s, s = [i \in 1..n |-> from + i] PROVE OutRun(s, from, n)
<1>1. s \in [1..n -> Nat]
  OBVIOUS
<1>2. s \in Seq(Nat) /\ Len(s) = n
  BY <1>1
<1> QED BY <1>2 DEF OutRun

-----------------------------------------------------------------------------
(* A command writes. *)

\* The tail rolls over what does not fit the head.
LEMMA OutTailRolls ==
    ASSUME OutTailLimit \in Nat, NEW from \in Nat, NEW t \in Nat, OutRun(outTail, from, t),
           NEW g, g = from + t, NEW m \in Nat, NEW rest, OutRun(rest, g, m), t <= OutTailLimit,
           NEW new, new = OutRolled(rest), NEW k, k = OutSmaller(t + m, OutTailLimit),
           NEW h, h = g + m - k
    PROVE  OutRun(new, h, k)
<1>1. rest = <<>> <=> m = 0
  BY DEF OutRun
<1>2. Len(rest) = m /\ g \in Nat
  BY DEF OutRun
<1>3. CASE m = 0
  BY <1>1, <1>3 DEF OutRolled, OutSmaller
<1>4. CASE m # 0 /\ m >= OutTailLimit
  <2>1. new = OutLast(rest, OutTailLimit) /\ OutSmaller(m, OutTailLimit) = OutTailLimit /\ k = OutTailLimit
    BY <1>1, <1>2, <1>4 DEF OutRolled, OutSmaller
  <2> QED BY <1>2, <2>1, OutRunLast
<1>5. CASE m # 0 /\ m < OutTailLimit
  <2>1. new = OutLast(outTail \o rest, OutTailLimit)
    BY <1>1, <1>2, <1>5 DEF OutRolled
  <2>2. PICK both : both = outTail \o rest
    OBVIOUS
  <2>3. PICK n : n = t + m
    OBVIOUS
  <2>4. OutRun(both, from, n)
    BY <2>2, <2>3, OutRunJoin
  <2>5. h = from + n - k /\ k = OutSmaller(n, OutTailLimit)
    <3>1. k = OutSmaller(n, OutTailLimit) /\ n \in Nat
      BY <2>3
    <3>2. k \in Nat
      BY <3>1 DEF OutSmaller
    <3>3. from \in Nat
      BY DEF OutRun
    <3> QED BY <2>3, <3>1, <3>2, <3>3
  <2> QED BY <2>1, <2>2, <2>4, <2>5, OutRunLast
<1> QED BY <1>3, <1>4, <1>5

LEMMA OutCommandWritesKeeps ==
    ASSUME OutInv, NEW n \in OutChunks, OutCommandWrites(n) PROVE OutCaptured' /\ outTotal' \in Nat
<1>1. n \in Nat /\ n >= 1 /\ outTotal \in Nat
  BY OutAssumption DEF OutInv
<1>2. PICK chunk : chunk = [i \in 1..n |-> outTotal + i]
  OBVIOUS
<1>3. OutRun(chunk, outTotal, n) /\ Len(chunk) = n
  <2>1. OutRun(chunk, outTotal, n)
    BY <1>1, <1>2, OutRunBuilt
  <2> QED BY <2>1 DEF OutRun
<1>4. PICK k : k = OutHeadTakes(chunk)
  OBVIOUS
<1>5. PICK h : h = Len(outHead)
  OBVIOUS
<1>6. PICK t : t = Len(outTail)
  OBVIOUS
<1>7. PICK first : first = SubSeq(chunk, 1, k)
  OBVIOUS
<1>8. PICK rest : rest = SubSeq(chunk, k + 1, n)
  OBVIOUS
<1>9. outTotal' = outTotal + n /\ outHead' = outHead \o first /\ outTail' = OutRolled(rest)
  BY <1>2, <1>4, <1>7, <1>8 DEF OutCommandWrites
<1>10. /\ OutRun(outHead, 0, h) /\ h <= OutHeadLimit /\ h <= outTotal /\ (h < OutHeadLimit => h = outTotal)
       /\ t <= outTotal /\ OutRun(outTail, outTotal - t, t) /\ t = OutSmaller(outTotal - h, OutTailLimit)
  BY <1>5, <1>6 DEF OutInv, OutCaptured, OutCapturedAs, OutCommandWrites
<1>11. h \in Nat /\ t \in Nat
  BY <1>10 DEF OutRun
<1>12. OutHeadLimit \in Nat /\ OutTailLimit \in Nat /\ OutHeadLimit >= 1
  BY OutLimits
<1>13. k = (IF OutHeadLimit - h < n THEN OutHeadLimit - h ELSE n) /\ k \in 0..n
  <2>1. k = OutSmaller(OutHeadLimit - h, n)
    BY <1>3, <1>4, <1>5 DEF OutHeadTakes
  <2> QED BY <1>1, <1>10, <1>11, <1>12, <2>1 DEF OutSmaller
<1>14. OutRun(first, outTotal, k)
  <2>1. 1 \in 1..(n + 1) /\ k \in (1 - 1)..n /\ outTotal = outTotal + 1 - 1 /\ k = k - 1 + 1
    BY <1>1, <1>13
  <2> QED BY <1>3, <1>7, <2>1, OutRunSub
<1>15. PICK g : g = outTotal + k
  OBVIOUS
<1>16. PICK m : m = n - k
  OBVIOUS
<1>17. OutRun(rest, g, m) /\ m \in Nat /\ g \in Nat
  <2>1. k + 1 \in 1..(n + 1) /\ n \in ((k + 1) - 1)..n /\ g = outTotal + (k + 1) - 1 /\ m = n - (k + 1) + 1
    BY <1>1, <1>13, <1>15, <1>16
  <2>2. PICK a : a = k + 1
    OBVIOUS
  <2>3. OutRun(rest, g, m)
    BY <1>3, <1>8, <2>1, <2>2, OutRunSub
  <2> QED BY <2>3 DEF OutRun
<1>18. PICK hh : hh = h + k
  OBVIOUS
<1>19. OutRun(outHead', 0, hh)
  <2>1. CASE k = 0
    <3>1. first = <<>> /\ outHead \in Seq(Nat)
      BY <1>10, <1>14, <2>1 DEF OutRun
    <3>2. outHead' = outHead
      BY <1>9, <3>1
    <3> QED BY <1>10, <1>11, <1>18, <2>1, <3>2
  <2>2. CASE k # 0
    <3>1. h = outTotal /\ outTotal = 0 + h
      BY <1>1, <1>10, <1>11, <1>12, <1>13, <2>2
    <3>2. PICK new : new = outHead \o first
      OBVIOUS
    <3>3. OutRun(new, 0, hh)
      BY <1>10, <1>14, <1>18, <3>1, <3>2, OutRunJoin
    <3> QED BY <1>9, <3>2, <3>3
  <2> QED BY <2>1, <2>2
<1>20. PICK s : s = OutSmaller(t + m, OutTailLimit)
  OBVIOUS
<1>21. s \in Nat /\ s <= g + m /\ t <= OutTailLimit
  BY <1>10, <1>11, <1>12, <1>15, <1>17, <1>20, <1>1, <1>13 DEF OutSmaller
<1>22. OutRun(outTail', g + m - s, s)
  <2>1. PICK new : new = OutRolled(rest)
    OBVIOUS
  <2>2. PICK e : e = g + m - s
    OBVIOUS
  <2>3. CASE m = 0
    <3>1. rest = <<>> /\ new = outTail
      BY <1>17, <2>1, <2>3 DEF OutRun, OutRolled
    <3>2. s = t /\ g + m = outTotal + n
      BY <1>10, <1>11, <1>12, <1>15, <1>16, <1>20, <1>21, <1>1, <1>13, <2>3 DEF OutSmaller
    <3>3. CASE k = 0
      BY <1>1, <1>13, <1>16, <2>3, <3>3
    <3>4. CASE k # 0
      <4>1. t = 0
        BY <1>1, <1>10, <1>11, <1>12, <1>13, <3>4 DEF OutSmaller
      <4>2. g + m - s \in Nat
        BY <1>1, <1>21, <1>17
      <4> QED BY <1>1, <1>9, <1>10, <2>1, <3>1, <3>2, <4>1, <4>2, OutRunNone
    <3> QED BY <3>3, <3>4
  <2>4. CASE m # 0 /\ k = 0
    <3>1. PICK f : f = outTotal - t
      OBVIOUS
    <3>2. f \in Nat /\ g = f + t
      BY <1>1, <1>10, <1>11, <1>15, <2>4, <3>1
    <3>3. OutRun(new, e, s)
      BY <1>10, <1>11, <1>12, <1>17, <1>20, <1>21, <2>1, <2>2, <3>1, <3>2, OutTailRolls
    <3> QED BY <1>9, <2>1, <2>2, <3>3
  <2>5. CASE m # 0 /\ k # 0
    <3>1. t = 0
      BY <1>1, <1>10, <1>11, <1>12, <1>13, <2>5 DEF OutSmaller
    <3>2. OutRun(outTail, g, t) /\ g = g + t
      BY <1>1, <1>10, <1>17, <3>1, OutRunNone
    <3>3. OutRun(new, e, s)
      BY <1>11, <1>12, <1>17, <1>20, <1>21, <2>1, <2>2, <3>2, OutTailRolls
    <3> QED BY <1>9, <2>1, <2>2, <3>3
  <2> QED BY <2>3, <2>4, <2>5
<1>23. g + m = outTotal' /\ outTotal' \in Nat
  BY <1>1, <1>9, <1>13, <1>15, <1>16
<1>24. Len(outHead') = hh /\ Len(outTail') = s
  BY <1>19, <1>22 DEF OutRun
<1>25. hh <= OutHeadLimit /\ hh <= outTotal' /\ (hh < OutHeadLimit => hh = outTotal')
  BY <1>1, <1>9, <1>10, <1>11, <1>12, <1>13, <1>18
<1>26. s = OutSmaller(outTotal' - hh, OutTailLimit)
  BY <1>1, <1>9, <1>10, <1>11, <1>12, <1>13, <1>16, <1>18, <1>20 DEF OutSmaller
<1>27. OutCapturedAs(outHead', outTail', outTotal')
  <2>0. s <= g + m
    BY <1>21
  <2>1. s <= outTotal' /\ g + m - s = outTotal' - s
    <3>1. PICK w : w = outTotal'
      OBVIOUS
    <3>2. g + m = w /\ w \in Nat
      BY <1>23, <3>1
    <3>3. g \in Nat /\ m \in Nat /\ s \in Nat
      BY <1>17, <1>21
    <3>4. s <= w /\ g + m - s = w - s
      BY <2>0, <3>2, <3>3
    <3> QED BY <3>1, <3>4
  <2> QED BY <1>19, <1>22, <1>24, <1>25, <1>26, <2>1 DEF OutCapturedAs
<1> QED BY <1>23, <1>27 DEF OutCaptured

-----------------------------------------------------------------------------
(* A background process writes and is read. *)

\* A page holds what the log has from the cursor c to e.
OutPageFrom(page, c, e) ==
    /\ c \in 0..Len(outText) /\ e \in c..Len(outText) /\ Len(page) = e - c /\ page \in Seq(Nat)
    /\ \A i \in 1..(e - c) : page[i] = outText[c + i]

LEMMA OutPageIs ==
    ASSUME outText \in Seq(Nat), NEW asked \in Int, NEW page, page = OutPage(asked),
           NEW c, c = OutCursor(asked), NEW e, e = OutPollEnd(asked)
    PROVE  OutPageFrom(page, c, e)
<1>1. Len(outText) \in Nat /\ OutPoll \in Nat
  BY OutAssumption
<1>2. c \in 0..Len(outText)
  BY <1>1 DEF OutCursor, OutSmaller
<1>3. e \in c..Len(outText)
  BY <1>1, <1>2 DEF OutPollEnd, OutSmaller
<1>4. page = SubSeq(outText, c + 1, e)
  BY DEF OutPage
<1>5. c + 1 \in Int /\ e \in Int /\ \A i \in (c + 1)..e : outText[i] \in Nat
  BY <1>1, <1>2, <1>3
<1>6. PICK a : a = c + 1
  OBVIOUS
<1>7. /\ page \in Seq(Nat) /\ Len(page) = (IF a <= e THEN e - a + 1 ELSE 0)
      /\ \A i \in 1..(e - a + 1) : page[i] = outText[a + i - 1]
  BY <1>4, <1>5, <1>6, SubSeqProperties
<1>8. c \in Nat /\ e \in Nat /\ c <= e
  BY <1>1, <1>2, <1>3
<1>9. Len(page) = e - c
  BY <1>6, <1>7, <1>8
<1>10. ASSUME NEW i \in 1..(e - c) PROVE page[i] = outText[c + i]
  <2>1. i \in 1..(e - a + 1) /\ a + i - 1 = c + i
    <3>1. i \in Nat /\ 1 <= i /\ i <= e - c
      BY <1>8
    <3>2. e - a + 1 = e - c
      BY <1>6, <1>8
    <3> QED BY <1>6, <1>8, <3>1, <3>2
  <2>2. page[i] = outText[a + i - 1]
    BY <1>7, <2>1
  <2> QED BY <2>1, <2>2
<1> QED BY <1>2, <1>3, <1>7, <1>9, <1>10 DEF OutPageFrom

LEMMA OutPollsKeeps ==
    ASSUME OutFollowed, OutPolls PROVE OutFollowed'
<1>1. PICK n : n = Len(outSeen)
  OBVIOUS
<1>2. PICK page : page = OutPage(n)
  OBVIOUS
<1>3. PICK c : c = OutCursor(n)
  OBVIOUS
<1>4. PICK e : e = OutPollEnd(n)
  OBVIOUS
<1>5. outSeen' = outSeen \o page /\ outText' = outText
  BY <1>1, <1>2 DEF OutPolls
<1>6. /\ outText \in Seq(Nat) /\ outSeen \in Seq(Nat) /\ n <= Len(outText) /\ n \in Nat /\ Len(outText) \in Nat
      /\ \A i \in 1..n : outSeen[i] = outText[i]
  <2>1. /\ outText \in Seq(Nat) /\ outSeen \in Seq(Nat) /\ Len(outSeen) <= Len(outText)
        /\ \A i \in 1..Len(outSeen) : outSeen[i] = outText[i]
    BY DEF OutFollowed, OutFollowedAs
  <2>2. Len(outSeen) \in Nat /\ Len(outText) \in Nat
    BY <2>1
  <2> QED BY <1>1, <2>1, <2>2
<1>7. /\ e \in c..Len(outText) /\ Len(page) = e - c /\ page \in Seq(Nat)
      /\ \A i \in 1..(e - c) : page[i] = outText[c + i]
  <2>1. n \in Int /\ outText \in Seq(Nat)
    BY <1>6
  <2>2. OutPageFrom(page, c, e)
    BY <1>2, <1>3, <1>4, <2>1, OutPageIs
  <2> QED BY <2>2 DEF OutPageFrom
<1>8. c = n
  BY <1>3, <1>6 DEF OutCursor, OutSmaller
<1>9. PICK m : m = e - n
  OBVIOUS
<1>10. m \in Nat /\ n + m <= Len(outText) /\ Len(page) = m
  BY <1>6, <1>7, <1>8, <1>9
<1>11. PICK new : new = outSeen \o page
  OBVIOUS
<1>12. /\ new \in Seq(Nat) /\ Len(new) = n + m
       /\ \A i \in 1..(n + m) : new[i] = IF i <= n THEN outSeen[i] ELSE page[i - n]
  BY <1>1, <1>6, <1>7, <1>10, <1>11, ConcatProperties
<1>13. ASSUME NEW i \in 1..(n + m) PROVE new[i] = outText[i]
  <2>1. CASE i <= n
    <3>1. i \in 1..n
      BY <1>6, <1>10, <2>1
    <3>2. new[i] = outSeen[i]
      BY <1>12, <2>1
    <3> QED BY <1>6, <3>1, <3>2
  <2>2. CASE i > n
    <3>1. new[i] = page[i - n]
      BY <1>6, <1>10, <1>12, <2>2
    <3>2. i - n \in 1..(e - c) /\ c + (i - n) = i
      BY <1>6, <1>8, <1>9, <1>10, <2>2
    <3> QED BY <1>7, <3>1, <3>2
  <2> QED BY <1>6, <1>10, <2>1, <2>2
<1> QED BY <1>5, <1>6, <1>10, <1>11, <1>12, <1>13 DEF OutFollowed, OutFollowedAs

LEMMA OutBackgroundWritesKeeps ==
    ASSUME OutInv, NEW n \in OutChunks, OutBackgroundWrites(n) PROVE OutFollowed' /\ outTotal' \in Nat
<1>1. n \in Nat /\ outTotal \in Nat /\ OutTag \in Nat
  BY OutAssumption DEF OutInv
<1>2. outTotal' = outTotal + n /\ outSeen' = outSeen
  BY DEF OutBackgroundWrites
<1>3. PICK tagged : tagged = OutTagged(n)
  OBVIOUS
<1>4. outText' = outText \/ outText' = outText \o tagged
  BY <1>3 DEF OutBackgroundWrites
<1>5. OutFollowed
  BY DEF OutInv
<1>6. tagged \in Seq(Nat)
  <2>1. \A i \in 1..(OutTag + n) : (IF i <= OutTag THEN 0 ELSE outTotal + i - OutTag) \in Nat
    BY <1>1
  <2>2. tagged \in [1..(OutTag + n) -> Nat]
    BY <1>3, <2>1 DEF OutTagged
  <2>3. OutTag + n \in Nat
    BY <1>1
  <2> QED BY <2>2, <2>3
<1>7. PICK both : both = outText \o tagged
  OBVIOUS
<1>8. /\ both \in Seq(Nat) /\ Len(both) >= Len(outText) /\ Len(outText) \in Nat
      /\ \A i \in 1..Len(outText) : both[i] = outText[i]
  <2>1. outText \in Seq(Nat) /\ Len(outText) \in Nat /\ Len(tagged) \in Nat
    BY <1>5, <1>6 DEF OutFollowed, OutFollowedAs
  <2>2. /\ both \in Seq(Nat) /\ Len(both) = Len(outText) + Len(tagged)
        /\ \A i \in 1..(Len(outText) + Len(tagged)) : both[i] = IF i <= Len(outText) THEN outText[i] ELSE tagged[i - Len(outText)]
    BY <1>6, <1>7, <2>1, ConcatProperties
  <2> QED BY <2>1, <2>2
<1>11. outTotal' \in Nat
  BY <1>1, <1>2
<1>12. outSeen' = outSeen
  BY <1>2
<1>9. CASE outText' = outText
  BY <1>5, <1>9, <1>11, <1>12 DEF OutFollowed
<1>10. CASE outText' = both
  <2>1. /\ outSeen \in Seq(Nat) /\ Len(outSeen) <= Len(outText) /\ Len(outSeen) \in Nat
        /\ \A i \in 1..Len(outSeen) : outSeen[i] = outText[i]
    BY <1>5 DEF OutFollowed, OutFollowedAs
  <2>2. Len(outSeen) <= Len(both) /\ \A i \in 1..Len(outSeen) : outSeen[i] = both[i]
    <3>1. Len(both) \in Nat
      BY <1>8
    <3> QED BY <1>8, <2>1, <3>1
  <2>3. OutFollowedAs(both, outSeen)
    BY <1>8, <2>1, <2>2 DEF OutFollowedAs
  <2> QED BY <1>10, <1>11, <1>12, <2>3 DEF OutFollowed
<1> QED BY <1>4, <1>7, <1>9, <1>10

-----------------------------------------------------------------------------

LEMMA OutInitHolds == OutInit => OutInv
<1> SUFFICES ASSUME OutInit PROVE OutInv
  OBVIOUS
<1>1. OutRun(<<>>, 0, 0)
  BY DEF OutRun
<1>2. OutSmaller(0, OutTailLimit) = 0
  BY OutLimits DEF OutSmaller
<1>3. OutCaptured
  BY <1>1, <1>2, OutLimits DEF OutInit, OutCaptured, OutCapturedAs
<1>4. OutFollowed
  BY DEF OutInit, OutFollowed, OutFollowedAs
<1> QED BY <1>3, <1>4 DEF OutInit, OutInv, OutReachable

LEMMA OutStepKeeps ==
    ASSUME OutInv, [OutNext]_outVars PROVE OutInv'
<1>1. CASE UNCHANGED outVars
  BY <1>1 DEF OutInv, OutCaptured, OutFollowed, OutReachable, outVars
<1>2. ASSUME NEW n \in OutChunks, OutCommandWrites(n) PROVE OutInv'
  <2>1. OutCaptured' /\ outTotal' \in Nat
    BY <1>2, OutCommandWritesKeeps
  <2>2. outTool' = outTool /\ outText' = outText /\ outSeen' = outSeen /\ outChild' = outChild /\ outListed' = outListed
    BY <1>2 DEF OutCommandWrites
  <2> QED BY <2>1, <2>2 DEF OutInv, OutFollowed, OutReachable
<1>3. ASSUME NEW n \in OutChunks, OutBackgroundWrites(n) PROVE OutInv'
  <2>1. OutFollowed' /\ outTotal' \in Nat
    BY <1>3, OutBackgroundWritesKeeps
  <2>2. outTool = "background" /\ outTool' = outTool /\ outHead' = outHead /\ outTail' = outTail /\ outListed' = outListed
    BY <1>3 DEF OutBackgroundWrites
  <2> QED BY <2>1, <2>2 DEF OutInv, OutCaptured, OutReachable
<1>4. CASE OutPolls
  <2>1. OutFollowed'
    BY <1>4, OutPollsKeeps DEF OutInv
  <2>2. /\ outTool' = outTool /\ outHead' = outHead /\ outTail' = outTail /\ outListed' = outListed
        /\ outTotal' = outTotal /\ outChild' = outChild
    BY <1>4 DEF OutPolls
  <2> QED BY <2>1, <2>2 DEF OutInv, OutCaptured, OutReachable
<1>5. CASE OutTimesOut \/ OutCancelled \/ OutErrors \/ \E ok \in BOOLEAN : OutCloses(ok)
  <2>1. UNCHANGED OutCapture /\ (outChild' = "gone" \/ outListed' = outListed) /\ (outChild = "gone" => outChild' = "gone")
    BY <1>5 DEF OutTimesOut, OutCancelled, OutErrors, OutCloses, OutListedStill, OutSignalled
  <2> QED BY <2>1 DEF OutCapture, OutInv, OutCaptured, OutFollowed, OutReachable
<1>6. CASE (\E ok \in BOOLEAN : OutBackgroundEnds(ok)) \/ \E by \in {"user", "timer"} : OutBackgroundStops(by)
  <2>1. UNCHANGED OutCapture /\ outTool = "background"
    BY <1>6 DEF OutBackgroundEnds, OutBackgroundStops
  <2> QED BY <2>1 DEF OutCapture, OutInv, OutCaptured, OutFollowed, OutReachable
<1> QED BY <1>1, <1>2, <1>3, <1>4, <1>5, <1>6 DEF OutNext

-----------------------------------------------------------------------------
(* What the property says of such a state. *)

LEMMA OutWindowHolds == OutInv => OutWindow
<1> SUFFICES ASSUME OutInv, outTool = "command" PROVE OutWindow
  BY DEF OutWindow
<1>1. PICK total : total = outTotal
  OBVIOUS
<1>2. PICK h : h = Len(outHead)
  OBVIOUS
<1>3. PICK t : t = Len(outTail)
  OBVIOUS
<1>4. /\ total \in Nat /\ OutRun(outHead, 0, h) /\ h <= OutHeadLimit /\ h <= total
      /\ h < OutHeadLimit => h = total
      /\ t <= total /\ OutRun(outTail, total - t, t) /\ t = OutSmaller(total - h, OutTailLimit)
  BY <1>1, <1>2, <1>3 DEF OutInv, OutCaptured, OutCapturedAs
<1>5. h \in Nat /\ t \in Nat
  BY <1>4 DEF OutRun
<1>6. PICK stream : stream = OutStream(total)
  OBVIOUS
<1>7. OutRun(stream, 0, total)
  <2>1. stream = [i \in 1..total |-> 0 + i]
    BY <1>4, <1>6 DEF OutStream
  <2> QED BY <1>4, <2>1, OutRunBuilt
<1>8. ASSUME NEW s, NEW u, NEW from, NEW n, OutRun(s, from, n), OutRun(u, from, n) PROVE s = u
  <2>1. s \in Seq(Nat) /\ u \in Seq(Nat) /\ Len(s) = Len(u) /\ \A i \in 1..Len(s) : s[i] = u[i]
    BY <1>8 DEF OutRun
  <2> QED BY <2>1, SeqEqual
<1>9. outHead = SubSeq(stream, 1, h)
  <2>1. PICK u : u = SubSeq(stream, 1, h)
    OBVIOUS
  <2>2. 1 \in 1..(total + 1) /\ h \in (1 - 1)..total /\ 0 = 0 + 1 - 1 /\ h = h - 1 + 1
    BY <1>4, <1>5
  <2>3. OutRun(u, 0, h)
    BY <1>7, <2>1, <2>2, OutRunSub
  <2> QED BY <1>4, <1>8, <2>1, <2>3
<1>10. outTail = OutLast(stream, t)
  <2>1. PICK u : u = OutLast(stream, t)
    OBVIOUS
  <2>2. t = OutSmaller(total, t)
    <3>1. t <= total /\ t \in Nat /\ total \in Nat
      BY <1>4, <1>5
    <3> QED BY <3>1 DEF OutSmaller
  <2>3. PICK g : g = total - t
    OBVIOUS
  <2>4. g = 0 + total - t
    BY <1>4, <1>5, <2>3
  <2>5. OutRun(u, g, t)
    BY <1>5, <1>7, <2>1, <2>2, <2>4, OutRunLast
  <2> QED BY <1>4, <1>8, <2>1, <2>3, <2>5
<1>11. OutHeadLimit \in Nat /\ OutTailLimit \in Nat /\ OutHeadLimit + OutTailLimit = OutMaxBytes /\ OutMaxBytes \in Nat
  BY OutLimits, OutAssumption
<1>12. total - (h + t) >= 0 /\ (total - (h + t) > 0 => h + t = OutMaxBytes)
  BY <1>4, <1>5, <1>11 DEF OutSmaller
<1> QED BY <1>1, <1>2, <1>3, <1>6, <1>9, <1>10, <1>12 DEF OutWindow, OutOmitted

LEMMA OutReadOnceHolds == OutInv => OutReadOnce
<1> SUFFICES ASSUME OutInv PROVE OutReadOnce
  OBVIOUS
<1>1. PICK n : n = Len(outSeen)
  OBVIOUS
<1>2. /\ outText \in Seq(Nat) /\ outSeen \in Seq(Nat) /\ n <= Len(outText) /\ n \in Nat /\ Len(outText) \in Nat
      /\ \A i \in 1..n : outSeen[i] = outText[i]
  BY <1>1 DEF OutInv, OutFollowed, OutFollowedAs
<1>3. outSeen = SubSeq(outText, 1, n)
  <2>1. PICK u : u = SubSeq(outText, 1, n)
    OBVIOUS
  <2>2. \A i \in 1..n : outText[i] \in Nat
    BY <1>2
  <2>3. /\ u \in Seq(Nat) /\ Len(u) = (IF 1 <= n THEN n - 1 + 1 ELSE 0)
        /\ \A i \in 1..(n - 1 + 1) : u[i] = outText[1 + i - 1]
    BY <1>2, <2>1, <2>2, SubSeqProperties
  <2>4. Len(u) = n /\ \A i \in 1..n : u[i] = outText[i]
    BY <1>2, <2>3
  <2> QED BY <1>1, <1>2, <2>1, <2>3, <2>4, SeqEqual
<1>4. ASSUME NEW asked \in -1..(OutManaged + 1) PROVE Len(OutPage(asked)) = OutPollEnd(asked) - OutCursor(asked)
  <2>1. asked \in Int
    BY OutAssumption
  <2>2. PICK page : page = OutPage(asked)
    OBVIOUS
  <2>3. PICK c : c = OutCursor(asked)
    OBVIOUS
  <2>4. PICK e : e = OutPollEnd(asked)
    OBVIOUS
  <2>5. OutPageFrom(page, c, e)
    BY <1>2, <2>1, <2>2, <2>3, <2>4, OutPageIs
  <2> QED BY <2>2, <2>3, <2>4, <2>5 DEF OutPageFrom
<1> QED BY <1>1, <1>3, <1>4 DEF OutReadOnce

\* Output is shown as it was written: head and tail of a capture are the two ends of the
\* stream, pages follow each other without a gap, and a command that lives can be cancelled
\* (BoundedTextCapture, pollManagedProcess, runProcess), for any limits and sizes of chunks.
THEOREM OutputIsFaithful == OutSpec => []OutFaithful
<1>1. OutInv => OutFaithful
  BY OutWindowHolds, OutReadOnceHolds DEF OutFaithful, OutInv
<1> QED BY <1>1, OutInitHolds, OutStepKeeps, PTL DEF OutSpec

===============================================================================
