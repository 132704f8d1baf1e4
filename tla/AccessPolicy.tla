------------------------------ MODULE AccessPolicy -----------------------------
(* Which tool calls run: the risk of a call (packages/core/src/policy.ts), what the *)
(* run's access mode makes of it, the user's answers (packages/core/src/approval.ts *)
(* and respondToApproval of tool-broker.ts), the grants of a run and the standing   *)
(* rules of the settings (database.ts).                                             *)
(*                                                                                  *)
(* A call names its tool, the form of its command or address, what it is aimed at   *)
(* and its body, the text a log must not show: AccHidden stands for a body that the *)
(* log replaced by a placeholder.                                                   *)
EXTENDS Naturals, FiniteSets

CONSTANTS
    AccRuns,        \* the runs
    AccReadOnly,    \* those that may only read
    AccHome,        \* the workspace of each run
    AccCalls,       \* the calls models make and users write into an answer
    AccGuarded,     \* how the patterns of tool-broker.ts class what a call is aimed at
    AccRulePaths,   \* paths the settings may give a standing rule
    AccDay,         \* how long a question waits for its answer
    AccHorizon,     \* bound on the clock
    AccMaxPending   \* bound on the questions open at once

AccHidden == 0
AccNever == AccHorizon + 1
AccIdle == [run |-> "none"]

AccTools == {"shell", "file.read", "file.write", "file.edit", "file.delete", "web.search", "web.fetch", "mcp", "click"}
AccForms == {"none", "ls", "rm", "push", "curl", "build", "osascript", "plain", "query", "login"}

\* Only shell commands delete and push, only an address carries a login.
ASSUME AccAssumption ==
    /\ AccReadOnly \subseteq AccRuns /\ "none" \notin AccRuns
    /\ AccCalls \subseteq [tool : AccTools, form : AccForms, aim : DOMAIN AccGuarded, body : Nat]
    /\ \A c \in AccCalls : /\ AccGuarded[c.aim] \in {"plain", "sensitive", "protected"}
                           /\ c.form \in {"rm", "push"} => c.tool = "shell"
                           /\ c.form = "login" => c.tool = "web.fetch"

VARIABLES
    accMode,      \* the access mode of each run
    accPending,   \* questions put to the user
    accGrants,    \* calls granted to a run: rows of approval_grants with a run_id
    accRules,     \* standing rules: rows of approval_grants without one
    accClock,
    accLast       \* the call the last step ran, AccIdle when it ran none

accVars == <<accMode, accPending, accGrants, accRules, accClock, accLast>>

--------------------------------------------------------------------------------
(* Risk. *)

AccRank == [readonly |-> 0, reversible |-> 1, external |-> 2, high |-> 3]

\* The registry's risk of a call, shown to the classifier as the hints of its descriptor.
AccDeclared(c) ==
    CASE c.tool = "shell" -> (CASE c.form = "ls" -> "read"
                                [] c.form \in {"rm", "push"} -> "high"
                                [] OTHER -> "external")
      [] c.tool = "file.delete" -> "high"
      [] c.tool \in {"file.write", "file.edit"} -> "write"
      [] c.tool \in {"mcp", "click"} -> "external"
      [] OTHER -> "read"

AccShellRisk(form) ==
    CASE form = "ls" -> "readonly"
      [] form = "rm" -> "high"
      [] form \in {"push", "curl"} -> "external"
      [] OTHER -> "reversible"

\* What the classifier makes of a call under a descriptor that declares `declared`.
AccRisk(c, declared) ==
    IF declared = "high" THEN "high" ELSE
    CASE c.tool = "shell" -> AccShellRisk(c.form)
      [] c.tool = "web.search" -> "external"
      [] c.tool = "web.fetch" -> IF c.form = "plain" THEN "readonly" ELSE "external"
      [] c.tool \in {"file.write", "file.edit"} -> "reversible"
      [] c.tool \in {"mcp", "click"} -> "external"
      [] OTHER -> "readonly"

AccForbidden(c) == c.tool = "shell" /\ c.form = "osascript"

AccBase(c, declared) ==
    IF AccForbidden(c) THEN [effect |-> "deny", risk |-> "high", sensitive |-> FALSE]
    ELSE [effect |-> IF AccRisk(c, declared) = "readonly" THEN "allow" ELSE "ask",
          risk |-> AccRisk(c, declared), sensitive |-> FALSE]

\* Work a run with full disk access does unasked.
AccOrdinary(c, risk) ==
    \/ risk \in {"readonly", "reversible"}
    \/ c.tool = "shell" /\ risk = "external"
    \/ c.tool = "web.search"
    \/ c.tool = "web.fetch" /\ c.form # "login"

AccDecision(c, mode) ==
    LET base == AccBase(c, AccDeclared(c)) IN
    IF AccGuarded[c.aim] = "protected" THEN [base EXCEPT !.effect = "deny"]
    ELSE IF AccGuarded[c.aim] = "sensitive" THEN [base EXCEPT !.effect = "ask", !.sensitive = TRUE]
    ELSE IF mode = "full_disk" /\ base.effect = "ask" /\ AccOrdinary(c, base.risk) THEN [base EXCEPT !.effect = "allow"]
    ELSE base

\* Faulty variant: only the risk decides.
AccOnceByRisk(d) == d.risk \in {"external", "high"}
AccOnceOnly(d) == d.risk \in {"external", "high"} \/ d.sensitive

\* What a read-only run is refused whatever the policy says.
AccBeyondReading(c) == AccDeclared(c) # "read"

\* The arguments as they may be logged.
AccLogged(c) ==
    IF c.tool \in {"file.write", "file.edit"} THEN [c EXCEPT !.body = AccHidden] ELSE c

--------------------------------------------------------------------------------
(* Grants. *)

\* A standing rule names a tool and one path of a workspace.
AccRuleCovers(u, r, c) ==
    u.tool = c.tool /\ u.path = c.aim /\ u.home = AccHome[r] /\ accClock < u.until

AccGranted(r, c) ==
    [run |-> r, call |-> c] \in accGrants \/ \E u \in accRules : AccRuleCovers(u, r, c)

--------------------------------------------------------------------------------
(* Calls and answers. *)

AccRunsNow(r, asked, ran) == accLast' = [run |-> r, asked |-> asked, ran |-> ran]

AccFreeId == CHOOSE i \in 1 .. AccMaxPending : \A q \in accPending : q.id # i

\* handle: the policy, the run's own limits, then its grants.
AccHandle(r, c) ==
    LET d == AccDecision(c, accMode[r]) IN
    /\ IF d.effect = "deny" \/ (r \in AccReadOnly /\ AccBeyondReading(c))
       THEN accLast' = AccIdle /\ UNCHANGED accPending
       ELSE IF d.effect = "ask" /\ (AccOnceOnly(d) \/ ~AccGranted(r, c))
       THEN /\ Cardinality(accPending) < AccMaxPending
            /\ accPending' = accPending \cup
                 {[id |-> AccFreeId, run |-> r, call |-> c, risk |-> d.risk,
                   once |-> AccOnceOnly(d), until |-> accClock + AccDay]}
            /\ accLast' = AccIdle
       ELSE AccRunsNow(r, c, c) /\ UNCHANGED accPending
    /\ UNCHANGED <<accMode, accGrants, accRules, accClock>>

\* An answer is classified again: under the tool as it was asked for, and by the
\* base policy only. A refused answer leaves the question open.
AccRiskier(q, c) == AccRank[AccBase(c, AccDeclared(q.call)).risk] > AccRank[q.risk]
AccChanged(q, c) ==
    AccBase(c, AccDeclared(q.call)).effect = "deny" \/ AccRiskier(q, c)

\* The user approves; what runs is the call of the question, as it was logged.
AccApprove(q, scope) ==
    /\ accClock < q.until /\ ~AccChanged(q, AccLogged(q.call))
    /\ accPending' = accPending \ {q}
    /\ accGrants' =
         IF scope = "run_tool" /\ ~q.once /\ q.risk \notin {"external", "high"}
         THEN accGrants \cup {[run |-> q.run, call |-> AccLogged(q.call)]} ELSE accGrants
    /\ AccRunsNow(q.run, q.call, AccLogged(q.call))
    /\ UNCHANGED <<accMode, accRules, accClock>>

\* The user approves arguments of their own: once, and no riskier than the question.
AccEdit(q, c) ==
    /\ accClock < q.until /\ c.tool = q.call.tool /\ ~AccChanged(q, c)
    /\ accPending' = accPending \ {q}
    /\ accLast' = [run |-> q.run, asked |-> q.call, ran |-> c]
    /\ UNCHANGED <<accMode, accGrants, accRules, accClock>>

\* A rejection, any answer after the question expired, or the end of the run's work.
AccDecline(q) ==
    /\ accPending' = accPending \ {q} /\ accLast' = AccIdle
    /\ UNCHANGED <<accMode, accGrants, accRules, accClock>>

\* The questions live in the memory of the main process, the grants in the database.
AccRestart ==
    /\ accPending' = {} /\ accLast' = AccIdle
    /\ UNCHANGED <<accMode, accGrants, accRules, accClock>>

--------------------------------------------------------------------------------
(* The user's settings and time. *)

AccSwitchMode(r) ==
    /\ accMode' = [accMode EXCEPT ![r] = IF @ = "approval" THEN "full_disk" ELSE "approval"]
    /\ accLast' = AccIdle
    /\ UNCHANGED <<accPending, accGrants, accRules, accClock>>

AccAddRule(r, tool, path, until) ==
    /\ accRules = {}
    /\ accRules' = {[home |-> AccHome[r], tool |-> tool, path |-> path, until |-> until]}
    /\ accLast' = AccIdle
    /\ UNCHANGED <<accMode, accPending, accGrants, accClock>>

AccRemoveRule(u) ==
    /\ accRules' = accRules \ {u} /\ accLast' = AccIdle
    /\ UNCHANGED <<accMode, accPending, accGrants, accClock>>

AccTick ==
    /\ accClock < AccHorizon /\ accClock' = accClock + 1 /\ accLast' = AccIdle
    /\ UNCHANGED <<accMode, accPending, accGrants, accRules>>

AccInit ==
    /\ accMode = [r \in AccRuns |-> "approval"]
    /\ accPending = {} /\ accGrants = {} /\ accRules = {}
    /\ accClock = 0 /\ accLast = AccIdle

AccNext ==
    \/ \E r \in AccRuns, c \in AccCalls : AccHandle(r, c)
    \/ \E q \in accPending : \/ \E s \in {"once", "run_tool"} : AccApprove(q, s)
                             \/ \E c \in AccCalls : AccEdit(q, c)
                             \/ AccDecline(q)
    \/ \E r \in AccRuns : AccSwitchMode(r)
    \/ \E r \in AccRuns, t \in {"file.write", "file.edit"}, p \in AccRulePaths,
         u \in {1, AccNever} : AccAddRule(r, t, p, u)
    \/ \E u \in accRules : AccRemoveRule(u)
    \/ AccRestart \/ AccTick

AccSpec == AccInit /\ [][AccNext]_accVars

--------------------------------------------------------------------------------
(* Properties. *)

AccAnswered(q) == q \in accPending /\ q \notin accPending'
AccRan == accLast' # AccIdle

\* Every call in play is one some model made or some user wrote, and a question keeps
\* the risk and the one-shot mark its call has whatever the mode (waitForApproval).
AccTypeOK ==
    LET known == AccCalls \cup {AccLogged(c) : c \in AccCalls} IN
    /\ accMode \in [AccRuns -> {"approval", "full_disk"}]
    /\ accClock \in 0 .. AccHorizon
    /\ \A q \in accPending :
          /\ q.run \in AccRuns /\ q.call \in AccCalls /\ q.until <= accClock + AccDay
          /\ q.risk = AccBase(q.call, AccDeclared(q.call)).risk
          /\ q.once <=> (AccRank[q.risk] >= 2 \/ AccGuarded[q.call.aim] = "sensitive")
    /\ \A g \in accGrants : g.run \in AccRuns /\ g.call \in known
    /\ Cardinality(accRules) <= 1
    /\ accLast # AccIdle => accLast.run \in AccRuns /\ accLast.ran \in known

\* A run that must ask writes a file only in answer to a question of its own, or on a
\* grant it was given for this very call, or on a rule of its own workspace for this
\* tool and path that has not expired (hasRunGrant).
AccWritesAuthorised ==
    [][(AccRan /\ accLast'.ran.tool \in {"file.write", "file.edit"}
               /\ accMode[accLast'.run] = "approval")
       => \/ \E q \in accPending : AccAnswered(q) /\ q.run = accLast'.run
          \/ [run |-> accLast'.run, call |-> accLast'.ran] \in accGrants
          \/ \E u \in accRules : /\ u.home = AccHome[accLast'.run]
                                 /\ u.tool = accLast'.ran.tool
                                 /\ u.path = accLast'.ran.aim
                                 /\ accClock < u.until]_accVars

\* A call aimed at a sensitive file, a deletion and a click run in answer to a question
\* each, whatever was granted before and whatever the mode.
AccEachTimeAsked ==
    [][(AccRan /\ \/ AccGuarded[accLast'.ran.aim] = "sensitive"
                  \/ accLast'.ran.tool \in {"file.delete", "mcp", "click"}
                  \/ accLast'.ran.form \in {"rm", "push", "login"})
       => \E q \in accPending : AccAnswered(q) /\ q.run = accLast'.run]_accVars

\* A read-only run changes nothing: not by the arguments the user writes into the
\* answer to a question that was only about reading.
AccReadersOnlyRead ==
    [][(AccRan /\ accLast'.run \in AccReadOnly)
       => /\ accLast'.ran.tool \in {"file.read", "web.search", "web.fetch", "shell"}
          /\ accLast'.ran.tool = "shell" => accLast'.ran.form = "ls"]_accVars

\* A shell command that drives applications never runs, though a command that also
\* names a sensitive file is put to the user instead of being refused.
AccAppsAreOffLimits == [][AccRan => ~AccForbidden(accLast'.ran)]_accVars

\* A call the user approved, and did not edit, runs with the arguments it was asked
\* with.
AccRunsAsAsked ==
    [][\A q \in accPending : (\E s \in {"once", "run_tool"} : AccApprove(q, s))
                             => accLast'.ran = q.call]_accVars

\* Nothing is done without the leave it takes, nor by a run that may not do it at all,
\* however answers, grants, rules and edited arguments combine.
AccAskedAndBounded ==
    /\ AccWritesAuthorised
    /\ AccEachTimeAsked
    /\ AccReadersOnlyRead
    /\ AccAppsAreOffLimits
================================================================================
