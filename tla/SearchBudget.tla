------------------------------ MODULE SearchBudget -----------------------------
(* The web searches of a run's turn: searchShortcut of tool-broker.ts answers a       *)
(* repeated query from its receipt and refuses new ones when enough different queries *)
(* have ended. Searches run side by side, as many as the agent host lets readers run. *)
EXTENDS Naturals, FiniteSets

CONSTANTS
    SbQueries,     \* queries, after normalisation
    SbMax,         \* MAX_UNIQUE_SEARCHES_PER_TURN
    SbWidth,       \* parallel reads of a run
    SbMaxCalls,    \* bound on the searches asked for
    SbMaxTurns     \* bound on the turns

ASSUME SbAssumption == SbMax \in Nat \ {0} /\ SbWidth \in Nat \ {0}

VARIABLES
    sbCalls,   \* receipts of web_search: the turn, the query, its state and who answered
    sbTurn

sbVars == <<sbCalls, sbTurn>>

SbEnded == {"succeeded", "failed", "cancelled"}
SbOpen == {c \in sbCalls : c.state = "open"}

\* Receipts of this turn that have ended.
SbPrior == {c \in sbCalls : c.turn = sbTurn /\ c.state \in SbEnded}

SbUnique(prior) == Cardinality({c.query : c \in prior})

SbCached(q) == \E c \in SbPrior : c.query = q /\ c.state = "succeeded"
\* Faulty variant: one query too many passes.
SbSpentAfter == SbUnique(SbPrior) > SbMax
SbSpent == SbUnique(SbPrior) >= SbMax

SbReceipt(q, state, by) ==
    [id |-> Cardinality(sbCalls) + 1, turn |-> sbTurn, query |-> q, state |-> state, by |-> by]

\* handle of a search: answered at once from a receipt or by the budget, or sent.
SbSearch(q) ==
    /\ Cardinality(sbCalls) < SbMaxCalls /\ Cardinality(SbOpen) < SbWidth
    /\ sbCalls' = sbCalls \cup
         {IF SbCached(q) THEN SbReceipt(q, "succeeded", "receipt")
          ELSE IF SbSpent THEN SbReceipt(q, "succeeded", "budget")
          ELSE SbReceipt(q, "open", "engine")}
    /\ UNCHANGED sbTurn

SbFinish(c, state) ==
    /\ c.state = "open"
    /\ sbCalls' = (sbCalls \ {c}) \cup {[c EXCEPT !.state = state]}
    /\ UNCHANGED sbTurn

\* The next message of the user starts a turn; a pause before it cancels what is open.
SbNextTurn ==
    /\ sbTurn < SbMaxTurns /\ SbOpen = {} /\ sbTurn' = sbTurn + 1
    /\ UNCHANGED sbCalls

SbInit == sbCalls = {} /\ sbTurn = 1

SbNext ==
    \/ \E q \in SbQueries : SbSearch(q)
    \/ \E c \in sbCalls, s \in SbEnded : SbFinish(c, s)
    \/ SbNextTurn

SbSpec == SbInit /\ [][SbNext]_sbVars

--------------------------------------------------------------------------------
(* Properties. *)

SbSent(t) == {c.query : c \in {d \in sbCalls : d.turn = t /\ d.by = "engine"}}

\* An answer taken from a receipt repeats one of the same turn and query, which came
\* from the engine or was the refusal itself.
SbTypeOK ==
    /\ Cardinality(SbOpen) <= SbWidth
    /\ \A c \in sbCalls : c.by = "receipt" =>
          \E d \in sbCalls : /\ d.turn = c.turn /\ d.query = c.query /\ d.id < c.id
                             /\ d.by \in {"engine", "budget"} /\ d.state = "succeeded"

\* Only ended searches count, so searches running side by side pass together; still no
\* turn sends more different queries than the budget and one less than the width
\* (MAX_UNIQUE_SEARCHES_PER_TURN, maxParallelReadTools).
SbBudgetHolds ==
    \A t \in 1 .. sbTurn : Cardinality(SbSent(t)) <= SbMax + SbWidth - 1

\* A query is refused only in a turn that sent as many different queries as the budget
\* allows: neither an earlier turn nor repeated queries use it up.
SbRefusedWhenSpent ==
    \A c \in sbCalls : c.by = "budget" => Cardinality(SbSent(c.turn)) >= SbMax

\* The search budget of a turn is neither overrun by more than what runs side by side nor
\* refused while it is unspent.
SbCountsRight == SbBudgetHolds /\ SbRefusedWhenSpent
================================================================================
