---------------------------- MODULE RecordsProofs -----------------------------
(***************************************************************************)
(* Theorems about what is recorded and judged afterwards: CompletionGate,  *)
(* AuditTrail and Traces, for any calls, files, texts and runs.            *)
(*                                                                         *)
(* CompletionGate orders the calls of a turn by their instants: a call     *)
(* that changes something overlaps with none, so that a later check has    *)
(* seen what it left.  AuditTrail models a digest as the chain of texts it *)
(* is made of, which is injective; retention keeps the youngest entries.   *)
(* Traces rests on an equality: what the recorder holds of a run is what   *)
(* is open of it in the database, each span once, so that the one can      *)
(* close the other.                                                        *)
(***************************************************************************)
EXTENDS CompletionGate, AuditTrail, Traces, Integers, FiniteSetTheorems, WellFoundedInduction,
        TLAPS

\* A set of numbers with a bound has a largest member, since distances to the bound have a
\* smallest.
LEMMA LargestExists ==
    ASSUME NEW S \in SUBSET Nat, NEW n \in Nat, \A x \in S : x <= n, S # {}
    PROVE  \E x \in S : \A y \in S : x >= y
<1> DEFINE T == {m \in Nat : m <= n /\ n - m \in S}
<1>1. T \subseteq Nat /\ T # {}
  <2>1. PICK x \in S : TRUE
    OBVIOUS
  <2>2. n - x \in Nat /\ n - x <= n /\ n - (n - x) = x
    BY <2>1
  <2>3. n - x \in T
    BY <2>1, <2>2
  <2> QED BY <2>3
<1>2. PICK m \in T : \A y \in T : ~(<<y, m>> \in OpToRel(<, Nat))
  <2> HIDE DEF T
  <2> QED BY <1>1, WFMin, NatLessThanWellFounded
<1>3. \A y \in T : ~(y < m)
  BY <1>1, <1>2 DEF OpToRel
<1>4. n - m \in S /\ m \in Nat /\ m <= n
  OBVIOUS
<1>5. ASSUME NEW y \in S PROVE n - m >= y
  <2>1. n - y \in Nat /\ n - y <= n /\ n - (n - y) = y
    OBVIOUS
  <2>2. n - y \in T
    BY <2>1
  <2>3. ~(n - y < m)
    BY <1>3, <2>2
  <2> QED BY <1>4, <2>1, <2>3
<1> QED BY <1>4, <1>5

-----------------------------------------------------------------------------
(* CompletionGate: the verdict of a turn *)

LEMMA MaxIsLargest ==
    ASSUME NEW S \in SUBSET Nat, NEW n \in Nat, \A x \in S : x <= n, S # {}
    PROVE  Max(S) \in S /\ \A y \in S : Max(S) >= y
  BY LargestExists DEF Max


\* A recorded call of a turn.
GateRow == [tool : GateTools, file : GateFiles, hash : GateContents \cup {0}, at : Nat,
            state : {"running", "succeeded", "failed", "cancelled"}]

\* Two calls that are not both reads never overlap: the first is settled before the second is
\* made, so the instants tell their order.
GateOrdered ==
    \A i, j \in 1..Len(gateCalls) :
        i < j /\ ~({gateCalls[i].tool, gateCalls[j].tool} \subseteq GateReads) =>
            /\ gateCalls[i].state # "running"
            /\ gateCalls[i].at <= gateCalls[j].at
            /\ gateCalls[j].state # "running" => gateCalls[i].at < gateCalls[j].at

\* Calls are recorded up to now, and those that run are of this turn.
GateSettledBy == \A i \in 1..Len(gateCalls) :
    gateCalls[i].at <= gateClock /\ (gateCalls[i].state = "running" => i >= gateFrom)

\* Once the turn is judged nothing runs, so what the verdict rests on stays; and only a step
\* that exists is worked on.
GateAtRest ==
    /\ gateVerdict # "open" => GateRunning = {}
    /\ gateStep.touched => gateStep.exists

\* The inductive invariant.
GateInv == GateTypeOK /\ GateOrdered /\ GateSettledBy /\ GateAtRest /\ GateVerdictHonest

LEMMA GateTyped ==
    GateTypeOK <=>
        /\ gateCalls \in Seq(GateRow) /\ gateFrom \in 1..Len(gateCalls) + 1
        /\ gateStep \in [exists : BOOLEAN, status : GateStepStates, evidence : BOOLEAN, touched : BOOLEAN]
        /\ gateClock \in Nat /\ gateVerdict \in {"open", "none", "verified", "partial"}
  BY DEF GateTypeOK, GateRow

LEMMA GateRowFields ==
    ASSUME NEW row \in GateRow
    PROVE  /\ row.tool \in GateTools /\ row.at \in Nat
           /\ row.state \in {"running", "succeeded", "failed", "cancelled"}
  BY DEF GateRow

\* The index facts every step needs.
LEMMA GateIndices ==
    ASSUME GateTypeOK
    PROVE  /\ Len(gateCalls) \in Nat /\ gateFrom \in Nat /\ gateFrom >= 1 /\ gateFrom <= Len(gateCalls) + 1
           /\ \A i \in 1..Len(gateCalls) : gateCalls[i] \in GateRow /\ i \in Nat
           /\ \A i \in GateTurn : i \in 1..Len(gateCalls)
<1>1. gateCalls \in Seq(GateRow) /\ gateFrom \in 1..Len(gateCalls) + 1
  BY GateTyped
<1>2. Len(gateCalls) \in Nat
  BY <1>1
<1> QED BY <1>1, <1>2 DEF GateTurn

LEMMA GateInitHolds == GateInit => GateInv
<1> SUFFICES ASSUME GateInit PROVE GateInv
  OBVIOUS
<1>1. Len(gateCalls) = 0
  BY DEF GateInit
<1>2. GateTurn = {}
  BY <1>1 DEF GateInit, GateTurn
<1>3. GateTypeOK
  BY <1>1 DEF GateInit, GateTypeOK, GateStepStates
<1>4. GateOrdered /\ GateSettledBy
  BY <1>1 DEF GateOrdered, GateSettledBy
<1>5. GateAtRest /\ GateVerdictHonest
  BY DEF GateInit, GateAtRest, GateVerdictHonest, GateLastWriteChecked, GateFailuresMadeGood,
         GateStepsHonest, GatePlainTalk
<1> QED BY <1>3, <1>4, <1>5 DEF GateInv

\* What settling a call does to the receipts.
LEMMA GateSettling ==
    ASSUME GateInv, NEW i \in GateRunning, NEW state \in {"succeeded", "failed", "cancelled"},
           NEW hash \in GateContents \cup {0}, GateSettled(i, state, hash),
           gateFrom' = gateFrom, gateVerdict' = gateVerdict
    PROVE  /\ gateCalls' \in Seq(GateRow) /\ Len(gateCalls') = Len(gateCalls)
           /\ gateClock' \in Nat /\ GateOrdered' /\ GateSettledBy' /\ gateVerdict = "open"
<1>0. GateTypeOK /\ GateOrdered /\ GateSettledBy /\ GateAtRest
  BY DEF GateInv
<1>1. /\ gateCalls \in Seq(GateRow) /\ gateClock \in Nat /\ i \in 1..Len(gateCalls)
      /\ gateCalls[i] \in GateRow /\ gateCalls[i].state = "running"
  BY <1>0, GateTyped, GateIndices DEF GateRunning, GateIs
<1> DEFINE row == [gateCalls[i] EXCEPT !.state = state, !.hash = hash, !.at = gateClock + 1]
<1>2. gateCalls' = [gateCalls EXCEPT ![i] = row] /\ gateClock' = gateClock + 1
  BY <1>1 DEF GateSettled
<1>3. row \in GateRow /\ row.tool = gateCalls[i].tool /\ row.state = state /\ row.at = gateClock + 1
  <2>1. gateClock + 1 \in Nat
    BY <1>1
  <2> DEFINE old == gateCalls[i]
             at == gateClock + 1
  <2>3. old \in GateRow /\ at \in Nat
    BY <1>1, <2>1
  <2> HIDE DEF old, at
  <2>4. /\ [old EXCEPT !.state = state, !.hash = hash, !.at = at] \in GateRow
        /\ [old EXCEPT !.state = state, !.hash = hash, !.at = at].tool = old.tool
        /\ [old EXCEPT !.state = state, !.hash = hash, !.at = at].state = state
        /\ [old EXCEPT !.state = state, !.hash = hash, !.at = at].at = at
    BY <2>3 DEF GateRow
  <2> QED BY <2>4 DEF old, at
<1> HIDE DEF row
<1>4. /\ gateCalls' \in Seq(GateRow) /\ Len(gateCalls') = Len(gateCalls) /\ gateCalls'[i] = row
      /\ \A j \in 1..Len(gateCalls) : j # i => gateCalls'[j] = gateCalls[j]
  BY <1>1, <1>2, <1>3
<1>5. \A j \in 1..Len(gateCalls) :
          /\ gateCalls'[j].tool = gateCalls[j].tool
          /\ gateCalls[j].at \in Nat /\ gateCalls[j].at <= gateClock
          /\ gateCalls'[j].at = (IF j = i THEN gateClock + 1 ELSE gateCalls[j].at)
          /\ gateCalls'[j].state = (IF j = i THEN state ELSE gateCalls[j].state)
  BY <1>0, <1>3, <1>4, GateIndices, GateRowFields DEF GateSettledBy
<1>6. GateOrdered'
  <2> SUFFICES ASSUME NEW k \in 1..Len(gateCalls), NEW j \in 1..Len(gateCalls), k < j,
                      ~({gateCalls[k].tool, gateCalls[j].tool} \subseteq GateReads)
               PROVE  /\ gateCalls'[k].state # "running"
                      /\ gateCalls'[k].at <= gateCalls'[j].at
                      /\ gateCalls'[j].state # "running" => gateCalls'[k].at < gateCalls'[j].at
    BY <1>4, <1>5 DEF GateOrdered
  <2>1. /\ gateCalls[k].state # "running" /\ gateCalls[k].at <= gateCalls[j].at
        /\ gateCalls[j].state # "running" => gateCalls[k].at < gateCalls[j].at
    BY <1>0 DEF GateOrdered
  <2>2. k # i
    BY <1>1, <2>1
  <2>3. CASE j = i
    BY <1>1, <1>5, <2>1, <2>2, <2>3
  <2>4. CASE j # i
    BY <1>5, <2>1, <2>2, <2>4
  <2> QED BY <2>3, <2>4
<1>7. GateSettledBy'
  <2> SUFFICES ASSUME NEW j \in 1..Len(gateCalls)
               PROVE  gateCalls'[j].at <= gateClock' /\ (gateCalls'[j].state = "running" => j >= gateFrom)
    BY <1>4 DEF GateSettledBy
  <2>1. gateCalls[j].at \in Nat /\ gateCalls[j].at <= gateClock /\ (gateCalls[j].state = "running" => j >= gateFrom)
    BY <1>0, <1>5 DEF GateSettledBy
  <2> QED BY <1>1, <1>2, <1>5, <2>1
<1>8. gateVerdict = "open" /\ gateClock' \in Nat
  BY <1>0, <1>1, <1>2 DEF GateAtRest
<1> QED BY <1>4, <1>6, <1>7, <1>8

LEMMA GateCallKeeps ==
    ASSUME GateInv, NEW tool \in GateTools, NEW file \in GateFiles, GateCall(tool, file) PROVE GateInv'
<1> DEFINE row == [tool |-> tool, file |-> file, hash |-> 0, at |-> gateClock, state |-> "running"]
           n == Len(gateCalls) + 1
<1>0. GateTypeOK /\ GateOrdered /\ GateSettledBy
  BY DEF GateInv
<1>1. /\ gateCalls' = Append(gateCalls, row) /\ gateVerdict' = "open"
      /\ UNCHANGED <<gateFrom, gateStep, gateClock>>
      /\ \A i \in GateRunning : {tool, gateCalls[i].tool} \subseteq GateReads
  BY DEF GateCall
<1>2. row \in GateRow /\ row.tool = tool /\ row.at = gateClock /\ row.state = "running" /\ gateClock \in Nat
  BY <1>0, GateTyped DEF GateRow
<1> HIDE DEF row
<1>3. /\ gateCalls' \in Seq(GateRow) /\ Len(gateCalls') = n /\ gateCalls'[n] = row /\ n \in Nat
      /\ \A i \in 1..Len(gateCalls) : gateCalls'[i] = gateCalls[i]
      /\ \A i \in 1..n : i \in 1..Len(gateCalls) \/ i = n
  <2>1. gateCalls \in Seq(GateRow) /\ Len(gateCalls) \in Nat
    BY <1>0, GateTyped, GateIndices
  <2> QED BY <1>1, <1>2, <2>1
<1>4. \A i \in 1..Len(gateCalls) : /\ gateCalls[i].at \in Nat /\ gateCalls[i].at <= gateClock /\ i < n /\ i \in Nat
                                   /\ gateCalls[i].state = "running" => i >= gateFrom
                                   /\ gateCalls[i] \in GateRow
  BY <1>0, GateIndices, GateRowFields DEF GateSettledBy
<1>5. \A i \in 1..Len(gateCalls) : gateCalls[i].state = "running" => i \in GateRunning
  BY <1>0, <1>4, GateIndices, GateRowFields DEF GateRunning, GateIs, GateTurn
<1>6. GateTypeOK'
  <2>1. gateFrom' \in 1..Len(gateCalls') + 1
    BY <1>0, <1>1, <1>3, GateIndices
  <2> QED BY <1>0, <1>1, <1>3, <2>1, GateTyped DEF GateTypeOK, GateRow
<1>7. GateOrdered'
  <2> SUFFICES ASSUME NEW i \in 1..n, NEW j \in 1..n, i < j,
                      ~({gateCalls'[i].tool, gateCalls'[j].tool} \subseteq GateReads)
               PROVE  /\ gateCalls'[i].state # "running"
                      /\ gateCalls'[i].at <= gateCalls'[j].at
                      /\ gateCalls'[j].state # "running" => gateCalls'[i].at < gateCalls'[j].at
    BY <1>3 DEF GateOrdered
  <2>1. i \in 1..Len(gateCalls)
    BY <1>3, <1>4
  <2>2. CASE j = n
    BY <1>1, <1>2, <1>3, <1>4, <1>5, <2>1, <2>2
  <2>3. CASE j # n
    BY <1>0, <1>3, <2>1, <2>3 DEF GateOrdered
  <2> QED BY <2>2, <2>3
<1>8. GateSettledBy'
  <2> SUFFICES ASSUME NEW i \in 1..n
               PROVE  gateCalls'[i].at <= gateClock' /\ (gateCalls'[i].state = "running" => i >= gateFrom')
    BY <1>3 DEF GateSettledBy
  <2>1. CASE i \in 1..Len(gateCalls)
    BY <1>1, <1>3, <1>4, <2>1
  <2>2. CASE i = n
    BY <1>0, <1>1, <1>2, <1>3, <2>2, GateIndices
  <2> QED BY <1>3, <2>1, <2>2
<1>9. /\ (gateStep.exists /\ gateStep.status = "completed" => gateStep.evidence)'
      /\ (gateStep.touched => gateStep.exists)'
  BY <1>1 DEF GateInv, GateVerdictHonest, GateStepsHonest, GateAtRest
<1>10. GateAtRest' /\ GateVerdictHonest'
  BY <1>1, <1>9 DEF GateAtRest, GateVerdictHonest, GateLastWriteChecked, GateFailuresMadeGood,
                    GateStepsHonest, GatePlainTalk
<1> QED BY <1>6, <1>7, <1>8, <1>10 DEF GateInv

\* A call that is settled, with what its handler does to the planned step.
LEMMA GateSettleKeeps ==
    ASSUME GateInv, NEW i \in GateRunning,
           \/ \E content \in GateContents \cup {0} : GateSucceeds(i, content)
           \/ \E state \in {"failed", "cancelled"} : GateFails(i, state)
           \/ GatePlan(i)
           \/ \E status \in GateStepStates, evidence \in BOOLEAN : GateStepUpdate(i, status, evidence)
    PROVE  GateInv'
<1>0. /\ GateTypeOK /\ (gateStep.touched => gateStep.exists)
      /\ gateStep.exists /\ gateStep.status = "completed" => gateStep.evidence
  BY DEF GateInv, GateVerdictHonest, GateStepsHonest, GateAtRest
<1> DEFINE StepRow == [exists : BOOLEAN, status : GateStepStates, evidence : BOOLEAN, touched : BOOLEAN]
<1>1. PICK state \in {"succeeded", "failed", "cancelled"}, hash \in GateContents \cup {0} :
          GateSettled(i, state, hash) /\ gateFrom' = gateFrom /\ gateVerdict' = gateVerdict
  BY DEF GateSucceeds, GateFails, GatePlan, GateStepUpdate
<1>2. /\ gateCalls' \in Seq(GateRow) /\ Len(gateCalls') = Len(gateCalls)
      /\ gateClock' \in Nat /\ GateOrdered' /\ GateSettledBy' /\ gateVerdict = "open"
  BY <1>1, GateSettling
<1>3. /\ gateStep' \in StepRow
      /\ gateStep'.exists /\ gateStep'.status = "completed" => gateStep'.evidence
      /\ gateStep'.touched => gateStep'.exists
  <2>1. gateStep \in StepRow
    BY <1>0 DEF GateTypeOK
  <2>2. CASE UNCHANGED gateStep
    BY <1>0, <2>1, <2>2
  <2>3. CASE GatePlan(i)
    <3>1. gateStep' = gateStep
          \/ gateStep' = [exists |-> TRUE, status |-> "pending", evidence |-> FALSE, touched |-> TRUE]
      BY <2>3 DEF GatePlan
    <3>2. CASE gateStep' = gateStep
      BY <1>0, <2>1, <3>2
    <3>3. CASE gateStep' = [exists |-> TRUE, status |-> "pending", evidence |-> FALSE, touched |-> TRUE]
      BY <3>3 DEF GateStepStates
    <3> QED BY <3>1, <3>2, <3>3
  <2>4. ASSUME NEW status \in GateStepStates, NEW evidence \in BOOLEAN, GateStepUpdate(i, status, evidence)
        PROVE  /\ gateStep' \in StepRow
               /\ gateStep'.exists /\ gateStep'.status = "completed" => gateStep'.evidence
               /\ gateStep'.touched => gateStep'.exists
    <3>1. /\ gateStep.exists /\ gateStep' = [gateStep EXCEPT !.status = status, !.evidence = @ \/ evidence, !.touched = TRUE]
          /\ status = "completed" => gateStep.evidence \/ evidence
      BY <2>4 DEF GateStepUpdate, GateEvidenced
    <3>2. /\ gateStep'.status = status /\ gateStep'.evidence = (gateStep.evidence \/ evidence)
          /\ gateStep'.exists = gateStep.exists
      BY <2>1, <3>1
    <3>3. gateStep' \in StepRow
      BY <2>1, <3>1
    <3> QED BY <3>1, <3>2, <3>3
  <2> QED BY <2>2, <2>3, <2>4 DEF GateSucceeds, GateFails
<1>4. GateTypeOK'
  <2>1. gateFrom' \in 1..Len(gateCalls') + 1 /\ gateVerdict' \in {"open", "none", "verified", "partial"}
    BY <1>0, <1>1, <1>2 DEF GateTypeOK
  <2> QED BY <1>2, <1>3, <2>1 DEF GateTypeOK, GateRow
<1>5. gateVerdict' = "open"
  BY <1>1, <1>2
<1>6. GateAtRest' /\ GateVerdictHonest'
  BY <1>3, <1>5 DEF GateAtRest, GateVerdictHonest, GateLastWriteChecked, GateFailuresMadeGood,
                    GateStepsHonest, GatePlainTalk
<1> QED BY <1>2, <1>4, <1>6 DEF GateInv

LEMMA GateNewTurnKeeps == ASSUME GateInv, GateNewTurn PROVE GateInv'
<1>0. /\ GateTypeOK /\ GateOrdered /\ GateSettledBy /\ GateRunning = {}
      /\ gateStep.exists /\ gateStep.status = "completed" => gateStep.evidence
  BY DEF GateInv, GateAtRest, GateNewTurn, GateVerdictHonest, GateStepsHonest
<1>1. /\ gateVerdict' = "open" /\ gateFrom' = Len(gateCalls) + 1 /\ gateStep' = [gateStep EXCEPT !.touched = FALSE]
      /\ UNCHANGED <<gateCalls, gateClock>>
  BY DEF GateNewTurn, GateTurnStart
<1>2. GateTypeOK'
  <2>1. gateFrom' \in 1..Len(gateCalls') + 1
    BY <1>0, <1>1, GateIndices
  <2>2. gateStep' \in [exists : BOOLEAN, status : GateStepStates, evidence : BOOLEAN, touched : BOOLEAN]
    BY <1>0, <1>1 DEF GateTypeOK
  <2> QED BY <1>0, <1>1, <2>1, <2>2 DEF GateTypeOK
<1>3. GateOrdered' /\ GateSettledBy'
  <2>1. \A i \in 1..Len(gateCalls) : gateCalls[i].state # "running"
    BY <1>0, GateIndices, GateRowFields DEF GateRunning, GateIs, GateTurn, GateSettledBy
  <2> QED BY <1>0, <1>1, <2>1 DEF GateOrdered, GateSettledBy
<1>4. /\ gateStep'.exists /\ gateStep'.status = "completed" => gateStep'.evidence
      /\ gateStep'.touched = FALSE
  BY <1>0, <1>1 DEF GateTypeOK
<1>5. GateAtRest' /\ GateVerdictHonest'
  BY <1>1, <1>4 DEF GateAtRest, GateVerdictHonest, GateLastWriteChecked, GateFailuresMadeGood,
                    GateStepsHonest, GatePlainTalk
<1> QED BY <1>2, <1>3, <1>5 DEF GateInv

\* The change completeTask looks at is the last one, and what it finds since then came later.
LEMMA GateLatestIsLast ==
    ASSUME GateTypeOK, GateOrdered, GateMutated # {}
    PROVE  /\ GateLatest = Max(GateMutated) /\ GateLatest \in GateMutated
           /\ \A j \in GateTurn : gateCalls[j].tool \notin GateMutations /\ GateSinceLatest(j) => j > GateLatest
<1> DEFINE m == Max(GateMutated)
<1>1. /\ GateMutated \subseteq GateTurn
      /\ \A i \in GateMutated : gateCalls[i].tool \in GateMutations /\ gateCalls[i].state = "succeeded"
  BY DEF GateMutated, GateIs
<1>2. \A i \in GateTurn : /\ i \in 1..Len(gateCalls) /\ i \in Nat /\ i <= Len(gateCalls)
                          /\ gateCalls[i].at \in Nat
  BY GateIndices, GateRowFields
<1>3. m \in GateMutated /\ \A i \in GateMutated : m >= i
  BY <1>1, <1>2, GateIndices, MaxIsLargest
<1> HIDE DEF m
<1>4. \A i, j \in GateTurn : i < j /\ gateCalls[i].tool \in GateMutations /\ gateCalls[j].state = "succeeded"
          => gateCalls[i].at < gateCalls[j].at
  BY <1>2 DEF GateOrdered, GateReads, GateMutations
<1>5. \A i \in GateMutated : gateCalls[i].at <= gateCalls[m].at
  <2> TAKE i \in GateMutated
  <2>1. CASE i = m
    BY <1>1, <1>2, <2>1
  <2>2. CASE i < m
    BY <1>1, <1>2, <1>3, <1>4, <2>2
  <2> QED BY <1>1, <1>2, <1>3, <2>1, <2>2
<1>6. GateLatest \in GateMutated /\ \A j \in GateMutated : gateCalls[j].at <= gateCalls[GateLatest].at
  BY <1>3, <1>5 DEF GateLatest
<1>7. GateLatest = m
  <2>1. ~(GateLatest < m)
    BY <1>1, <1>2, <1>3, <1>4, <1>6
  <2> QED BY <1>1, <1>2, <1>3, <1>6, <2>1
<1>8. ASSUME NEW j \in GateTurn, gateCalls[j].tool \notin GateMutations, GateSinceLatest(j)
      PROVE  j > m
  <2>1. j # m
    BY <1>1, <1>3, <1>8
  <2>2. ~(j < m)
    <3>1. j < m => gateCalls[j].at < gateCalls[m].at
      BY <1>1, <1>2, <1>3 DEF GateOrdered, GateReads, GateMutations
    <3> QED BY <1>1, <1>2, <1>3, <1>7, <1>8, <3>1 DEF GateSinceLatest
  <2> QED BY <1>1, <1>2, <1>3, <2>1, <2>2
<1> QED BY <1>6, <1>7, <1>8 DEF m

\* The verdict itself.
LEMMA GateCompleteKeeps ==
    ASSUME GateInv, NEW unverified \in BOOLEAN, GateComplete(unverified) PROVE GateInv'
<1>0. /\ GateTypeOK /\ GateOrdered /\ GateSettledBy /\ (gateStep.touched => gateStep.exists)
      /\ gateStep.exists /\ gateStep.status = "completed" => gateStep.evidence
  BY DEF GateInv, GateVerdictHonest, GateStepsHonest, GateAtRest
<1>1. /\ UNCHANGED <<gateCalls, gateFrom, gateStep, gateClock>> /\ GateRunning = {}
      /\ gateVerdict' \in {"none", "verified", "partial"}
      /\ gateVerdict' = "none" <=> GateRelevant = {}
      /\ gateVerdict' = "verified" => GateVerified(unverified)
  BY DEF GateComplete, GateJudged
<1>2. GateTypeOK' /\ GateOrdered' /\ GateSettledBy' /\ GateAtRest'
  BY <1>0, <1>1 DEF GateTypeOK, GateOrdered, GateSettledBy, GateAtRest, GateRunning, GateIs, GateTurn
<1>3. ASSUME GateVerified(unverified), GateMutated # {}
      PROVE  \E j \in GateTurn :
                 /\ j > Max(GateMutated) /\ gateCalls[j].state = "succeeded"
                 /\ \/ gateCalls[j].tool = "check"
                    \/ gateCalls[j].tool = "read" /\ gateCalls[j].hash = gateCalls[Max(GateMutated)].hash
  <2>1. GateReadBack \/ GateChecked
    BY <1>3 DEF GateVerified, GateLacking
  <2>2. CASE GateReadBack
    <3>1. PICK i \in GateIs({"read"}, {"succeeded"}) :
             GateSinceLatest(i) /\ gateCalls[i].hash = gateCalls[GateLatest].hash
      BY <2>2 DEF GateReadBack
    <3>2. i \in GateTurn /\ gateCalls[i].tool = "read" /\ gateCalls[i].state = "succeeded"
      BY DEF GateIs
    <3> QED BY <1>0, <1>3, <3>1, <3>2, GateLatestIsLast DEF GateMutations
  <2>3. CASE GateChecked
    <3>1. PICK i \in GateIs({"check"}, {"succeeded"}) : GateSinceLatest(i)
      BY <2>3 DEF GateChecked, GateChecksPassed
    <3>2. i \in GateTurn /\ gateCalls[i].tool = "check" /\ gateCalls[i].state = "succeeded"
      BY DEF GateIs
    <3> QED BY <1>0, <1>3, <3>1, <3>2, GateLatestIsLast DEF GateMutations
  <2> QED BY <2>1, <2>2, <2>3
<1>4. ASSUME GateVerified(unverified), NEW i \in GateIs(GateMutations, {"failed"})
      PROVE  \E j \in GateIs(GateMutations, {"succeeded"}) : j > i /\ gateCalls[j].file = gateCalls[i].file
  <2>1. i \in GateIs(GateTools \ (GateReads \cup {"shell"}), {"failed"})
    BY DEF GateIs, GateMutations, GateTools, GateReads
  <2>2. GateRecovered(i)
    BY <1>4, <2>1 DEF GateVerified, GateUnresolved
  <2> QED BY <2>2 DEF GateRecovered, GateIs
<1>5. GateVerified(unverified) /\ gateStep.touched => gateStep.status = "completed"
  BY <1>0 DEF GateVerified, GateStepDone
<1>6. GateMutated' = GateMutated /\ GateTurn' = GateTurn /\ GateRelevant' = GateRelevant
      /\ GateIs(GateMutations, {"failed"})' = GateIs(GateMutations, {"failed"})
      /\ GateIs(GateMutations, {"succeeded"})' = GateIs(GateMutations, {"succeeded"})
  BY <1>1 DEF GateMutated, GateTurn, GateRelevant, GateIs
<1>7. GateLastWriteChecked'
  BY <1>1, <1>3, <1>6 DEF GateLastWriteChecked
<1>8. GateFailuresMadeGood'
  BY <1>1, <1>4, <1>6 DEF GateFailuresMadeGood
<1>9. GateStepsHonest' /\ GatePlainTalk'
  BY <1>0, <1>1, <1>5, <1>6 DEF GateStepsHonest, GatePlainTalk
<1> QED BY <1>2, <1>7, <1>8, <1>9 DEF GateInv, GateVerdictHonest

LEMMA GateStepKeeps == GateInv /\ [GateNext]_gateVars => GateInv'
<1> SUFFICES ASSUME GateInv, [GateNext]_gateVars PROVE GateInv'
  OBVIOUS
<1>1. CASE UNCHANGED gateVars
  <2>1. UNCHANGED <<gateCalls, gateFrom, gateStep, gateClock, gateVerdict>>
    BY <1>1 DEF gateVars
  <2>2. GateTypeOK' /\ GateOrdered' /\ GateSettledBy'
    BY <2>1 DEF GateInv, GateTypeOK, GateOrdered, GateSettledBy
  <2>3. /\ GateMutated' = GateMutated /\ GateTurn' = GateTurn /\ GateRelevant' = GateRelevant
        /\ GateRunning' = GateRunning /\ \A S, T : GateIs(S, T)' = GateIs(S, T)
    BY <2>1 DEF GateRelevant, GateRunning, GateMutated, GateIs, GateTurn
  <2>4. GateAtRest' /\ GateStepsHonest' /\ GatePlainTalk'
    BY <2>1, <2>3 DEF GateInv, GateAtRest, GateVerdictHonest, GateStepsHonest, GatePlainTalk
  <2>5. GateLastWriteChecked'
    BY <2>1, <2>3 DEF GateInv, GateVerdictHonest, GateLastWriteChecked
  <2>6. GateFailuresMadeGood'
    BY <2>1, <2>3 DEF GateInv, GateVerdictHonest, GateFailuresMadeGood
  <2> QED BY <2>2, <2>4, <2>5, <2>6 DEF GateInv, GateVerdictHonest
<1>2. CASE GateNext
  BY <1>2, GateCallKeeps, GateSettleKeeps, GateNewTurnKeeps, GateCompleteKeeps DEF GateNext
<1> QED BY <1>1, <1>2

\* In a verified turn the last change was looked at afterwards, each failed change was made good
\* and each step worked on is completed, a completed step rests on evidence, and only turns that
\* did something are judged, however calls overlap and end (the completion gate).
THEOREM VerdictsAreHonest == GateSpec => []GateVerdictHonest
<1>1. GateInv => GateVerdictHonest
  BY DEF GateInv
<1> QED BY <1>1, GateInitHolds, GateStepKeeps, PTL DEF GateSpec

\* Calls and steps keep their shapes and their instants.
THEOREM GateIsTyped == GateSpec => []GateTypeOK
<1>1. GateInv => GateTypeOK
  BY DEF GateInv
<1> QED BY <1>1, GateInitHolds, GateStepKeeps, PTL DEF GateSpec

-----------------------------------------------------------------------------
(* AuditTrail: chain and retention *)

\* Texts that a digest is made of.
AudWords == AudBodies \cup Nat
AudRow == [id : Nat, kind : {"audit", "log"}, body : AudBodies, size : AudSizes, at : Nat,
           prev : Seq(AudWords), hash : Seq(AudWords)]

\* Rows are numbered once.
AudShape ==
    /\ audRows \subseteq AudRow /\ audWritten \in Nat /\ audClock \in Nat
    /\ \A r \in audRows : r.id \in 1 .. audWritten
    /\ \A r, s \in audRows : r.id = s.id => r = s
    /\ audEdited \subseteq 1 .. audWritten

\* An entry has a hash, and it fits its text unless the text was changed.
AudTrue(r) == r.kind = "audit" => r.hash # <<>> /\ (r.id \in audEdited <=> r.hash # AudDigest(r.prev, r.body))

\* The inductive invariant.
AudInv == AudShape /\ AudYoungestStay /\ \A r \in audRows : AudTrue(r)

LEMMA AudRowFacts ==
    ASSUME NEW r \in AudRow
    PROVE  /\ r.id \in Nat /\ r.kind \in {"audit", "log"} /\ r.body \in AudBodies /\ r.size \in AudSizes
           /\ r.at \in Nat /\ r.prev \in Seq(AudWords) /\ r.hash \in Seq(AudWords)
  BY DEF AudRow

\* A digest tells texts apart, and is never empty.
LEMMA AudDigestApart ==
    ASSUME NEW p \in Seq(AudWords), NEW a \in AudBodies, NEW b \in AudBodies
    PROVE  /\ AudDigest(p, a) \in Seq(AudWords) /\ AudDigest(p, a) # <<>>
           /\ AudDigest(p, a) = AudDigest(p, b) => a = b
<1>1. a \in AudWords /\ b \in AudWords
  BY DEF AudWords
<1>2. Append(p, a) \in Seq(AudWords) /\ Len(Append(p, a)) = Len(p) + 1 /\ Len(p) \in Nat
  BY <1>1
<1>3. Append(p, a) # <<>>
  BY <1>2
<1>4. Append(p, a)[Len(p) + 1] = a /\ Append(p, b)[Len(p) + 1] = b
  BY <1>1
<1> QED BY <1>2, <1>3, <1>4 DEF AudDigest

\* Nothing weighs nothing.
LEMMA AudNothingWeighs == AudTotal({}) = 0
  BY DEF AudTotal, FoldSet, MapThenFoldSet

\* The last entry with a hash exists: among numbers up to a bound there is a largest.
LEMMA AudPrevTyped == ASSUME AudInv PROVE AudPrev \in Seq(AudWords)
<1>1. CASE AudHashed = {}
  <2>1. AudEntries = {}
    BY <1>1 DEF AudInv, AudTrue, AudHashed, AudEntries
  <2>2. AudPrev = <<0>>
    BY <1>1, <2>1 DEF AudPrev, AudLastEntry
  <2> QED BY <2>2 DEF AudWords
<1>2. CASE AudHashed # {}
  <2> DEFINE S == {r.id : r \in AudHashed}
  <2>1. S \in SUBSET Nat /\ audWritten \in Nat /\ (\A x \in S : x <= audWritten) /\ S # {}
    BY <1>2 DEF AudInv, AudShape, AudHashed, AudEntries
  <2>2. \E x \in S : \A y \in S : x >= y
    <3> HIDE DEF S
    <3> QED BY <2>1, LargestExists
  <2>3. PICK r \in AudHashed : \A y \in S : r.id >= y
    BY <2>2
  <2>4. \A s \in AudHashed : s.id <= r.id
    <3> SUFFICES ASSUME NEW s \in AudHashed PROVE s.id <= r.id
      OBVIOUS
    <3>1. s.id \in S /\ s.id \in Nat /\ r.id \in Nat
      BY <2>1
    <3> QED BY <2>3, <3>1
  <2>5. AudLastHashed \in AudHashed
    BY <2>4 DEF AudLastHashed
  <2>6. AudLastHashed \in AudRow
    BY <2>5 DEF AudInv, AudShape, AudHashed, AudEntries
  <2> QED BY <1>2, <2>6, AudRowFacts DEF AudPrev
<1> QED BY <1>1, <1>2

\* A row is added under a number of its own.
LEMMA AudAdds ==
    ASSUME AudInv, NEW n \in AudRow, n.id = audWritten + 1, audRows' = audRows \cup {n},
           n.kind = "audit" => n.hash = AudDigest(n.prev, n.body),
           audWritten' = audWritten + 1, audPruned' = AudNothing, UNCHANGED <<audClock, audEdited>>
    PROVE  AudInv'
<1>1. AudShape
  BY DEF AudInv
<1>2. audWritten \in Nat
  BY <1>1 DEF AudShape
<1>3. AudShape'
  <2>1. audRows' \subseteq AudRow /\ audWritten' \in Nat /\ audClock' \in Nat
    BY <1>1, <1>2 DEF AudShape
  <2>2. \A r \in audRows' : r.id \in 1 .. audWritten'
    BY <1>1, <1>2 DEF AudShape
  <2>3. \A r \in audRows : r.id # n.id
    BY <1>1, <1>2 DEF AudShape
  <2>4. \A r, s \in audRows' : r.id = s.id => r = s
    BY <1>1, <2>3 DEF AudShape
  <2>5. audEdited' \subseteq 1 .. audWritten'
    BY <1>1, <1>2 DEF AudShape
  <2> QED BY <2>1, <2>2, <2>4, <2>5 DEF AudShape
<1>4. AudYoungestStay'
  <2>1. AudTotal({}) <= AudLimit
    BY AudNothingWeighs, AudAssumption
  <2> QED BY <2>1 DEF AudYoungestStay, AudNothing
<1>5. AudTrue(n)'
  <2>1. n.id \notin audEdited
    BY <1>1, <1>2 DEF AudShape
  <2>2. n.kind = "audit" => n.hash # <<>>
    BY AudRowFacts, AudDigestApart
  <2> QED BY <2>1, <2>2 DEF AudTrue
<1>6. \A r \in audRows : AudTrue(r)'
  BY DEF AudInv, AudTrue
<1> QED BY <1>3, <1>4, <1>5, <1>6 DEF AudInv

LEMMA AudAppendKeeps ==
    ASSUME AudInv, NEW b \in AudBodies, NEW z \in AudSizes, AudAppend(b, z) PROVE AudInv'
<1>1. PICK n : n = [id |-> audWritten + 1, kind |-> "audit", body |-> b, size |-> z, at |-> audClock,
                    prev |-> AudPrev, hash |-> AudDigest(AudPrev, b)]
  OBVIOUS
<1>2. AudPrev \in Seq(AudWords) /\ AudDigest(AudPrev, b) \in Seq(AudWords)
  BY AudPrevTyped, AudDigestApart
<1>3. audWritten \in Nat /\ audClock \in Nat
  BY DEF AudInv, AudShape
<1>4. n \in AudRow
  BY <1>1, <1>2, <1>3 DEF AudRow
<1>5. n.id = audWritten + 1 /\ n.hash = AudDigest(n.prev, n.body)
  BY <1>1
<1>6. /\ audRows' = audRows \cup {n} /\ audWritten' = audWritten + 1 /\ audPruned' = AudNothing
      /\ UNCHANGED <<audClock, audEdited>>
  BY <1>1 DEF AudAppend
<1> QED BY <1>4, <1>5, <1>6, AudAdds

LEMMA AudLogKeeps ==
    ASSUME AudInv, NEW b \in AudBodies, NEW z \in AudSizes, AudLog(b, z) PROVE AudInv'
<1>1. PICK n : n = [id |-> audWritten + 1, kind |-> "log", body |-> b, size |-> z, at |-> audClock,
                    prev |-> <<>>, hash |-> <<>>]
  OBVIOUS
<1>2. audWritten \in Nat /\ audClock \in Nat
  BY DEF AudInv, AudShape
<1>3. n \in AudRow
  BY <1>1, <1>2 DEF AudRow
<1>4. n.id = audWritten + 1 /\ n.kind # "audit"
  BY <1>1
<1>5. /\ audRows' = audRows \cup {n} /\ audWritten' = audWritten + 1 /\ audPruned' = AudNothing
      /\ UNCHANGED <<audClock, audEdited>>
  BY <1>1 DEF AudLog
<1> QED BY <1>3, <1>4, <1>5, AudAdds

\* Rows go: what stays is as true as it was.
LEMMA AudDrops ==
    ASSUME AudInv, audRows' \subseteq audRows, UNCHANGED <<audWritten, audEdited>>, audClock' \in Nat, AudYoungestStay'
    PROVE  AudInv'
<1>1. AudShape'
  BY DEF AudInv, AudShape
<1>2. \A r \in audRows : AudTrue(r)'
  BY DEF AudInv, AudTrue
<1> QED BY <1>1, <1>2 DEF AudInv

LEMMA AudNothingPruned == ASSUME audPruned' = AudNothing PROVE AudYoungestStay'
<1>1. AudTotal({}) <= AudLimit
  BY AudNothingWeighs, AudAssumption
<1> QED BY <1>1 DEF AudYoungestStay, AudNothing

LEMMA AudStartKeeps == ASSUME AudInv, AudStart PROVE AudInv'
<1>1. PICK d \in SUBSET AudYoung :
        /\ AudForSize(d, AudYoung) /\ audRows' = AudYoung \ d
        /\ audPruned' = [removed |-> d, kept |-> AudYoung \ d]
        /\ UNCHANGED <<audClock, audWritten, audEdited>>
  BY DEF AudStart
<1>2. AudYoungestStay'
  BY <1>1 DEF AudYoungestStay, AudForSize, AudOldest
<1>3. audRows' \subseteq audRows /\ audClock' \in Nat
  BY <1>1 DEF AudYoung, AudInv, AudShape
<1> QED BY <1>1, <1>2, <1>3, AudDrops

LEMMA AudEditKeeps ==
    ASSUME AudInv, NEW r \in audRows, NEW b \in AudBodies, AudEdit(r, b) PROVE AudInv'
<1>1. /\ r.kind = "audit" /\ r.id \notin audEdited /\ r.body # b
      /\ audEdited' = audEdited \cup {r.id} /\ audPruned' = AudNothing
      /\ UNCHANGED <<audClock, audWritten>>
  BY DEF AudEdit
<1>2. PICK n : n = [r EXCEPT !.body = b]
  OBVIOUS
<1>3. audRows' = (audRows \ {r}) \cup {n}
  BY <1>2 DEF AudEdit
<1>4. r \in AudRow /\ AudShape /\ AudTrue(r)
  BY DEF AudInv, AudShape
<1>5. /\ n \in AudRow /\ n.id = r.id /\ n.kind = r.kind /\ n.body = b /\ n.prev = r.prev /\ n.hash = r.hash
  BY <1>2, <1>4 DEF AudRow
<1>6. AudShape'
  <2>1. audRows' \subseteq AudRow /\ \A q \in audRows' : q.id \in 1 .. audWritten'
    BY <1>1, <1>3, <1>4, <1>5 DEF AudShape
  <2>2. \A q \in audRows \ {r} : q.id # r.id
    BY <1>4 DEF AudShape
  <2>3. \A q, s \in audRows' : q.id = s.id => q = s
    BY <1>3, <1>4, <1>5, <2>2 DEF AudShape
  <2>4. audEdited' \subseteq 1 .. audWritten'
    BY <1>1, <1>4 DEF AudShape
  <2> QED BY <1>1, <1>4, <2>1, <2>3, <2>4 DEF AudShape
<1>7. AudTrue(n)'
  <2>1. r.hash # <<>> /\ r.hash = AudDigest(r.prev, r.body)
    BY <1>1, <1>4 DEF AudTrue
  <2>2. r.hash # AudDigest(r.prev, b)
    BY <1>1, <1>4, <2>1, AudRowFacts, AudDigestApart
  <2> QED BY <1>1, <1>5, <2>1, <2>2 DEF AudTrue
<1>8. ASSUME NEW q \in audRows \ {r} PROVE AudTrue(q)'
  <2>1. q.id # r.id /\ AudTrue(q)
    BY <1>4 DEF AudInv, AudShape
  <2> QED BY <1>1, <2>1 DEF AudTrue
<1>9. AudYoungestStay'
  BY <1>1, AudNothingPruned
<1> QED BY <1>3, <1>6, <1>7, <1>8, <1>9 DEF AudInv

LEMMA AudStepKeeps == AudInv /\ [AudNext]_audVars => AudInv'
<1> SUFFICES ASSUME AudInv, [AudNext]_audVars PROVE AudInv'
  OBVIOUS
<1>1. CASE UNCHANGED audVars
  <2>1. audRows' = audRows /\ audClock' \in Nat /\ UNCHANGED <<audWritten, audEdited, audPruned>>
    BY <1>1 DEF audVars, AudInv, AudShape
  <2>2. AudYoungestStay'
    BY <2>1 DEF AudInv, AudYoungestStay
  <2> QED BY <2>1, <2>2, AudDrops
<1>2. CASE AudTick
  <2>1. audRows' = audRows /\ audClock' \in Nat /\ UNCHANGED <<audWritten, audEdited>> /\ audPruned' = AudNothing
    BY <1>2 DEF AudTick, AudInv, AudShape
  <2> QED BY <2>1, AudNothingPruned, AudDrops
<1>3. CASE AudStart
  BY <1>3, AudStartKeeps
<1>4. ASSUME NEW b \in AudBodies, NEW z \in AudSizes, AudAppend(b, z) \/ AudLog(b, z) PROVE AudInv'
  BY <1>4, AudAppendKeeps, AudLogKeeps
<1>5. ASSUME NEW r \in audRows, AudRemove(r) PROVE AudInv'
  <2>1. /\ audRows' \subseteq audRows /\ audClock' \in Nat /\ UNCHANGED <<audWritten, audEdited>>
        /\ audPruned' = AudNothing
    BY <1>5 DEF AudRemove, AudInv, AudShape
  <2> QED BY <2>1, AudNothingPruned, AudDrops
<1>6. ASSUME NEW r \in audRows, NEW b \in AudBodies, AudEdit(r, b) PROVE AudInv'
  BY <1>6, AudEditKeeps
<1> QED BY <1>1, <1>2, <1>3, <1>4, <1>5, <1>6 DEF AudNext

\* The check of the audit chain reports the entries whose text was changed outside, all of them
\* and no other, also after retention has deleted entries; and retention deletes the oldest
\* rows, and no fewer than its limit demands (verifyAuditChain, pruneDetailedLogs).
THEOREM TamperingIsReported == AudSpec => []AudHistoryHolds
<1>1. AudInit => AudInv
  <2> SUFFICES ASSUME AudInit PROVE AudInv
    OBVIOUS
  <2>1. AudTotal({}) <= AudLimit
    BY AudNothingWeighs, AudAssumption
  <2>2. AudYoungestStay
    BY <2>1 DEF AudInit, AudYoungestStay, AudNothing
  <2> QED BY <2>2 DEF AudInit, AudInv, AudShape
<1>2. AudInv => AudReportsEdits
  <2> SUFFICES ASSUME AudInv PROVE AudReportsEdits
    OBVIOUS
  <2>1. \A r \in audRows : r \in AudHashed /\ r.hash # AudDigest(r.prev, r.body) <=> r \in AudEntries /\ r.id \in audEdited
    BY DEF AudInv, AudTrue, AudHashed, AudEntries
  <2>2. {e \in AudHashed : e.hash # AudDigest(e.prev, e.body)} = {e \in AudEntries : e.id \in audEdited}
    BY <2>1 DEF AudHashed, AudEntries
  <2> QED BY <2>2 DEF AudReportsEdits, AudBroken
<1>3. AudInv => AudHistoryHolds
  BY <1>2 DEF AudInv, AudHistoryHolds
<1> QED BY <1>1, <1>3, AudStepKeeps, PTL DEF AudSpec

-----------------------------------------------------------------------------
(* Traces: spans and traces *)

\* Rows, and what the recorder holds of a run.
TrKinds == {"run_turn", "model_turn", "tool_call", "approval_wait", "context_stage", "checkpoint"}
TrSpanType == [trace : Nat, parent : Nat, kind : TrKinds, status : TrEnds \cup TrOpen]
TrTraceType == [run : TrRuns, status : TrEnds \cup {"running"}]
TrActiveType == [trace : Nat, root : Nat, model : Nat, tools : SUBSET (TrKeys \X Nat), asks : SUBSET Nat]

\* Rows are numbered from 1 on.
TrRows(f, S) == \E n \in Nat : f \in [1..n -> S]

\* Types: a span is of a trace that exists.
TrShape ==
    /\ TrRows(trSpans, TrSpanType) /\ TrRows(trTraces, TrTraceType)
    /\ trActive \in [TrRuns -> TrActiveType]
    /\ \A i \in DOMAIN trSpans : trSpans[i].trace \in DOMAIN trTraces

TrOpenIn(spans, t) == {i \in DOMAIN spans : spans[i].trace = t /\ spans[i].status \in TrOpen}
\* The open spans of a trace.
TrOpenSpans(t) == TrOpenIn(trSpans, t)

\* What the recorder holds of a run is what is open in the database, each once.
TrKept(r) ==
    /\ TrOpenOf(r) = {trActive[r].trace} \ {TrNone}
    /\ trActive[r].trace = TrNone => trActive[r] = TrIdle
    /\ trActive[r].trace # TrNone =>
          /\ trActive[r].root # TrNone /\ trSpans[trActive[r].root].kind = "run_turn"
          /\ TrHeld(trActive[r]) = TrOpenSpans(trActive[r].trace)
          /\ trActive[r].model # TrNone => trSpans[trActive[r].model].kind = "model_turn"
          /\ \A i \in trActive[r].asks : trSpans[i].kind = "approval_wait"
          /\ \A x \in trActive[r].tools : trSpans[x[2]].kind = "tool_call"
          /\ \A x \in trActive[r].tools : \A y \in trActive[r].tools : x[2] = y[2] => x = y

\* A trace that has ended has no open span.
TrClosed ==
    \A i \in DOMAIN trSpans : trTraces[trSpans[i].trace].status # "running" => trSpans[i].status \notin TrOpen

\* The inductive invariant.
TrInv == TrShape /\ (\A r \in TrRuns : TrKept(r)) /\ TrClosed /\ TrOneTree

-----------------------------------------------------------------------------
(* Rows. *)

LEMMA TrCount ==
    ASSUME NEW f, NEW S, NEW n \in Nat, f \in [1..n -> S]
    PROVE  DOMAIN f = 1..n /\ Cardinality(DOMAIN f) = n
<1>1. DOMAIN f = 1..n
  OBVIOUS
<1>2. Cardinality(1..n) = IF 1 > n THEN 0 ELSE n - 1 + 1
  BY FS_Interval
<1>3. Cardinality(1..n) = n
  BY <1>2
<1> QED BY <1>1, <1>3

LEMMA TrCloses ==
    ASSUME NEW spans, TrRows(spans, TrSpanType), NEW ids, NEW status \in TrEnds, NEW new, new = TrClose(spans, ids, status)
    PROVE  /\ TrRows(new, TrSpanType) /\ DOMAIN new = DOMAIN spans
           /\ \A i \in DOMAIN spans : /\ new[i].trace = spans[i].trace /\ new[i].parent = spans[i].parent
                                      /\ new[i].kind = spans[i].kind
                                      /\ i \in ids => new[i].status = status
                                      /\ i \notin ids => new[i] = spans[i]
<1>1. PICK n \in Nat : spans \in [1..n -> TrSpanType]
  BY DEF TrRows
<1>2. new = [i \in 1..n |-> IF i \in ids THEN [spans[i] EXCEPT !.status = status] ELSE spans[i]]
  BY <1>1 DEF TrClose
<1>3. ASSUME NEW i \in 1..n
      PROVE  /\ new[i] \in TrSpanType /\ new[i].trace = spans[i].trace /\ new[i].parent = spans[i].parent
             /\ new[i].kind = spans[i].kind
             /\ i \in ids => new[i].status = status
             /\ i \notin ids => new[i] = spans[i]
  <2>1. PICK x : x = [spans[i] EXCEPT !.status = status]
    OBVIOUS
  <2>2. spans[i] \in TrSpanType
    BY <1>1
  <2>3. x \in TrSpanType /\ x.trace = spans[i].trace /\ x.parent = spans[i].parent /\ x.kind = spans[i].kind
        /\ x.status = status
    BY <2>1, <2>2 DEF TrSpanType
  <2>4. new[i] = IF i \in ids THEN x ELSE spans[i]
    BY <1>2, <2>1
  <2> QED BY <2>2, <2>3, <2>4
<1>4. new \in [1..n -> TrSpanType]
  BY <1>2, <1>3
<1> QED BY <1>1, <1>3, <1>4 DEF TrRows

\* The rows with one more, numbered k.
TrOneMore(spans, s, k, new) ==
    /\ TrRows(new, TrSpanType) /\ k \in Nat /\ k # 0 /\ k \notin DOMAIN spans
    /\ DOMAIN new = DOMAIN spans \cup {k} /\ new[k] = s /\ \A i \in DOMAIN spans : new[i] = spans[i]

LEMMA TrAdds ==
    ASSUME NEW spans, TrRows(spans, TrSpanType), NEW s \in TrSpanType, NEW new, new = TrWith(spans, s),
           NEW k, k = Cardinality(DOMAIN spans) + 1
    PROVE  TrOneMore(spans, s, k, new)
<1>1. PICK n \in Nat : spans \in [1..n -> TrSpanType]
  BY DEF TrRows
<1>2. DOMAIN spans = 1..n /\ Cardinality(DOMAIN spans) = n
  BY <1>1, TrCount
<1>0. k = n + 1 /\ k \in Nat /\ k # 0
  BY <1>2
<1>3. 1..n \cup {n + 1} = 1..(n + 1) /\ n + 1 \notin 1..n
  OBVIOUS
<1>4. new = [i \in 1..(n + 1) |-> IF i \in 1..n THEN spans[i] ELSE s]
  BY <1>2, <1>3 DEF TrWith
<1>5. new \in [1..(n + 1) -> TrSpanType] /\ new[n + 1] = s /\ \A i \in 1..n : new[i] = spans[i]
  BY <1>1, <1>3, <1>4
<1>6. TrRows(new, TrSpanType)
  BY <1>5 DEF TrRows
<1> QED BY <1>0, <1>2, <1>3, <1>4, <1>5, <1>6 DEF TrOneMore

LEMMA TrEnds1 ==
    ASSUME TrRows(trTraces, TrTraceType), NEW ts, NEW status \in TrEnds, NEW new, new = TrEndTraces(ts, status)
    PROVE  /\ TrRows(new, TrTraceType) /\ DOMAIN new = DOMAIN trTraces
           /\ \A t \in DOMAIN trTraces : /\ new[t].run = trTraces[t].run
                                         /\ t \in ts => new[t].status = status
                                         /\ t \notin ts => new[t] = trTraces[t]
<1>1. PICK n \in Nat : trTraces \in [1..n -> TrTraceType]
  BY DEF TrRows
<1>2. new = [t \in 1..n |-> IF t \in ts THEN [trTraces[t] EXCEPT !.status = status] ELSE trTraces[t]]
  BY <1>1 DEF TrEndTraces
<1>3. ASSUME NEW t \in 1..n
      PROVE  /\ new[t] \in TrTraceType /\ new[t].run = trTraces[t].run
             /\ t \in ts => new[t].status = status
             /\ t \notin ts => new[t] = trTraces[t]
  <2>1. PICK x : x = [trTraces[t] EXCEPT !.status = status]
    OBVIOUS
  <2>2. trTraces[t] \in TrTraceType
    BY <1>1
  <2>3. x \in TrTraceType /\ x.run = trTraces[t].run /\ x.status = status
    BY <2>1, <2>2 DEF TrTraceType
  <2>4. new[t] = IF t \in ts THEN x ELSE trTraces[t]
    BY <1>2, <2>1
  <2> QED BY <2>2, <2>3, <2>4
<1>4. new \in [1..n -> TrTraceType]
  BY <1>2, <1>3
<1> QED BY <1>1, <1>3, <1>4 DEF TrRows

LEMMA TrInitHolds == TrInit => TrInv
<1> SUFFICES ASSUME TrInit PROVE TrInv
  OBVIOUS
<1>1. trTraces = <<>> /\ trSpans = <<>> /\ trActive = [r \in TrRuns |-> TrIdle]
  BY DEF TrInit
<1>2. DOMAIN trTraces = {} /\ DOMAIN trSpans = {}
  BY <1>1
<1>3. TrIdle \in TrActiveType /\ TrIdle.trace = TrNone
  BY DEF TrIdle, TrActiveType, TrNone
<1>4. TrRows(trSpans, TrSpanType) /\ TrRows(trTraces, TrTraceType)
  <2>1. trSpans \in [1..0 -> TrSpanType] /\ trTraces \in [1..0 -> TrTraceType]
    BY <1>1
  <2> QED BY <2>1 DEF TrRows
<1>5. TrShape
  BY <1>1, <1>2, <1>3, <1>4 DEF TrShape
<1>6. \A r \in TrRuns : TrKept(r)
  BY <1>1, <1>2, <1>3 DEF TrKept, TrOpenOf
<1>7. TrClosed /\ TrOneTree
  BY <1>2 DEF TrClosed, TrOneTree
<1> QED BY <1>5, <1>6, <1>7 DEF TrInv

-----------------------------------------------------------------------------
(* What a step may do to the rows. *)

TrOnwardTo(old, new) ==
    /\ TrRows(new, TrSpanType) /\ DOMAIN old \subseteq DOMAIN new
    /\ \A i \in DOMAIN old :
          /\ new[i].trace = old[i].trace /\ new[i].parent = old[i].parent /\ new[i].kind = old[i].kind
          /\ new[i].status = old[i].status \/ (old[i].status \in TrOpen /\ new[i].status \in TrEnds)
TrSpansOnward == TrOnwardTo(trSpans, trSpans')
TrTracesOnward ==
    /\ TrRows(trTraces', TrTraceType) /\ DOMAIN trTraces \subseteq DOMAIN trTraces'
    /\ \A t \in DOMAIN trTraces :
          /\ trTraces'[t].run = trTraces[t].run
          /\ trTraces'[t].status = trTraces[t].status \/ (trTraces[t].status = "running" /\ trTraces'[t].status \in TrEnds)
TrOnward == TrSpansOnward /\ TrTracesOnward

\* A step at a run leaves the rows of the others alone.
TrOnlyOf(r) ==
    /\ \A i \in DOMAIN trSpans' :
          (i \in DOMAIN trSpans /\ trSpans'[i] = trSpans[i]) \/ trTraces'[trSpans'[i].trace].run = r
    /\ \A t \in DOMAIN trTraces' : (t \in DOMAIN trTraces /\ trTraces'[t] = trTraces[t]) \/ trTraces'[t].run = r
    /\ \A q \in TrRuns : q # r => trActive'[q] = trActive[q]

LEMMA TrSpanFields ==
    ASSUME TrShape, NEW i \in DOMAIN trSpans
    PROVE  /\ trSpans[i] \in TrSpanType /\ i \in Nat /\ i # 0 /\ trSpans[i].trace \in DOMAIN trTraces
           /\ trSpans[i].status \in TrEnds \cup TrOpen
<1>1. PICK n \in Nat : trSpans \in [1..n -> TrSpanType]
  BY DEF TrShape, TrRows
<1>2. trSpans[i] \in TrSpanType /\ i \in Nat /\ i # 0
  BY <1>1
<1> QED BY <1>2 DEF TrShape, TrSpanType

LEMMA TrTraceFields ==
    ASSUME TrShape, NEW t \in DOMAIN trTraces
    PROVE  /\ trTraces[t].run \in TrRuns /\ t \in Nat /\ t # 0 /\ trTraces[t].status \in TrEnds \cup {"running"}
<1>1. PICK n \in Nat : trTraces \in [1..n -> TrTraceType]
  BY DEF TrShape, TrRows
<1>2. trTraces[t] \in TrTraceType /\ t \in Nat /\ t # 0
  BY <1>1
<1> QED BY <1>2 DEF TrTraceType

LEMMA TrApart == TrEnds \cap TrOpen = {} /\ "running" \in TrOpen /\ "running" \notin TrEnds
  BY DEF TrEnds, TrOpen

\* A run of which nothing has changed is kept as it was.
LEMMA TrOthersKept ==
    ASSUME TrInv, TrOnward, NEW r \in TrRuns, TrOnlyOf(r), NEW q \in TrRuns, q # r
    PROVE  TrKept(q)'
<1>1. PICK a : a = trActive[q]
  OBVIOUS
<1>2. trActive'[q] = a
  BY <1>1 DEF TrOnlyOf
<1>3. TrShape /\ TrKept(q)
  BY DEF TrInv
<1>4. TrOpenOf(q)' = TrOpenOf(q)
  BY DEF TrOpenOf, TrOnlyOf, TrOnward, TrTracesOnward
<1>5. CASE a.trace = TrNone
  BY <1>1, <1>2, <1>3, <1>4, <1>5 DEF TrKept
<1>6. CASE a.trace # TrNone
  <2>1. a.trace \in DOMAIN trTraces /\ trTraces[a.trace].run = q /\ trTraces'[a.trace].run = q
    BY <1>1, <1>3, <1>6 DEF TrKept, TrOpenOf, TrOnward, TrTracesOnward
  <2>2. \A i \in DOMAIN trSpans' : trSpans'[i].trace = a.trace => i \in DOMAIN trSpans /\ trSpans'[i] = trSpans[i]
    BY <2>1 DEF TrOnlyOf
  <2>3. \A i \in DOMAIN trSpans : trSpans[i].trace = a.trace => i \in DOMAIN trSpans' /\ trSpans'[i] = trSpans[i]
    BY <2>2 DEF TrOnward, TrSpansOnward, TrOnwardTo
  <2>4. TrOpenSpans(a.trace)' = TrOpenSpans(a.trace)
    BY <2>2, <2>3 DEF TrOpenSpans, TrOpenIn
  <2>5. TrHeld(a) = TrOpenSpans(a.trace) /\ \A i \in TrHeld(a) : trSpans'[i] = trSpans[i]
    BY <1>1, <1>3, <1>6, <2>3 DEF TrKept, TrOpenSpans, TrOpenIn
  <2>6. /\ a.root # TrNone => a.root \in TrHeld(a)
        /\ a.model # TrNone => a.model \in TrHeld(a)
        /\ \A i \in a.asks : i \in TrHeld(a)
        /\ \A x \in a.tools : x[2] \in TrHeld(a)
    BY DEF TrHeld
  <2>7. /\ a.root # TrNone /\ trSpans[a.root].kind = "run_turn"
        /\ a.model # TrNone => trSpans[a.model].kind = "model_turn"
        /\ \A i \in a.asks : trSpans[i].kind = "approval_wait"
        /\ \A x \in a.tools : trSpans[x[2]].kind = "tool_call"
        /\ \A x \in a.tools : \A y \in a.tools : x[2] = y[2] => x = y
    BY <1>1, <1>3, <1>6 DEF TrKept
  <2>8. TrOpenOf(q)' = {a.trace} \ {TrNone}
    BY <1>1, <1>3, <1>4 DEF TrKept
  <2> QED BY <1>2, <1>6, <2>4, <2>5, <2>6, <2>7, <2>8 DEF TrKept
<1> QED BY <1>5, <1>6

-----------------------------------------------------------------------------
(* Closing and adding spans. *)

LEMMA TrCloseOpen ==
    ASSUME NEW spans, TrRows(spans, TrSpanType), NEW ids, NEW status \in TrEnds,
           NEW new, new = TrClose(spans, ids, status), NEW t
    PROVE  TrOpenIn(new, t) = TrOpenIn(spans, t) \ ids
<1>1. /\ DOMAIN new = DOMAIN spans
      /\ \A i \in DOMAIN spans : /\ new[i].trace = spans[i].trace
                                 /\ i \in ids => new[i].status = status
                                 /\ i \notin ids => new[i] = spans[i]
  BY TrCloses
<1>2. status \notin TrOpen
  BY TrApart
<1> QED BY <1>1, <1>2 DEF TrOpenIn

LEMMA TrAddOpen ==
    ASSUME NEW spans, TrRows(spans, TrSpanType), NEW s \in TrSpanType, NEW new, new = TrWith(spans, s), NEW t
    PROVE  TrOpenIn(new, t) = TrOpenIn(spans, t) \cup (IF s.trace = t /\ s.status \in TrOpen
                                                       THEN {Cardinality(DOMAIN spans) + 1} ELSE {})
<1>1. PICK n : n = Cardinality(DOMAIN spans) + 1
  OBVIOUS
<1>2. TrOneMore(spans, s, n, new)
  BY <1>1, TrAdds
<1> QED BY <1>1, <1>2 DEF TrOpenIn, TrOneMore

LEMMA TrOnwardClose ==
    ASSUME NEW old, NEW mid, TrOnwardTo(old, mid), NEW ids, NEW status \in TrEnds,
           \A i \in ids \cap DOMAIN mid : mid[i].status \in TrOpen,
           \A i \in DOMAIN old : old[i].status \in TrOpen \cup TrEnds,
           NEW new, new = TrClose(mid, ids, status)
    PROVE  TrOnwardTo(old, new)
<1>1. TrRows(mid, TrSpanType)
  BY DEF TrOnwardTo
<1>2. /\ TrRows(new, TrSpanType) /\ DOMAIN new = DOMAIN mid
      /\ \A i \in DOMAIN mid : /\ new[i].trace = mid[i].trace /\ new[i].parent = mid[i].parent
                               /\ new[i].kind = mid[i].kind
                               /\ i \in ids => new[i].status = status
                               /\ i \notin ids => new[i] = mid[i]
  BY <1>1, TrCloses
<1> QED BY <1>2, TrApart DEF TrOnwardTo

LEMMA TrOnwardWith ==
    ASSUME NEW old, NEW mid, TrOnwardTo(old, mid), NEW s \in TrSpanType, NEW new, new = TrWith(mid, s)
    PROVE  TrOnwardTo(old, new)
<1>1. TrRows(mid, TrSpanType)
  BY DEF TrOnwardTo
<1>3. PICK k : k = Cardinality(DOMAIN mid) + 1
  OBVIOUS
<1>2. TrOneMore(mid, s, k, new)
  BY <1>1, <1>3, TrAdds
<1> QED BY <1>2 DEF TrOnwardTo, TrOneMore

LEMMA TrOnwardFrom ==
    ASSUME TrShape
    PROVE  TrOnwardTo(trSpans, trSpans) /\ \A i \in DOMAIN trSpans : trSpans[i].status \in TrOpen \cup TrEnds
  BY TrSpanFields DEF TrOnwardTo, TrShape

-----------------------------------------------------------------------------
(* The steps of an open turn. *)

\* The turn of r goes on: only its rows change, and the recorder holds b in place of a.
TrGoesOn(r, a, b) ==
    /\ a = trActive[r] /\ a.trace # TrNone
    /\ trTraces' = trTraces /\ TrOnwardTo(trSpans, trSpans')
    /\ \A i \in DOMAIN trSpans' : (i \in DOMAIN trSpans /\ trSpans'[i] = trSpans[i]) \/ trSpans'[i].trace = a.trace
    /\ \A i \in DOMAIN trSpans' : i \notin DOMAIN trSpans =>
          /\ trSpans'[i].kind # "run_turn" /\ trSpans'[i].parent \in DOMAIN trSpans
          /\ trSpans[trSpans'[i].parent].trace = a.trace
    /\ b \in TrActiveType /\ trActive' = [trActive EXCEPT ![r] = b] /\ b.trace = a.trace /\ b.root = a.root
    /\ TrHeld(b) = TrOpenIn(trSpans', a.trace)
    /\ b.model # TrNone => trSpans'[b.model].kind = "model_turn"
    /\ \A i \in b.asks : trSpans'[i].kind = "approval_wait"
    /\ \A x \in b.tools : trSpans'[x[2]].kind = "tool_call"
    /\ \A x \in b.tools : \A y \in b.tools : x[2] = y[2] => x = y
TrKeeps == TrInv' /\ TrOnward

LEMMA TrTurnGoesOn ==
    ASSUME TrInv, NEW r \in TrRuns, NEW a, NEW b, TrGoesOn(r, a, b)
    PROVE  TrKeeps
<1> USE DEF TrGoesOn
<1>1. TrShape /\ TrKept(r) /\ TrClosed /\ TrOneTree
  BY DEF TrInv
<1>2. a \in TrActiveType /\ trActive \in [TrRuns -> TrActiveType]
  BY <1>1 DEF TrShape
<1>3. /\ trActive' \in [TrRuns -> TrActiveType] /\ trActive'[r] = b
      /\ \A q \in TrRuns : q # r => trActive'[q] = trActive[q]
  BY <1>2
<1>4. /\ TrOpenOf(r) = {a.trace} /\ a.root # TrNone /\ trSpans[a.root].kind = "run_turn"
      /\ TrHeld(a) = TrOpenIn(trSpans, a.trace)
  BY <1>1 DEF TrKept, TrOpenSpans
<1>5. a.trace \in DOMAIN trTraces /\ trTraces[a.trace].run = r /\ trTraces[a.trace].status = "running"
  BY <1>4 DEF TrOpenOf
<1>6. a.root \in DOMAIN trSpans /\ trSpans'[a.root].kind = "run_turn"
  <2>1. a.root \in TrHeld(a)
    BY <1>4 DEF TrHeld
  <2> QED BY <2>1, <1>4 DEF TrOpenIn, TrOnwardTo
<1>7. TrOnward
  <2>1. \A t \in DOMAIN trTraces : trTraces'[t] = trTraces[t]
    OBVIOUS
  <2> QED BY <2>1, <1>1 DEF TrOnward, TrSpansOnward, TrTracesOnward, TrShape
<1>8. TrOnlyOf(r)
  BY <1>3, <1>5 DEF TrOnlyOf
<1>9. \A q \in TrRuns : q # r => TrKept(q)'
  BY <1>7, <1>8, TrOthersKept
<1>10. TrKept(r)'
  <2>1. TrOpenOf(r)' = {b.trace} \ {TrNone}
    BY <1>4 DEF TrOpenOf
  <2>2. TrOpenSpans(b.trace)' = TrHeld(b)
    BY DEF TrOpenSpans
  <2> QED BY <1>3, <1>4, <1>6, <2>1, <2>2 DEF TrKept
<1>11. TrShape'
  <2>1. \A i \in DOMAIN trSpans' : trSpans'[i].trace \in DOMAIN trTraces
    BY <1>1, <1>5 DEF TrShape
  <2> QED BY <2>1, <1>1, <1>3 DEF TrShape, TrOnwardTo
<1>12. TrClosed'
  BY <1>1, <1>5 DEF TrClosed
<1>13. TrOneTree'
  <2>1. ASSUME NEW i \in DOMAIN trSpans'
        PROVE  IF trSpans'[i].kind = "run_turn" THEN trSpans'[i].parent = TrNone
               ELSE trSpans'[i].parent \in DOMAIN trSpans' /\ trSpans'[trSpans'[i].parent].trace = trSpans'[i].trace
    <3>1. CASE i \in DOMAIN trSpans
      <4>1. IF trSpans[i].kind = "run_turn" THEN trSpans[i].parent = TrNone
            ELSE trSpans[i].parent \in DOMAIN trSpans /\ trSpans[trSpans[i].parent].trace = trSpans[i].trace
        BY <1>1, <3>1 DEF TrOneTree
      <4> QED BY <3>1, <4>1 DEF TrOnwardTo
    <3>2. CASE i \notin DOMAIN trSpans
      BY <3>2 DEF TrOnwardTo
    <3> QED BY <3>1, <3>2
  <2> QED BY <2>1 DEF TrOneTree
<1>14. \A q \in TrRuns : TrKept(q)'
  BY <1>9, <1>10
<1> QED BY <1>7, <1>11, <1>12, <1>13, <1>14 DEF TrInv, TrKeeps

\* What is known of the turn a run has open.
LEMMA TrOpenTurn ==
    ASSUME TrInv, NEW r \in TrRuns, NEW a, a = trActive[r], a.trace # TrNone
    PROVE  /\ a \in TrActiveType /\ trActive \in [TrRuns -> TrActiveType] /\ TrShape
           /\ TrRows(trSpans, TrSpanType) /\ a.trace \in Nat
           /\ TrHeld(a) = TrOpenIn(trSpans, a.trace)
           /\ a.root \in DOMAIN trSpans /\ a.root # TrNone
           /\ \A i \in TrHeld(a) : /\ i \in DOMAIN trSpans /\ trSpans[i].trace = a.trace
                                   /\ trSpans[i].status \in TrOpen
           /\ a.root \in TrHeld(a) /\ trSpans[a.root].kind = "run_turn"
           /\ a.model # TrNone => a.model \in TrHeld(a) /\ trSpans[a.model].kind = "model_turn"
           /\ \A i \in a.asks : i \in TrHeld(a) /\ trSpans[i].kind = "approval_wait"
           /\ \A x \in a.tools : x[2] \in TrHeld(a) /\ trSpans[x[2]].kind = "tool_call"
           /\ \A x \in a.tools : \A y \in a.tools : x[2] = y[2] => x = y
<1>1. TrShape /\ TrKept(r)
  BY DEF TrInv
<1>2. a \in TrActiveType /\ trActive \in [TrRuns -> TrActiveType] /\ TrRows(trSpans, TrSpanType)
  BY <1>1 DEF TrShape
<1>3. /\ a.root # TrNone /\ trSpans[a.root].kind = "run_turn"
      /\ TrHeld(a) = TrOpenIn(trSpans, a.trace)
      /\ a.model # TrNone => trSpans[a.model].kind = "model_turn"
      /\ \A i \in a.asks : trSpans[i].kind = "approval_wait"
      /\ \A x \in a.tools : trSpans[x[2]].kind = "tool_call"
      /\ \A x \in a.tools : \A y \in a.tools : x[2] = y[2] => x = y
  BY <1>1 DEF TrKept, TrOpenSpans
<1>4. \A i \in TrHeld(a) : i \in DOMAIN trSpans /\ trSpans[i].trace = a.trace /\ trSpans[i].status \in TrOpen
  BY <1>3 DEF TrOpenIn
<1>5. a.root \in TrHeld(a) /\ (a.model # TrNone => a.model \in TrHeld(a))
  BY <1>3 DEF TrHeld
<1>6. (\A i \in a.asks : i \in TrHeld(a)) /\ (\A x \in a.tools : x[2] \in TrHeld(a))
  BY DEF TrHeld
<1>7. a.trace \in Nat
  BY <1>2 DEF TrActiveType
<1> QED BY <1>1, <1>2, <1>3, <1>4, <1>5, <1>6, <1>7

LEMMA TrNewIsNat ==
    ASSUME TrRows(trSpans, TrSpanType) PROVE TrNewSpan \in Nat
<1>1. PICK n \in Nat : trSpans \in [1..n -> TrSpanType]
  BY DEF TrRows
<1>2. Cardinality(DOMAIN trSpans) = n
  BY <1>1, TrCount
<1> QED BY <1>2 DEF TrNewSpan

\* The span s is added to the open trace as number k, and the recorder holds it if it is open.
TrGrows(r, a, s, k, b) ==
    /\ a = trActive[r] /\ a.trace # TrNone
    /\ s \in TrSpanType /\ s.trace = a.trace /\ s.kind # "run_turn" /\ s.parent \in TrHeld(a)
    /\ trTraces' = trTraces /\ trSpans' = TrWith(trSpans, s) /\ k = TrNewSpan
    /\ b \in TrActiveType /\ trActive' = [trActive EXCEPT ![r] = b]
    /\ b.trace = a.trace /\ b.root = a.root /\ b.model = a.model
    /\ IF s.kind = "approval_wait" THEN b.asks = a.asks \cup {k} ELSE b.asks = a.asks
    /\ IF s.kind = "tool_call" THEN \E c : b.tools = a.tools \cup {<<c, k>>} ELSE b.tools = a.tools
    /\ s.status \in TrOpen <=> s.kind \in {"approval_wait", "tool_call"}

LEMMA TrNewSpanIn ==
    ASSUME TrInv, NEW r \in TrRuns, NEW a, NEW s, NEW k, NEW b, TrGrows(r, a, s, k, b)
    PROVE  TrKeeps
<1> USE DEF TrGrows
<1>1. /\ a \in TrActiveType /\ TrRows(trSpans, TrSpanType) /\ TrShape
      /\ TrHeld(a) = TrOpenIn(trSpans, a.trace)
      /\ \A i \in TrHeld(a) : i \in DOMAIN trSpans /\ trSpans[i].trace = a.trace
      /\ a.model # TrNone => a.model \in TrHeld(a) /\ trSpans[a.model].kind = "model_turn"
      /\ \A i \in a.asks : i \in TrHeld(a) /\ trSpans[i].kind = "approval_wait"
      /\ \A x \in a.tools : x[2] \in TrHeld(a) /\ trSpans[x[2]].kind = "tool_call"
      /\ \A x \in a.tools : \A y \in a.tools : x[2] = y[2] => x = y
  BY TrOpenTurn
<1>2. TrOneMore(trSpans, s, k, trSpans')
  <2>1. k = Cardinality(DOMAIN trSpans) + 1
    BY DEF TrNewSpan
  <2>2. PICK new : new = trSpans'
    OBVIOUS
  <2>3. TrOneMore(trSpans, s, k, new)
    BY <1>1, <2>1, <2>2, TrAdds
  <2> QED BY <2>2, <2>3
<1>3. TrOnwardTo(trSpans, trSpans')
  BY <1>2 DEF TrOneMore, TrOnwardTo
<1>4. /\ k \notin DOMAIN trSpans /\ DOMAIN trSpans' = DOMAIN trSpans \cup {k} /\ trSpans'[k] = s
      /\ \A i \in DOMAIN trSpans : trSpans'[i] = trSpans[i]
  BY <1>2 DEF TrOneMore
<1>5. TrOpenIn(trSpans', a.trace) = TrOpenIn(trSpans, a.trace) \cup (IF s.status \in TrOpen THEN {k} ELSE {})
  BY <1>4 DEF TrOpenIn
<1>6. TrHeld(b) = TrHeld(a) \cup (IF s.status \in TrOpen THEN {k} ELSE {})
  <2>1. CASE s.kind = "approval_wait"
    BY <2>1 DEF TrHeld
  <2>2. CASE s.kind = "tool_call"
    <3>1. PICK c : b.tools = a.tools \cup {<<c, k>>}
      BY <2>2
    <3>3. <<c, k>>[2] = k
      OBVIOUS
    <3>4. \A x \in b.tools : x \in a.tools \/ x = <<c, k>>
      BY <3>1
    <3>2. {x[2] : x \in b.tools} = {x[2] : x \in a.tools} \cup {k}
      BY <3>1, <3>3, <3>4
    <3> QED BY <2>2, <3>2 DEF TrHeld
  <2>3. CASE s.kind \notin {"approval_wait", "tool_call"}
    BY <2>3 DEF TrHeld
  <2> QED BY <2>1, <2>2, <2>3
<1>7. TrHeld(b) = TrOpenIn(trSpans', a.trace)
  BY <1>1, <1>5, <1>6
<1>8. b.model # TrNone => trSpans'[b.model].kind = "model_turn"
  BY <1>1, <1>4
<1>9. \A i \in b.asks : trSpans'[i].kind = "approval_wait"
  BY <1>1, <1>4
<1>10. /\ \A x \in b.tools : trSpans'[x[2]].kind = "tool_call"
       /\ \A x \in b.tools : \A y \in b.tools : x[2] = y[2] => x = y
  <2>1. CASE s.kind = "tool_call"
    <3>1. PICK c : b.tools = a.tools \cup {<<c, k>>}
      BY <2>1
    <3>2. \A x \in b.tools : x \in a.tools \/ (x = <<c, k>> /\ x[2] = k)
      BY <3>1
    <3>3. \A x \in a.tools : x[2] # k /\ trSpans'[x[2]].kind = "tool_call"
      BY <1>1, <1>4
    <3>4. \A x \in b.tools : trSpans'[x[2]].kind = "tool_call"
      BY <1>4, <2>1, <3>2, <3>3
    <3> QED BY <1>1, <3>2, <3>3, <3>4
  <2>2. CASE s.kind # "tool_call"
    BY <1>1, <1>4, <2>2
  <2> QED BY <2>1, <2>2
<1>11. /\ \A i \in DOMAIN trSpans' : (i \in DOMAIN trSpans /\ trSpans'[i] = trSpans[i]) \/ trSpans'[i].trace = a.trace
       /\ \A i \in DOMAIN trSpans' : i \notin DOMAIN trSpans =>
               /\ trSpans'[i].kind # "run_turn" /\ trSpans'[i].parent \in DOMAIN trSpans
               /\ trSpans[trSpans'[i].parent].trace = a.trace
  BY <1>1, <1>4
<1>12. TrGoesOn(r, a, b)
  BY <1>3, <1>7, <1>8, <1>9, <1>10, <1>11 DEF TrGoesOn
<1> QED BY <1>12, TrTurnGoesOn

LEMMA TrSpanIs ==
    ASSUME NEW t \in Nat, NEW p \in Nat, NEW kind \in TrKinds, NEW status \in TrEnds \cup TrOpen,
           NEW s, s = TrSpan(t, p, kind, status)
    PROVE  s \in TrSpanType /\ s.trace = t /\ s.parent = p /\ s.kind = kind /\ s.status = status
  BY DEF TrSpan, TrSpanType

LEMMA TrStartApprovalKeeps ==
    ASSUME TrInv, NEW r \in TrRuns, TrStartApproval(r) PROVE TrKeeps
<1>1. PICK a : a = trActive[r]
  OBVIOUS
<1>2. a.trace # TrNone /\ trTraces' = trTraces
  BY <1>1 DEF TrStartApproval
<1>3. PICK s : s = TrSpan(a.trace, a.root, "approval_wait", "waiting")
  OBVIOUS
<1>4. PICK k : k = TrNewSpan
  OBVIOUS
<1>5. trSpans' = TrWith(trSpans, s) /\ trActive' = [trActive EXCEPT ![r].asks = @ \cup {k}]
  BY <1>1, <1>3, <1>4 DEF TrStartApproval
<1>6. PICK b : b = [a EXCEPT !.asks = a.asks \cup {k}]
  OBVIOUS
<1>7. a \in TrActiveType /\ a.trace \in Nat /\ a.root \in Nat /\ a.root \in TrHeld(a) /\ TrRows(trSpans, TrSpanType)
  <2>1. a \in TrActiveType /\ a.root \in TrHeld(a) /\ TrRows(trSpans, TrSpanType)
    BY <1>1, <1>2, TrOpenTurn
  <2> QED BY <2>1 DEF TrActiveType
<1>8. s \in TrSpanType /\ s.trace = a.trace /\ s.parent = a.root /\ s.kind = "approval_wait" /\ s.status = "waiting"
  BY <1>3, <1>7, TrSpanIs DEF TrKinds, TrOpen
<1>9. k \in Nat
  BY <1>4, <1>7, <1>8, TrNewIsNat
<1>10. /\ b \in TrActiveType /\ b.trace = a.trace /\ b.root = a.root /\ b.model = a.model /\ b.tools = a.tools
       /\ b.asks = a.asks \cup {k}
  BY <1>6, <1>7, <1>9 DEF TrActiveType
<1>11. trActive' = [trActive EXCEPT ![r] = b]
  BY <1>1, <1>5, <1>6
<1>12. s.status \in TrOpen
  BY <1>8 DEF TrOpen
<1>13. TrGrows(r, a, s, k, b)
  BY <1>1, <1>2, <1>4, <1>5, <1>7, <1>8, <1>10, <1>11, <1>12 DEF TrGrows
<1> QED BY <1>13, TrNewSpanIn

LEMMA TrStartToolKeeps ==
    ASSUME TrInv, NEW r \in TrRuns, NEW c \in TrKeys, TrStartTool(r, c) PROVE TrKeeps
<1>1. PICK a : a = trActive[r]
  OBVIOUS
<1>2. a.trace # TrNone /\ trTraces' = trTraces
  BY <1>1 DEF TrStartTool
<1>0. PICK p : p = IF a.model # TrNone THEN a.model ELSE a.root
  OBVIOUS
<1>3. PICK s : s = TrSpan(a.trace, p, "tool_call", "running")
  OBVIOUS
<1>4. PICK k : k = TrNewSpan
  OBVIOUS
<1>5. trSpans' = TrWith(trSpans, s) /\ trActive' = [trActive EXCEPT ![r].tools = @ \cup {<<c, k>>}]
  BY <1>0, <1>1, <1>3, <1>4 DEF TrStartTool
<1>6. PICK b : b = [a EXCEPT !.tools = a.tools \cup {<<c, k>>}]
  OBVIOUS
<1>7. a \in TrActiveType /\ a.trace \in Nat /\ p \in Nat /\ p \in TrHeld(a) /\ TrRows(trSpans, TrSpanType)
  <2>1. /\ a \in TrActiveType /\ a.root \in TrHeld(a) /\ TrRows(trSpans, TrSpanType)
        /\ a.model # TrNone => a.model \in TrHeld(a)
    BY <1>1, <1>2, TrOpenTurn
  <2> QED BY <1>0, <2>1 DEF TrActiveType
<1>8. s \in TrSpanType /\ s.trace = a.trace /\ s.parent = p /\ s.kind = "tool_call" /\ s.status = "running"
  BY <1>3, <1>7, TrSpanIs DEF TrKinds, TrOpen
<1>9. k \in Nat
  BY <1>4, <1>7, <1>8, TrNewIsNat
<1>10. /\ b \in TrActiveType /\ b.trace = a.trace /\ b.root = a.root /\ b.model = a.model /\ b.asks = a.asks
       /\ b.tools = a.tools \cup {<<c, k>>}
  BY <1>6, <1>7, <1>9 DEF TrActiveType
<1>11. trActive' = [trActive EXCEPT ![r] = b]
  BY <1>1, <1>5, <1>6
<1>12. s.status \in TrOpen
  BY <1>8 DEF TrOpen
<1>13. TrGrows(r, a, s, k, b)
  BY <1>1, <1>2, <1>4, <1>5, <1>7, <1>8, <1>10, <1>11, <1>12 DEF TrGrows
<1> QED BY <1>13, TrNewSpanIn

LEMMA TrInstantKeeps ==
    ASSUME TrInv, NEW r \in TrRuns, NEW kind \in {"context_stage", "checkpoint"}, NEW status \in TrEnds,
           TrInstant(r, kind, status)
    PROVE  TrKeeps
<1>1. PICK a : a = trActive[r]
  OBVIOUS
<1>2. a.trace # TrNone /\ trTraces' = trTraces /\ trActive' = trActive
  BY <1>1 DEF TrInstant
<1>3. PICK s : s = TrSpan(a.trace, a.root, kind, status)
  OBVIOUS
<1>4. PICK k : k = TrNewSpan
  OBVIOUS
<1>5. trSpans' = TrWith(trSpans, s)
  BY <1>1, <1>3 DEF TrInstant
<1>7. /\ a \in TrActiveType /\ a.trace \in Nat /\ a.root \in Nat /\ a.root \in TrHeld(a) /\ TrRows(trSpans, TrSpanType)
      /\ trActive \in [TrRuns -> TrActiveType]
  <2>1. /\ a \in TrActiveType /\ a.root \in TrHeld(a) /\ TrRows(trSpans, TrSpanType)
        /\ trActive \in [TrRuns -> TrActiveType]
    BY <1>1, <1>2, TrOpenTurn
  <2> QED BY <2>1 DEF TrActiveType
<1>8. s \in TrSpanType /\ s.trace = a.trace /\ s.parent = a.root /\ s.kind = kind /\ s.status = status
  BY <1>3, <1>7, TrSpanIs DEF TrKinds
<1>11. trActive' = [trActive EXCEPT ![r] = a]
  BY <1>1, <1>2, <1>7
<1>12. s.status \notin TrOpen
  BY <1>8, TrApart
<1>13. TrGrows(r, a, s, k, a)
  BY <1>1, <1>2, <1>4, <1>5, <1>7, <1>8, <1>11, <1>12 DEF TrGrows
<1> QED BY <1>13, TrNewSpanIn

LEMMA TrStartModelTurnKeeps ==
    ASSUME TrInv, NEW r \in TrRuns, TrStartModelTurn(r) PROVE TrKeeps
<1>1. PICK a : a = trActive[r]
  OBVIOUS
<1>2. a.trace # TrNone /\ trTraces' = trTraces
  BY <1>1 DEF TrStartModelTurn
<1>3. PICK s : s = TrSpan(a.trace, a.root, "model_turn", "running")
  OBVIOUS
<1>4. PICK k : k = TrNewSpan
  OBVIOUS
<1>5. PICK mid : mid = TrClose(trSpans, {a.model}, "succeeded")
  OBVIOUS
<1>6. trSpans' = TrWith(mid, s) /\ trActive' = [trActive EXCEPT ![r].model = k]
  BY <1>1, <1>3, <1>4, <1>5 DEF TrStartModelTurn
<1>7. PICK b : b = [a EXCEPT !.model = k]
  OBVIOUS
<1>8. /\ a \in TrActiveType /\ TrRows(trSpans, TrSpanType) /\ TrShape
      /\ trActive \in [TrRuns -> TrActiveType]
      /\ TrHeld(a) = TrOpenIn(trSpans, a.trace)
      /\ \A i \in TrHeld(a) : i \in DOMAIN trSpans /\ trSpans[i].trace = a.trace /\ trSpans[i].status \in TrOpen
      /\ a.root \in TrHeld(a) /\ trSpans[a.root].kind = "run_turn"
      /\ a.model # TrNone => a.model \in TrHeld(a) /\ trSpans[a.model].kind = "model_turn"
      /\ \A i \in a.asks : i \in TrHeld(a) /\ trSpans[i].kind = "approval_wait"
      /\ \A x \in a.tools : x[2] \in TrHeld(a) /\ trSpans[x[2]].kind = "tool_call"
      /\ \A x \in a.tools : \A y \in a.tools : x[2] = y[2] => x = y
  BY <1>1, <1>2, TrOpenTurn
<1>9. a.trace \in Nat /\ a.root \in Nat /\ a.model \in Nat
  BY <1>8 DEF TrActiveType
<1>10. s \in TrSpanType /\ s.trace = a.trace /\ s.parent = a.root /\ s.kind = "model_turn" /\ s.status = "running"
  BY <1>3, <1>9, TrSpanIs DEF TrKinds, TrOpen
<1>11. "succeeded" \in TrEnds /\ "running" \in TrOpen
  BY DEF TrEnds, TrOpen
<1>12. a.model \notin DOMAIN trSpans \/ trSpans[a.model].status \in TrOpen
  <2>1. TrNone \notin DOMAIN trSpans
    BY <1>8, TrSpanFields DEF TrNone
  <2> QED BY <1>8, <2>1
<1>13. /\ TrRows(mid, TrSpanType) /\ DOMAIN mid = DOMAIN trSpans
       /\ \A i \in DOMAIN trSpans : /\ mid[i].trace = trSpans[i].trace
                                    /\ mid[i].kind = trSpans[i].kind
                                    /\ i # a.model => mid[i] = trSpans[i]
  BY <1>5, <1>8, <1>11, TrCloses
<1>14. TrOnwardTo(trSpans, mid)
  <2>1. TrOnwardTo(trSpans, trSpans) /\ \A i \in DOMAIN trSpans : trSpans[i].status \in TrOpen \cup TrEnds
    BY <1>8, TrOnwardFrom
  <2>2. \A i \in {a.model} \cap DOMAIN trSpans : trSpans[i].status \in TrOpen
    BY <1>12
  <2> QED BY <1>5, <1>11, <2>1, <2>2, TrOnwardClose
<1>15. PICK new : new = trSpans'
  OBVIOUS
<1>16. TrOneMore(mid, s, k, new)
  <2>1. k = Cardinality(DOMAIN mid) + 1
    BY <1>4, <1>13 DEF TrNewSpan
  <2>2. new = TrWith(mid, s)
    BY <1>6, <1>15
  <2> QED BY <1>10, <1>13, <2>1, <2>2, TrAdds
<1>17. TrOnwardTo(trSpans, new)
  <2>1. new = TrWith(mid, s)
    BY <1>6, <1>15
  <2> QED BY <1>10, <1>14, <2>1, TrOnwardWith
<1>18. /\ k \in Nat /\ k # 0 /\ k \notin DOMAIN trSpans /\ DOMAIN new = DOMAIN trSpans \cup {k} /\ new[k] = s
       /\ \A i \in DOMAIN trSpans : /\ new[i].trace = trSpans[i].trace /\ new[i].kind = trSpans[i].kind
                                    /\ i # a.model => new[i] = trSpans[i]
  BY <1>13, <1>16 DEF TrOneMore
<1>19. /\ b \in TrActiveType /\ b.trace = a.trace /\ b.root = a.root /\ b.model = k /\ b.asks = a.asks
       /\ b.tools = a.tools
  BY <1>7, <1>8, <1>18 DEF TrActiveType
<1>20. trActive' = [trActive EXCEPT ![r] = b]
  BY <1>1, <1>6, <1>7
<1>21. TrOpenIn(new, a.trace) = (TrOpenIn(trSpans, a.trace) \ {a.model}) \cup {k}
  <2>1. TrOpenIn(mid, a.trace) = TrOpenIn(trSpans, a.trace) \ {a.model}
    BY <1>5, <1>8, <1>11, TrCloseOpen
  <2>2. TrOpenIn(new, a.trace) = TrOpenIn(mid, a.trace) \cup {k}
    BY <1>10, <1>11, <1>16 DEF TrOneMore, TrOpenIn
  <2> QED BY <2>1, <2>2
<1>22. TrHeld(b) = (TrHeld(a) \ {a.model}) \cup {k}
  <2>1. (a.model # a.root /\ a.model \notin a.asks /\ (\A x \in a.tools : x[2] # a.model)) \/ a.model = TrNone
    BY <1>8
  <2>2. TrNone \notin TrHeld(a) /\ k # TrNone /\ a.root # TrNone
    BY <1>8, <1>18, TrSpanFields DEF TrNone
  <2> QED BY <1>19, <2>1, <2>2 DEF TrHeld
<1>23. TrGoesOn(r, a, b)
  <2>1. TrHeld(b) = TrOpenIn(trSpans', a.trace)
    BY <1>8, <1>15, <1>21, <1>22
  <2>2. b.model # TrNone => trSpans'[b.model].kind = "model_turn"
    BY <1>10, <1>15, <1>18, <1>19
  <2>3. /\ \A i \in b.asks : trSpans'[i].kind = "approval_wait"
        /\ \A x \in b.tools : trSpans'[x[2]].kind = "tool_call"
    BY <1>8, <1>15, <1>18, <1>19
  <2>4. \A i \in DOMAIN trSpans' : (i \in DOMAIN trSpans /\ trSpans'[i] = trSpans[i]) \/ trSpans'[i].trace = a.trace
    <3>1. a.model \in DOMAIN trSpans => trSpans[a.model].trace = a.trace
      BY <1>8, TrSpanFields DEF TrNone
    <3> QED BY <1>10, <1>15, <1>18, <3>1
  <2>5. \A i \in DOMAIN trSpans' : i \notin DOMAIN trSpans =>
          /\ trSpans'[i].kind # "run_turn" /\ trSpans'[i].parent \in DOMAIN trSpans
          /\ trSpans[trSpans'[i].parent].trace = a.trace
    BY <1>8, <1>10, <1>15, <1>18
  <2> QED BY <1>1, <1>2, <1>8, <1>15, <1>17, <1>19, <1>20, <2>1, <2>2, <2>3, <2>4, <2>5 DEF TrGoesOn
<1> QED BY <1>23, TrTurnGoesOn

\* A span the recorder holds is closed and let go.
TrLetsGo(r, a, i, status, b) ==
    /\ a = trActive[r] /\ a.trace # TrNone /\ i \in TrHeld(a) /\ status \in TrEnds
    /\ trTraces' = trTraces /\ trSpans' = TrClose(trSpans, {i}, status)
    /\ b \in TrActiveType /\ trActive' = [trActive EXCEPT ![r] = b]
    /\ b.trace = a.trace /\ b.root = a.root /\ b.model \in {a.model, TrNone} /\ b.asks = a.asks
    /\ b.tools \subseteq a.tools /\ TrHeld(b) = TrHeld(a) \ {i}

LEMMA TrOneLess ==
    ASSUME TrInv, NEW r \in TrRuns, NEW a, NEW i, NEW status, NEW b, TrLetsGo(r, a, i, status, b)
    PROVE  TrKeeps
<1> USE DEF TrLetsGo
<1>1. /\ TrRows(trSpans, TrSpanType) /\ TrShape
      /\ TrHeld(a) = TrOpenIn(trSpans, a.trace)
      /\ \A j \in TrHeld(a) : j \in DOMAIN trSpans /\ trSpans[j].trace = a.trace /\ trSpans[j].status \in TrOpen
      /\ a.model # TrNone => a.model \in TrHeld(a) /\ trSpans[a.model].kind = "model_turn"
      /\ \A j \in a.asks : j \in TrHeld(a) /\ trSpans[j].kind = "approval_wait"
      /\ \A x \in a.tools : x[2] \in TrHeld(a) /\ trSpans[x[2]].kind = "tool_call"
      /\ \A x \in a.tools : \A y \in a.tools : x[2] = y[2] => x = y
  BY TrOpenTurn
<1>2. PICK new : new = trSpans'
  OBVIOUS
<1>3. PICK ids : ids = {i}
  OBVIOUS
<1>4. new = TrClose(trSpans, ids, status)
  BY <1>2, <1>3
<1>5. /\ TrRows(new, TrSpanType) /\ DOMAIN new = DOMAIN trSpans
      /\ \A j \in DOMAIN trSpans : /\ new[j].trace = trSpans[j].trace
                                   /\ new[j].kind = trSpans[j].kind
                                   /\ j \notin ids => new[j] = trSpans[j]
  BY <1>1, <1>4, TrCloses
<1>6. TrOpenIn(new, a.trace) = TrOpenIn(trSpans, a.trace) \ ids
  BY <1>1, <1>4, TrCloseOpen
<1>7. TrOnwardTo(trSpans, new)
  <2>1. TrOnwardTo(trSpans, trSpans) /\ \A j \in DOMAIN trSpans : trSpans[j].status \in TrOpen \cup TrEnds
    BY <1>1, TrOnwardFrom
  <2>2. \A j \in ids \cap DOMAIN trSpans : trSpans[j].status \in TrOpen
    BY <1>1, <1>3
  <2> QED BY <1>4, <2>1, <2>2, TrOnwardClose
<1>8. TrGoesOn(r, a, b)
  <2>1. TrHeld(b) = TrOpenIn(trSpans', a.trace)
    BY <1>1, <1>2, <1>3, <1>6
  <2>2. /\ b.model # TrNone => trSpans'[b.model].kind = "model_turn"
        /\ \A j \in b.asks : trSpans'[j].kind = "approval_wait"
        /\ \A x \in b.tools : trSpans'[x[2]].kind = "tool_call"
    <3>1. \A j \in TrHeld(a) : trSpans'[j].kind = trSpans[j].kind
      BY <1>1, <1>2, <1>5
    <3>2. b.model # TrNone => trSpans'[b.model].kind = "model_turn"
      BY <1>1, <3>1
    <3>3. \A j \in b.asks : trSpans'[j].kind = "approval_wait"
      BY <1>1, <3>1
    <3>4. \A x \in b.tools : trSpans'[x[2]].kind = "tool_call"
      BY <1>1, <3>1
    <3> QED BY <3>2, <3>3, <3>4
  <2>3. \A x \in b.tools : \A y \in b.tools : x[2] = y[2] => x = y
    BY <1>1
  <2>4. /\ \A j \in DOMAIN trSpans' : (j \in DOMAIN trSpans /\ trSpans'[j] = trSpans[j]) \/ trSpans'[j].trace = a.trace
        /\ \A j \in DOMAIN trSpans' : j \in DOMAIN trSpans
    <3>1. DOMAIN trSpans' = DOMAIN trSpans
      BY <1>2, <1>5
    <3>2. ASSUME NEW j \in DOMAIN trSpans PROVE trSpans'[j] = trSpans[j] \/ trSpans'[j].trace = a.trace
      <4>1. CASE j = i
        BY <1>1, <1>2, <1>5, <4>1
      <4>2. CASE j # i
        BY <1>2, <1>3, <1>5, <4>2
      <4> QED BY <4>1, <4>2
    <3> QED BY <3>1, <3>2
  <2> QED BY <1>2, <1>7, <2>1, <2>2, <2>3, <2>4 DEF TrGoesOn
<1> QED BY <1>8, TrTurnGoesOn

LEMMA TrFinishModelTurnKeeps ==
    ASSUME TrInv, NEW r \in TrRuns, NEW failed \in BOOLEAN, TrFinishModelTurn(r, failed) PROVE TrKeeps
<1>1. PICK a : a = trActive[r]
  OBVIOUS
<1>2. PICK status : status = IF failed THEN "failed" ELSE "succeeded"
  OBVIOUS
<1>3. /\ a.model # TrNone /\ trTraces' = trTraces
      /\ trSpans' = TrClose(trSpans, {a.model}, status) /\ trActive' = [trActive EXCEPT ![r].model = TrNone]
  BY <1>1, <1>2 DEF TrFinishModelTurn
<1>4. a.trace # TrNone
  <2>1. TrKept(r)
    BY DEF TrInv
  <2> QED BY <1>1, <1>3, <2>1 DEF TrKept, TrIdle
<1>5. PICK b : b = [a EXCEPT !.model = TrNone]
  OBVIOUS
<1>6. /\ a \in TrActiveType /\ TrShape
      /\ a.root \in TrHeld(a) /\ trSpans[a.root].kind = "run_turn" /\ a.root # TrNone
      /\ a.model # TrNone => a.model \in TrHeld(a) /\ trSpans[a.model].kind = "model_turn"
      /\ \A i \in a.asks : trSpans[i].kind = "approval_wait"
      /\ \A x \in a.tools : trSpans[x[2]].kind = "tool_call"
  BY <1>1, <1>4, TrOpenTurn
<1>7. /\ b \in TrActiveType /\ b.trace = a.trace /\ b.root = a.root /\ b.model = TrNone /\ b.asks = a.asks
      /\ b.tools = a.tools
  BY <1>5, <1>6 DEF TrActiveType, TrNone
<1>8. TrHeld(b) = TrHeld(a) \ {a.model}
  <2>1. a.model # a.root /\ a.model \notin a.asks /\ (\A x \in a.tools : x[2] # a.model)
    BY <1>3, <1>6
  <2> QED BY <1>6, <1>7, <2>1 DEF TrHeld
<1>9. trActive' = [trActive EXCEPT ![r] = b]
  BY <1>1, <1>3, <1>5
<1>10. status \in TrEnds
  BY <1>2 DEF TrEnds
<1>11. TrLetsGo(r, a, a.model, status, b)
  BY <1>1, <1>3, <1>4, <1>6, <1>7, <1>8, <1>9, <1>10 DEF TrLetsGo
<1> QED BY <1>11, TrOneLess

LEMMA TrFinishToolKeeps ==
    ASSUME TrInv, NEW r \in TrRuns, NEW c \in TrKeys, NEW failed \in BOOLEAN, TrFinishTool(r, c, failed)
    PROVE  TrKeeps
<1>1. PICK a : a = trActive[r]
  OBVIOUS
<1>2. PICK status : status = IF failed THEN "failed" ELSE "succeeded"
  OBVIOUS
<1>3. PICK x \in a.tools : /\ trSpans' = TrClose(trSpans, {x[2]}, status)
                           /\ trActive' = [trActive EXCEPT ![r].tools = TrToolsWithout(a, x)]
                           /\ trTraces' = trTraces
  BY <1>1, <1>2 DEF TrFinishTool
<1>4. a.trace # TrNone
  <2>1. TrKept(r)
    BY DEF TrInv
  <2> QED BY <1>1, <1>3, <2>1 DEF TrKept, TrIdle
<1>5. PICK b : b = [a EXCEPT !.tools = a.tools \ {x}]
  OBVIOUS
<1>6. /\ a \in TrActiveType /\ TrShape
      /\ trSpans[a.root].kind = "run_turn"
      /\ a.model # TrNone => trSpans[a.model].kind = "model_turn"
      /\ \A i \in a.asks : trSpans[i].kind = "approval_wait"
      /\ \A y \in a.tools : y[2] \in TrHeld(a) /\ trSpans[y[2]].kind = "tool_call"
      /\ \A y \in a.tools : \A z \in a.tools : y[2] = z[2] => y = z
  BY <1>1, <1>4, TrOpenTurn
<1>7. /\ b \in TrActiveType /\ b.trace = a.trace /\ b.root = a.root /\ b.model = a.model /\ b.asks = a.asks
      /\ b.tools = a.tools \ {x}
  BY <1>5, <1>6 DEF TrActiveType
<1>8. TrHeld(b) = TrHeld(a) \ {x[2]}
  <2>1. x[2] # a.root /\ (a.model # TrNone => x[2] # a.model) /\ x[2] \notin a.asks
    BY <1>6
  <2>2. x[2] # TrNone
    <3>1. TrHeld(a) = TrOpenIn(trSpans, a.trace)
      BY <1>1, <1>4, TrOpenTurn
    <3>2. x[2] \in DOMAIN trSpans
      BY <1>6, <3>1 DEF TrOpenIn
    <3> QED BY <1>6, <3>2, TrSpanFields DEF TrNone
  <2>3. {y[2] : y \in b.tools} = {y[2] : y \in a.tools} \ {x[2]}
    BY <1>6, <1>7
  <2>4. /\ TrHeld(b) = ({b.model, b.root} \ {TrNone}) \cup b.asks \cup {y[2] : y \in b.tools}
        /\ TrHeld(a) = ({a.model, a.root} \ {TrNone}) \cup a.asks \cup {y[2] : y \in a.tools}
    BY DEF TrHeld
  <2> QED BY <1>7, <2>1, <2>2, <2>3, <2>4
<1>9. trActive' = [trActive EXCEPT ![r] = b]
  BY <1>1, <1>3, <1>5 DEF TrToolsWithout
<1>10. status \in TrEnds
  BY <1>2 DEF TrEnds
<1>11. x[2] \in TrHeld(a) /\ b.tools \subseteq a.tools
  BY <1>6, <1>7
<1>12. TrLetsGo(r, a, x[2], status, b)
  BY <1>1, <1>3, <1>4, <1>7, <1>8, <1>9, <1>10, <1>11 DEF TrLetsGo
<1> QED BY <1>12, TrOneLess

-----------------------------------------------------------------------------
(* The end of turns. *)

\* new are the rows with the spans of the traces ts closed.
TrClosedOff(ts, new) ==
    /\ TrOnwardTo(trSpans, new) /\ DOMAIN new = DOMAIN trSpans
    /\ \A i \in DOMAIN trSpans : IF trSpans[i].trace \in ts THEN new[i].status \notin TrOpen ELSE new[i] = trSpans[i]

LEMMA TrSweepCloses ==
    ASSUME TrInv, NEW ts, NEW new, new = TrSweep(trSpans, ts)
    PROVE  TrClosedOff(ts, new)
<1>1. PICK ids : ids = {i \in DOMAIN trSpans : trSpans[i].trace \in ts /\ trSpans[i].status \in TrOpen}
  OBVIOUS
<1>2. new = TrClose(trSpans, ids, "interrupted") /\ "interrupted" \in TrEnds
  BY <1>1 DEF TrSweep, TrEnds
<1>3. TrShape /\ TrRows(trSpans, TrSpanType)
  BY DEF TrInv, TrShape
<1>4. /\ DOMAIN new = DOMAIN trSpans
      /\ \A i \in DOMAIN trSpans : /\ i \in ids => new[i].status = "interrupted"
                                   /\ i \notin ids => new[i] = trSpans[i]
  BY <1>2, <1>3, TrCloses
<1>5. TrOnwardTo(trSpans, new)
  <2>1. TrOnwardTo(trSpans, trSpans) /\ \A i \in DOMAIN trSpans : trSpans[i].status \in TrOpen \cup TrEnds
    BY <1>3, TrOnwardFrom
  <2>2. \A i \in ids \cap DOMAIN trSpans : trSpans[i].status \in TrOpen
    BY <1>1
  <2> QED BY <1>2, <2>1, <2>2, TrOnwardClose
<1>6. "interrupted" \notin TrOpen
  BY <1>2, TrApart
<1> QED BY <1>1, <1>4, <1>5, <1>6 DEF TrClosedOff

LEMMA TrFinishedCloses ==
    ASSUME TrInv, NEW r \in TrRuns, NEW a, a = trActive[r], a.trace # TrNone, NEW status \in TrEnds,
           NEW new, new = TrFinished(a, status)
    PROVE  TrClosedOff({a.trace}, new)
<1>1. /\ TrShape /\ TrRows(trSpans, TrSpanType) /\ TrHeld(a) = TrOpenIn(trSpans, a.trace)
  BY TrOpenTurn
<1>2. PICK held : held = TrHeld(a)
  OBVIOUS
<1>3. PICK mid : mid = TrClose(trSpans, held, status)
  OBVIOUS
<1>4. PICK ids : ids = {i \in DOMAIN mid : mid[i].trace \in {a.trace} /\ mid[i].status \in TrOpen}
  OBVIOUS
<1>5. new = TrClose(mid, ids, "interrupted") /\ "interrupted" \in TrEnds
  BY <1>2, <1>3, <1>4 DEF TrFinished, TrSweep, TrEnds
<1>6. /\ TrRows(mid, TrSpanType) /\ DOMAIN mid = DOMAIN trSpans
      /\ \A i \in DOMAIN trSpans : /\ mid[i].trace = trSpans[i].trace
                                   /\ i \in held => mid[i].status = status
                                   /\ i \notin held => mid[i] = trSpans[i]
  BY <1>1, <1>3, TrCloses
<1>7. \A i \in DOMAIN trSpans : i \in held <=> (trSpans[i].trace = a.trace /\ trSpans[i].status \in TrOpen)
  BY <1>1, <1>2 DEF TrOpenIn
<1>8. status \notin TrOpen
  BY TrApart
<1>9. \A i \in DOMAIN trSpans : i \notin ids
  BY <1>4, <1>6, <1>7, <1>8
<1>10. /\ DOMAIN new = DOMAIN mid
       /\ \A i \in DOMAIN mid : i \notin ids => new[i] = mid[i]
  BY <1>5, <1>6, TrCloses
<1>11. TrOnwardTo(trSpans, mid)
  <2>1. TrOnwardTo(trSpans, trSpans) /\ \A i \in DOMAIN trSpans : trSpans[i].status \in TrOpen \cup TrEnds
    BY <1>1, TrOnwardFrom
  <2>2. \A i \in held \cap DOMAIN trSpans : trSpans[i].status \in TrOpen
    BY <1>7
  <2> QED BY <1>3, <2>1, <2>2, TrOnwardClose
<1>12. TrOnwardTo(trSpans, new)
  <2>1. \A i \in DOMAIN trSpans : trSpans[i].status \in TrOpen \cup TrEnds
    BY <1>1, TrOnwardFrom
  <2>2. \A i \in ids \cap DOMAIN mid : mid[i].status \in TrOpen
    BY <1>4
  <2> QED BY <1>5, <1>11, <2>1, <2>2, TrOnwardClose
<1>13. ASSUME NEW i \in DOMAIN trSpans
       PROVE IF trSpans[i].trace \in {a.trace} THEN new[i].status \notin TrOpen ELSE new[i] = trSpans[i]
  <2>1. new[i] = mid[i]
    BY <1>6, <1>9, <1>10
  <2>2. CASE i \in held
    BY <1>6, <1>7, <1>8, <2>1, <2>2
  <2>3. CASE i \notin held
    BY <1>6, <1>7, <2>1, <2>3
  <2> QED BY <2>2, <2>3
<1> QED BY <1>6, <1>10, <1>12, <1>13 DEF TrClosedOff

\* A step that ends the turns of the runs rs, leaving nothing of them open.
TrLeaves(rs, ts, status) ==
    /\ rs \subseteq TrRuns /\ status \in TrEnds /\ TrClosedOff(ts, trSpans') /\ trTraces' = TrEndTraces(ts, status)
    /\ ts = UNION {TrOpenOf(r) : r \in rs}
    /\ trActive' = [r \in TrRuns |-> IF r \in rs THEN TrIdle ELSE trActive[r]]

LEMMA TrTracesEnded ==
    ASSUME TrInv, NEW ts, NEW status \in TrEnds, NEW new, new = TrEndTraces(ts, status),
           \A t \in ts : t \in DOMAIN trTraces /\ trTraces[t].status = "running"
    PROVE  /\ TrRows(new, TrTraceType) /\ DOMAIN new = DOMAIN trTraces
           /\ \A t \in DOMAIN trTraces :
                 /\ new[t].run = trTraces[t].run
                 /\ t \in ts => new[t].status = status
                 /\ t \notin ts => new[t] = trTraces[t]
                 /\ new[t].status = trTraces[t].status \/ (trTraces[t].status = "running" /\ new[t].status \in TrEnds)
<1>1. TrRows(trTraces, TrTraceType)
  BY DEF TrInv, TrShape
<1>2. /\ TrRows(new, TrTraceType) /\ DOMAIN new = DOMAIN trTraces
      /\ \A t \in DOMAIN trTraces : /\ new[t].run = trTraces[t].run
                                    /\ t \in ts => new[t].status = status
                                    /\ t \notin ts => new[t] = trTraces[t]
  BY <1>1, TrEnds1
<1> QED BY <1>2

LEMMA TrTurnsOver ==
    ASSUME TrInv, NEW rs, NEW ts, NEW status, TrLeaves(rs, ts, status)
    PROVE  TrKeeps
<1>1. /\ rs \subseteq TrRuns /\ status \in TrEnds /\ trTraces' = TrEndTraces(ts, status)
      /\ ts = UNION {TrOpenOf(r) : r \in rs}
      /\ trActive' = [r \in TrRuns |-> IF r \in rs THEN TrIdle ELSE trActive[r]]
      /\ TrOnwardTo(trSpans, trSpans') /\ DOMAIN trSpans' = DOMAIN trSpans
      /\ \A i \in DOMAIN trSpans : IF trSpans[i].trace \in ts THEN trSpans'[i].status \notin TrOpen
                                                             ELSE trSpans'[i] = trSpans[i]
  BY DEF TrLeaves, TrClosedOff
<1>2. TrShape /\ (\A r \in TrRuns : TrKept(r)) /\ TrClosed /\ TrOneTree
  BY DEF TrInv
<1>3. \A t \in ts : t \in DOMAIN trTraces /\ trTraces[t].status = "running" /\ trTraces[t].run \in rs
  BY <1>1 DEF TrOpenOf
<1>4. /\ TrRows(trTraces', TrTraceType) /\ DOMAIN trTraces' = DOMAIN trTraces
      /\ \A t \in DOMAIN trTraces :
            /\ trTraces'[t].run = trTraces[t].run
            /\ t \in ts => trTraces'[t].status = status
            /\ t \notin ts => trTraces'[t] = trTraces[t]
            /\ \/ trTraces'[t].status = trTraces[t].status
               \/ trTraces[t].status = "running" /\ trTraces'[t].status \in TrEnds
  <2>1. PICK new : new = trTraces'
    OBVIOUS
  <2>2. new = TrEndTraces(ts, status) /\ \A t \in ts : t \in DOMAIN trTraces /\ trTraces[t].status = "running"
    BY <1>1, <1>3, <2>1
  <2>3. /\ TrRows(new, TrTraceType) /\ DOMAIN new = DOMAIN trTraces
        /\ \A t \in DOMAIN trTraces :
              /\ new[t].run = trTraces[t].run
              /\ t \in ts => new[t].status = status
              /\ t \notin ts => new[t] = trTraces[t]
              /\ new[t].status = trTraces[t].status \/ (trTraces[t].status = "running" /\ new[t].status \in TrEnds)
    BY <1>1, <2>2, TrTracesEnded
  <2> QED BY <2>1, <2>3
<1>5. TrOnward
  BY <1>1, <1>4 DEF TrOnward, TrSpansOnward, TrTracesOnward
<1>6. \A t \in DOMAIN trTraces : trTraces[t].run \in rs => trTraces'[t].status # "running"
  <2>1. ASSUME NEW t \in DOMAIN trTraces, trTraces[t].run \in rs, trTraces'[t].status = "running" PROVE FALSE
    <3>1. trTraces[t].status = "running" /\ t \notin ts
      BY <1>1, <1>4, <2>1, TrApart
    <3>2. t \in TrOpenOf(trTraces[t].run)
      BY <3>1 DEF TrOpenOf
    <3> QED BY <1>1, <2>1, <3>1, <3>2
  <2> QED BY <2>1
<1>7. TrShape'
  <2>1. TrIdle \in TrActiveType
    BY DEF TrIdle, TrActiveType, TrNone
  <2>2. trActive' \in [TrRuns -> TrActiveType]
    BY <1>1, <1>2, <2>1 DEF TrShape
  <2>3. \A i \in DOMAIN trSpans' : trSpans'[i].trace \in DOMAIN trTraces'
    BY <1>1, <1>2, <1>4 DEF TrShape, TrOnwardTo
  <2> QED BY <1>1, <1>4, <2>2, <2>3 DEF TrShape, TrOnwardTo
<1>8. \A r \in rs : TrKept(r)'
  <2>1. ASSUME NEW r \in rs PROVE TrKept(r)'
    <3>1. trActive'[r] = TrIdle /\ TrIdle.trace = TrNone
      BY <1>1 DEF TrIdle
    <3>2. TrOpenOf(r)' = {}
      BY <1>4, <1>6 DEF TrOpenOf
    <3> QED BY <3>1, <3>2 DEF TrKept
  <2> QED BY <2>1
<1>9. \A q \in TrRuns : q \notin rs => TrKept(q)'
  <2>1. ASSUME NEW q \in TrRuns, q \notin rs PROVE TrKept(q)'
    <3>1. PICK a : a = trActive[q]
      OBVIOUS
    <3>2. trActive'[q] = a
      BY <1>1, <2>1, <3>1
    <3>3. TrKept(q)
      BY <1>2
    <3>4. \A t \in DOMAIN trTraces : trTraces[t].run = q => t \notin ts /\ trTraces'[t] = trTraces[t]
      BY <1>3, <1>4, <2>1
    <3>5. TrOpenOf(q)' = TrOpenOf(q)
      <4>1. \A t \in DOMAIN trTraces : trTraces'[t].run = q <=> trTraces[t].run = q
        BY <1>4
      <4> QED BY <1>4, <3>4, <4>1 DEF TrOpenOf
    <3>6. CASE a.trace = TrNone
      BY <3>1, <3>2, <3>3, <3>5, <3>6 DEF TrKept
    <3>7. CASE a.trace # TrNone
      <4>1. a.trace \notin ts
        <5>1. a.trace \in TrOpenOf(q)
          BY <3>1, <3>3, <3>7 DEF TrKept
        <5> QED BY <3>4, <5>1 DEF TrOpenOf
      <4>2. \A i \in DOMAIN trSpans : trSpans[i].trace = a.trace => trSpans'[i] = trSpans[i]
        BY <1>1, <4>1
      <4>3. \A i \in DOMAIN trSpans : trSpans'[i].trace = trSpans[i].trace
        BY <1>1 DEF TrOnwardTo
      <4>4. TrOpenIn(trSpans', a.trace) = TrOpenIn(trSpans, a.trace)
        BY <1>1, <4>2, <4>3 DEF TrOpenIn
      <4>5. /\ TrHeld(a) = TrOpenIn(trSpans, a.trace) /\ a.root # TrNone
            /\ \A i \in TrHeld(a) : i \in DOMAIN trSpans /\ trSpans[i].trace = a.trace
            /\ a.root \in TrHeld(a) /\ trSpans[a.root].kind = "run_turn"
            /\ a.model # TrNone => a.model \in TrHeld(a) /\ trSpans[a.model].kind = "model_turn"
            /\ \A i \in a.asks : i \in TrHeld(a) /\ trSpans[i].kind = "approval_wait"
            /\ \A x \in a.tools : x[2] \in TrHeld(a) /\ trSpans[x[2]].kind = "tool_call"
            /\ \A x \in a.tools : \A y \in a.tools : x[2] = y[2] => x = y
        BY <3>1, <3>7, TrOpenTurn
      <4>6. \A i \in TrHeld(a) : trSpans'[i] = trSpans[i]
        BY <4>2, <4>5
      <4>7. TrOpenOf(q)' = {a.trace} \ {TrNone}
        BY <3>1, <3>3, <3>5 DEF TrKept
      <4>8. TrOpenSpans(a.trace)' = TrHeld(a)
        BY <4>4, <4>5 DEF TrOpenSpans
      <4> QED BY <3>2, <3>7, <4>5, <4>6, <4>7, <4>8 DEF TrKept
    <3> QED BY <3>6, <3>7
  <2> QED BY <2>1
<1>10. TrClosed'
  <2>1. ASSUME NEW i \in DOMAIN trSpans, trTraces'[trSpans'[i].trace].status # "running"
        PROVE trSpans'[i].status \notin TrOpen
    <3>1. trSpans'[i].trace = trSpans[i].trace
      BY <1>1 DEF TrOnwardTo
    <3>2. CASE trSpans[i].trace \in ts
      BY <1>1, <3>2
    <3>3. CASE trSpans[i].trace \notin ts
      BY <1>1, <1>2, <1>4, <2>1, <3>1, <3>3 DEF TrClosed, TrShape
    <3> QED BY <3>2, <3>3
  <2> QED BY <1>1, <2>1 DEF TrClosed
<1>11. TrOneTree'
  <2>1. \A i \in DOMAIN trSpans : /\ trSpans'[i].trace = trSpans[i].trace /\ trSpans'[i].parent = trSpans[i].parent
                                  /\ trSpans'[i].kind = trSpans[i].kind
    BY <1>1 DEF TrOnwardTo
  <2> QED BY <1>1, <1>2, <2>1 DEF TrOneTree
<1>12. \A r \in TrRuns : TrKept(r)'
  BY <1>8, <1>9
<1> QED BY <1>5, <1>7, <1>10, <1>11, <1>12 DEF TrInv, TrKeeps

LEMMA TrFinishRunKeeps ==
    ASSUME TrInv, NEW r \in TrRuns, NEW status \in TrEnds, TrFinishRun(r, status) PROVE TrKeeps
<1>1. PICK a : a = trActive[r]
  OBVIOUS
<1>2. /\ a.trace # TrNone /\ trSpans' = TrFinished(a, status) /\ trTraces' = TrEndTraces({a.trace}, status)
      /\ trActive' = [trActive EXCEPT ![r] = TrIdle]
  BY <1>1 DEF TrFinishRun
<1>3. TrKept(r) /\ trActive \in [TrRuns -> TrActiveType]
  BY DEF TrInv, TrShape
<1>4. TrOpenOf(r) = {a.trace}
  BY <1>1, <1>2, <1>3 DEF TrKept
<1>5. PICK ts : ts = {a.trace}
  OBVIOUS
<1>6. TrClosedOff(ts, trSpans')
  <2>1. PICK new : new = trSpans'
    OBVIOUS
  <2>2. TrClosedOff({a.trace}, new)
    BY <1>1, <1>2, <2>1, TrFinishedCloses
  <2> QED BY <1>5, <2>1, <2>2
<1>7. PICK rs : rs = {r}
  OBVIOUS
<1>8. ts = UNION {TrOpenOf(q) : q \in rs}
  BY <1>4, <1>5, <1>7
<1>9. trActive' = [q \in TrRuns |-> IF q \in rs THEN TrIdle ELSE trActive[q]]
  BY <1>2, <1>3, <1>7
<1>10. TrLeaves(rs, ts, status)
  BY <1>2, <1>5, <1>6, <1>7, <1>8, <1>9 DEF TrLeaves
<1> QED BY <1>10, TrTurnsOver

LEMMA TrRestartKeeps ==
    ASSUME TrInv, TrRestart PROVE TrKeeps
<1>1. PICK ts : ts = UNION {TrOpenOf(r) : r \in TrRuns}
  OBVIOUS
<1>2. /\ trSpans' = TrSweep(trSpans, ts) /\ trTraces' = TrEndTraces(ts, "interrupted")
      /\ trActive' = [r \in TrRuns |-> TrIdle]
  BY <1>1 DEF TrRestart
<1>3. TrClosedOff(ts, trSpans')
  <2>1. PICK new : new = trSpans'
    OBVIOUS
  <2>2. TrClosedOff(ts, new)
    BY <1>2, <2>1, TrSweepCloses
  <2> QED BY <2>1, <2>2
<1>4. "interrupted" \in TrEnds
  BY DEF TrEnds
<1>5. trActive' = [r \in TrRuns |-> IF r \in TrRuns THEN TrIdle ELSE trActive[r]]
  BY <1>2
<1>6. TrLeaves(TrRuns, ts, "interrupted")
  BY <1>1, <1>2, <1>3, <1>4, <1>5 DEF TrLeaves
<1> QED BY <1>6, TrTurnsOver

LEMMA TrStartTurnKeeps ==
    ASSUME TrInv, NEW r \in TrRuns, TrStartTurn(r) PROVE TrKeeps
<1>1. PICK a : a = trActive[r]
  OBVIOUS
<1>2. PICK ts : ts = TrOpenOf(r)
  OBVIOUS
<1>3. PICK t : t = Cardinality(DOMAIN trTraces) + 1
  OBVIOUS
<1>4. TrShape /\ TrKept(r) /\ TrClosed /\ TrOneTree
  BY DEF TrInv
<1>5. TrOver(r) = ts
  BY <1>1, <1>2, <1>4 DEF TrOver, TrOverBefore, TrKept
<1>6. PICK mid : mid = TrSpansAfter(r)
  OBVIOUS
<1>7. TrClosedOff(ts, mid)
  <2>1. CASE a.trace # TrNone
    <3>1. ts = {a.trace}
      BY <1>1, <1>2, <1>4, <2>1 DEF TrKept
    <3>2. mid = TrFinished(a, "interrupted") /\ "interrupted" \in TrEnds
      BY <1>1, <1>5, <1>6, <2>1, <3>1 DEF TrSpansAfter, TrEnds
    <3>3. TrClosedOff({a.trace}, mid)
      BY <1>1, <2>1, <3>2, TrFinishedCloses
    <3> QED BY <3>1, <3>3
  <2>2. CASE a.trace = TrNone
    <3>1. mid = TrSweep(trSpans, ts)
      BY <1>1, <1>5, <1>6, <2>2 DEF TrSpansAfter
    <3> QED BY <3>1, TrSweepCloses
  <2> QED BY <2>1, <2>2
<1>8. PICK ended : ended = TrEndTraces(ts, "interrupted")
  OBVIOUS
<1>9. /\ TrRows(ended, TrTraceType) /\ DOMAIN ended = DOMAIN trTraces
      /\ \A u \in DOMAIN trTraces :
            /\ ended[u].run = trTraces[u].run
            /\ u \in ts => ended[u].status = "interrupted"
            /\ u \notin ts => ended[u] = trTraces[u]
            /\ ended[u].status = trTraces[u].status \/ (trTraces[u].status = "running" /\ ended[u].status \in TrEnds)
  <2>1. \A u \in ts : u \in DOMAIN trTraces /\ trTraces[u].status = "running"
    BY <1>2 DEF TrOpenOf
  <2>2. "interrupted" \in TrEnds
    BY DEF TrEnds
  <2> QED BY <1>8, <2>1, <2>2, TrTracesEnded
<1>10. PICK m \in Nat : ended \in [1..m -> TrTraceType]
  BY <1>9 DEF TrRows
<1>11. DOMAIN trTraces = 1..m /\ t = m + 1
  <2>1. DOMAIN ended = 1..m /\ Cardinality(DOMAIN ended) = m
    BY <1>10, TrCount
  <2> QED BY <1>3, <1>9, <2>1
<1>12. 1..m \cup {m + 1} = 1..(m + 1) /\ m + 1 \notin 1..m /\ m + 1 \in Nat /\ m + 1 # 0
  OBVIOUS
<1>13. PICK row : row = [run |-> r, status |-> "running"]
  OBVIOUS
<1>14. row \in TrTraceType /\ row.run = r /\ row.status = "running"
  BY <1>13 DEF TrTraceType
<1>15. trTraces' = [u \in 1..(m + 1) |-> IF u = m + 1 THEN row ELSE ended[u]]
  BY <1>3, <1>5, <1>8, <1>11, <1>12, <1>13 DEF TrStartTurn
<1>16. /\ TrRows(trTraces', TrTraceType) /\ DOMAIN trTraces' = DOMAIN trTraces \cup {t} /\ t \notin DOMAIN trTraces
       /\ trTraces'[t] = row /\ \A u \in DOMAIN trTraces : trTraces'[u] = ended[u]
  <2>1. trTraces' \in [1..(m + 1) -> TrTraceType]
    BY <1>10, <1>12, <1>14, <1>15
  <2>2. TrRows(trTraces', TrTraceType)
    BY <1>12, <2>1 DEF TrRows
  <2> QED BY <1>11, <1>12, <1>15, <2>2
<1>17. t \in Nat /\ t # TrNone
  BY <1>11, <1>12 DEF TrNone
<1>18. PICK s : s = TrSpan(t, TrNone, "run_turn", "running")
  OBVIOUS
<1>19. s \in TrSpanType /\ s.trace = t /\ s.parent = TrNone /\ s.kind = "run_turn" /\ s.status = "running"
  BY <1>17, <1>18, TrSpanIs DEF TrKinds, TrOpen, TrNone
<1>20. PICK k : k = TrNewSpan
  OBVIOUS
<1>21. PICK new : new = trSpans'
  OBVIOUS
<1>22. new = TrWith(mid, s)
  BY <1>3, <1>6, <1>18, <1>21 DEF TrStartTurn
<1>23. TrOnwardTo(trSpans, mid) /\ DOMAIN mid = DOMAIN trSpans /\ TrRows(mid, TrSpanType)
  BY <1>7 DEF TrClosedOff, TrOnwardTo
<1>24. TrOneMore(mid, s, k, new)
  <2>1. k = Cardinality(DOMAIN mid) + 1
    BY <1>20, <1>23 DEF TrNewSpan
  <2> QED BY <1>19, <1>22, <1>23, <2>1, TrAdds
<1>25. TrOnwardTo(trSpans, new)
  BY <1>19, <1>22, <1>23, TrOnwardWith
<1>26. /\ k \in Nat /\ k # 0 /\ k \notin DOMAIN trSpans /\ DOMAIN new = DOMAIN trSpans \cup {k} /\ new[k] = s
       /\ \A i \in DOMAIN trSpans : new[i] = mid[i]
  BY <1>23, <1>24 DEF TrOneMore
<1>27. /\ \A i \in DOMAIN trSpans : IF trSpans[i].trace \in ts THEN new[i].status \notin TrOpen
                                                              ELSE new[i] = trSpans[i]
       /\ \A i \in DOMAIN trSpans : new[i].trace = trSpans[i].trace
  BY <1>7, <1>25, <1>26 DEF TrClosedOff, TrOnwardTo
<1>28. PICK b : b = TrFresh(r, t)
  OBVIOUS
<1>29. b \in TrActiveType /\ b.trace = t /\ b.root = k /\ b.model = TrNone /\ b.asks = {} /\ b.tools = {}
  BY <1>17, <1>20, <1>26, <1>28 DEF TrFresh, TrIdle, TrActiveType, TrNone
<1>30. /\ trActive \in [TrRuns -> TrActiveType] /\ trActive' = [trActive EXCEPT ![r] = b]
       /\ trActive'[r] = b /\ \A q \in TrRuns : q # r => trActive'[q] = trActive[q]
  BY <1>3, <1>4, <1>28 DEF TrStartTurn, TrShape
<1>31. \A u \in ts : u \in DOMAIN trTraces /\ trTraces[u].run = r
  BY <1>2 DEF TrOpenOf
<1>32. TrOnward
  <2>1. TrTracesOnward
    BY <1>9, <1>16 DEF TrTracesOnward
  <2> QED BY <1>21, <1>25, <2>1 DEF TrOnward, TrSpansOnward
<1>33. TrOnlyOf(r)
  <2>1. \A i \in DOMAIN trSpans' : (i \in DOMAIN trSpans /\ trSpans'[i] = trSpans[i]) \/ trTraces'[trSpans'[i].trace].run = r
    <3>1. trTraces'[s.trace].run = r
      BY <1>14, <1>16, <1>19
    <3>2. ASSUME NEW i \in DOMAIN trSpans
          PROVE  new[i] = trSpans[i] \/ trTraces'[new[i].trace].run = r
      <4>1. CASE trSpans[i].trace \in ts
        BY <1>9, <1>16, <1>27, <1>31, <4>1
      <4>2. CASE trSpans[i].trace \notin ts
        BY <1>27, <4>2
      <4> QED BY <4>1, <4>2
    <3> QED BY <1>21, <1>26, <3>1, <3>2
  <2> QED BY <1>9, <1>14, <1>16, <1>30, <1>31, <2>1 DEF TrOnlyOf
<1>34. \A q \in TrRuns : q # r => TrKept(q)'
  BY <1>32, <1>33, TrOthersKept
<1>35. \A i \in DOMAIN trSpans : trSpans[i].trace # t
  BY <1>4, <1>16 DEF TrShape
<1>36. TrKept(r)'
  <2>1. TrOpenOf(r)' = {t}
    <3>1. t \in TrOpenOf(r)'
      BY <1>14, <1>16 DEF TrOpenOf
    <3>2. ASSUME NEW u \in DOMAIN trTraces PROVE ~(trTraces'[u].run = r /\ trTraces'[u].status = "running")
      <4>1. CASE u \in ts
        BY <1>9, <1>16, <4>1
      <4>2. CASE u \notin ts
        BY <1>2, <1>9, <1>16, <4>2 DEF TrOpenOf
      <4> QED BY <4>1, <4>2
    <3>3. \A u \in TrOpenOf(r)' : u = t
      BY <1>16, <3>2 DEF TrOpenOf
    <3> QED BY <3>1, <3>3
  <2>2. TrHeld(b) = {k}
    BY <1>26, <1>29 DEF TrHeld, TrNone
  <2>3. TrOpenIn(new, t) = {k}
    BY <1>19, <1>26, <1>27, <1>35, TrApart DEF TrOpenIn
  <2>4. TrOpenSpans(t)' = {k}
    BY <1>21, <2>3 DEF TrOpenSpans
  <2>5. trSpans'[b.root].kind = "run_turn"
    BY <1>19, <1>21, <1>26, <1>29
  <2> QED BY <1>17, <1>26, <1>29, <1>30, <2>1, <2>2, <2>4, <2>5 DEF TrKept, TrNone
<1>37. TrShape'
  <2>1. trActive' \in [TrRuns -> TrActiveType]
    BY <1>29, <1>30
  <2>2. \A i \in DOMAIN new : new[i].trace \in DOMAIN trTraces'
    BY <1>4, <1>16, <1>19, <1>26, <1>27 DEF TrShape
  <2>3. TrRows(new, TrSpanType)
    BY <1>25 DEF TrOnwardTo
  <2> QED BY <1>16, <1>21, <2>1, <2>2, <2>3 DEF TrShape
<1>38. TrClosed'
  <2>1. ASSUME NEW i \in DOMAIN trSpans, trTraces'[new[i].trace].status # "running"
        PROVE new[i].status \notin TrOpen
    <3>1. CASE trSpans[i].trace \in ts
      BY <1>27, <3>1
    <3>2. CASE trSpans[i].trace \notin ts
      <4>1. trSpans[i].trace \in DOMAIN trTraces
        BY <1>4 DEF TrShape
      <4>2. trTraces[trSpans[i].trace].status # "running"
        BY <1>9, <1>16, <1>27, <2>1, <3>2, <4>1
      <4> QED BY <1>4, <1>27, <3>2, <4>2 DEF TrClosed
    <3> QED BY <3>1, <3>2
  <2>2. trTraces'[new[k].trace].status = "running"
    BY <1>14, <1>16, <1>19, <1>26
  <2> QED BY <1>21, <1>26, <2>1, <2>2 DEF TrClosed
<1>39. TrOneTree'
  <2>1. \A i \in DOMAIN trSpans : /\ new[i].trace = trSpans[i].trace /\ new[i].parent = trSpans[i].parent
                                  /\ new[i].kind = trSpans[i].kind
    BY <1>25 DEF TrOnwardTo
  <2>2. \A i \in DOMAIN trSpans : IF new[i].kind = "run_turn" THEN new[i].parent = TrNone
                                  ELSE new[i].parent \in DOMAIN new /\ new[new[i].parent].trace = new[i].trace
    BY <1>4, <1>26, <2>1 DEF TrOneTree
  <2> QED BY <1>19, <1>21, <1>26, <2>2 DEF TrOneTree
<1>40. \A q \in TrRuns : TrKept(q)'
  BY <1>34, <1>36
<1> QED BY <1>32, <1>37, <1>38, <1>39, <1>40 DEF TrInv, TrKeeps

-----------------------------------------------------------------------------

LEMMA TrStepKeeps ==
    ASSUME TrInv, TrNext PROVE TrKeeps
<1>1. CASE TrRestart
  BY <1>1, TrRestartKeeps
<1>2. ASSUME NEW r \in TrRuns,
             \/ TrStartTurn(r) \/ TrStartModelTurn(r) \/ TrStartApproval(r)
             \/ \E f \in BOOLEAN : TrFinishModelTurn(r, f) \/ \E k \in TrKeys : TrFinishTool(r, k, f)
             \/ \E k \in TrKeys : TrStartTool(r, k)
             \/ TrInstant(r, "context_stage", "failed") \/ TrInstant(r, "checkpoint", "succeeded")
             \/ \E s \in TrEnds : TrFinishRun(r, s)
      PROVE TrKeeps
  <2>1. CASE TrStartTurn(r)
    BY <2>1, TrStartTurnKeeps
  <2>2. CASE TrStartModelTurn(r)
    BY <2>2, TrStartModelTurnKeeps
  <2>3. CASE TrStartApproval(r)
    BY <2>3, TrStartApprovalKeeps
  <2>4. ASSUME NEW f \in BOOLEAN, TrFinishModelTurn(r, f) PROVE TrKeeps
    BY <2>4, TrFinishModelTurnKeeps
  <2>5. ASSUME NEW f \in BOOLEAN, NEW k \in TrKeys, TrFinishTool(r, k, f) PROVE TrKeeps
    BY <2>5, TrFinishToolKeeps
  <2>6. ASSUME NEW k \in TrKeys, TrStartTool(r, k) PROVE TrKeeps
    BY <2>6, TrStartToolKeeps
  <2>7. CASE TrInstant(r, "context_stage", "failed") \/ TrInstant(r, "checkpoint", "succeeded")
    BY <2>7, TrInstantKeeps DEF TrEnds
  <2>8. ASSUME NEW s \in TrEnds, TrFinishRun(r, s) PROVE TrKeeps
    BY <2>8, TrFinishRunKeeps
  <2> QED BY <1>2, <2>1, <2>2, <2>3, <2>4, <2>5, <2>6, <2>7, <2>8
<1> QED BY <1>1, <1>2 DEF TrNext

LEMMA TrNoStepKeeps ==
    ASSUME TrInv, UNCHANGED trVars PROVE TrInv'
<1>1. trTraces' = trTraces /\ trSpans' = trSpans /\ trActive' = trActive
  BY DEF trVars
<1>2. TrShape'
  BY <1>1 DEF TrInv, TrShape
<1>3. \A r \in TrRuns : TrKept(r)'
  <2>1. ASSUME NEW r \in TrRuns PROVE TrKept(r)'
    <3>1. TrKept(r)
      BY DEF TrInv
    <3>2. TrOpenOf(r)' = TrOpenOf(r)
      BY <1>1 DEF TrOpenOf
    <3> QED BY <1>1, <3>1, <3>2 DEF TrKept, TrOpenSpans
  <2> QED BY <2>1
<1>4. TrClosed' /\ TrOneTree'
  BY <1>1 DEF TrInv, TrClosed, TrOneTree
<1> QED BY <1>2, <1>3, <1>4 DEF TrInv

LEMMA TrInvCloses == TrInv => TrClosedTogether /\ TrOneTree
<1> SUFFICES ASSUME TrInv PROVE TrClosedTogether /\ TrOneTree
  OBVIOUS
<1>1. ASSUME NEW r \in TrRuns PROVE Cardinality(TrOpenOf(r)) <= 1
  <2>1. TrOpenOf(r) = {trActive[r].trace} \ {TrNone}
    BY DEF TrInv, TrKept
  <2>2. CASE trActive[r].trace = TrNone
    <3>1. TrOpenOf(r) = {}
      BY <2>1, <2>2
    <3> QED BY <3>1, FS_EmptySet
  <2>3. CASE trActive[r].trace # TrNone
    <3>1. TrOpenOf(r) = {trActive[r].trace}
      BY <2>1, <2>3
    <3>2. Cardinality({trActive[r].trace}) = 1
      BY FS_Singleton
    <3> QED BY <3>1, <3>2
  <2> QED BY <2>2, <2>3
<1> QED BY <1>1 DEF TrInv, TrClosed, TrClosedTogether

\* Every trace is one tree that ends as a whole, and what a span or a trace ended with stays
\* (TraceRecorder, finishRunTrace), for any number of runs, calls and turns.
THEOREM TracesAreWhole == TrSpec => TrTracesWhole
<1> DEFINE Stays ==
      /\ \A i \in DOMAIN trSpans : trSpans[i].status \in TrEnds => trSpans'[i].status = trSpans[i].status
      /\ \A t \in DOMAIN trTraces : trTraces[t].status \in TrEnds => trTraces'[t].status = trTraces[t].status
<1>1. TrInv /\ [TrNext]_trVars => TrInv'
  <2>1. ASSUME TrInv, TrNext PROVE TrInv'
    BY <2>1, TrStepKeeps DEF TrKeeps
  <2> QED BY <2>1, TrNoStepKeeps
<1>2. TrInv /\ [TrNext]_trVars => [Stays]_trVars
  <2>1. ASSUME TrInv, TrNext PROVE Stays
    <3>1. TrOnward
      BY <2>1, TrStepKeeps DEF TrKeeps
    <3> QED BY <3>1, TrApart DEF TrOnward, TrSpansOnward, TrTracesOnward, TrOnwardTo
  <2> QED BY <2>1
<1>3. TrSpec => []TrInv
  BY <1>1, TrInitHolds, PTL DEF TrSpec
<1>4. TrSpec => []TrClosedTogether /\ []TrOneTree
  BY <1>3, TrInvCloses, PTL
<1>5. TrSpec => [][Stays]_trVars
  BY <1>2, <1>3, PTL DEF TrSpec
<1> QED BY <1>4, <1>5 DEF TrTracesWhole, TrEndsStay

===============================================================================
