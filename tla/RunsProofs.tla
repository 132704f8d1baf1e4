------------------------------ MODULE RunsProofs ------------------------------
(***************************************************************************)
(* Theorems about what a run may spend, whom it may command and what it    *)
(* says: RunBudget, Delegation, SearchBudget and EventStream, for any      *)
(* limits, runs, queries and texts.                                        *)
(*                                                                         *)
(* RunBudget is an argument about books.  Turns are in exactly one of five *)
(* places: reserved by a start, granted to the host, on their way back as  *)
(* an event, counted in the row, or left over; each step moves them from   *)
(* one to the next.  Time is kept by nesting: what is charged lies within  *)
(* the segment that is open, which began in the past.  In Delegation the   *)
(* point is that the descendants of a run are closed under the parents, so *)
(* that a change of access or a deletion reaches the whole tree below.     *)
(* SearchBudget compares cardinalities: the queries of the turn are those  *)
(* of the calls that are open and of those that have ended.  EventStream   *)
(* needs to know that the bubbles, the events on the wire and the buffer   *)
(* share out, in this order, the characters that were said, and where in   *)
(* them each message begins: an event on the wire joins the place before   *)
(* it to the place after it.                                               *)
(***************************************************************************)
EXTENDS RunBudget, Delegation, SearchBudget, EventStream, Integers, FiniteSetTheorems,
        SequenceTheorems, WellFoundedInduction, TLAPS

-----------------------------------------------------------------------------
(* RunBudget: turns and time *)

\* Segments begin in the past; a row of a turn is charged only within a segment of the run.
BudSegmentsNest ==
    /\ budRun.seg <= budClock /\ budTurn.seg <= budClock
    /\ budTurn.seg # 0 => budRun.seg # 0

\* Turns on their way to Main that will be counted for the latest start: a turn is sent only
\* as one of the first two events.
BudComing(i) ==
    IF i <= Len(budEvents) /\ budEvents[i].kind = "turn" /\ budEvents[i].session = budStarts
    THEN 1 ELSE 0
BudInHost == IF budHost.on /\ budHost.session = budStarts THEN budHost.left ELSE 0
BudReserved == IF budStart.on THEN budStart.turns ELSE 0

\* The host works on a start that was made, and a turn is the first or second event it sends.
BudSessionsPast ==
    /\ budHost.session <= budStarts
    /\ \A i \in 1..Len(budEvents) :
          budEvents[i].session <= budStarts /\ (budEvents[i].kind = "turn" => i <= 2)

\* What was counted, what is under way and what may still be taken stays in the total.
BudTurnsAccounted ==
    budRun.turns + BudComing(1) + BudComing(2) + BudInHost + BudReserved <= BudTotalLimit + budLate

\* The inductive invariant: time that escapes no book, and turns of which none is counted twice.
BudInv ==
    /\ BudTypeOK /\ BudSegmentsNest /\ BudNothingEscapes /\ BudChargedWhileRunning
    /\ BudSessionsPast /\ BudTurnsAccounted

\* What the host sends.
BudEvent == [kind : {"turn", "exhausted", "completed"}, session : Nat]

LEMMA BudConstants ==
    /\ BudTurnLimit \in Nat /\ BudTotalLimit \in Nat /\ BudTurnTime \in Nat
    /\ BudTotalTime \in Nat /\ BudHorizon \in Nat
  BY BudAssumption

LEMMA BudInitHolds == BudInit => BudInv
<1> SUFFICES ASSUME BudInit PROVE BudInv
  OBVIOUS
<1>1. BudTypeOK
  BY DEF BudInit, BudTypeOK, BudClosed, BudNoStart, BudNoHost
<1>2. Len(budEvents) = 0
  BY DEF BudInit
<1>3. BudSegmentsNest /\ BudNothingEscapes /\ BudChargedWhileRunning
  BY DEF BudInit, BudSegmentsNest, BudNothingEscapes, BudChargedWhileRunning, BudClosed, BudUsed, BudSegment
<1>4. BudSessionsPast
  BY <1>2 DEF BudInit, BudSessionsPast, BudNoHost
<1>5. BudComing(1) = 0 /\ BudComing(2) = 0 /\ BudInHost = 0 /\ BudReserved = 0
  BY <1>2 DEF BudInit, BudComing, BudInHost, BudReserved, BudNoHost, BudNoStart
<1>6. BudTurnsAccounted
  BY <1>5, BudConstants DEF BudInit, BudTurnsAccounted
<1> QED BY <1>1, <1>3, <1>4, <1>6 DEF BudInv

\* A row that is stopped or begun keeps its shape and its turns.
BudRunRow == [turns : Nat, time : Nat, seg : Nat]
BudTurnRow == [open : BOOLEAN, turns : Nat, time : Nat, seg : Nat]

LEMMA BudRows ==
    /\ \A row \in BudRunRow, n, s \in Nat :
          /\ [row EXCEPT !.time = n, !.seg = s] \in BudRunRow
          /\ [row EXCEPT !.turns = n] \in BudRunRow /\ [row EXCEPT !.seg = n] \in BudRunRow
    /\ \A row \in BudTurnRow, n, s \in Nat :
          /\ [row EXCEPT !.time = n, !.seg = s] \in BudTurnRow
          /\ [row EXCEPT !.turns = n] \in BudTurnRow /\ [row EXCEPT !.seg = n] \in BudTurnRow
  BY DEF BudRunRow, BudTurnRow

LEMMA BudFreshRows ==
    /\ BudClosed \in BudTurnRow /\ BudOpened \in BudTurnRow
    /\ BudOpened.turns = 0 /\ BudOpened.time = 0 /\ BudOpened.seg = 0
    /\ BudClosed.turns = 0 /\ BudClosed.time = 0 /\ BudClosed.seg = 0
  BY DEF BudTurnRow, BudClosed, BudOpened

LEMMA BudStoppedRow ==
    ASSUME budClock \in Nat, NEW row \in BudRunRow \cup BudTurnRow, row.seg <= budClock
    PROVE  /\ BudUsed(row) \in Nat
           /\ BudStopped(row).turns = row.turns /\ BudStopped(row).time = BudUsed(row)
           /\ BudStopped(row).seg = 0
           /\ row \in BudRunRow => BudStopped(row) \in BudRunRow
           /\ row \in BudTurnRow => BudStopped(row) \in BudTurnRow
<1>1. BudUsed(row) \in Nat
  BY DEF BudUsed, BudSegment, BudRunRow, BudTurnRow
<1>2. BudStopped(row).turns = row.turns /\ BudStopped(row).time = BudUsed(row) /\ BudStopped(row).seg = 0
  BY DEF BudStopped, BudRunRow, BudTurnRow
<1> QED BY <1>1, <1>2, BudRows DEF BudStopped

LEMMA BudBegunRow ==
    ASSUME budClock \in Nat \ {0}, NEW row \in BudRunRow \cup BudTurnRow, row.seg <= budClock
    PROVE  /\ BudBegun(row).turns = row.turns /\ BudBegun(row).time = row.time
           /\ BudBegun(row).seg = (IF row.seg = 0 THEN budClock ELSE row.seg)
           /\ BudUsed(BudBegun(row)) = BudUsed(row)
           /\ row \in BudRunRow => BudBegun(row) \in BudRunRow
           /\ row \in BudTurnRow => BudBegun(row) \in BudTurnRow
<1>1. /\ BudBegun(row).turns = row.turns /\ BudBegun(row).time = row.time
      /\ BudBegun(row).seg = (IF row.seg = 0 THEN budClock ELSE row.seg)
  BY DEF BudBegun, BudRunRow, BudTurnRow
<1>2. /\ row \in BudRunRow => BudBegun(row) \in BudRunRow
      /\ row \in BudTurnRow => BudBegun(row) \in BudTurnRow
  BY DEF BudBegun, BudRunRow, BudTurnRow
<1>3. BudUsed(BudBegun(row)) = BudUsed(row)
  BY <1>1 DEF BudUsed, BudSegment, BudRunRow, BudTurnRow
<1> QED BY <1>1, <1>2, <1>3

LEMMA BudLeftIsNat ==
    ASSUME BudTypeOK, BudSegmentsNest, NEW turn \in BudTurnRow, turn.seg <= budClock
    PROVE  /\ BudTurnsLeft(turn) \in Nat /\ BudTimeLeft(turn) \in Nat
           /\ BudTurnsLeft(turn) # 0 => budRun.turns + BudTurnsLeft(turn) <= BudTotalLimit
<1>1. budRun \in BudRunRow /\ budRun.turns \in Nat /\ budClock \in Nat /\ turn.turns \in Nat
  BY DEF BudTypeOK, BudRunRow, BudTurnRow
<1>2. BudUsed(budRun) \in Nat /\ BudUsed(turn) \in Nat
  BY <1>1, BudStoppedRow DEF BudSegmentsNest
<1>3. BudTurnsLeft(turn) \in Nat /\ (BudTurnsLeft(turn) # 0 => budRun.turns + BudTurnsLeft(turn) <= BudTotalLimit)
  BY <1>1, BudConstants DEF BudTurnsLeft, BudSmaller, BudLess
<1>4. BudTimeLeft(turn) \in Nat
  BY <1>2, BudConstants DEF BudTimeLeft, BudSmaller, BudLess
<1> QED BY <1>3, <1>4

LEMMA BudChannel ==
    /\ \A q \in Seq(BudEvent), e \in BudEvent :
          /\ Append(q, e) \in Seq(BudEvent) /\ Len(Append(q, e)) = Len(q) + 1
          /\ Append(q, e)[Len(q) + 1] = e
          /\ \A i \in 1..Len(q) : Append(q, e)[i] = q[i]
    /\ \A q \in Seq(BudEvent) : q # <<>> =>
          /\ Head(q) \in BudEvent /\ Head(q) = q[1] /\ Tail(q) \in Seq(BudEvent)
          /\ Len(q) >= 1 /\ Len(Tail(q)) = Len(q) - 1
          /\ \A i \in 1..Len(Tail(q)) : Tail(q)[i] = q[i + 1]
  OBVIOUS

\* The rows of a start under way and of the host.
BudStartRow == [on : BOOLEAN, turns : Nat, time : Nat]
BudHostRow == [on : BOOLEAN, session : Nat, left : Nat, deadline : Nat]

LEMMA BudTyped ==
    BudTypeOK <=>
        /\ budClock \in Nat \ {0}
        /\ budStatus \in {"understanding", "running", "paused", "waiting_user", "completed"}
        /\ budRun \in BudRunRow /\ budTurn \in BudTurnRow /\ budStart \in BudStartRow
        /\ budHost \in BudHostRow /\ budEvents \in Seq(BudEvent)
        /\ budStarts \in Nat /\ budActive \in Nat /\ budLate \in Nat
  BY DEF BudTypeOK, BudRunRow, BudTurnRow, BudStartRow, BudHostRow, BudEvent

LEMMA BudSmallRows ==
    /\ BudNoStart \in BudStartRow /\ BudNoHost \in BudHostRow
    /\ \A n, t \in Nat : [on |-> TRUE, turns |-> n, time |-> t] \in BudStartRow
    /\ \A h \in BudHostRow, n \in Nat : [h EXCEPT !.left = n] \in BudHostRow /\ h.left \in Nat /\ h.session \in Nat
    /\ \A r \in BudStartRow : r.turns \in Nat /\ r.time \in Nat
    /\ \A n, m, t \in Nat : [on |-> TRUE, session |-> n, left |-> m, deadline |-> t] \in BudHostRow
    /\ \A k \in {"turn", "exhausted", "completed"}, n \in Nat : [kind |-> k, session |-> n] \in BudEvent
  BY DEF BudNoStart, BudNoHost, BudStartRow, BudHostRow, BudEvent

\* What the types say of single values, with the rows kept whole.
BudFacts ==
    /\ budClock \in Nat /\ budClock # 0 /\ budRun \in BudRunRow /\ budTurn \in BudTurnRow
    /\ budStarts \in Nat /\ budActive \in Nat /\ budLate \in Nat
    /\ budRun.turns \in Nat /\ budRun.time \in Nat /\ budRun.seg \in Nat
    /\ budTurn.turns \in Nat /\ budTurn.time \in Nat /\ budTurn.seg \in Nat
    /\ budStart.turns \in Nat /\ budStart.time \in Nat
    /\ budHost.left \in Nat /\ budHost.session \in Nat /\ budEvents \in Seq(BudEvent)
    /\ budStart \in BudStartRow /\ budHost \in BudHostRow

LEMMA BudFactsHold == BudTypeOK => BudFacts
  BY BudTyped DEF BudFacts, BudRunRow, BudTurnRow, BudStartRow, BudHostRow

LEMMA BudCurrentRow ==
    ASSUME BudTypeOK, BudSegmentsNest
    PROVE  /\ BudCurrent \in BudTurnRow /\ BudCurrent.turns \in Nat /\ BudCurrent.seg \in Nat
           /\ BudCurrent.seg <= budClock /\ BudCurrent.time \in Nat
           /\ BudCurrent = budTurn \/ BudCurrent = BudOpened
<1>1. BudCurrent = budTurn \/ BudCurrent = BudOpened
  BY DEF BudCurrent
<1>2. BudFacts
  BY BudFactsHold
<1>3. 0 <= budClock /\ budTurn.seg <= budClock
  BY <1>2 DEF BudFacts, BudSegmentsNest
<1> QED BY <1>1, <1>2, <1>3, BudFreshRows DEF BudFacts

LEMMA BudTypeKept == ASSUME BudTypeOK, BudSegmentsNest, BudNext PROVE BudTypeOK'
<1>0. BudFacts
  BY BudFactsHold
<1>a. /\ BudStopped(budRun) \in BudRunRow /\ BudStopped(budTurn) \in BudTurnRow
      /\ BudBegun(budRun) \in BudRunRow /\ BudBegun(BudCurrent) \in BudTurnRow
  <2>1. BudCurrent \in BudTurnRow /\ BudCurrent.seg <= budClock /\ budClock \in Nat \ {0}
    BY <1>0, BudCurrentRow DEF BudFacts
  <2>2. budRun.seg <= budClock /\ budTurn.seg <= budClock
    BY DEF BudSegmentsNest
  <2> QED BY <1>0, <2>1, <2>2, BudStoppedRow, BudBegunRow DEF BudFacts
<1>s. budStatus \in {"understanding", "running", "paused", "waiting_user", "completed"}
  BY DEF BudTypeOK
<1>b. /\ budClock \in Nat \ {0} /\ budRun \in BudRunRow /\ budTurn \in BudTurnRow
      /\ budStart \in BudStartRow /\ budHost \in BudHostRow /\ budEvents \in Seq(BudEvent)
      /\ budStarts \in Nat /\ budActive \in Nat /\ budLate \in Nat
  BY <1>0 DEF BudFacts
<1> SUFFICES
      /\ budClock' \in Nat \ {0}
      /\ budStatus' \in {"understanding", "running", "paused", "waiting_user", "completed"}
      /\ budRun' \in BudRunRow /\ budTurn' \in BudTurnRow /\ budStart' \in BudStartRow
      /\ budHost' \in BudHostRow /\ budEvents' \in Seq(BudEvent)
      /\ budStarts' \in Nat /\ budActive' \in Nat /\ budLate' \in Nat
  BY DEF BudTypeOK, BudRunRow, BudTurnRow, BudStartRow, BudHostRow, BudEvent
<1>1. ASSUME NEW message \in BOOLEAN, BudStartReads(message)
      PROVE  /\ budStatus' \in {"understanding", "running", "paused", "waiting_user", "completed"}
             /\ budRun' \in BudRunRow /\ budTurn' \in BudTurnRow /\ budStart' \in BudStartRow
             /\ budStarts' \in Nat
             /\ UNCHANGED <<budClock, budHost, budEvents, budActive, budLate>>
  <2> DEFINE turn == IF message /\ (budStatus = "completed" \/ budStarts = 0) THEN BudOpened ELSE budTurn
  <2>0. 0 <= budClock /\ budTurn.seg <= budClock
    BY <1>0 DEF BudSegmentsNest, BudFacts
  <2>1. turn \in BudTurnRow /\ turn.seg <= budClock
    BY <1>b, <2>0, BudFreshRows
  <2>2. BudTurnsLeft(turn) \in Nat /\ BudTimeLeft(turn) \in Nat
    BY <2>1, BudLeftIsNat
  <2>3. [on |-> TRUE, turns |-> BudTurnsLeft(turn), time |-> BudTimeLeft(turn)] \in BudStartRow
    BY <2>2 DEF BudStartRow
  <2>4. BudClosed \in BudTurnRow
    BY BudFreshRows
  <2>5. CASE BudTurnsLeft(turn) = 0 \/ BudTimeLeft(turn) = 0
    BY <1>1, <1>a, <1>b, <2>4, <2>5 DEF BudStartReads
  <2>6. CASE ~(BudTurnsLeft(turn) = 0 \/ BudTimeLeft(turn) = 0)
    <3>1. /\ budStart' = [on |-> TRUE, turns |-> BudTurnsLeft(turn), time |-> BudTimeLeft(turn)]
          /\ budStatus' = (IF budStatus = "completed" THEN "understanding" ELSE budStatus)
          /\ budTurn' = turn /\ budRun' = budRun /\ budStarts' = budStarts + 1
          /\ UNCHANGED <<budClock, budHost, budEvents, budActive, budLate>>
      BY <1>1, <2>6 DEF BudStartReads
    <3> HIDE DEF turn
    <3> QED BY <3>1, <1>b, <1>s, <2>1, <2>3
  <2> QED BY <2>5, <2>6
<1>2. CASE BudStartHands
  <2>1. budClock + budStart.time \in Nat
    BY <1>0 DEF BudFacts
  <2>2. budHost' \in BudHostRow
    BY <1>0, <1>2, <2>1, BudSmallRows DEF BudStartHands, BudFacts
  <2>3. budStart' \in BudStartRow
    BY <1>2, BudSmallRows DEF BudStartHands
  <2> QED BY <1>2, <1>a, <1>b, <2>2, <2>3 DEF BudStartHands
<1>3. CASE BudStartThrows
  <2>1. budStart' \in BudStartRow
    BY <1>3, BudSmallRows DEF BudStartThrows
  <2> QED BY <1>3, <1>a, <1>b, <2>1 DEF BudStartThrows
<1>4. CASE BudHostTurn
  <2>1. \A k \in {"turn", "exhausted", "completed"} : BudSent(k) \in Seq(BudEvent)
    BY <1>0, BudSmallRows, BudChannel DEF BudSent, BudFacts
  <2>2. BudLess(budHost.left, 1) \in Nat
    BY <1>0 DEF BudLess, BudFacts
  <2>3. [budHost EXCEPT !.left = BudLess(@, 1)] \in BudHostRow /\ BudNoHost \in BudHostRow
    BY <1>b, <2>2, BudSmallRows
  <2> QED BY <1>4, <1>b, <1>s, <2>1, <2>3 DEF BudHostTurn
<1>5. CASE BudHostEnds
  <2>1. \A k \in {"turn", "exhausted", "completed"} : BudSent(k) \in Seq(BudEvent)
    BY <1>0, BudSmallRows, BudChannel DEF BudSent, BudFacts
  <2>2. BudNoHost \in BudHostRow
    BY BudSmallRows
  <2> QED BY <1>5, <1>b, <1>s, <2>1, <2>2 DEF BudHostEnds
<1>6. CASE BudOnTurn
  <2>1. budEvents' \in Seq(BudEvent)
    BY <1>6, <1>b, BudChannel DEF BudOnTurn
  <2>2. budRun.turns + 1 \in Nat /\ BudCurrent.turns + 1 \in Nat /\ BudCurrent \in BudTurnRow
    BY <1>0, BudCurrentRow DEF BudFacts
  <2>3. [budRun EXCEPT !.turns = @ + 1] \in BudRunRow /\ [BudCurrent EXCEPT !.turns = @ + 1] \in BudTurnRow
    BY <1>b, <2>2, BudRows
  <2> QED BY <1>6, <1>b, <1>s, <2>1, <2>3 DEF BudOnTurn
<1>7. CASE BudOnEnd
  <2>1. budEvents' \in Seq(BudEvent) /\ BudClosed \in BudTurnRow
    BY <1>7, <1>b, BudChannel, BudFreshRows DEF BudOnEnd
  <2> QED BY <1>7, <1>a, <1>b, <1>s, <2>1 DEF BudOnEnd
<1>8. CASE BudPause \/ BudCancel
  <2>1. BudNoHost \in BudHostRow /\ BudClosed \in BudTurnRow
    BY BudSmallRows, BudFreshRows
  <2> QED BY <1>8, <1>a, <1>b, <2>1 DEF BudPause, BudCancel
<1>9. CASE BudFollowUp \/ BudTimePasses
  <2>1. BudOpened \in BudTurnRow
    BY BudFreshRows
  <2> QED BY <1>9, <1>b, <1>s, <2>1 DEF BudFollowUp, BudTimePasses
<1>10. ASSUME NEW downtime \in 0..BudHorizon, BudCrash(downtime)
       PROVE  /\ budClock' \in Nat \ {0}
              /\ budStatus' \in {"understanding", "running", "paused", "waiting_user", "completed"}
              /\ budRun' \in BudRunRow /\ budTurn' \in BudTurnRow /\ budStart' \in BudStartRow
              /\ budHost' \in BudHostRow /\ budEvents' \in Seq(BudEvent)
              /\ UNCHANGED <<budStarts, budActive, budLate>>
  <2>1. budClock' = budClock + downtime /\ budClock' \in Nat /\ budClock' # 0 /\ budClock' >= budClock
    <3>1. budClock' = budClock + downtime
      BY <1>10 DEF BudCrash
    <3> QED BY <1>0, <3>1, BudConstants DEF BudFacts
  <2>2. budRun' \in BudRunRow /\ budTurn' \in BudTurnRow
    <3>1. PICK n \in Nat : n = budRun.time + (IF budRun.seg = 0 THEN 0 ELSE budClock' - budRun.seg)
      BY <1>0, <2>1 DEF BudFacts, BudSegmentsNest
    <3>2. PICK m \in Nat : m = budTurn.time + (IF budTurn.seg = 0 THEN 0 ELSE budClock' - budTurn.seg)
      BY <1>0, <2>1 DEF BudFacts, BudSegmentsNest
    <3>3. CASE budStatus = "completed"
      BY <1>10, <1>b, <3>3 DEF BudCrash
    <3>4. CASE budStatus # "completed"
      <4>1. budRun' = [budRun EXCEPT !.time = n, !.seg = 0]
            /\ budTurn' = [budTurn EXCEPT !.time = m, !.seg = 0]
        BY <1>10, <3>1, <3>2, <3>4 DEF BudCrash
      <4> QED BY <1>b, <4>1, BudRows
    <3> QED BY <3>3, <3>4
  <2>3. budStart' \in BudStartRow /\ budHost' \in BudHostRow /\ budEvents' \in Seq(BudEvent)
    BY <1>10, BudSmallRows DEF BudCrash
  <2> QED BY <1>10, <1>s, <2>1, <2>2, <2>3 DEF BudCrash
<1> QED BY <1>1, <1>2, <1>3, <1>4, <1>5, <1>6, <1>7, <1>8, <1>9, <1>10, <1>b DEF BudNext

\* Time: segments nest, and what a row used only grows with the clock.
BudTimeInv == BudSegmentsNest /\ BudNothingEscapes /\ BudChargedWhileRunning

LEMMA BudTimeKept == ASSUME BudTypeOK, BudTimeInv, BudNext PROVE BudTimeInv'
<1>0. BudFacts
  BY BudFactsHold
<1>a. /\ budRun.seg <= budClock /\ budTurn.seg <= budClock /\ (budTurn.seg # 0 => budRun.seg # 0)
      /\ (budStatus = "running" <=> budRun.seg # 0)
      /\ BudUsed(budRun) >= budActive /\ BudUsed(budTurn) <= BudUsed(budRun)
  BY DEF BudTimeInv, BudSegmentsNest, BudNothingEscapes, BudChargedWhileRunning
<1>b. /\ BudStopped(budRun).seg = 0 /\ BudStopped(budRun).time = BudUsed(budRun)
      /\ BudStopped(budTurn).seg = 0 /\ BudStopped(budTurn).time = BudUsed(budTurn)
      /\ BudUsed(budRun) \in Nat /\ BudUsed(budTurn) \in Nat
  BY <1>0, <1>a, BudStoppedRow DEF BudFacts
<1>c. \/ BudCurrent = budTurn
      \/ BudCurrent = BudOpened /\ BudCurrent.time = 0 /\ BudCurrent.seg = 0
  BY BudFreshRows DEF BudCurrent
<1>n. budClock \in Nat /\ budActive \in Nat /\ budClock # 0
      /\ budRun.time \in Nat /\ budRun.seg \in Nat /\ budTurn.time \in Nat /\ budTurn.seg \in Nat
  BY <1>0 DEF BudFacts
<1> USE DEF BudTimeInv, BudSegmentsNest, BudNothingEscapes, BudChargedWhileRunning, BudUsed, BudSegment
<1>1. ASSUME NEW message \in BOOLEAN, BudStartReads(message) PROVE BudTimeInv'
  <2>1. UNCHANGED <<budClock, budActive>>
    BY <1>1 DEF BudStartReads
  <2>2. \/ UNCHANGED budTurn
        \/ budTurn'.seg = 0 /\ budTurn'.time = 0
    BY <1>1, BudFreshRows DEF BudStartReads
  <2>3. \/ budRun' = budRun /\ budStatus # "running" /\ budStatus' # "running"
        \/ budRun' = BudStopped(budRun) /\ budTurn'.seg = 0 /\ budTurn'.time = 0 /\ budStatus' # "running"
    BY <1>1, BudFreshRows DEF BudStartReads
  <2>4. CASE UNCHANGED budTurn /\ budRun' = budRun /\ budStatus # "running" /\ budStatus' # "running"
    BY <1>a, <1>n, <2>1, <2>4
  <2>5. CASE /\ budTurn'.seg = 0 /\ budTurn'.time = 0 /\ budRun' = budRun
             /\ budStatus # "running" /\ budStatus' # "running"
    BY <1>a, <1>n, <2>1, <2>5
  <2>6. CASE budRun' = BudStopped(budRun) /\ budTurn'.seg = 0 /\ budTurn'.time = 0 /\ budStatus' # "running"
    BY <1>a, <1>b, <1>n, <2>1, <2>6
  <2> QED BY <2>2, <2>3, <2>4, <2>5, <2>6
<1>2. CASE BudStartHands
  <2>1. UNCHANGED <<budClock, budActive>> /\ budStatus' = "running"
        /\ budRun' = BudBegun(budRun) /\ budTurn' = BudBegun(BudCurrent)
    BY <1>2 DEF BudStartHands
  <2>2. BudCurrent \in BudTurnRow /\ BudCurrent.seg \in Nat /\ BudCurrent.time \in Nat /\ BudCurrent.seg <= budClock
    BY BudCurrentRow
  <2>3. /\ budRun'.time = budRun.time /\ budTurn'.time = BudCurrent.time
        /\ budRun'.seg = (IF budRun.seg = 0 THEN budClock ELSE budRun.seg)
        /\ budTurn'.seg = (IF BudCurrent.seg = 0 THEN budClock ELSE BudCurrent.seg)
    <3>1. budRun \in BudRunRow /\ budClock \in Nat \ {0}
      BY <1>0 DEF BudFacts
    <3> QED BY <2>1, <2>2, <3>1, <1>a, BudBegunRow
  <2> QED BY <1>a, <1>c, <1>n, <2>1, <2>2, <2>3
<1>3. CASE BudStartThrows \/ BudCancel
  <2>1. UNCHANGED <<budClock, budActive>> /\ budStatus' = "completed"
        /\ budRun' = BudStopped(budRun) /\ budTurn' = BudStopped(budTurn)
    BY <1>3 DEF BudStartThrows, BudCancel
  <2> QED BY <1>a, <1>b, <1>n, <2>1
<1>4. CASE BudHostTurn \/ BudHostEnds
  <2>1. UNCHANGED <<budClock, budActive, budStatus, budRun, budTurn>>
    BY <1>4 DEF BudHostTurn, BudHostEnds
  <2> QED BY <1>a, <1>n, <2>1
<1>5. CASE BudOnTurn
  <2>1. UNCHANGED <<budClock, budActive, budStatus>> /\ budRun' = [budRun EXCEPT !.turns = @ + 1]
        /\ budTurn' = [BudCurrent EXCEPT !.turns = @ + 1]
    BY <1>5 DEF BudOnTurn
  <2>2. budRun'.time = budRun.time /\ budRun'.seg = budRun.seg
    BY <2>1, <1>0 DEF BudFacts, BudRunRow
  <2>3. budTurn'.time = BudCurrent.time /\ budTurn'.seg = BudCurrent.seg
    BY <2>1, BudCurrentRow DEF BudTurnRow
  <2> QED BY <1>a, <1>c, <1>n, <2>1, <2>2, <2>3
<1>6. CASE BudOnEnd \/ BudPause
  <2>1. UNCHANGED <<budClock, budActive>>
    BY <1>6 DEF BudOnEnd, BudPause
  <2>2. \/ UNCHANGED <<budStatus, budRun, budTurn>>
        \/ budStatus' # "running" /\ budRun' = BudStopped(budRun) /\ budTurn'.seg = 0 /\ budTurn'.time = 0
    BY <1>6, BudFreshRows DEF BudOnEnd, BudPause
  <2> QED BY <1>a, <1>b, <1>n, <2>1, <2>2
<1>7. CASE BudFollowUp
  <2>1. UNCHANGED <<budClock, budActive, budStatus, budRun>> /\ budTurn'.seg = 0 /\ budTurn'.time = 0
    BY <1>7, BudFreshRows DEF BudFollowUp
  <2> QED BY <1>a, <1>b, <1>n, <2>1
<1>8. CASE BudTimePasses
  <2>1. budClock' = budClock + 1 /\ UNCHANGED <<budStatus, budRun, budTurn>>
        /\ budActive' = IF budStatus = "running" THEN budActive + 1 ELSE budActive
    BY <1>8 DEF BudTimePasses
  <2> QED BY <1>a, <1>b, <1>n, <2>1
<1>9. ASSUME NEW downtime \in 0..BudHorizon, BudCrash(downtime) PROVE BudTimeInv'
  <2>1. budClock' = budClock + downtime /\ budActive' = budActive /\ downtime \in Nat
    BY <1>9, BudConstants DEF BudCrash
  <2>2. CASE budStatus = "completed"
    <3>1. UNCHANGED <<budRun, budTurn, budStatus>>
      BY <1>9, <2>2 DEF BudCrash
    <3> QED BY <1>a, <1>b, <1>n, <2>1, <2>2, <3>1
  <2>3. CASE budStatus # "completed"
    <3>1. /\ budRun' = [budRun EXCEPT !.time = @ + (IF budRun.seg = 0 THEN 0 ELSE budClock' - budRun.seg),
                                      !.seg = 0]
          /\ budTurn' = [budTurn EXCEPT !.time = @ + (IF budTurn.seg = 0 THEN 0 ELSE budClock' - budTurn.seg),
                                        !.seg = 0]
          /\ budStatus' = "paused"
      BY <1>9, <2>3 DEF BudCrash
    <3>2. /\ budRun'.seg = 0
          /\ budRun'.time = budRun.time + (IF budRun.seg = 0 THEN 0 ELSE budClock' - budRun.seg)
      BY <1>0, <3>1 DEF BudFacts, BudRunRow
    <3>3. /\ budTurn'.seg = 0
          /\ budTurn'.time = budTurn.time + (IF budTurn.seg = 0 THEN 0 ELSE budClock' - budTurn.seg)
      BY <1>0, <3>1 DEF BudFacts, BudTurnRow
    <3> QED BY <1>a, <1>n, <2>1, <3>1, <3>2, <3>3
  <2> QED BY <2>2, <2>3
<1> QED BY <1>1, <1>2, <1>3, <1>4, <1>5, <1>6, <1>7, <1>8, <1>9 DEF BudNext

\* Turns: each step moves them between what is reserved, granted, under way and counted.
BudTurnsInv == BudSessionsPast /\ BudTurnsAccounted

LEMMA BudTurnsKept ==
    ASSUME BudTypeOK, BudSegmentsNest, BudTurnsInv, BudNext PROVE BudTurnsInv'
<1>0. /\ budRun.turns \in Nat /\ budStarts \in Nat /\ budLate \in Nat /\ budEvents \in Seq(BudEvent)
      /\ budHost.left \in Nat /\ budHost.session \in Nat /\ budStart.turns \in Nat /\ BudTotalLimit \in Nat
      /\ budRun \in BudRunRow /\ budTurn \in BudTurnRow /\ budHost \in BudHostRow
  BY BudFactsHold, BudConstants DEF BudFacts
<1>a. BudComing(1) \in {0, 1} /\ BudComing(2) \in {0, 1} /\ BudInHost \in Nat /\ BudReserved \in Nat
  BY <1>0 DEF BudComing, BudInHost, BudReserved
<1>b. /\ budHost.session <= budStarts
      /\ \A i \in 1..Len(budEvents) :
            budEvents[i].session <= budStarts /\ (budEvents[i].kind = "turn" => i <= 2)
  BY DEF BudTurnsInv, BudSessionsPast
<1>c. budRun.turns + BudComing(1) + BudComing(2) + BudInHost + BudReserved <= BudTotalLimit + budLate
  BY DEF BudTurnsInv, BudTurnsAccounted
<1>d. Len(budEvents) \in Nat /\ \A i \in 1..Len(budEvents) : budEvents[i] \in BudEvent /\ budEvents[i].session \in Nat
  <2>1. Len(budEvents) \in Nat /\ \A i \in 1..Len(budEvents) : budEvents[i] \in BudEvent
    BY <1>0
  <2>2. \A e \in BudEvent : e.session \in Nat
    BY DEF BudEvent
  <2> QED BY <2>1, <2>2
<1>n. /\ budRun.turns \in Nat /\ budStarts \in Nat /\ budLate \in Nat /\ BudTotalLimit \in Nat
      /\ budHost.left \in Nat /\ budHost.session \in Nat /\ budStart.turns \in Nat
      /\ BudComing(1) \in Nat /\ BudComing(2) \in Nat /\ BudInHost \in Nat /\ BudReserved \in Nat
      /\ budRun.turns + BudComing(1) + BudComing(2) + BudInHost + BudReserved <= BudTotalLimit + budLate
  BY <1>0, <1>a, <1>c
<1>e. BudStopped(budRun).turns = budRun.turns
  BY BudFactsHold, BudStoppedRow DEF BudFacts, BudSegmentsNest
<1> DEFINE Kept == /\ budHost'.session <= budStarts'
                   /\ \A i \in 1..Len(budEvents') :
                         budEvents'[i].session <= budStarts' /\ (budEvents'[i].kind = "turn" => i <= 2)
                   /\ budRun'.turns + BudComing(1)' + BudComing(2)' + BudInHost' + BudReserved'
                        <= BudTotalLimit + budLate'
<1> SUFFICES Kept
  BY DEF BudTurnsInv, BudSessionsPast, BudTurnsAccounted
<1>1. ASSUME NEW message \in BOOLEAN, BudStartReads(message) PROVE Kept
  <2> DEFINE turn == IF message /\ (budStatus = "completed" \/ budStarts = 0) THEN BudOpened ELSE budTurn
  <2>1. budStarts' = budStarts + 1 /\ UNCHANGED <<budEvents, budHost, budLate>>
    BY <1>1 DEF BudStartReads
  <2>2. budRun'.turns = budRun.turns
    BY <1>1, <1>e DEF BudStartReads
  <2>3. BudComing(1)' = 0 /\ BudComing(2)' = 0
    <3>1. \A i \in 1..Len(budEvents) : budEvents[i].session # budStarts + 1
      BY <1>0, <1>b, <1>d
    <3> QED BY <1>d, <2>1, <3>1 DEF BudComing
  <2>4. BudInHost' = 0
    BY <1>0, <1>b, <2>1 DEF BudInHost
  <2>5. BudReserved' \in Nat /\ (BudReserved' = 0 \/ budRun.turns + BudReserved' <= BudTotalLimit)
    <3>0. 0 <= budClock /\ budTurn.seg <= budClock
      BY BudFactsHold DEF BudSegmentsNest, BudFacts
    <3>1. turn \in BudTurnRow /\ turn.seg <= budClock
      BY <1>0, <3>0, BudFreshRows
    <3>2. /\ BudTurnsLeft(turn) \in Nat
          /\ BudTurnsLeft(turn) # 0 => budRun.turns + BudTurnsLeft(turn) <= BudTotalLimit
      BY <3>1, BudLeftIsNat
    <3>3. ~budStart.on
      BY <1>1 DEF BudStartReads
    <3>4. CASE BudTurnsLeft(turn) = 0 \/ BudTimeLeft(turn) = 0
      <4>1. budStart' = budStart
        BY <1>1, <3>4 DEF BudStartReads
      <4> QED BY <3>3, <4>1 DEF BudReserved
    <3>5. CASE ~(BudTurnsLeft(turn) = 0 \/ BudTimeLeft(turn) = 0)
      <4>1. budStart' = [on |-> TRUE, turns |-> BudTurnsLeft(turn), time |-> BudTimeLeft(turn)]
        BY <1>1, <3>5 DEF BudStartReads
      <4> HIDE DEF turn
      <4> QED BY <3>2, <3>5, <4>1 DEF BudReserved
    <3> QED BY <3>4, <3>5
  <2>6. budHost'.session <= budStarts' /\ \A i \in 1..Len(budEvents') :
            budEvents'[i].session <= budStarts' /\ (budEvents'[i].kind = "turn" => i <= 2)
    BY <1>0, <1>b, <1>d, <2>1
  <2>7. budRun.turns <= BudTotalLimit + budLate
    BY <1>0, <1>a, <1>c
  <2>8. budRun'.turns + BudComing(1)' + BudComing(2)' + BudInHost' + BudReserved' <= BudTotalLimit + budLate'
    BY <1>n, <2>1, <2>2, <2>3, <2>4, <2>5, <2>7
  <2> QED BY <2>6, <2>8
<1>2. CASE BudStartHands
  <2>1. /\ budStart.on /\ ~budHost.on /\ UNCHANGED <<budEvents, budStarts, budLate>>
        /\ budRun' = BudBegun(budRun) /\ budStart' = BudNoStart
        /\ budHost' = [on |-> TRUE, session |-> budStarts, left |-> budStart.turns,
                       deadline |-> budClock + budStart.time]
    BY <1>2 DEF BudStartHands
  <2>2. budRun'.turns = budRun.turns
    BY <2>1, BudFactsHold, BudBegunRow DEF BudSegmentsNest, BudFacts
  <2>3. BudComing(1)' = BudComing(1) /\ BudComing(2)' = BudComing(2) /\ BudReserved' = 0 /\ BudInHost' = budStart.turns
        /\ BudInHost = 0 /\ BudReserved = budStart.turns /\ budHost'.session = budStarts
    BY <2>1 DEF BudComing, BudReserved, BudInHost, BudNoStart
  <2>4. budRun'.turns + BudComing(1)' + BudComing(2)' + BudInHost' + BudReserved' <= BudTotalLimit + budLate'
    BY <1>n, <2>1, <2>2, <2>3
  <2>5. budHost'.session <= budStarts'
    BY <1>n, <2>1, <2>3
  <2> QED BY <1>b, <2>1, <2>4, <2>5
<1>3. CASE BudStartThrows
  <2>1. budRun' = BudStopped(budRun) /\ budStart' = BudNoStart /\ UNCHANGED <<budEvents, budHost, budStarts, budLate>>
    BY <1>3 DEF BudStartThrows
  <2>2. BudComing(1)' = BudComing(1) /\ BudComing(2)' = BudComing(2) /\ BudReserved' = 0 /\ BudInHost' = BudInHost
    BY <2>1 DEF BudComing, BudReserved, BudInHost, BudNoStart
  <2>3. budRun'.turns + BudComing(1)' + BudComing(2)' + BudInHost' + BudReserved' <= BudTotalLimit + budLate'
    BY <1>n, <1>e, <2>1, <2>2
  <2> QED BY <1>b, <2>1, <2>3
<1>4. CASE BudHostTurn /\ BudHostMay
  <2> DEFINE e == [kind |-> "turn", session |-> budHost.session]
  <2>1. /\ budEvents' = Append(budEvents, e) /\ Len(budEvents) < 2 /\ budHost.on
        /\ budHost' = [budHost EXCEPT !.left = BudLess(@, 1)] /\ budHost.left > 0
        /\ UNCHANGED <<budRun, budStart, budStarts, budLate>>
    BY <1>4 DEF BudHostTurn, BudHostMay, BudSent
  <2>2. budHost'.on = TRUE /\ budHost'.session = budHost.session /\ budHost'.left = budHost.left - 1
    BY <1>0, <2>1 DEF BudHostRow, BudLess
  <2>3. e \in BudEvent
    BY <1>0 DEF BudEvent
  <2>4. /\ Len(budEvents') = Len(budEvents) + 1 /\ budEvents'[Len(budEvents) + 1] = e
        /\ \A i \in 1..Len(budEvents) : budEvents'[i] = budEvents[i]
    BY <1>0, <2>1, <2>3, BudChannel
  <2>5. BudReserved' = BudReserved
    BY <2>1 DEF BudReserved
  <2>6. \A i \in 1..Len(budEvents') :
            budEvents'[i].session <= budStarts' /\ (budEvents'[i].kind = "turn" => i <= 2)
    BY <1>b, <1>d, <2>1, <2>4
  <2>7. Len(budEvents) = 0 \/ Len(budEvents) = 1
    <3>1. Len(budEvents) \in Nat
      BY <1>d
    <3>2. Len(budEvents) < 2
      BY <2>1
    <3>3. \A n \in Nat : n < 2 => n = 0 \/ n = 1
      OBVIOUS
    <3> QED BY <3>1, <3>2, <3>3
  <2>8. BudComing(1)' + BudComing(2)' + BudInHost' = BudComing(1) + BudComing(2) + BudInHost
    <3>1. CASE Len(budEvents) = 0
      <4>1. BudComing(1) = 0 /\ BudComing(2) = 0 /\ BudComing(2)' = 0
        BY <2>4, <3>1 DEF BudComing
      <4>2. BudComing(1)' = IF budHost.session = budStarts THEN 1 ELSE 0
        BY <2>1, <2>4, <3>1 DEF BudComing
      <4> QED BY <1>0, <2>1, <2>2, <4>1, <4>2 DEF BudInHost
    <3>2. CASE Len(budEvents) = 1
      <4>1. BudComing(1)' = BudComing(1) /\ BudComing(2) = 0
        BY <2>1, <2>4, <3>2 DEF BudComing
      <4>2. BudComing(2)' = IF budHost.session = budStarts THEN 1 ELSE 0
        BY <2>1, <2>4, <3>2 DEF BudComing
      <4> QED BY <1>0, <1>a, <2>1, <2>2, <4>1, <4>2 DEF BudInHost
    <3> QED BY <2>7, <3>1, <3>2
  <2>9. BudComing(1)' \in {0, 1} /\ BudComing(2)' \in {0, 1} /\ BudInHost' \in Nat
    BY <1>0, <2>1, <2>2 DEF BudComing, BudInHost
  <2>10. budRun'.turns + BudComing(1)' + BudComing(2)' + BudInHost' + BudReserved' <= BudTotalLimit + budLate'
    <3>1. budRun' = budRun /\ budLate' = budLate
      BY <2>1
    <3> QED BY <1>n, <2>5, <2>8, <2>9, <3>1
  <2>11. budHost'.session <= budStarts'
    BY <1>b, <2>1, <2>2
  <2> QED BY <2>6, <2>10, <2>11
<1>5. CASE BudHostEnds \/ (BudHostTurn /\ ~BudHostMay)
  <2>1. PICK k \in {"exhausted", "completed"} : budEvents' = BudSent(k)
    BY <1>5 DEF BudHostEnds, BudHostTurn
  <2> DEFINE e == [kind |-> k, session |-> budHost.session]
  <2>2. budHost' = BudNoHost /\ UNCHANGED <<budRun, budStart, budStarts, budLate>>
    BY <1>5 DEF BudHostEnds, BudHostTurn
  <2>3. e \in BudEvent /\ budEvents' = Append(budEvents, e) /\ e.kind # "turn" /\ e.session = budHost.session
    BY <1>0, <2>1 DEF BudEvent, BudSent
  <2> HIDE DEF e
  <2>4. /\ Len(budEvents') = Len(budEvents) + 1 /\ budEvents'[Len(budEvents) + 1] = e
        /\ \A i \in 1..Len(budEvents) : budEvents'[i] = budEvents[i]
    BY <1>0, <2>3, BudChannel
  <2>5. BudReserved' = BudReserved /\ BudInHost' = 0 /\ budHost'.session = 0
    BY <2>2 DEF BudReserved, BudInHost, BudNoHost
  <2>6. \A i \in 1..Len(budEvents') :
            budEvents'[i].session <= budStarts' /\ (budEvents'[i].kind = "turn" => i <= 2)
    BY <1>b, <1>d, <2>2, <2>3, <2>4
  <2>7. BudComing(1)' = BudComing(1)
    BY <1>d, <2>2, <2>3, <2>4 DEF BudComing
  <2>8. BudComing(2)' = BudComing(2)
    BY <1>d, <2>2, <2>3, <2>4 DEF BudComing
  <2> QED BY <1>0, <1>a, <1>c, <2>2, <2>5, <2>6, <2>7, <2>8
<1>6. CASE BudOnTurn \/ BudOnEnd
  <2>1. /\ budEvents # <<>> /\ budEvents' = Tail(budEvents)
        /\ UNCHANGED <<budHost, budStart, budStarts>>
    BY <1>6 DEF BudOnTurn, BudOnEnd
  <2>2. /\ Len(budEvents) >= 1 /\ Len(budEvents') = Len(budEvents) - 1 /\ Head(budEvents) = budEvents[1]
        /\ \A i \in 1..Len(budEvents') : budEvents'[i] = budEvents[i + 1]
    BY <1>0, <2>1, BudChannel
  <2>3. BudComing(1)' = BudComing(2)
    BY <1>d, <2>1, <2>2 DEF BudComing
  <2>4. BudComing(2)' = 0
    <3>1. 3 \in 1..Len(budEvents) => budEvents[3].kind # "turn"
      BY <1>b
    <3>2. 2 <= Len(budEvents') => 3 \in 1..Len(budEvents) /\ budEvents'[2] = budEvents[3]
      BY <1>d, <2>2
    <3> QED BY <3>1, <3>2 DEF BudComing
  <2>5. \A i \in 1..Len(budEvents') :
            budEvents'[i].session <= budStarts' /\ (budEvents'[i].kind = "turn" => i <= 2)
    <3> SUFFICES ASSUME NEW i \in 1..Len(budEvents')
                 PROVE  budEvents'[i].session <= budStarts' /\ (budEvents'[i].kind = "turn" => i <= 2)
      OBVIOUS
    <3>1. i + 1 \in 1..Len(budEvents) /\ budEvents'[i] = budEvents[i + 1] /\ i \in Nat
      BY <1>d, <2>2
    <3> QED BY <1>b, <2>1, <3>1
  <2>6. BudInHost' = BudInHost /\ BudReserved' = BudReserved
    BY <2>1 DEF BudInHost, BudReserved
  <2>7. CASE BudOnTurn
    <3>1. budEvents[1].kind = "turn" /\ budRun' = [budRun EXCEPT !.turns = @ + 1]
          /\ budLate' = IF budEvents[1].session < budStarts THEN budLate + 1 ELSE budLate
      BY <2>2, <2>7 DEF BudOnTurn
    <3>2. budRun'.turns = budRun.turns + 1
      BY <1>0, <3>1 DEF BudRunRow
    <3>3. budEvents[1].session <= budStarts /\ budEvents[1].session \in Nat
      BY <1>b, <1>d, <2>2
    <3>4. budEvents[1].session = budStarts => BudComing(1) = 1
      BY <2>2, <3>1 DEF BudComing
    <3>5. budRun'.turns + BudComing(1)' + BudComing(2)' + BudInHost' + BudReserved' <= BudTotalLimit + budLate'
      <4> DEFINE session == budEvents[1].session
      <4>1. budLate' = (IF session < budStarts THEN budLate + 1 ELSE budLate)
        BY <3>1
      <4>2. session <= budStarts /\ session \in Nat /\ (session = budStarts => BudComing(1) = 1)
        BY <3>3, <3>4
      <4> HIDE DEF session
      <4> QED BY <1>n, <2>3, <2>4, <2>6, <3>2, <4>1, <4>2
    <3> QED BY <1>b, <2>1, <2>5, <3>5
  <2>8. CASE BudOnEnd
    <3>1. budRun'.turns = budRun.turns /\ budLate' = budLate
      BY <1>e, <2>8 DEF BudOnEnd
    <3>2. budRun'.turns + BudComing(1)' + BudComing(2)' + BudInHost' + BudReserved' <= BudTotalLimit + budLate'
      BY <1>n, <2>3, <2>4, <2>6, <3>1
    <3> QED BY <1>b, <2>1, <2>5, <3>2
  <2> QED BY <1>6, <2>7, <2>8
<1>7. CASE BudPause \/ BudCancel
  <2>1. budRun' = BudStopped(budRun) /\ budHost' = BudNoHost /\ UNCHANGED <<budStart, budEvents, budStarts, budLate>>
    BY <1>7 DEF BudPause, BudCancel
  <2>2. BudComing(1)' = BudComing(1) /\ BudComing(2)' = BudComing(2) /\ BudReserved' = BudReserved /\ BudInHost' = 0
        /\ budHost'.session = 0
    BY <2>1 DEF BudComing, BudReserved, BudInHost, BudNoHost
  <2>3. budRun'.turns + BudComing(1)' + BudComing(2)' + BudInHost' + BudReserved' <= BudTotalLimit + budLate'
    BY <1>n, <1>e, <2>1, <2>2
  <2> QED BY <1>b, <1>n, <2>1, <2>2, <2>3
<1>8. CASE BudFollowUp \/ BudTimePasses
  <2>1. UNCHANGED <<budRun, budHost, budStart, budEvents, budStarts, budLate>>
    BY <1>8 DEF BudFollowUp, BudTimePasses
  <2>2. BudComing(1)' = BudComing(1) /\ BudComing(2)' = BudComing(2) /\ BudReserved' = BudReserved /\ BudInHost' = BudInHost
    BY <2>1 DEF BudComing, BudReserved, BudInHost
  <2> QED BY <1>b, <1>c, <2>1, <2>2
<1>9. ASSUME NEW downtime \in 0..BudHorizon, BudCrash(downtime) PROVE Kept
  <2>1. budHost' = BudNoHost /\ budStart' = BudNoStart /\ budEvents' = <<>> /\ UNCHANGED <<budStarts, budLate>>
    BY <1>9 DEF BudCrash
  <2>2. budRun'.turns = budRun.turns
    <3>1. \/ budRun' = budRun
          \/ budRun' = [budRun EXCEPT !.time = @ + (IF budRun.seg = 0 THEN 0 ELSE budClock' - budRun.seg),
                                      !.seg = 0]
      BY <1>9 DEF BudCrash
    <3> QED BY <1>0, <3>1 DEF BudRunRow
  <2>3. Len(budEvents') = 0
    BY <2>1
  <2>4. BudComing(1)' = 0 /\ BudComing(2)' = 0 /\ BudReserved' = 0 /\ BudInHost' = 0 /\ budHost'.session = 0
    BY <2>1, <2>3 DEF BudComing, BudReserved, BudInHost, BudNoHost, BudNoStart
  <2> QED BY <1>0, <1>a, <1>c, <2>1, <2>2, <2>3, <2>4
<1> HIDE DEF Kept
<1>10. BudHostTurn => Kept
  BY <1>4, <1>5
<1> QED BY <1>1, <1>2, <1>3, <1>5, <1>6, <1>7, <1>8, <1>9, <1>10 DEF BudNext

\* However starts, pauses, late events of an earlier start, failures and restarts of the
\* application fall together: time is charged exactly while the run runs, the run is charged at
\* least what it was active and at least what its turn is charged, and its model turns exceed
\* the total at most by those of an earlier session that were counted after a later start had
\* read what was left (RunCoordinator and the budget columns of the database).
THEOREM BudgetsHold == BudSpec => []BudLimitsHold
<1>1. BudInv /\ [BudNext]_budVars => BudInv'
  <2> SUFFICES ASSUME BudInv, [BudNext]_budVars PROVE BudInv'
    OBVIOUS
  <2>1. CASE BudNext
    BY <2>1, BudTypeKept, BudTimeKept, BudTurnsKept DEF BudInv, BudTimeInv, BudTurnsInv
  <2>2. CASE UNCHANGED budVars
    BY <2>2 DEF budVars, BudInv, BudTypeOK, BudSegmentsNest, BudNothingEscapes, BudChargedWhileRunning,
         BudSessionsPast, BudTurnsAccounted, BudComing, BudInHost, BudReserved, BudUsed, BudSegment
  <2> QED BY <2>1, <2>2
<1>2. BudInv => BudLimitsHold
  <2> SUFFICES ASSUME BudInv PROVE BudTotalHolds
    BY DEF BudInv, BudLimitsHold
  <2>1. budRun.turns \in Nat /\ budHost.left \in Nat /\ budStart.turns \in Nat /\ budLate \in Nat
    BY BudFactsHold DEF BudInv, BudFacts
  <2>2. BudComing(1) \in Nat /\ BudComing(2) \in Nat /\ BudInHost \in Nat /\ BudReserved \in Nat
    BY <2>1 DEF BudComing, BudInHost, BudReserved
  <2> QED BY <2>1, <2>2, BudConstants DEF BudInv, BudTurnsAccounted, BudTotalHolds
<1> QED BY <1>1, <1>2, BudInitHolds, PTL DEF BudSpec

-----------------------------------------------------------------------------
(* Delegation: access and waiting *)

\* A run that was never created has no parent, so the user creates runs at the top.
DelUnborn == \A r \in DelRuns : delStatus[r] = "none" => delParent[r] = DelNoRun

\* The three facts that a step needs of its state.
DelInv == DelTypeOK /\ DelUnborn /\ DelHolds

\* Taking a run away with everything below it leaves no orphan: a run that stays keeps a
\* parent that stays.
LEMMA DelBelowIsClosed ==
    ASSUME NEW r \in DelRuns, NEW d \in DelRuns, delParent[d] \in {r} \cup DelDescendants(r)
    PROVE  d \in DelDescendants(r)
<1> SUFFICES ASSUME NEW S \in SUBSET DelRuns, DelBelow({r} \cup S) \subseteq S PROVE d \in S
  BY DEF DelDescendants
<1>1. delParent[d] \in {r} \cup S
  BY DEF DelDescendants
<1> QED BY <1>1 DEF DelBelow

LEMMA DelInitHolds == DelInit => DelInv
  BY DelAssumption DEF DelInit, DelInv, DelUnborn, DelTypeOK, DelStates, DelFinal, DelHolds, DelAccessNested, DelNoLostWakeup

\* The call of a run that was waited for is over, and the other calls are as they were.
LEMMA DelResolves ==
    ASSUME delCall \in [DelRuns -> {"none", "starting", "waiting", "over"}], NEW r \in DelRuns
    PROVE  /\ DelResolved(r) \in [DelRuns -> {"none", "starting", "waiting", "over"}]
           /\ DelResolved(r)[r] # "waiting"
           /\ \A s \in DelRuns : s # r => DelResolved(r)[s] = delCall[s]
  BY DEF DelResolved

LEMMA DelStepKeeps == DelInv /\ [DelNext]_delVars => DelInv'
<1> SUFFICES ASSUME DelInv, [DelNext]_delVars PROVE DelInv'
  OBVIOUS
<1> USE DelAssumption DEF DelInv, DelUnborn, DelTypeOK, DelStates, DelFinal, DelHolds, DelAccessNested, DelNoLostWakeup
<1>1. ASSUME NEW r \in DelRuns, NEW full \in BOOLEAN, DelCreate(r, full) PROVE DelInv'
  BY <1>1 DEF DelCreate
<1>2. ASSUME NEW r \in DelRuns, NEW full \in BOOLEAN, DelSetAccess(r, full) PROVE DelInv'
  <2>1. CASE full
    BY <1>2, <2>1 DEF DelSetAccess, DelMayWiden
  <2>2. CASE ~full
    BY <1>2, <2>2, DelBelowIsClosed DEF DelSetAccess
  <2> QED BY <2>1, <2>2
<1>3. ASSUME NEW r \in DelRuns, DelPause(r) \/ DelRestart(r) \/ DelRestartFails(r) PROVE DelInv'
  BY <1>3 DEF DelPause, DelRestart, DelRestartFails
<1>4. ASSUME NEW r \in DelRuns, DelCancel(r) PROVE DelInv'
  BY <1>4, DelResolves DEF DelCancel
<1>5. ASSUME NEW r \in DelRuns, DelDelete(r) PROVE DelInv'
  BY <1>5, DelResolves, DelBelowIsClosed DEF DelDelete
<1>6. ASSUME NEW p \in DelRuns, NEW c \in DelRuns, DelDelegate(p, c) PROVE DelInv'
  BY <1>6 DEF DelDelegate, DelInherited
<1>7. ASSUME NEW c \in DelRuns, DelStarted(c) \/ DelStartThrows(c) PROVE DelInv'
  BY <1>7 DEF DelStarted, DelStartThrows, DelWaits
<1>8. ASSUME NEW c \in DelRuns, NEW status \in {"completed", "failed", "rest"}, DelEnds(c, status) PROVE DelInv'
  BY <1>8, DelResolves DEF DelEnds
<1>9. CASE DelWorkerFails \/ DelAppRestarts
  BY <1>9 DEF DelWorkerFails, DelAppRestarts
<1>10. CASE UNCHANGED delVars
  BY <1>10 DEF delVars
<1> QED BY <1>1, <1>2, <1>3, <1>4, <1>5, <1>6, <1>7, <1>8, <1>9, <1>10 DEF DelNext

\* No run reaches further than the run that delegated to it, whoever widens, narrows, cancels or
\* deletes runs of the tree meanwhile, and a parent never waits for a child that has completed
\* or was cancelled (RunCoordinator.delegate, setAccessMode, onRunSettled).
THEOREM DelegationHolds == DelSpec => []DelHolds
<1>1. DelInv => DelHolds
  BY DEF DelInv
<1> QED BY <1>1, DelInitHolds, DelStepKeeps, PTL DEF DelSpec

\* The states of the runs of a tree stay what the database and the waiting calls can hold.
THEOREM DelegationTyped == DelSpec => []DelTypeOK
<1>1. DelInv => DelTypeOK
  BY DEF DelInv
<1> QED BY <1>1, DelInitHolds, DelStepKeeps, PTL DEF DelSpec

-----------------------------------------------------------------------------
(* SearchBudget: queries of a turn *)

\* A call of the search tool, and what is recorded of it.
SbStates == SbEnded \cup {"open"}
SbCall == [id : Nat, turn : Nat, query : SbQueries, state : SbStates, by : {"engine", "budget", "receipt"}]

\* Calls are told apart by their ids, which count up, and only the engine's are ever open.
SbShape ==
    /\ IsFiniteSet(sbCalls) /\ sbCalls \subseteq SbCall /\ sbTurn \in Nat
    /\ \A c \in sbCalls : /\ c.id <= Cardinality(sbCalls) /\ c.turn <= sbTurn
                          /\ c.state = "open" => c.by = "engine"
    /\ \A c, d \in sbCalls : c.id = d.id => c = d

\* The bound on what went to the engine is in the invariant itself: how many are under way is counted with how many were sent.
SbInv ==
    /\ SbShape /\ SbTypeOK
    /\ \A t \in Nat : Cardinality(SbSent(t)) <= SbMax + SbWidth - 1
    /\ SbRefusedWhenSpent

\* The queries of a set of calls are no more than the calls.
LEMMA SbQueriesOf ==
    ASSUME NEW S, IsFiniteSet(S)
    PROVE  /\ IsFiniteSet({c.query : c \in S})
           /\ Cardinality({c.query : c \in S}) \in Nat
           /\ Cardinality({c.query : c \in S}) <= Cardinality(S)
<1> DEFINE T == {c.query : c \in S}
           f == [c \in S |-> c.query]
<1>1. f \in Surjection(S, T)
  BY DEF Surjection
<1> HIDE DEF T, f
<1>2. IsFiniteSet(T) /\ Cardinality(T) <= Cardinality(S)
  BY <1>1, FS_Surjection
<1>3. Cardinality(T) \in Nat
  BY <1>2, FS_CardinalityType
<1> QED BY <1>2, <1>3 DEF T

LEMMA SbSubsetCounts ==
    ASSUME NEW S, IsFiniteSet(S), NEW T \in SUBSET S
    PROVE  /\ IsFiniteSet(T) /\ Cardinality(T) \in Nat /\ Cardinality(S) \in Nat
           /\ Cardinality(T) <= Cardinality(S)
<1>1. IsFiniteSet(T) /\ Cardinality(T) <= Cardinality(S)
  BY FS_Subset
<1> QED BY <1>1, FS_CardinalityType

LEMMA SbInitHolds == SbInit => SbInv
<1> SUFFICES ASSUME SbInit PROVE SbInv
  OBVIOUS
<1>1. IsFiniteSet(sbCalls) /\ Cardinality({}) = 0 /\ SbOpen = {} /\ \A t \in Nat : SbSent(t) = {}
  BY FS_EmptySet DEF SbInit, SbOpen, SbSent
<1>2. SbShape
  BY <1>1 DEF SbInit, SbShape
<1>3. SbMax + SbWidth - 1 >= 0 /\ SbWidth >= 0
  BY SbAssumption
<1> QED BY <1>1, <1>2, <1>3 DEF SbInit, SbInv, SbTypeOK, SbRefusedWhenSpent

\* A search that goes to the engine finds room: what was sent in its turn is still open or
\* has ended.
LEMMA SbRoom ==
    ASSUME SbShape, Cardinality(SbOpen) < SbWidth, ~SbSpent, NEW q
    PROVE  Cardinality(SbSent(sbTurn) \cup {q}) <= SbMax + SbWidth - 1
<1> DEFINE O == {c.query : c \in SbOpen}
           P == {c.query : c \in SbPrior}
<1>1. IsFiniteSet(SbOpen) /\ IsFiniteSet(SbPrior)
  BY SbSubsetCounts DEF SbShape, SbOpen, SbPrior
<1>2. /\ IsFiniteSet(O) /\ Cardinality(O) \in Nat /\ Cardinality(O) <= Cardinality(SbOpen)
      /\ IsFiniteSet(P) /\ Cardinality(P) \in Nat
  BY <1>1, SbQueriesOf
<1>3. Cardinality(P) < SbMax
  BY <1>2, SbAssumption DEF SbSpent, SbUnique
<1>4. SbSent(sbTurn) \subseteq O \cup P
  BY DEF SbSent, SbOpen, SbPrior, SbShape, SbCall, SbStates
<1> HIDE DEF O, P
<1>5. IsFiniteSet(O \cup P) /\ Cardinality(O \cup P) <= Cardinality(O) + Cardinality(P)
  <2>1. /\ IsFiniteSet(O \cup P) /\ IsFiniteSet(O \cap P)
        /\ Cardinality(O \cup P) = Cardinality(O) + Cardinality(P) - Cardinality(O \cap P)
    BY <1>2, FS_Union, FS_Intersection
  <2>2. Cardinality(O \cap P) \in Nat
    BY <2>1, FS_CardinalityType
  <2> QED BY <1>2, <2>1, <2>2
<1>6. /\ IsFiniteSet(SbSent(sbTurn)) /\ Cardinality(SbSent(sbTurn)) \in Nat
      /\ Cardinality(SbSent(sbTurn)) <= Cardinality(O \cup P) /\ Cardinality(O \cup P) \in Nat
  BY <1>4, <1>5, SbSubsetCounts
<1>7. Cardinality(SbSent(sbTurn) \cup {q}) <= Cardinality(SbSent(sbTurn)) + 1
      /\ Cardinality(SbSent(sbTurn) \cup {q}) \in Nat
  <2>1. IsFiniteSet(SbSent(sbTurn) \cup {q}) /\ (Cardinality(SbSent(sbTurn) \cup {q}) = Cardinality(SbSent(sbTurn))
        \/ Cardinality(SbSent(sbTurn) \cup {q}) = Cardinality(SbSent(sbTurn)) + 1)
    BY <1>6, FS_AddElement
  <2> QED BY <1>6, <2>1
<1>8. Cardinality(SbOpen) \in Nat
  BY <1>1, FS_CardinalityType
<1> QED BY <1>2, <1>3, <1>5, <1>6, <1>7, <1>8, SbAssumption

\* A refusal is due: what ended in its turn was sent, or a refusal came before it.
LEMMA SbDue ==
    ASSUME SbShape, SbTypeOK, SbRefusedWhenSpent, SbSpent
    PROVE  Cardinality(SbSent(sbTurn)) >= SbMax
<1>1. CASE \E c \in sbCalls : c.turn = sbTurn /\ c.by = "budget"
  BY <1>1 DEF SbRefusedWhenSpent
<1>2. CASE ~\E c \in sbCalls : c.turn = sbTurn /\ c.by = "budget"
  <2> DEFINE P == {c.query : c \in SbPrior}
  <2>1. P \subseteq SbSent(sbTurn)
    BY <1>2 DEF SbSent, SbPrior, SbTypeOK, SbShape, SbCall
  <2>2. IsFiniteSet({d \in sbCalls : d.turn = sbTurn /\ d.by = "engine"})
    BY SbSubsetCounts DEF SbShape
  <2>3. IsFiniteSet(SbSent(sbTurn))
    BY <2>2, SbQueriesOf DEF SbSent
  <2>4. Cardinality(P) >= SbMax
    BY DEF SbSpent, SbUnique
  <2> HIDE DEF P
  <2>5. Cardinality(P) <= Cardinality(SbSent(sbTurn)) /\ Cardinality(P) \in Nat /\ Cardinality(SbSent(sbTurn)) \in Nat
    BY <2>1, <2>3, SbSubsetCounts
  <2> QED BY <2>4, <2>5, SbAssumption
<1> QED BY <1>1, <1>2

LEMMA SbSearchKeeps == ASSUME SbInv, NEW q \in SbQueries, SbSearch(q) PROVE SbInv'
<1> DEFINE N == Cardinality(sbCalls)
<1>0. SbShape /\ SbTypeOK /\ SbRefusedWhenSpent /\ (\A t \in Nat : Cardinality(SbSent(t)) <= SbMax + SbWidth - 1)
  BY DEF SbInv
<1>1. PICK state \in {"succeeded", "open"}, by \in {"receipt", "budget", "engine"} :
         /\ sbCalls' = sbCalls \cup {SbReceipt(q, state, by)}
         /\ state = "open" <=> by = "engine"
         /\ by = "receipt" => SbCached(q)
         /\ by = "budget" => SbSpent
         /\ by = "engine" => ~SbSpent
  BY DEF SbSearch
<1>2. sbTurn' = sbTurn /\ Cardinality(SbOpen) < SbWidth
  BY DEF SbSearch
<1> DEFINE n == SbReceipt(q, state, by)
<1>3. /\ N \in Nat /\ IsFiniteSet(sbCalls) /\ sbTurn \in Nat
      /\ \A c \in sbCalls : c.id <= N /\ c.id \in Nat
  BY <1>0, FS_CardinalityType DEF SbShape, SbCall
<1>4. /\ n \in SbCall /\ n.id = N + 1 /\ n.turn = sbTurn /\ n.query = q /\ n.state = state /\ n.by = by
  BY <1>3 DEF SbReceipt, SbCall, SbStates, SbEnded
<1>5. n \notin sbCalls
  BY <1>3, <1>4
<1> HIDE DEF n, N
<1>6. sbCalls' = sbCalls \cup {n}
  BY <1>1 DEF n
<1>7. IsFiniteSet(sbCalls') /\ Cardinality(sbCalls') = N + 1
  BY <1>3, <1>5, <1>6, FS_AddElement DEF N
<1>8. SbShape'
  <2>1. sbCalls' \subseteq SbCall
    BY <1>0, <1>4, <1>6 DEF SbShape
  <2>2. \A c \in sbCalls' : /\ c.id <= Cardinality(sbCalls')
    BY <1>3, <1>4, <1>6, <1>7
  <2>3. \A c \in sbCalls' : c.turn <= sbTurn' /\ (c.state = "open" => c.by = "engine")
    BY <1>0, <1>1, <1>2, <1>3, <1>4, <1>6 DEF SbShape
  <2>4. \A c, d \in sbCalls' : c.id = d.id => c = d
    <3>1. \A c \in sbCalls : c.id # n.id
      BY <1>3, <1>4
    <3> QED BY <1>0, <1>6, <3>1 DEF SbShape
  <2> QED BY <1>2, <1>3, <1>7, <2>1, <2>2, <2>3, <2>4 DEF SbShape
<1>9. SbTypeOK'
  <2>1. Cardinality(SbOpen') <= SbWidth
    <3>1. SbOpen' \subseteq SbOpen \cup {n}
      BY <1>6 DEF SbOpen
    <3>2. IsFiniteSet(SbOpen) /\ Cardinality(SbOpen) \in Nat
      BY <1>3, SbSubsetCounts DEF SbOpen
    <3>3. IsFiniteSet(SbOpen \cup {n}) /\ Cardinality(SbOpen \cup {n}) <= Cardinality(SbOpen) + 1
      BY <3>2, FS_AddElement
    <3>4. Cardinality(SbOpen') <= Cardinality(SbOpen \cup {n}) /\ Cardinality(SbOpen') \in Nat /\ Cardinality(SbOpen \cup {n}) \in Nat
      BY <3>1, <3>3, SbSubsetCounts
    <3> QED BY <1>2, <3>2, <3>3, <3>4, SbAssumption
  <2>2. \A c \in sbCalls' : c.by = "receipt" =>
          \E d \in sbCalls' : /\ d.turn = c.turn /\ d.query = c.query /\ d.id < c.id
                              /\ d.by \in {"engine", "budget"} /\ d.state = "succeeded"
    <3> SUFFICES ASSUME NEW c \in sbCalls', c.by = "receipt"
                 PROVE  \E d \in sbCalls' : /\ d.turn = c.turn /\ d.query = c.query /\ d.id < c.id
                                            /\ d.by \in {"engine", "budget"} /\ d.state = "succeeded"
      OBVIOUS
    <3>1. CASE c \in sbCalls
      BY <1>0, <1>6, <3>1 DEF SbTypeOK
    <3>2. CASE c = n
      <4>1. PICK e \in sbCalls : e.turn = sbTurn /\ e.query = q /\ e.state = "succeeded"
        BY <1>1, <1>4, <3>2 DEF SbCached, SbPrior
      <4>2. PICK d \in sbCalls : /\ d.turn = sbTurn /\ d.query = q /\ d.by \in {"engine", "budget"}
                                 /\ d.state = "succeeded"
        <5>1. CASE e.by = "receipt"
          BY <1>0, <4>1, <5>1 DEF SbTypeOK
        <5>2. CASE e.by # "receipt"
          BY <1>0, <4>1, <5>2 DEF SbShape, SbCall
        <5> QED BY <5>1, <5>2
      <4>3. d.id < n.id
        BY <1>3, <1>4
      <4> QED BY <1>4, <1>6, <3>2, <4>2, <4>3
    <3> QED BY <1>6, <3>1, <3>2
  <2> QED BY <2>1, <2>2 DEF SbTypeOK
<1>10. \A t \in Nat : SbSent(t)' = IF by = "engine" /\ t = sbTurn THEN SbSent(t) \cup {q} ELSE SbSent(t)
  BY <1>4, <1>6 DEF SbSent
<1>11. \A t \in Nat : Cardinality(SbSent(t)') <= SbMax + SbWidth - 1
  <2> TAKE t \in Nat
  <2>1. CASE by = "engine" /\ t = sbTurn
    BY <1>0, <1>1, <1>2, <1>10, <2>1, SbRoom
  <2>2. CASE ~(by = "engine" /\ t = sbTurn)
    BY <1>0, <1>10, <2>2
  <2> QED BY <2>1, <2>2
<1>12. SbRefusedWhenSpent'
  <2> SUFFICES ASSUME NEW c \in sbCalls', c.by = "budget" PROVE Cardinality(SbSent(c.turn)') >= SbMax
    BY DEF SbRefusedWhenSpent
  <2>1. /\ c.turn \in Nat /\ Cardinality(SbSent(c.turn)) >= SbMax
    <3>1. CASE c \in sbCalls
      BY <1>0, <3>1 DEF SbShape, SbCall, SbRefusedWhenSpent
    <3>2. CASE c = n
      BY <1>0, <1>1, <1>3, <1>4, <3>2, SbDue
    <3> QED BY <1>6, <3>1, <3>2
  <2>2. /\ IsFiniteSet(SbSent(c.turn)) /\ Cardinality(SbSent(c.turn)) \in Nat
    <3>1. IsFiniteSet({d \in sbCalls : d.turn = c.turn /\ d.by = "engine"})
      BY <1>3, SbSubsetCounts
    <3> QED BY <3>1, SbQueriesOf DEF SbSent
  <2>3. CASE SbSent(c.turn)' = SbSent(c.turn)
    BY <2>1, <2>3
  <2>4. CASE SbSent(c.turn)' = SbSent(c.turn) \cup {q}
    <3>1. IsFiniteSet(SbSent(c.turn) \cup {q})
      BY <2>2, FS_AddElement
    <3>2. Cardinality(SbSent(c.turn)) <= Cardinality(SbSent(c.turn) \cup {q}) /\ Cardinality(SbSent(c.turn) \cup {q}) \in Nat
      BY <3>1, SbSubsetCounts
    <3> QED BY <2>1, <2>2, <2>4, <3>2, SbAssumption
  <2> QED BY <1>10, <2>1, <2>3, <2>4
<1> QED BY <1>8, <1>9, <1>11, <1>12 DEF SbInv

LEMMA SbFinishKeeps ==
    ASSUME SbInv, NEW c \in sbCalls, NEW state \in SbEnded, SbFinish(c, state) PROVE SbInv'
<1>0. SbShape /\ SbTypeOK /\ SbRefusedWhenSpent /\ (\A t \in Nat : Cardinality(SbSent(t)) <= SbMax + SbWidth - 1)
  BY DEF SbInv
<1> DEFINE e == [c EXCEPT !.state = state]
<1>1. c.state = "open" /\ sbCalls' = (sbCalls \ {c}) \cup {e} /\ sbTurn' = sbTurn /\ c \in SbCall
  BY <1>0 DEF SbFinish, SbShape
<1>2. /\ e \in SbCall /\ e.id = c.id /\ e.turn = c.turn /\ e.query = c.query /\ e.by = c.by
      /\ e.state = state /\ e.state # "open" /\ e.state \in SbEnded
  BY <1>1 DEF SbCall, SbStates, SbEnded
<1> HIDE DEF e
<1>3. e # c /\ e \notin sbCalls
  BY <1>0, <1>1, <1>2 DEF SbShape
<1>4. IsFiniteSet(sbCalls') /\ Cardinality(sbCalls') = Cardinality(sbCalls)
  <2>1. IsFiniteSet(sbCalls) /\ Cardinality(sbCalls) \in Nat
    BY <1>0, FS_CardinalityType DEF SbShape
  <2>2. IsFiniteSet(sbCalls \ {c}) /\ Cardinality(sbCalls \ {c}) = Cardinality(sbCalls) - 1
    BY <2>1, FS_RemoveElement
  <2>3. Cardinality(sbCalls') = Cardinality(sbCalls \ {c}) + 1 /\ IsFiniteSet(sbCalls')
    BY <1>1, <1>3, <2>2, FS_AddElement
  <2> QED BY <2>1, <2>2, <2>3
<1>5. SbShape'
  BY <1>0, <1>1, <1>2, <1>4 DEF SbShape
<1>6. \A t \in Nat : SbSent(t)' = SbSent(t)
  BY <1>1, <1>2 DEF SbSent
<1>7. SbTypeOK'
  <2>1. SbOpen' \in SUBSET SbOpen /\ IsFiniteSet(SbOpen)
    BY <1>0, <1>1, <1>2, SbSubsetCounts DEF SbOpen, SbShape
  <2>2. Cardinality(SbOpen') <= SbWidth
    <3>1. Cardinality(SbOpen) \in Nat /\ Cardinality(SbOpen') \in Nat /\ Cardinality(SbOpen') <= Cardinality(SbOpen)
      BY <2>1, SbSubsetCounts
    <3> QED BY <1>0, <3>1, SbAssumption DEF SbTypeOK
  <2>3. \A d \in sbCalls' : d.by = "receipt" =>
          \E f \in sbCalls' : /\ f.turn = d.turn /\ f.query = d.query /\ f.id < d.id
                              /\ f.by \in {"engine", "budget"} /\ f.state = "succeeded"
    <3> SUFFICES ASSUME NEW d \in sbCalls', d.by = "receipt"
                 PROVE  \E f \in sbCalls' : /\ f.turn = d.turn /\ f.query = d.query /\ f.id < d.id
                                            /\ f.by \in {"engine", "budget"} /\ f.state = "succeeded"
      OBVIOUS
    <3>1. d \in sbCalls
      BY <1>0, <1>1, <1>2 DEF SbShape
    <3>2. PICK f \in sbCalls : /\ f.turn = d.turn /\ f.query = d.query /\ f.id < d.id
                               /\ f.by \in {"engine", "budget"} /\ f.state = "succeeded"
      BY <1>0, <3>1 DEF SbTypeOK
    <3>3. f \in sbCalls'
      BY <1>1, <3>2
    <3> QED BY <3>2, <3>3
  <2> QED BY <2>2, <2>3 DEF SbTypeOK
<1>8. SbRefusedWhenSpent'
  BY <1>0, <1>1, <1>2, <1>6 DEF SbRefusedWhenSpent, SbShape, SbCall
<1> QED BY <1>0, <1>5, <1>6, <1>7, <1>8 DEF SbInv

LEMMA SbStepKeeps == SbInv /\ [SbNext]_sbVars => SbInv'
<1> SUFFICES ASSUME SbInv, [SbNext]_sbVars PROVE SbInv'
  OBVIOUS
<1>1. CASE SbNextTurn
  <2>1. sbCalls' = sbCalls /\ sbTurn' = sbTurn + 1
    BY <1>1 DEF SbNextTurn
  <2>2. SbShape'
    BY <2>1 DEF SbInv, SbShape, SbCall
  <2> QED BY <2>1, <2>2 DEF SbInv, SbTypeOK, SbOpen, SbSent, SbRefusedWhenSpent
<1>2. CASE UNCHANGED sbVars
  BY <1>2 DEF sbVars, SbInv, SbShape, SbTypeOK, SbOpen, SbSent, SbRefusedWhenSpent
<1> QED BY <1>1, <1>2, SbSearchKeeps, SbFinishKeeps DEF SbNext

\* In any turn at most the budget and one less than the width of different queries reach the
\* engine, and a query is refused only when the turn has sent as many as the budget allows,
\* with any number of calls side by side (the search budget of ToolBroker).
THEOREM SearchesCountRight == SbSpec => []SbCountsRight
<1>1. SbInv => SbCountsRight
  BY DEF SbInv, SbShape, SbCountsRight, SbBudgetHolds
<1> QED BY <1>1, SbInitHolds, SbStepKeeps, PTL DEF SbSpec

-----------------------------------------------------------------------------
(* EventStream: text on its way to the user *)

\* The characters after the first a, up to b.
StrChars(a, b) == [i \in 1..(b - a) |-> a + i]

\* What an event adds when a characters have been told before it, s of them in messages
\* that have ended.
StrLink(e, a, s, b, t) ==
    /\ a \in Nat /\ s \in Nat /\ b \in Nat /\ t \in Nat /\ s <= a /\ t <= b /\ a <= b
    /\ \/ e.kind = "text.delta" /\ a < b /\ e.text = StrChars(a, b) /\ t = s
       \/ e.kind = "message.assistant" /\ e.text = StrChars(s, a) /\ b = a /\ t = a
       \/ e.kind \notin {"text.delta", "message.assistant"} /\ b = a /\ t = s

\* The events on the wire follow one another from a and s to c and m.
StrLaid(wire, ends, starts, a, s, c, m) ==
    /\ ends[0] = a /\ starts[0] = s /\ ends[Len(wire)] = c /\ starts[Len(wire)] = m
    /\ \A i \in 1..Len(wire) : StrLink(wire[i], ends[i - 1], starts[i - 1], ends[i], starts[i])
    /\ \A i \in 0..Len(wire) : \A j \in i..Len(wire) : ends[i] <= ends[j]
StrPath(wire, a, s, c, m) ==
    \E ends \in [Nat -> Nat] : \E starts \in [Nat -> Nat] : StrLaid(wire, ends, starts, a, s, c, m)

\* The texts share out the characters after a, up to b.
StrSpread(texts, ends, a, b) ==
    /\ ends[0] = a /\ ends[Len(texts)] = b
    /\ \A k \in 1..Len(texts) : texts[k] = StrChars(ends[k - 1], ends[k])
    /\ \A i \in 0..Len(texts) : \A j \in i..Len(texts) : ends[i] <= ends[j]
StrCut(texts, a, b) == \E ends \in [Nat -> Nat] : StrSpread(texts, ends, a, b)

\* The bubbles hold the first a characters; the last bubble begins at s if it is open.
StrLastFrom(bubbles, ends, open, a, s) ==
    /\ open => Len(bubbles) > 0 /\ s = ends[Len(bubbles) - 1] /\ s < a
    /\ ~open => s = a
StrShownAs(bubbles, open, a, s) ==
    \E ends \in [Nat -> Nat] : StrSpread(bubbles, ends, 0, a) /\ StrLastFrom(bubbles, ends, open, a, s)

StrEventType == [kind : {"text.delta", "message.assistant", "tool.started", "tool.finished", "agent.completed", "agent.failed"},
                 text : Seq(Nat)]
StrShape ==
    /\ strWire \in Seq(StrEventType) /\ strBubbles \in Seq(Seq(Nat)) /\ strOpen \in BOOLEAN
    /\ strKept \in Seq([text : Seq(Nat), bubble : Nat]) /\ strCount \in Nat
    /\ strPending \in Seq(Nat) /\ strSaid \in Seq(Nat)

\* While the run is at work, bubbles, wire and buffer follow one another up to what was said.
StrFollows(a, s, c, m) ==
    /\ StrShownAs(strBubbles, strOpen, a, s) /\ StrPath(strWire, a, s, c, m) /\ s <= a
    /\ c <= strCount /\ strPending = StrChars(c, strCount) /\ m <= c /\ strSaid = StrChars(m, strCount)
StrWhole ==
    strRun = "active" => \E a \in Nat : \E s \in Nat : \E c \in Nat : \E m \in Nat : StrFollows(a, s, c, m)

\* A bubble that grows has no stored message.
StrKeptApart == strOpen => \A i \in DOMAIN strKept : strKept[i].bubble < Len(strBubbles)

\* The inductive invariant.
StrInv == StrShape /\ StrWhole /\ StrBubbleWhole /\ StrKeptApart

-----------------------------------------------------------------------------
(* Stretches of characters. *)

LEMMA StrCharsAre ==
    ASSUME NEW a \in Nat, NEW b \in Nat, a <= b
    PROVE  /\ StrChars(a, b) \in Seq(Nat) /\ Len(StrChars(a, b)) = b - a /\ DOMAIN StrChars(a, b) = 1..(b - a)
           /\ \A i \in 1..(b - a) : StrChars(a, b)[i] = a + i
<1>1. PICK s : s = [i \in 1..(b - a) |-> a + i]
  OBVIOUS
<1>2. b - a \in Nat
  OBVIOUS
<1>3. \A i \in 1..(b - a) : a + i \in Nat
  OBVIOUS
<1>4. s \in [1..(b - a) -> Nat]
  BY <1>1, <1>3
<1>5. s \in Seq(Nat) /\ Len(s) = b - a
  BY <1>2, <1>4
<1> QED BY <1>1, <1>4, <1>5 DEF StrChars

LEMMA StrCharsNone ==
    ASSUME NEW a \in Nat, NEW b \in Nat, a <= b
    PROVE  StrChars(a, b) = <<>> <=> a = b
<1>1. StrChars(a, b) \in Seq(Nat) /\ Len(StrChars(a, b)) = b - a
  BY StrCharsAre
<1>2. StrChars(a, b) = <<>> <=> Len(StrChars(a, b)) = 0
  BY <1>1
<1> QED BY <1>1, <1>2

LEMMA StrCharsJoin ==
    ASSUME NEW a \in Nat, NEW b \in Nat, NEW c \in Nat, a <= b, b <= c
    PROVE  StrChars(a, b) \o StrChars(b, c) = StrChars(a, c)
<1>1. PICK x : x = StrChars(a, b)
  OBVIOUS
<1>2. PICK y : y = StrChars(b, c)
  OBVIOUS
<1>3. PICK z : z = StrChars(a, c)
  OBVIOUS
<1>4. x \in Seq(Nat) /\ Len(x) = b - a /\ \A i \in 1..(b - a) : x[i] = a + i
  BY <1>1, StrCharsAre
<1>5. y \in Seq(Nat) /\ Len(y) = c - b /\ \A i \in 1..(c - b) : y[i] = b + i
  BY <1>2, StrCharsAre
<1>6. z \in Seq(Nat) /\ Len(z) = c - a /\ \A i \in 1..(c - a) : z[i] = a + i
  <2>1. a <= c
    OBVIOUS
  <2> QED BY <1>3, <2>1, StrCharsAre
<1>7. /\ x \o y \in Seq(Nat) /\ Len(x \o y) = c - a
      /\ \A i \in 1..(c - a) : (x \o y)[i] = IF i <= b - a THEN x[i] ELSE y[i - (b - a)]
  <2>1. x \in Seq(Nat) /\ y \in Seq(Nat) /\ Len(x) = b - a /\ Len(y) = c - b
    BY <1>4, <1>5
  <2>2. /\ x \o y \in Seq(Nat) /\ Len(x \o y) = Len(x) + Len(y)
        /\ \A i \in 1..(Len(x) + Len(y)) : (x \o y)[i] = IF i <= Len(x) THEN x[i] ELSE y[i - Len(x)]
    BY <2>1, ConcatProperties
  <2>3. Len(x) + Len(y) = c - a
    BY <2>1
  <2> QED BY <2>1, <2>2, <2>3
<1>8. ASSUME NEW i \in 1..(c - a) PROVE (x \o y)[i] = z[i]
  <2>1. CASE i <= b - a
    <3>1. i \in 1..(b - a)
      BY <2>1
    <3>2. (x \o y)[i] = x[i]
      BY <1>7, <2>1
    <3> QED BY <1>4, <1>6, <3>1, <3>2
  <2>2. CASE ~(i <= b - a)
    <3>1. PICK k : k = i - (b - a)
      OBVIOUS
    <3>2. k \in 1..(c - b) /\ b + k = a + i
      BY <2>2, <3>1
    <3>3. (x \o y)[i] = y[k]
      <4>1. ~(i <= b - a)
        BY <2>2
      <4> QED BY <1>7, <3>1, <4>1
    <3> QED BY <1>5, <1>6, <3>2, <3>3
  <2> QED BY <2>1, <2>2
<1>9. x \o y = z
  BY <1>6, <1>7, <1>8, SeqEqual
<1> QED BY <1>1, <1>2, <1>3, <1>9

-----------------------------------------------------------------------------
(* The wire. *)

StrGrown(s, x, t) ==
    /\ Len(t) = Len(s) + 1 /\ Len(s) \in Nat /\ t[Len(s) + 1] = x
    /\ \A i \in 1..Len(s) : t[i] = s[i]
    /\ \A i \in 1..Len(t) : i \in 1..Len(s) \/ i = Len(s) + 1
LEMMA StrAppended ==
    ASSUME NEW S, NEW s \in Seq(S), NEW x \in S, NEW t, t = Append(s, x) PROVE t \in Seq(S) /\ StrGrown(s, x, t)
  BY DEF StrGrown

StrShorter(s, t) ==
    /\ Len(t) = Len(s) - 1 /\ Len(s) \in Nat /\ Len(t) \in Nat /\ Head(s) = s[1]
    /\ \A i \in 1..Len(t) : t[i] = s[i + 1]
LEMMA StrTaken ==
    ASSUME NEW S, NEW s \in Seq(S), s # <<>>, NEW t, t = Tail(s) PROVE t \in Seq(S) /\ StrShorter(s, t) /\ s[1] \in S
  BY DEF StrShorter

\* An event sent goes on where the wire ended.
LEMMA StrPathGrows ==
    ASSUME NEW wire \in Seq(StrEventType), NEW a, NEW s, NEW c \in Nat, NEW m \in Nat, StrPath(wire, a, s, c, m),
           NEW x \in StrEventType, NEW d \in Nat, NEW n \in Nat, StrLink(x, c, m, d, n), NEW wire2, wire2 = Append(wire, x)
    PROVE  StrPath(wire2, a, s, d, n)
<1>1. PICK ends \in [Nat -> Nat], starts \in [Nat -> Nat] : StrLaid(wire, ends, starts, a, s, c, m)
  BY DEF StrPath
<1>2. PICK l : l = Len(wire)
  OBVIOUS
<1>3. /\ l \in Nat /\ Len(wire2) = l + 1 /\ wire2[l + 1] = x /\ (\A i \in 1..l : wire2[i] = wire[i])
      /\ \A i \in 1..(l + 1) : i \in 1..l \/ i = l + 1
  <2>1. StrGrown(wire, x, wire2)
    BY StrAppended
  <2> QED BY <1>2, <2>1 DEF StrGrown
<1>0. l \in Nat
  BY <1>3
<1>4. PICK ends2 : ends2 = [ends EXCEPT ![l + 1] = d]
  OBVIOUS
<1>5. PICK starts2 : starts2 = [starts EXCEPT ![l + 1] = n]
  OBVIOUS
<1>6. /\ ends2 \in [Nat -> Nat] /\ ends2[l + 1] = d /\ (\A i \in 0..l : ends2[i] = ends[i])
      /\ starts2 \in [Nat -> Nat] /\ starts2[l + 1] = n /\ (\A i \in 0..l : starts2[i] = starts[i])
  <2>1. l + 1 \in Nat /\ \A i \in 0..l : i \in Nat /\ i # l + 1
    BY <1>0
  <2> QED BY <1>4, <1>5, <2>1
<1>7. /\ ends[0] = a /\ starts[0] = s /\ ends[l] = c /\ starts[l] = m
      /\ \A i \in 1..l : StrLink(wire[i], ends[i - 1], starts[i - 1], ends[i], starts[i])
      /\ \A i \in 0..l : \A j \in i..l : ends[i] <= ends[j]
  BY <1>1, <1>2 DEF StrLaid
<1>8. c <= d
  BY DEF StrLink
<1>9. ASSUME NEW i \in 1..(l + 1) PROVE StrLink(wire2[i], ends2[i - 1], starts2[i - 1], ends2[i], starts2[i])
  <2>1. CASE i \in 1..l
    <3>1. i - 1 \in 0..l /\ i \in 0..l
      BY <1>3, <2>1
    <3>2. /\ wire2[i] = wire[i] /\ ends2[i - 1] = ends[i - 1] /\ starts2[i - 1] = starts[i - 1]
          /\ ends2[i] = ends[i] /\ starts2[i] = starts[i]
      BY <1>3, <1>6, <2>1, <3>1
    <3> QED BY <1>7, <2>1, <3>2
  <2>2. CASE i = l + 1
    <3>1. i - 1 = l /\ l \in 0..l
      BY <1>3, <2>2
    <3>2. wire2[i] = x /\ ends2[i - 1] = c /\ starts2[i - 1] = m /\ ends2[i] = d /\ starts2[i] = n
      BY <1>3, <1>6, <1>7, <2>2, <3>1
    <3> QED BY <3>2
  <2> QED BY <1>3, <2>1, <2>2
<1>10. ASSUME NEW i \in 0..(l + 1), NEW j \in i..(l + 1) PROVE ends2[i] <= ends2[j]
  <2>1. CASE i = l + 1
    <3>1. j = l + 1
      BY <1>0, <2>1
    <3> QED BY <1>6, <2>1, <3>1
  <2>2. CASE j = l + 1 /\ i # l + 1
    <3>1. i \in 0..l /\ l \in i..l /\ i \in Nat
      BY <1>0, <2>2
    <3>2. ends[i] <= ends[l] /\ ends[i] \in Nat
      <4>1. ends[i] <= ends[l]
        BY <1>7, <3>1
      <4> QED BY <1>1, <3>1, <4>1
    <3>3. ends2[i] = ends[i] /\ ends2[j] = d /\ ends[l] = c
      BY <1>6, <1>7, <2>2, <3>1
    <3> QED BY <1>8, <3>2, <3>3
  <2>3. CASE j # l + 1
    <3>1. i \in 0..l /\ j \in i..l /\ j \in 0..l
      BY <1>0, <2>3
    <3>2. ends2[i] = ends[i] /\ ends2[j] = ends[j]
      BY <1>6, <3>1
    <3> QED BY <1>7, <3>1, <3>2
  <2> QED BY <2>1, <2>2, <2>3
<1>11. ends2[0] = a /\ starts2[0] = s
  BY <1>3, <1>6, <1>7
<1>12. StrLaid(wire2, ends2, starts2, a, s, d, n)
  BY <1>3, <1>6, <1>9, <1>10, <1>11 DEF StrLaid
<1> QED BY <1>6, <1>12 DEF StrPath

\* The first event of the wire is the next that Main hears.
LEMMA StrPathGoes ==
    ASSUME NEW wire \in Seq(StrEventType), wire # <<>>, NEW a, NEW s, NEW c, NEW m, StrPath(wire, a, s, c, m),
           NEW wire2, wire2 = Tail(wire)
    PROVE  /\ Head(wire) = wire[1] /\ wire[1] \in StrEventType
           /\ \E b \in Nat : \E t \in Nat : StrLink(wire[1], a, s, b, t) /\ StrPath(wire2, b, t, c, m)
<1>1. PICK ends \in [Nat -> Nat], starts \in [Nat -> Nat] : StrLaid(wire, ends, starts, a, s, c, m)
  BY DEF StrPath
<1>2. PICK l : l = Len(wire2)
  OBVIOUS
<1>3. /\ l \in Nat /\ Len(wire) = l + 1 /\ Head(wire) = wire[1] /\ wire[1] \in StrEventType
      /\ \A i \in 1..l : wire2[i] = wire[i + 1]
  <2>1. StrShorter(wire, wire2) /\ wire[1] \in StrEventType
    BY StrTaken
  <2>2. Len(wire2) = Len(wire) - 1 /\ Len(wire) \in Nat /\ Len(wire2) \in Nat
    BY <2>1 DEF StrShorter
  <2> QED BY <1>2, <2>1, <2>2 DEF StrShorter
<1>0. l \in Nat
  BY <1>3
<1>4. PICK ends2 : ends2 = [i \in Nat |-> ends[i + 1]]
  OBVIOUS
<1>5. PICK starts2 : starts2 = [i \in Nat |-> starts[i + 1]]
  OBVIOUS
<1>6. /\ ends2 \in [Nat -> Nat] /\ starts2 \in [Nat -> Nat]
      /\ \A i \in Nat : ends2[i] = ends[i + 1] /\ starts2[i] = starts[i + 1]
  <2>1. \A i \in Nat : ends[i + 1] \in Nat /\ starts[i + 1] \in Nat
    <3>1. \A i \in Nat : i + 1 \in Nat
      OBVIOUS
    <3>2. ends \in [Nat -> Nat] /\ starts \in [Nat -> Nat]
      BY <1>1
    <3> QED BY <3>1, <3>2
  <2> QED BY <1>4, <1>5, <2>1
<1>7. /\ ends[0] = a /\ starts[0] = s /\ ends[l + 1] = c /\ starts[l + 1] = m
      /\ \A i \in 1..(l + 1) : StrLink(wire[i], ends[i - 1], starts[i - 1], ends[i], starts[i])
      /\ \A i \in 0..(l + 1) : \A j \in i..(l + 1) : ends[i] <= ends[j]
  BY <1>1, <1>3 DEF StrLaid
<1>8. StrLink(wire[1], a, s, ends[1], starts[1]) /\ ends[1] \in Nat /\ starts[1] \in Nat
  <2>1. 1 \in 1..(l + 1) /\ 1 - 1 = 0
    BY <1>3
  <2> QED BY <1>1, <1>7, <2>1
<1>9. ASSUME NEW i \in 1..l PROVE StrLink(wire2[i], ends2[i - 1], starts2[i - 1], ends2[i], starts2[i])
  <2>1. i \in Nat /\ i - 1 \in Nat /\ (i - 1) + 1 = i /\ (i + 1) - 1 = i /\ i + 1 \in 1..(l + 1)
    BY <1>3
  <2>2. StrLink(wire[i + 1], ends[i], starts[i], ends[i + 1], starts[i + 1])
    BY <1>7, <2>1
  <2>3. ends2[i - 1] = ends[i] /\ starts2[i - 1] = starts[i] /\ ends2[i] = ends[i + 1] /\ starts2[i] = starts[i + 1]
    BY <1>6, <2>1
  <2> QED BY <1>3, <2>2, <2>3
<1>10. ASSUME NEW i \in 0..l, NEW j \in i..l PROVE ends2[i] <= ends2[j]
  <2>1. i \in Nat /\ j \in Nat /\ i + 1 \in 0..(l + 1) /\ j + 1 \in (i + 1)..(l + 1)
    BY <1>3
  <2> QED BY <1>6, <1>7, <2>1
<1>11. ends2[0] = ends[1] /\ starts2[0] = starts[1] /\ ends2[l] = c /\ starts2[l] = m
  BY <1>3, <1>6, <1>7
<1>12. StrLaid(wire2, ends2, starts2, ends[1], starts[1], c, m)
  BY <1>2, <1>9, <1>10, <1>11 DEF StrLaid
<1>13. StrPath(wire2, ends[1], starts[1], c, m)
  BY <1>6, <1>12 DEF StrPath
<1> QED BY <1>3, <1>8, <1>13

LEMMA StrOne ==
    ASSUME NEW S, NEW s \in Seq(S), NEW x \in S
    PROVE  s \o <<x>> = Append(s, x) /\ s \o <<>> = s
  OBVIOUS

LEMMA StrTextLinks ==
    ASSUME NEW c \in Nat, NEW m \in Nat, NEW d \in Nat, m <= c, c < d, NEW x, x = StrEvent("text.delta", StrChars(c, d))
    PROVE  x \in StrEventType /\ StrLink(x, c, m, d, m)
<1>1. PICK t : t = StrChars(c, d)
  OBVIOUS
<1>2. t \in Seq(Nat)
  <2>1. c <= d
    OBVIOUS
  <2> QED BY <1>1, <2>1, StrCharsAre
<1>3. x = [kind |-> "text.delta", text |-> t]
  BY <1>1 DEF StrEvent
<1>4. x \in StrEventType /\ x.kind = "text.delta" /\ x.text = t
  BY <1>2, <1>3 DEF StrEventType
<1> QED BY <1>1, <1>4 DEF StrLink

\* What the buffer holds follows what is on the wire.
LEMMA StrFlushed ==
    ASSUME NEW wire \in Seq(StrEventType), NEW a, NEW s, NEW c \in Nat, NEW m \in Nat, StrPath(wire, a, s, c, m),
           NEW d \in Nat, m <= c, c <= d, NEW wire2, wire2 = wire \o StrText(StrChars(c, d))
    PROVE  wire2 \in Seq(StrEventType) /\ StrPath(wire2, a, s, d, m)
<1>1. CASE c = d
  <2>1. StrChars(c, d) = <<>>
    BY <1>1, StrCharsNone
  <2>2. wire2 = wire
    BY <2>1, StrOne DEF StrText
  <2> QED BY <1>1, <2>2
<1>2. CASE c # d
  <2>0. c < d
    BY <1>2
  <2>1. StrChars(c, d) # <<>>
    BY <1>2, StrCharsNone
  <2>2. PICK x : x = StrEvent("text.delta", StrChars(c, d))
    OBVIOUS
  <2>3. x \in StrEventType /\ StrLink(x, c, m, d, m)
    BY <2>0, <2>2, StrTextLinks
  <2>4. wire2 = wire \o <<x>>
    BY <2>1, <2>2 DEF StrText
  <2>5. wire2 = Append(wire, x)
    BY <2>3, <2>4, StrOne
  <2>6. wire2 \in Seq(StrEventType)
    BY <2>3, <2>5
  <2>7. StrPath(wire2, a, s, d, m)
    BY <2>3, <2>5, StrPathGrows
  <2> QED BY <2>6, <2>7
<1> QED BY <1>1, <1>2

-----------------------------------------------------------------------------
(* Texts that share out what was said. *)

StrStretch(x, y, z, f, g, a, c) ==
    /\ z \in Seq(Seq(Nat)) /\ Len(z) = Len(x) + Len(y)
    /\ \E ends \in [Nat -> Nat] :
         /\ StrSpread(z, ends, a, c)
         /\ \A i \in 0..Len(x) : ends[i] = f[i]
         /\ \A i \in 0..Len(y) : ends[Len(x) + i] = g[i]
LEMMA StrCutTwice ==
    ASSUME NEW x \in Seq(Seq(Nat)), NEW y \in Seq(Seq(Nat)), NEW a, NEW b, NEW c,
           NEW f \in [Nat -> Nat], NEW g \in [Nat -> Nat], StrSpread(x, f, a, b), StrSpread(y, g, b, c), NEW z, z = x \o y
    PROVE  StrStretch(x, y, z, f, g, a, c)
<1>1. PICK k : k = Len(x)
  OBVIOUS
<1>2. PICK l : l = Len(y)
  OBVIOUS
<1>3. k \in Nat /\ l \in Nat
  BY <1>1, <1>2
<1>4. /\ z \in Seq(Seq(Nat)) /\ Len(z) = k + l
      /\ \A i \in 1..(k + l) : z[i] = IF i <= k THEN x[i] ELSE y[i - k]
  BY <1>1, <1>2, ConcatProperties
<1>5. PICK h : h = [i \in Nat |-> IF i <= k THEN f[i] ELSE g[i - k]]
  OBVIOUS
<1>6. /\ h \in [Nat -> Nat] /\ (\A i \in 0..k : h[i] = f[i])
      /\ \A i \in Nat : ~(i <= k) => i - k \in Nat /\ h[i] = g[i - k]
  <2>0. \A i \in Nat : ~(i <= k) => i - k \in Nat
    BY <1>3
  <2>1. \A i \in Nat : (i <= k => f[i] \in Nat) /\ (~(i <= k) => i - k \in Nat /\ g[i - k] \in Nat)
    <3>1. (\A i \in Nat : f[i] \in Nat) /\ \A i \in Nat : g[i] \in Nat
      OBVIOUS
    <3> QED BY <2>0, <3>1
  <2>2. \A i \in 0..k : i \in Nat /\ i <= k
    BY <1>3
  <2> QED BY <1>5, <2>1, <2>2
<1>7. /\ f[0] = a /\ f[k] = b /\ (\A i \in 1..k : x[i] = StrChars(f[i - 1], f[i]))
      /\ \A i \in 0..k : \A j \in i..k : f[i] <= f[j]
  BY <1>1 DEF StrSpread
<1>8. /\ g[0] = b /\ g[l] = c /\ (\A i \in 1..l : y[i] = StrChars(g[i - 1], g[i]))
      /\ \A i \in 0..l : \A j \in i..l : g[i] <= g[j]
  BY <1>2 DEF StrSpread
<1>9. ASSUME NEW i \in 0..l PROVE h[k + i] = g[i]
  <2>1. CASE i = 0
    <3>1. k + i = k /\ k \in 0..k
      BY <1>3, <2>1
    <3> QED BY <1>6, <1>7, <1>8, <2>1, <3>1
  <2>2. CASE i # 0
    <3>1. k + i \in Nat /\ ~(k + i <= k) /\ (k + i) - k = i
      BY <1>3, <2>2
    <3> QED BY <1>6, <3>1
  <2> QED BY <2>1, <2>2
<1>10. ASSUME NEW i \in 1..(k + l) PROVE z[i] = StrChars(h[i - 1], h[i])
  <2>1. CASE i <= k
    <3>1. i \in 1..k /\ i \in 0..k /\ i - 1 \in 0..k
      BY <1>3, <2>1
    <3>2. h[i] = f[i] /\ h[i - 1] = f[i - 1] /\ z[i] = x[i]
      BY <1>4, <1>6, <2>1, <3>1
    <3> QED BY <1>7, <3>1, <3>2
  <2>2. CASE ~(i <= k)
    <3>1. PICK j : j = i - k
      OBVIOUS
    <3>2. j \in 1..l /\ j \in 0..l /\ j - 1 \in 0..l /\ i = k + j /\ i - 1 = k + (j - 1)
      BY <1>3, <2>2, <3>1
    <3>3. h[i] = g[j] /\ h[i - 1] = g[j - 1]
      BY <1>9, <3>2
    <3>4. z[i] = y[j]
      <4>1. ~(i <= k)
        BY <2>2
      <4> QED BY <1>4, <3>1, <4>1
    <3> QED BY <1>8, <3>2, <3>3, <3>4
  <2> QED BY <2>1, <2>2
<1>11. ASSUME NEW i \in 0..(k + l), NEW j \in i..(k + l) PROVE h[i] <= h[j]
  <2>1. CASE j <= k
    <3>1. i \in 0..k /\ j \in 0..k /\ j \in i..k
      BY <1>3, <2>1
    <3>2. h[i] = f[i] /\ h[j] = f[j]
      BY <1>6, <3>1
    <3> QED BY <1>7, <3>1, <3>2
  <2>2. CASE ~(j <= k) /\ ~(i <= k)
    <3>1. PICK p : p = i - k
      OBVIOUS
    <3>2. PICK q : q = j - k
      OBVIOUS
    <3>3. p \in 0..l /\ q \in p..l /\ q \in 0..l /\ i = k + p /\ j = k + q
      BY <1>3, <2>2, <3>1, <3>2
    <3>4. h[i] = g[p] /\ h[j] = g[q]
      BY <1>9, <3>3
    <3> QED BY <1>8, <3>3, <3>4
  <2>3. CASE ~(j <= k) /\ i <= k
    <3>1. PICK q : q = j - k
      OBVIOUS
    <3>2. i \in 0..k /\ k \in i..k /\ q \in 0..l /\ 0 \in 0..l /\ j = k + q
      BY <1>3, <2>3, <3>1
    <3>3. h[i] = f[i] /\ h[j] = g[q]
      BY <1>6, <1>9, <3>2
    <3>4. f[i] <= b
      BY <1>7, <3>2
    <3>5. b <= g[q]
      BY <1>8, <3>2
    <3>6. f[i] \in Nat /\ g[q] \in Nat /\ f[k] \in Nat
      <4>1. i \in Nat /\ q \in Nat
        BY <3>2
      <4> QED BY <1>3, <4>1
    <3>7. PICK u : u = f[i]
      OBVIOUS
    <3>8. PICK v : v = g[q]
      OBVIOUS
    <3>9. PICK w : w = b
      OBVIOUS
    <3>10. w \in Nat
      BY <1>7, <3>6, <3>9
    <3>11. u \in Nat /\ v \in Nat /\ u <= w /\ w <= v
      BY <3>4, <3>5, <3>6, <3>7, <3>8, <3>9
    <3>12. u <= v
      BY <3>10, <3>11
    <3> QED BY <3>3, <3>7, <3>8, <3>12
  <2> QED BY <2>1, <2>2, <2>3
<1>12. h[0] = a /\ h[k + l] = c
  <2>1. 0 \in 0..k /\ l \in 0..l
    BY <1>3
  <2> QED BY <1>6, <1>7, <1>8, <1>9, <2>1
<1>13. StrSpread(z, h, a, c)
  BY <1>4, <1>10, <1>11, <1>12 DEF StrSpread
<1> QED BY <1>1, <1>2, <1>4, <1>6, <1>9, <1>13 DEF StrStretch

LEMMA StrSingle ==
    ASSUME NEW a \in Nat, NEW b \in Nat, a <= b, NEW x, x = <<StrChars(a, b)>>
    PROVE  /\ x \in Seq(Seq(Nat)) /\ Len(x) = 1
           /\ \E ends \in [Nat -> Nat] : StrSpread(x, ends, a, b)
<1>1. PICK t : t = StrChars(a, b)
  OBVIOUS
<1>2. t \in Seq(Nat)
  BY <1>1, StrCharsAre
<1>3. x \in Seq(Seq(Nat)) /\ Len(x) = 1 /\ x[1] = t
  BY <1>1, <1>2
<1>4. PICK f : f = [i \in Nat |-> IF i = 0 THEN a ELSE b]
  OBVIOUS
<1>5. f \in [Nat -> Nat] /\ f[0] = a /\ f[1] = b
  BY <1>4
<1>6. \A i \in 1..1 : x[i] = StrChars(f[i - 1], f[i])
  <2>1. \A i \in 1..1 : i = 1 /\ i - 1 = 0
    OBVIOUS
  <2> QED BY <1>1, <1>3, <1>5, <2>1
<1>7. \A i \in 0..1 : \A j \in i..1 : f[i] <= f[j]
  <2>1. \A i \in 0..1 : \A j \in i..1 : (i = 0 \/ i = 1) /\ (j = 0 \/ j = 1) /\ i <= j
    OBVIOUS
  <2> QED BY <1>5, <2>1
<1>8. StrSpread(x, f, a, b)
  BY <1>3, <1>5, <1>6, <1>7 DEF StrSpread
<1> QED BY <1>3, <1>5, <1>8

\* A text that goes on is the same text, longer.
StrSpreadIs(texts, ends, l, a, b) ==
    /\ l = Len(texts) /\ l \in Nat
    /\ ends[0] = a /\ ends[l] = b
    /\ \A k \in 1..l : texts[k] = StrChars(ends[k - 1], ends[k])
    /\ \A i \in 0..l : \A j \in i..l : ends[i] <= ends[j]

\* The bubbles are those before, but for the last.
StrLonger(bubbles, bubbles2) ==
    /\ bubbles2 \in Seq(Seq(Nat)) /\ DOMAIN bubbles \subseteq DOMAIN bubbles2 /\ Len(bubbles) <= Len(bubbles2)
    /\ \A i \in DOMAIN bubbles : i < Len(bubbles2) => bubbles2[i] = bubbles[i]
StrSame(s, t, l, x) == DOMAIN t = DOMAIN s /\ t[l] = x /\ \A i \in DOMAIN s : i # l => t[i] = s[i]
LEMMA StrPut ==
    ASSUME NEW S, NEW s \in Seq(S), NEW l \in 1..Len(s), NEW x \in S, NEW t, t = [s EXCEPT ![l] = x]
    PROVE  t \in Seq(S) /\ Len(t) = Len(s) /\ StrSame(s, t, l, x)
  BY DEF StrSame

\* A piece that goes into the open bubble.
LEMMA StrBubbleGrows ==
    ASSUME NEW bubbles \in Seq(Seq(Nat)), NEW a \in Nat, NEW s \in Nat, NEW b \in Nat, a < b,
           StrShownAs(bubbles, TRUE, a, s),
           NEW bubbles2, bubbles2 = [bubbles EXCEPT ![Len(bubbles)] = @ \o StrChars(a, b)]
    PROVE  StrLonger(bubbles, bubbles2) /\ Len(bubbles2) = Len(bubbles) /\ StrShownAs(bubbles2, TRUE, b, s)
<1>1. PICK f \in [Nat -> Nat] : StrSpread(bubbles, f, 0, a) /\ StrLastFrom(bubbles, f, TRUE, a, s)
  BY DEF StrShownAs
<1>2. PICK l : l = Len(bubbles)
  OBVIOUS
<1>3. l \in Nat /\ l > 0 /\ s = f[l - 1] /\ s < a /\ DOMAIN bubbles = 1..l
  BY <1>1, <1>2 DEF StrLastFrom
<1>4. StrSpreadIs(bubbles, f, l, 0, a)
  BY <1>1, <1>2, <1>3 DEF StrSpread, StrSpreadIs
<1>5. PICK old : old = bubbles[l]
  OBVIOUS
<1>6. l \in 1..l /\ l \in Nat /\ l - 1 \in 0..l /\ l - 1 \in Nat
  BY <1>3
<1>7. old = StrChars(s, a) /\ f[l] = a /\ f[0] = 0
  BY <1>3, <1>4, <1>5, <1>6 DEF StrSpreadIs
<1>8. PICK new : new = old \o StrChars(a, b)
  OBVIOUS
<1>9. new = StrChars(s, b) /\ new \in Seq(Nat)
  <2>0. s < a
    BY <1>3
  <2>1. s <= a /\ a <= b /\ s <= b
    BY <2>0
  <2>2. new = StrChars(s, b)
    BY <1>7, <1>8, <2>1, StrCharsJoin
  <2> QED BY <2>1, <2>2, StrCharsAre
<1>10. bubbles2 = [bubbles EXCEPT ![l] = new]
  BY <1>2, <1>5, <1>6, <1>8
<1>11. /\ bubbles2 \in Seq(Seq(Nat)) /\ Len(bubbles2) = l /\ DOMAIN bubbles2 = 1..l /\ bubbles2[l] = new
       /\ \A i \in 1..l : i # l => bubbles2[i] = bubbles[i]
  <2>1. bubbles2 \in Seq(Seq(Nat)) /\ Len(bubbles2) = Len(bubbles) /\ StrSame(bubbles, bubbles2, l, new)
    <3>1. l \in 1..Len(bubbles) /\ new \in Seq(Nat)
      BY <1>2, <1>6, <1>9
    <3> HIDE DEF StrSame
    <3> QED BY <1>10, <3>1, StrPut
  <2> QED BY <1>2, <1>3, <2>1 DEF StrSame
<1>12. PICK g : g = [f EXCEPT ![l] = b]
  OBVIOUS
<1>13. g \in [Nat -> Nat] /\ g[l] = b /\ \A i \in Nat : i # l => g[i] = f[i]
  BY <1>6, <1>12
<1>14. g[0] = 0
  <2>1. 0 # l /\ 0 \in Nat
    BY <1>3
  <2> QED BY <1>7, <1>13, <2>1
<1>15. ASSUME NEW i \in 1..l PROVE bubbles2[i] = StrChars(g[i - 1], g[i])
  <2>1. i - 1 \in Nat /\ i - 1 # l /\ i \in Nat
    BY <1>3
  <2>2. g[i - 1] = f[i - 1]
    BY <1>13, <2>1
  <2>3. CASE i = l
    <3>1. g[i - 1] = s
      BY <1>3, <2>2, <2>3
    <3> QED BY <1>9, <1>11, <1>13, <2>3, <3>1
  <2>4. CASE i # l
    <3>1. g[i] = f[i] /\ bubbles2[i] = bubbles[i]
      BY <1>11, <1>13, <2>1, <2>4
    <3> QED BY <1>4, <2>2, <3>1 DEF StrSpreadIs
  <2> QED BY <2>3, <2>4
<1>16. ASSUME NEW i \in 0..l, NEW j \in i..l PROVE g[i] <= g[j]
  <2>1. i \in Nat /\ j \in Nat /\ l \in i..l
    BY <1>3
  <2>2. CASE j # l
    <3>1. i # l
      BY <1>3, <2>2
    <3> QED BY <1>4, <1>13, <2>1, <2>2, <3>1 DEF StrSpreadIs
  <2>3. CASE j = l /\ i # l
    <3>1. f[i] <= f[l]
      BY <1>4, <2>1 DEF StrSpreadIs
    <3>2. f[i] \in Nat
      BY <2>1
    <3>3. g[i] = f[i] /\ g[j] = b
      BY <1>13, <2>1, <2>3
    <3> QED BY <1>7, <3>1, <3>2, <3>3
  <2>4. CASE j = l /\ i = l
    BY <1>13, <2>4
  <2> QED BY <2>2, <2>3, <2>4
<1>17. StrSpread(bubbles2, g, 0, b)
  BY <1>11, <1>13, <1>14, <1>15, <1>16 DEF StrSpread
<1>18. StrLastFrom(bubbles2, g, TRUE, b, s)
  <2>1. l - 1 # l
    BY <1>3
  <2>2. g[l - 1] = s
    BY <1>3, <1>6, <1>13, <2>1
  <2>3. s < b
    BY <1>3
  <2> QED BY <1>3, <1>11, <2>2, <2>3 DEF StrLastFrom
<1>19. StrShownAs(bubbles2, TRUE, b, s)
  BY <1>13, <1>17, <1>18 DEF StrShownAs
<1>20. StrLonger(bubbles, bubbles2)
  <2>1. l <= l /\ \A i \in 1..l : i < l => i # l
    BY <1>3
  <2> QED BY <1>2, <1>3, <1>11, <2>1 DEF StrLonger
<1> QED BY <1>2, <1>11, <1>19, <1>20

\* A piece that opens a bubble.
LEMMA StrBubbleBegins ==
    ASSUME NEW bubbles \in Seq(Seq(Nat)), NEW a \in Nat, NEW s \in Nat, NEW b \in Nat, a < b,
           StrShownAs(bubbles, FALSE, a, s), NEW bubbles2, bubbles2 = Append(bubbles, StrChars(a, b))
    PROVE  /\ StrLonger(bubbles, bubbles2) /\ (\A i \in DOMAIN bubbles : i < Len(bubbles2))
           /\ StrShownAs(bubbles2, TRUE, b, s)
<1>1. PICK f \in [Nat -> Nat] : StrSpread(bubbles, f, 0, a) /\ StrLastFrom(bubbles, f, FALSE, a, s)
  BY DEF StrShownAs
<1>2. s = a
  BY <1>1 DEF StrLastFrom
<1>3. PICK x : x = <<StrChars(a, b)>>
  OBVIOUS
<1>4. a <= b
  OBVIOUS
<1>5. x \in Seq(Seq(Nat)) /\ Len(x) = 1
  BY <1>3, <1>4, StrSingle
<1>6. PICK g \in [Nat -> Nat] : StrSpread(x, g, a, b)
  BY <1>3, <1>4, StrSingle
<1>7. StrChars(a, b) \in Seq(Nat)
  BY <1>4, StrCharsAre
<1>8. bubbles2 = bubbles \o x
  BY <1>3, <1>7, StrOne
<1>9. PICK l : l = Len(bubbles)
  OBVIOUS
<1>10. /\ bubbles2 \in Seq(Seq(Nat)) /\ Len(bubbles2) = l + 1 /\ l \in Nat /\ DOMAIN bubbles = 1..l /\ DOMAIN bubbles2 = 1..(l + 1)
       /\ \A i \in 1..l : bubbles2[i] = bubbles[i]
  BY <1>7, <1>9
<1>11. PICK h \in [Nat -> Nat] : StrSpread(bubbles2, h, 0, b) /\ \A i \in 0..Len(bubbles) : h[i] = f[i]
  <2>1. StrSpread(bubbles, f, 0, a)
    BY <1>1
  <2>2. x \in Seq(Seq(Nat))
    BY <1>5
  <2>3. StrSpread(x, g, a, b)
    BY <1>6
  <2>4. PICK y : y = bubbles \o x
    OBVIOUS
  <2>5. bubbles2 = y
    BY <1>8, <2>4
  <2>6. PICK zero : zero = 0
    OBVIOUS
  <2>7. StrSpread(bubbles, f, zero, a)
    BY <2>1, <2>6
  <2>8. StrStretch(bubbles, x, y, f, g, zero, b)
    BY <2>2, <2>3, <2>4, <2>7, StrCutTwice
  <2> QED BY <2>5, <2>6, <2>8 DEF StrStretch
<1>12. h[l] = a
  <2>1. f[l] = a
    BY <1>1, <1>9 DEF StrSpread
  <2>2. l \in 0..l
    BY <1>10
  <2> QED BY <1>9, <1>11, <2>1, <2>2
<1>13. StrLastFrom(bubbles2, h, TRUE, b, s)
  <2>0. l \in Nat /\ Len(bubbles2) = l + 1
    BY <1>10
  <2>1. Len(bubbles2) > 0 /\ Len(bubbles2) - 1 = l
    BY <2>0
  <2> QED BY <1>2, <1>12, <2>1 DEF StrLastFrom
<1>14. \A i \in 1..l : i \in 1..(l + 1) /\ i < l + 1
  <2>1. l \in Nat
    BY <1>10
  <2> QED BY <2>1
<1>15. l <= l + 1
  BY <1>10
<1>16. StrLonger(bubbles, bubbles2)
  BY <1>9, <1>10, <1>14, <1>15 DEF StrLonger
<1>17. \A i \in DOMAIN bubbles : i < Len(bubbles2)
  BY <1>10, <1>14
<1>18. StrShownAs(bubbles2, TRUE, b, s)
  BY <1>11, <1>13 DEF StrShownAs
<1> QED BY <1>16, <1>17, <1>18

\* A bubble that is closed holds all that was shown.
LEMMA StrBubbleCloses ==
    ASSUME NEW bubbles, NEW open, NEW a, NEW s, StrShownAs(bubbles, open, a, s)
    PROVE  StrShownAs(bubbles, FALSE, a, a)
  BY DEF StrShownAs, StrLastFrom

\* The bubble of a message that ends holds its text.
LEMMA StrBubbleReads ==
    ASSUME NEW bubbles \in Seq(Seq(Nat)), NEW open \in BOOLEAN, NEW a \in Nat, NEW s \in Nat, s <= a,
           StrShownAs(bubbles, open, a, s), StrChars(s, a) # <<>>
    PROVE  Len(bubbles) \in DOMAIN bubbles /\ bubbles[Len(bubbles)] = StrChars(s, a)
<1>1. PICK f \in [Nat -> Nat] : StrSpread(bubbles, f, 0, a) /\ StrLastFrom(bubbles, f, open, a, s)
  BY DEF StrShownAs
<1>2. s # a
  BY StrCharsNone
<1>3. open
  BY <1>1, <1>2 DEF StrLastFrom
<1>4. PICK l : l = Len(bubbles)
  OBVIOUS
<1>5. l \in Nat /\ l > 0 /\ s = f[l - 1] /\ DOMAIN bubbles = 1..l
  BY <1>1, <1>3, <1>4 DEF StrLastFrom
<1>6. l \in 1..l
  BY <1>5
<1>7. bubbles[l] = StrChars(f[l - 1], f[l]) /\ f[l] = a
  BY <1>1, <1>4, <1>6 DEF StrSpread
<1> QED BY <1>4, <1>5, <1>6, <1>7

\* The texts on the wire share out what is on its way.
StrTexts(wire) == [i \in DOMAIN wire |-> IF wire[i].kind = "text.delta" THEN wire[i].text ELSE <<>>]
LEMMA StrWireShares ==
    ASSUME NEW wire \in Seq(StrEventType), NEW a, NEW s, NEW c, NEW m, StrPath(wire, a, s, c, m),
           NEW texts, texts = StrTexts(wire)
    PROVE  /\ texts \in Seq(Seq(Nat)) /\ Len(texts) = Len(wire)
           /\ \E ends \in [Nat -> Nat] : StrSpread(texts, ends, a, c)
<1>1. PICK ends \in [Nat -> Nat], starts \in [Nat -> Nat] : StrLaid(wire, ends, starts, a, s, c, m)
  BY DEF StrPath
<1>2. PICK l : l = Len(wire)
  OBVIOUS
<1>3. l \in Nat /\ DOMAIN wire = 1..l /\ \A i \in 1..l : wire[i] \in StrEventType
  BY <1>2
<1>4. \A i \in 1..l : wire[i].text \in Seq(Nat)
  BY <1>3 DEF StrEventType
<1>5. \A i \in 1..l : texts[i] = IF wire[i].kind = "text.delta" THEN wire[i].text ELSE <<>>
  BY <1>3 DEF StrTexts
<1>6. \A i \in 1..l : texts[i] \in Seq(Nat)
  <2>1. <<>> \in Seq(Nat)
    OBVIOUS
  <2> QED BY <1>4, <1>5, <2>1
<1>7. texts \in [1..l -> Seq(Nat)]
  <2>1. texts = [i \in 1..l |-> IF wire[i].kind = "text.delta" THEN wire[i].text ELSE <<>>]
    BY <1>3 DEF StrTexts
  <2> QED BY <1>5, <1>6, <2>1
<1>8. texts \in Seq(Seq(Nat)) /\ Len(texts) = l
  <2>1. l \in Nat
    BY <1>3
  <2> QED BY <1>7, <2>1
<1>9. /\ ends[0] = a /\ ends[l] = c
      /\ \A i \in 1..l : StrLink(wire[i], ends[i - 1], starts[i - 1], ends[i], starts[i])
      /\ \A i \in 0..l : \A j \in i..l : ends[i] <= ends[j]
  BY <1>1, <1>2 DEF StrLaid
<1>10. ASSUME NEW i \in 1..l PROVE texts[i] = StrChars(ends[i - 1], ends[i])
  <2>1. StrLink(wire[i], ends[i - 1], starts[i - 1], ends[i], starts[i])
    BY <1>9
  <2>2. CASE wire[i].kind = "text.delta"
    <3>1. wire[i].text = StrChars(ends[i - 1], ends[i])
      BY <2>1, <2>2 DEF StrLink
    <3> QED BY <1>5, <2>2, <3>1
  <2>3. CASE wire[i].kind # "text.delta"
    <3>1. ends[i] = ends[i - 1] /\ ends[i] \in Nat
      BY <2>1, <2>3 DEF StrLink
    <3>2. PICK b : b = ends[i]
      OBVIOUS
    <3>3. b \in Nat /\ b <= b
      BY <3>1, <3>2
    <3>4. StrChars(b, b) = <<>>
      BY <3>3, StrCharsNone
    <3> QED BY <1>5, <2>3, <3>1, <3>2, <3>4
  <2> QED BY <2>2, <2>3
<1>11. StrSpread(texts, ends, a, c)
  BY <1>8, <1>9, <1>10 DEF StrSpread
<1> QED BY <1>2, <1>8, <1>11

\* The least number of a set.
LEMMA StrLeast ==
    ASSUME NEW T, T \subseteq Nat, T # {} PROVE \E n \in T : \A k \in T : n <= k
<1>1. PICK n \in T : \A k \in T : ~(<<k, n>> \in OpToRel(<, Nat))
  BY WFMin, NatLessThanWellFounded
<1>2. \A k \in T : ~(k < n)
  BY <1>1 DEF OpToRel
<1> QED BY <1>2

\* Texts that share out the first n characters hold all of them, in that order and once.
StrAllIn(texts, n) ==
    /\ UNION {{texts[i][j] : j \in DOMAIN texts[i]} : i \in DOMAIN texts} = 1 .. n
    /\ \A i, k \in DOMAIN texts : \A j \in DOMAIN texts[i], l \in DOMAIN texts[k] :
          (i < k \/ (i = k /\ j < l)) => texts[i][j] < texts[k][l]
LEMMA StrSharedOut ==
    ASSUME NEW texts \in Seq(Seq(Nat)), NEW n \in Nat, NEW f \in [Nat -> Nat], StrSpread(texts, f, 0, n)
    PROVE  StrAllIn(texts, n)
<1>1. PICK l : l = Len(texts)
  OBVIOUS
<1>2. l \in Nat /\ DOMAIN texts = 1..l
  BY <1>1
<1>3. /\ f[0] = 0 /\ f[l] = n
      /\ \A k \in 1..l : texts[k] = StrChars(f[k - 1], f[k])
      /\ \A i \in 0..l : \A j \in i..l : f[i] <= f[j]
  BY <1>1 DEF StrSpread
<1>4. \A i \in 0..l : f[i] \in Nat /\ f[i] <= n
  <2>1. \A i \in 0..l : i \in Nat /\ l \in i..l
    BY <1>2
  <2> QED BY <1>3, <2>1
<1>5. ASSUME NEW i \in 1..l
      PROVE  /\ f[i - 1] \in Nat /\ f[i] \in Nat /\ f[i - 1] <= f[i] /\ f[i] <= n
             /\ DOMAIN texts[i] = 1..(f[i] - f[i - 1])
             /\ \A j \in 1..(f[i] - f[i - 1]) : texts[i][j] = f[i - 1] + j
  <2>1. i - 1 \in 0..l /\ i \in 0..l /\ i \in (i - 1)..l
    BY <1>2
  <2>2. f[i - 1] \in Nat /\ f[i] \in Nat /\ f[i - 1] <= f[i] /\ f[i] <= n
    BY <1>3, <1>4, <2>1
  <2>3. PICK p : p = f[i - 1]
    OBVIOUS
  <2>4. PICK q : q = f[i]
    OBVIOUS
  <2>5. PICK t : t = StrChars(p, q)
    OBVIOUS
  <2>6. p \in Nat /\ q \in Nat /\ p <= q
    BY <2>2, <2>3, <2>4
  <2>7. DOMAIN t = 1..(q - p) /\ \A j \in 1..(q - p) : t[j] = p + j
    BY <2>5, <2>6, StrCharsAre
  <2>8. texts[i] = t
    BY <1>3, <2>3, <2>4, <2>5
  <2> QED BY <2>2, <2>3, <2>4, <2>7, <2>8
<1>6. ASSUME NEW i \in 1..l, NEW j \in DOMAIN texts[i] PROVE texts[i][j] \in 1..n
  <2>1. PICK p : p = f[i - 1]
    OBVIOUS
  <2>2. PICK q : q = f[i]
    OBVIOUS
  <2>3. p \in Nat /\ q \in Nat /\ p <= q /\ q <= n /\ j \in 1..(q - p) /\ texts[i][j] = p + j
    BY <1>5, <2>1, <2>2
  <2>4. p + j \in 1..n
    <3>1. p \in Nat /\ q \in Nat /\ q <= n /\ j \in 1..(q - p)
      BY <2>3
    <3> QED BY <3>1
  <2> QED BY <2>3, <2>4
<1>7. ASSUME NEW x \in 1..n PROVE \E i \in 1..l : \E j \in DOMAIN texts[i] : texts[i][j] = x
  <2>1. PICK T : T = {k \in 0..l : x <= f[k]}
    OBVIOUS
  <2>2. T \subseteq Nat /\ T # {}
    <3>1. l \in 0..l /\ x <= f[l]
      BY <1>2, <1>3
    <3>2. l \in T
      BY <2>1, <3>1
    <3>3. \A k \in T : k \in Nat
      BY <2>1
    <3> QED BY <3>2, <3>3
  <2>3. PICK i \in T : \A k \in T : i <= k
    BY <2>2, StrLeast
  <2>4. i \in 0..l /\ x <= f[i]
    BY <2>1
  <2>5. i # 0
    BY <1>3, <2>4
  <2>6. i \in 1..l /\ i - 1 \in 0..l /\ ~(i <= i - 1)
    BY <1>2, <2>4, <2>5
  <2>7. ~(x <= f[i - 1])
    BY <2>1, <2>3, <2>6
  <2>8. PICK p : p = f[i - 1]
    OBVIOUS
  <2>9. PICK q : q = f[i]
    OBVIOUS
  <2>10. PICK j : j = x - p
    OBVIOUS
  <2>11. p \in Nat /\ q \in Nat /\ p < x /\ x <= q
    BY <1>5, <2>4, <2>6, <2>7, <2>8, <2>9
  <2>12. j \in 1..(q - p) /\ p + j = x
    BY <2>10, <2>11
  <2>13. j \in DOMAIN texts[i] /\ texts[i][j] = x
    BY <1>5, <2>6, <2>8, <2>9, <2>12
  <2> QED BY <2>6, <2>13
<1>8. UNION {{texts[i][j] : j \in DOMAIN texts[i]} : i \in DOMAIN texts} = 1 .. n
  <2>1. PICK U : U = UNION {{texts[i][j] : j \in DOMAIN texts[i]} : i \in DOMAIN texts}
    OBVIOUS
  <2>2. \A x \in U : x \in 1..n
    BY <1>2, <1>6, <2>1
  <2>3. \A x \in 1..n : x \in U
    <3> TAKE x \in 1..n
    <3>1. PICK i \in 1..l : \E j \in DOMAIN texts[i] : texts[i][j] = x
      BY <1>7
    <3>2. x \in {texts[i][j] : j \in DOMAIN texts[i]}
      BY <3>1
    <3> QED BY <1>2, <2>1, <3>2
  <2> QED BY <2>1, <2>2, <2>3
<1>9. ASSUME NEW i \in 1..l, NEW k \in 1..l, NEW j \in DOMAIN texts[i], NEW h \in DOMAIN texts[k], i < k \/ (i = k /\ j < h)
      PROVE  texts[i][j] < texts[k][h]
  <2>1. PICK p : p = f[i - 1]
    OBVIOUS
  <2>2. PICK q : q = f[i]
    OBVIOUS
  <2>3. PICK r : r = f[k - 1]
    OBVIOUS
  <2>4. PICK t : t = f[k]
    OBVIOUS
  <2>5. p \in Nat /\ q \in Nat /\ j \in 1..(q - p) /\ texts[i][j] = p + j
    BY <1>5, <2>1, <2>2
  <2>6. r \in Nat /\ t \in Nat /\ h \in 1..(t - r) /\ texts[k][h] = r + h
    BY <1>5, <2>3, <2>4
  <2>7. p + j < r + h
    <3>1. CASE i < k
      <4>1. i \in 0..l /\ k - 1 \in i..l
        BY <1>2, <3>1
      <4>2. q <= r
        BY <1>3, <2>2, <2>3, <4>1
      <4> QED BY <2>5, <2>6, <4>2
    <3>2. CASE i = k /\ j < h
      <4>1. p = r
        BY <2>1, <2>3, <3>2
      <4> QED BY <2>5, <2>6, <3>2, <4>1
    <3>3. i < k \/ (i = k /\ j < h)
      BY <1>9
    <3> QED BY <3>1, <3>2, <3>3
  <2> QED BY <2>5, <2>6, <2>7
<1> QED BY <1>2, <1>8, <1>9 DEF StrAllIn

-----------------------------------------------------------------------------
(* What the user sees. *)

\* While the run is at work, nothing of what was said is lost or shown twice.
LEMMA StrWholeLosesNothing ==
    ASSUME StrShape, StrWhole PROVE StrNothingLost
<1> SUFFICES ASSUME strRun = "active" PROVE StrAllIn(StrParts, strCount)
  BY DEF StrNothingLost, StrAllIn
<1>1. PICK a \in Nat, s \in Nat, c \in Nat, m \in Nat : StrFollows(a, s, c, m)
  BY DEF StrWhole
<1>2. strWire \in Seq(StrEventType) /\ strBubbles \in Seq(Seq(Nat)) /\ strCount \in Nat
  BY DEF StrShape
<1>3. c <= strCount /\ strPending = StrChars(c, strCount)
  BY <1>1 DEF StrFollows
<1>4. PICK f \in [Nat -> Nat] : StrSpread(strBubbles, f, 0, a)
  BY <1>1 DEF StrFollows, StrShownAs
<1>5. PICK texts : texts = StrTexts(strWire)
  OBVIOUS
<1>6. StrPath(strWire, a, s, c, m)
  BY <1>1 DEF StrFollows
<1>7. texts \in Seq(Seq(Nat))
  BY <1>2, <1>5, <1>6, StrWireShares
<1>8. PICK g \in [Nat -> Nat] : StrSpread(texts, g, a, c)
  BY <1>2, <1>5, <1>6, StrWireShares
<1>9. PICK last : last = <<strPending>>
  OBVIOUS
<1>10. last = <<StrChars(c, strCount)>>
  BY <1>3, <1>9
<1>11. last \in Seq(Seq(Nat))
  BY <1>2, <1>3, <1>10, StrSingle
<1>12. PICK h \in [Nat -> Nat] : StrSpread(last, h, c, strCount)
  BY <1>2, <1>3, <1>10, StrSingle
<1>13. PICK zero : zero = 0
  OBVIOUS
<1>14. StrSpread(strBubbles, f, zero, a)
  BY <1>4, <1>13
<1>15. PICK two : two = strBubbles \o texts
  OBVIOUS
<1>16. StrStretch(strBubbles, texts, two, f, g, zero, c)
  BY <1>2, <1>7, <1>8, <1>14, <1>15, StrCutTwice
<1>17. PICK k \in [Nat -> Nat] : StrSpread(two, k, zero, c)
  BY <1>16 DEF StrStretch
<1>18. two \in Seq(Seq(Nat))
  BY <1>16 DEF StrStretch
<1>19. PICK all : all = two \o last
  OBVIOUS
<1>20. StrStretch(two, last, all, k, h, zero, strCount)
  BY <1>11, <1>12, <1>17, <1>18, <1>19, StrCutTwice
<1>21. PICK e \in [Nat -> Nat] : StrSpread(all, e, zero, strCount)
  BY <1>20 DEF StrStretch
<1>22. all \in Seq(Seq(Nat))
  BY <1>20 DEF StrStretch
<1>23. StrAllIn(all, strCount)
  BY <1>2, <1>13, <1>21, <1>22, StrSharedOut
<1>24. StrParts = all
  BY <1>5, <1>9, <1>15, <1>19 DEF StrParts, StrTexts
<1> QED BY <1>23, <1>24

-----------------------------------------------------------------------------
(* The steps of the agent host. *)

\* What the agent host leaves alone.
StrMainRests == UNCHANGED <<strRun, strBubbles, strOpen, strKept>>
LEMMA StrAgentSteps ==
    ASSUME StrInv, StrMainRests, StrShape',
           NEW a \in Nat, NEW s \in Nat, NEW c \in Nat, NEW m \in Nat, NEW c2 \in Nat, NEW m2 \in Nat,
           StrFollows(a, s, c, m), StrPath(strWire', a, s, c2, m2), c2 <= strCount', m2 <= c2,
           strPending' = StrChars(c2, strCount'), strSaid' = StrChars(m2, strCount')
    PROVE  StrInv'
<1>0. strRun' = strRun /\ strBubbles' = strBubbles /\ strOpen' = strOpen /\ strKept' = strKept
  BY DEF StrMainRests
<1>1. StrFollows(a, s, c2, m2)'
  BY <1>0 DEF StrFollows
<1>2. StrWhole'
  BY <1>1 DEF StrWhole
<1>3. StrBubbleWhole' /\ StrKeptApart'
  BY <1>0 DEF StrInv, StrBubbleWhole, StrKeptApart
<1> QED BY <1>2, <1>3 DEF StrInv

\* A run that is not at work needs its shape only.
LEMMA StrAgentRests ==
    ASSUME StrInv, StrMainRests, StrShape', strRun # "active" PROVE StrInv'
<1>0. strRun' = strRun /\ strBubbles' = strBubbles /\ strOpen' = strOpen /\ strKept' = strKept
  BY DEF StrMainRests
<1> QED BY <1>0 DEF StrInv, StrWhole, StrBubbleWhole, StrKeptApart

\* An event that carries no text.
LEMMA StrEventKnown ==
    ASSUME NEW kind \in {"tool.started", "tool.finished", "agent.completed", "agent.failed"},
           NEW x, x = StrEvent(kind, <<>>)
    PROVE  x \in StrEventType /\ \A c \in Nat : \A m \in Nat : m <= c => StrLink(x, c, m, c, m)
<1>1. x = [kind |-> kind, text |-> <<>>]
  BY DEF StrEvent
<1>2. PICK t : t = <<>>
  OBVIOUS
<1>3. t \in Seq(Nat)
  BY <1>2
<1>4. x \in StrEventType /\ x.kind = kind
  <2>1. x = [kind |-> kind, text |-> t] /\ kind \in {"text.delta", "message.assistant", "tool.started", "tool.finished", "agent.completed", "agent.failed"}
    BY <1>1, <1>2
  <2> QED BY <1>3, <2>1 DEF StrEventType
<1> QED BY <1>4 DEF StrLink

LEMMA StrToolSteps ==
    ASSUME StrInv, StrToolStarts \/ StrToolEnds PROVE StrInv'
<1>1. PICK k \in {"tool.started", "tool.finished"} : strWire' = Append(strWire, StrEvent(k, <<>>))
  BY DEF StrToolStarts, StrToolEnds
<1>2. UNCHANGED <<strSaid, strCount, strPending, strRun, strBubbles, strOpen, strKept>>
  BY DEF StrToolStarts, StrToolEnds
<1>3. PICK x : x = StrEvent(k, <<>>)
  OBVIOUS
<1>4. x \in StrEventType /\ \A c \in Nat : \A m \in Nat : m <= c => StrLink(x, c, m, c, m)
  BY <1>3, StrEventKnown
<1>5. strWire \in Seq(StrEventType) /\ strWire' = Append(strWire, x)
  BY <1>1, <1>3 DEF StrInv, StrShape
<1>6. strWire' \in Seq(StrEventType)
  BY <1>4, <1>5
<1>7. StrShape'
  BY <1>2, <1>6 DEF StrInv, StrShape
<1>8. StrMainRests
  BY <1>2 DEF StrMainRests
<1>9. CASE strRun = "active"
  <2>1. PICK a \in Nat, s \in Nat, c \in Nat, m \in Nat : StrFollows(a, s, c, m)
    BY <1>9 DEF StrInv, StrWhole
  <2>2. StrPath(strWire, a, s, c, m) /\ m <= c /\ c <= strCount /\ strPending = StrChars(c, strCount)
        /\ strSaid = StrChars(m, strCount)
    BY <2>1 DEF StrFollows
  <2>3. PICK w : w = strWire'
    OBVIOUS
  <2>4. StrPath(w, a, s, c, m)
    <3>1. StrLink(x, c, m, c, m)
      BY <1>4, <2>2
    <3> QED BY <1>4, <1>5, <2>2, <2>3, <3>1, StrPathGrows
  <2> QED BY <1>2, <1>7, <1>8, <2>1, <2>2, <2>3, <2>4, StrAgentSteps
<1>10. CASE strRun # "active"
  BY <1>7, <1>8, <1>10, StrAgentRests
<1> QED BY <1>9, <1>10

\* The buffer is emptied, and an event is sent after it.
LEMMA StrFlushes ==
    ASSUME StrInv, NEW a, NEW s, NEW c \in Nat, NEW m \in Nat, m <= c, StrPath(strWire, a, s, c, m),
           c <= strCount, strPending = StrChars(c, strCount),
           NEW w, w = strWire \o StrText(strPending)
    PROVE  w \in Seq(StrEventType) /\ StrPath(w, a, s, strCount, m)
<1>1. strWire \in Seq(StrEventType) /\ strCount \in Nat
  BY DEF StrInv, StrShape
<1> QED BY <1>1, StrFlushed

LEMMA StrNoChars ==
    ASSUME NEW n \in Nat PROVE <<>> = StrChars(n, n) /\ n <= n
  BY StrCharsNone

LEMMA StrTexted ==
    ASSUME NEW t \in Seq(Nat) PROVE StrText(t) \in Seq(StrEventType)
<1>1. CASE t = <<>>
  BY <1>1 DEF StrText
<1>2. CASE t # <<>>
  <2>1. PICK x : x = StrEvent("text.delta", t)
    OBVIOUS
  <2>2. x = [kind |-> "text.delta", text |-> t]
    BY <2>1 DEF StrEvent
  <2>3. x \in StrEventType
    BY <2>2 DEF StrEventType
  <2> QED BY <1>2, <2>1, <2>3 DEF StrText
<1> QED BY <1>1, <1>2

LEMMA StrTimerSteps ==
    ASSUME StrInv, StrTimerFires PROVE StrInv'
<1>1. /\ strWire' = strWire \o StrText(strPending) \o <<>> /\ strPending' = <<>>
      /\ UNCHANGED <<strSaid, strCount, strRun, strBubbles, strOpen, strKept>>
  BY DEF StrTimerFires, StrFlush, StrEmptied
<1>2. PICK w : w = strWire \o StrText(strPending)
  OBVIOUS
<1>3. strWire \in Seq(StrEventType) /\ strPending \in Seq(Nat) /\ strCount \in Nat
  BY DEF StrInv, StrShape
<1>4. w \in Seq(StrEventType)
  BY <1>2, <1>3, StrTexted
<1>5. strWire' = w
  BY <1>1, <1>2, <1>4, StrOne
<1>6. StrShape'
  <2>1. strWire' \in Seq(StrEventType) /\ strPending' \in Seq(Nat)
    <3>1. <<>> \in Seq(Nat)
      OBVIOUS
    <3> QED BY <1>1, <1>4, <1>5, <3>1
  <2> QED BY <1>1, <2>1 DEF StrInv, StrShape
<1>7. StrMainRests
  BY <1>1 DEF StrMainRests
<1>8. CASE strRun = "active"
  <2>1. PICK a \in Nat, s \in Nat, c \in Nat, m \in Nat : StrFollows(a, s, c, m)
    BY <1>8 DEF StrInv, StrWhole
  <2>2. StrPath(strWire, a, s, c, m) /\ m <= c /\ c <= strCount /\ strPending = StrChars(c, strCount)
        /\ strSaid = StrChars(m, strCount)
    BY <2>1 DEF StrFollows
  <2>3. StrPath(w, a, s, strCount, m)
    BY <1>2, <2>2, StrFlushes
  <2>4. PICK n : n = strCount
    OBVIOUS
  <2>5. n \in Nat /\ m <= n
    BY <1>3, <2>2, <2>4
  <2>6. strPending' = StrChars(n, strCount') /\ n <= strCount' /\ strSaid' = StrChars(m, strCount')
    BY <1>1, <2>2, <2>4, <2>5, StrNoChars
  <2> QED BY <1>5, <1>6, <1>7, <2>1, <2>3, <2>4, <2>5, <2>6, StrAgentSteps
<1>9. CASE strRun # "active"
  BY <1>6, <1>7, <1>9, StrAgentRests
<1> QED BY <1>8, <1>9

\* The message that ends carries all that was said in it.
LEMMA StrMessageKnown ==
    ASSUME NEW m \in Nat, NEW n \in Nat, m <= n, NEW x, x = StrEvent("message.assistant", StrChars(m, n))
    PROVE  x \in StrEventType /\ StrLink(x, n, m, n, n)
<1>1. PICK t : t = StrChars(m, n)
  OBVIOUS
<1>2. t \in Seq(Nat)
  BY <1>1, StrCharsAre
<1>3. x = [kind |-> "message.assistant", text |-> t]
  BY <1>1 DEF StrEvent
<1>4. x \in StrEventType /\ x.kind = "message.assistant" /\ x.text = t
  BY <1>2, <1>3 DEF StrEventType
<1> QED BY <1>1, <1>4 DEF StrLink

LEMMA StrMessageSteps ==
    ASSUME StrInv, StrMessageEnds PROVE StrInv'
<1>1. /\ strWire' = strWire \o StrText(strPending) \o <<StrEvent("message.assistant", strSaid)>> /\ strPending' = <<>>
      /\ strSaid' = <<>> /\ UNCHANGED <<strCount, strRun, strBubbles, strOpen, strKept>>
  BY DEF StrMessageEnds, StrFlush, StrEmptied
<1>2. PICK w : w = strWire \o StrText(strPending)
  OBVIOUS
<1>3. strWire \in Seq(StrEventType) /\ strPending \in Seq(Nat) /\ strCount \in Nat /\ strSaid \in Seq(Nat)
  BY DEF StrInv, StrShape
<1>4. w \in Seq(StrEventType)
  BY <1>2, <1>3, StrTexted
<1>5. PICK x : x = StrEvent("message.assistant", strSaid)
  OBVIOUS
<1>6. x \in StrEventType
  <2>1. x = [kind |-> "message.assistant", text |-> strSaid]
    BY <1>5 DEF StrEvent
  <2> QED BY <1>3, <2>1 DEF StrEventType
<1>7. strWire' = Append(w, x)
  BY <1>1, <1>2, <1>4, <1>5, <1>6, StrOne
<1>8. strWire' \in Seq(StrEventType)
  BY <1>4, <1>6, <1>7
<1>9. StrShape'
  <2>1. strWire' \in Seq(StrEventType) /\ strPending' \in Seq(Nat) /\ strSaid' \in Seq(Nat)
    BY <1>1, <1>3, <1>8
  <2> QED BY <1>1, <2>1 DEF StrInv, StrShape
<1>10. StrMainRests
  BY <1>1 DEF StrMainRests
<1>11. CASE strRun = "active"
  <2>1. PICK a \in Nat, s \in Nat, c \in Nat, m \in Nat : StrFollows(a, s, c, m)
    BY <1>11 DEF StrInv, StrWhole
  <2>2. StrPath(strWire, a, s, c, m) /\ m <= c /\ c <= strCount /\ strPending = StrChars(c, strCount)
        /\ strSaid = StrChars(m, strCount)
    BY <2>1 DEF StrFollows
  <2>3. PICK n : n = strCount
    OBVIOUS
  <2>4. n \in Nat /\ m <= n
    BY <1>3, <2>2, <2>3
  <2>5. StrPath(w, a, s, n, m)
    BY <1>2, <2>2, <2>3, StrFlushes
  <2>6. StrLink(x, n, m, n, n)
    BY <1>5, <2>2, <2>3, <2>4, StrMessageKnown
  <2>7. PICK v : v = strWire'
    OBVIOUS
  <2>8. StrPath(v, a, s, n, n)
    BY <1>4, <1>6, <1>7, <2>4, <2>5, <2>6, <2>7, StrPathGrows
  <2>9. strPending' = StrChars(n, strCount') /\ n <= strCount' /\ strSaid' = StrChars(n, strCount')
    BY <1>1, <2>3, <2>4, StrNoChars
  <2>10. n <= n
    BY <2>4
  <2> QED BY <1>9, <1>10, <2>1, <2>4, <2>7, <2>8, <2>9, <2>10, StrAgentSteps
<1>12. CASE strRun # "active"
  BY <1>9, <1>10, <1>12, StrAgentRests
<1> QED BY <1>11, <1>12

LEMMA StrEndSteps ==
    ASSUME StrInv, NEW k \in {"agent.completed", "agent.failed"}, StrEnds(k) PROVE StrInv'
<1>1. /\ strWire' = Append(strWire, StrEvent(k, <<>>)) \o StrText(strPending) /\ strPending' = <<>>
      /\ UNCHANGED <<strSaid, strCount, strRun, strBubbles, strOpen, strKept>>
  BY DEF StrEnds
<1>2. PICK x : x = StrEvent(k, <<>>)
  OBVIOUS
<1>3. x \in StrEventType /\ \A c \in Nat : \A m \in Nat : m <= c => StrLink(x, c, m, c, m)
  BY <1>2, StrEventKnown
<1>4. strWire \in Seq(StrEventType) /\ strPending \in Seq(Nat) /\ strCount \in Nat
  BY DEF StrInv, StrShape
<1>5. PICK w : w = Append(strWire, x)
  OBVIOUS
<1>6. w \in Seq(StrEventType)
  BY <1>3, <1>4, <1>5
<1>7. strWire' = w \o StrText(strPending)
  BY <1>1, <1>2, <1>5
<1>8. strWire' \in Seq(StrEventType)
  <2>1. PICK t : t = StrText(strPending)
    OBVIOUS
  <2>2. t \in Seq(StrEventType)
    BY <1>4, <2>1, StrTexted
  <2> QED BY <1>6, <1>7, <2>1, <2>2
<1>9. StrShape'
  <2>1. strWire' \in Seq(StrEventType) /\ strPending' \in Seq(Nat) /\ strSaid' \in Seq(Nat)
    BY <1>1, <1>8 DEF StrInv, StrShape
  <2> QED BY <1>1, <2>1 DEF StrInv, StrShape
<1>10. StrMainRests
  BY <1>1 DEF StrMainRests
<1>11. CASE strRun = "active"
  <2>1. PICK a \in Nat, s \in Nat, c \in Nat, m \in Nat : StrFollows(a, s, c, m)
    BY <1>11 DEF StrInv, StrWhole
  <2>2. StrPath(strWire, a, s, c, m) /\ m <= c /\ c <= strCount /\ strPending = StrChars(c, strCount)
        /\ strSaid = StrChars(m, strCount)
    BY <2>1 DEF StrFollows
  <2>3. PICK n : n = strCount
    OBVIOUS
  <2>4. n \in Nat /\ m <= n
    BY <1>4, <2>2, <2>3
  <2>5. StrPath(w, a, s, c, m)
    <3>1. StrLink(x, c, m, c, m)
      BY <1>3, <2>2
    <3> QED BY <1>3, <1>4, <1>5, <2>2, <3>1, StrPathGrows
  <2>6. PICK v : v = w \o StrText(StrChars(c, n))
    OBVIOUS
  <2>7. StrPath(v, a, s, n, m)
    BY <1>6, <2>2, <2>3, <2>4, <2>5, <2>6, StrFlushed
  <2>8. strWire' = v
    BY <1>7, <2>2, <2>3, <2>6
  <2>9. strPending' = StrChars(n, strCount') /\ n <= strCount' /\ strSaid' = StrChars(m, strCount')
    BY <1>1, <2>2, <2>3, <2>4, StrNoChars
  <2> QED BY <1>9, <1>10, <2>1, <2>4, <2>7, <2>8, <2>9, StrAgentSteps
<1>12. CASE strRun # "active"
  BY <1>9, <1>10, <1>12, StrAgentRests
<1> QED BY <1>11, <1>12

\* What is said next continues what was said.
LEMMA StrPieceIs ==
    ASSUME NEW n \in Nat, NEW c \in Nat, NEW d, d = c + n
    PROVE  [i \in 1 .. n |-> c + i] = StrChars(c, d) /\ d \in Nat /\ c <= d
<1>1. d \in Nat /\ c <= d /\ d - c = n
  OBVIOUS
<1> QED BY <1>1 DEF StrChars

LEMMA StrDeltaSteps ==
    ASSUME StrInv, NEW n \in StrPieces, StrDelta(n) PROVE StrInv'
<1>1. PICK d : d = strCount + n
  OBVIOUS
<1>2. PICK piece : piece = [i \in 1 .. n |-> strCount + i]
  OBVIOUS
<1>3. StrPush(strPending, piece) /\ strSaid' = strSaid \o piece /\ strCount' = d
      /\ UNCHANGED <<strRun, strBubbles, strOpen, strKept>>
  BY <1>1, <1>2 DEF StrDelta
<1>4. strWire \in Seq(StrEventType) /\ strPending \in Seq(Nat) /\ strCount \in Nat /\ strSaid \in Seq(Nat)
  BY DEF StrInv, StrShape
<1>5. n \in Nat
  BY StrAssumption
<1>6. piece = StrChars(strCount, d) /\ d \in Nat /\ strCount <= d
  BY <1>1, <1>2, <1>4, <1>5, StrPieceIs
<1>7. piece \in Seq(Nat)
  BY <1>4, <1>6, StrCharsAre
<1>8. PICK held : held = strPending \o piece
  OBVIOUS
<1>9. held \in Seq(Nat)
  BY <1>4, <1>7, <1>8
<1>10. \/ strWire' = strWire \o StrText(held) /\ strPending' = <<>>
       \/ strWire' = strWire /\ strPending' = held
  BY <1>3, <1>8 DEF StrPush
<1>11. StrShape'
  <2>1. strPending' \in Seq(Nat)
    <3>1. <<>> \in Seq(Nat)
      OBVIOUS
    <3> QED BY <1>9, <1>10, <3>1
  <2>2. strWire' \in Seq(StrEventType)
    <3>1. PICK t : t = StrText(held)
      OBVIOUS
    <3>2. t \in Seq(StrEventType)
      BY <1>9, <3>1, StrTexted
    <3>3. strWire \o t \in Seq(StrEventType)
      BY <1>4, <3>2
    <3> QED BY <1>4, <1>10, <3>1, <3>3
  <2>3. strSaid' \in Seq(Nat)
    BY <1>3, <1>4, <1>7
  <2> QED BY <1>3, <1>6, <2>1, <2>2, <2>3 DEF StrInv, StrShape
<1>12. StrMainRests
  BY <1>3 DEF StrMainRests
<1>13. CASE strRun = "active"
  <2>1. PICK a \in Nat, s \in Nat, c \in Nat, m \in Nat : StrFollows(a, s, c, m)
    BY <1>13 DEF StrInv, StrWhole
  <2>2. StrPath(strWire, a, s, c, m) /\ m <= c /\ c <= strCount /\ strPending = StrChars(c, strCount)
        /\ strSaid = StrChars(m, strCount)
    BY <2>1 DEF StrFollows
  <2>3. PICK k : k = strCount
    OBVIOUS
  <2>4. k \in Nat /\ m <= c /\ c <= k /\ m <= k /\ k <= d /\ c <= d
    <3>1. k \in Nat /\ m <= c /\ c <= k /\ k <= d
      BY <1>4, <1>6, <2>2, <2>3
    <3> QED BY <1>6, <3>1
  <2>5. held = StrChars(c, d)
    BY <1>6, <1>8, <2>2, <2>3, <2>4, StrCharsJoin
  <2>6. strSaid' = StrChars(m, d)
    BY <1>3, <1>6, <2>2, <2>3, <2>4, StrCharsJoin
  <2>7. CASE strWire' = strWire \o StrText(held) /\ strPending' = <<>>
    <3>1. PICK w : w = strWire \o StrText(StrChars(c, d))
      OBVIOUS
    <3>2. StrPath(w, a, s, d, m)
      BY <1>4, <1>6, <2>2, <2>4, <3>1, StrFlushed
    <3>3. strWire' = w
      BY <2>5, <2>7, <3>1
    <3>4. strPending' = StrChars(d, strCount') /\ d <= strCount' /\ m <= d
      <4>1. m <= d
        BY <1>6, <2>4
      <4> QED BY <1>3, <1>6, <2>7, <4>1, StrNoChars
    <3> QED BY <1>3, <1>6, <1>11, <1>12, <2>1, <2>6, <3>2, <3>3, <3>4, StrAgentSteps
  <2>8. CASE strWire' = strWire /\ strPending' = held
    BY <1>3, <1>11, <1>12, <2>1, <2>2, <2>4, <2>5, <2>6, <2>8, StrAgentSteps
  <2> QED BY <1>10, <2>7, <2>8
<1>14. CASE strRun # "active"
  BY <1>11, <1>12, <1>14, StrAgentRests
<1> QED BY <1>13, <1>14

-----------------------------------------------------------------------------
(* The steps of Main. *)

StrHostRests == UNCHANGED <<strSaid, strCount, strPending>>
LEMMA StrMainSteps ==
    ASSUME StrInv, StrHostRests, StrShape', strRun' = "active" => strRun = "active",
           NEW a2 \in Nat, NEW s2 \in Nat, NEW a \in Nat, NEW s \in Nat, NEW c \in Nat, NEW m \in Nat,
           StrFollows(a, s, c, m), StrPath(strWire', a2, s2, c, m), s2 <= a2, StrShownAs(strBubbles', strOpen', a2, s2),
           StrBubbleWhole', StrKeptApart'
    PROVE  StrInv'
<1>0. strSaid' = strSaid /\ strCount' = strCount /\ strPending' = strPending
  BY DEF StrHostRests
<1>1. StrFollows(a2, s2, c, m)'
  BY <1>0 DEF StrFollows
<1>2. StrWhole'
  BY <1>1 DEF StrWhole
<1> QED BY <1>2 DEF StrInv

StrAtWork(x, w2, a, s, b, t, c, m) ==
    /\ x \in StrEventType /\ x = Head(strWire) /\ w2 = strWire' /\ StrFollows(a, s, c, m)
    /\ StrLink(x, a, s, b, t) /\ StrPath(w2, b, t, c, m)
LEMMA StrMainHears ==
    ASSUME StrInv, strRun = "active", strWire # <<>>, strWire' = Tail(strWire)
    PROVE  \E a \in Nat : \E s \in Nat : \E c \in Nat : \E m \in Nat : \E b \in Nat : \E t \in Nat : \E x \in StrEventType :
              \E w2 \in Seq(StrEventType) :
              StrAtWork(x, w2, a, s, b, t, c, m)
<1>1. PICK a \in Nat, s \in Nat, c \in Nat, m \in Nat : StrFollows(a, s, c, m)
  BY DEF StrInv, StrWhole
<1>2. strWire \in Seq(StrEventType) /\ StrPath(strWire, a, s, c, m)
  BY <1>1 DEF StrInv, StrShape, StrFollows
<1>3. PICK w2 : w2 = Tail(strWire)
  OBVIOUS
<1>4. PICK x : x = strWire[1]
  OBVIOUS
<1>5. Head(strWire) = x /\ x \in StrEventType
  BY <1>2, <1>3, <1>4, StrPathGoes
<1>6. PICK b \in Nat, t \in Nat : StrLink(x, a, s, b, t) /\ StrPath(w2, b, t, c, m)
  BY <1>2, <1>3, <1>4, StrPathGoes
<1>7. StrAtWork(x, w2, a, s, b, t, c, m)
  BY <1>1, <1>3, <1>5, <1>6 DEF StrAtWork
<1>8. w2 \in Seq(StrEventType)
  BY <1>2, <1>3
<1> QED BY <1>5, <1>6, <1>7, <1>8

LEMMA StrTailTyped ==
    ASSUME StrInv, strWire # <<>>, strWire' = Tail(strWire) PROVE strWire' \in Seq(StrEventType)
  BY DEF StrInv, StrShape

LEMMA StrMainPasses ==
    ASSUME StrInv, StrMain, strRun # "active" \/ Head(strWire).kind \in {"tool.started", "tool.finished"} PROVE StrInv'
<1>1. strWire # <<>> /\ strWire' = Tail(strWire) /\ UNCHANGED <<strRun, strBubbles, strOpen, strKept>>
      /\ UNCHANGED <<strSaid, strCount, strPending>>
  BY DEF StrMain
<1>2. StrMainRests /\ StrHostRests
  BY <1>1 DEF StrMainRests, StrHostRests
<1>3. StrShape'
  <2>1. strWire' \in Seq(StrEventType)
    BY <1>1, StrTailTyped
  <2> QED BY <1>1, <2>1 DEF StrInv, StrShape
<1>4. CASE strRun # "active"
  BY <1>2, <1>3, <1>4, StrAgentRests
<1>5. CASE strRun = "active"
  <2>1. PICK a \in Nat, s \in Nat, c \in Nat, m \in Nat, b \in Nat, t \in Nat, x \in StrEventType, w2 \in Seq(StrEventType) :
            StrAtWork(x, w2, a, s, b, t, c, m)
    BY <1>1, <1>5, StrMainHears
  <2>2. x.kind \in {"tool.started", "tool.finished"} /\ StrLink(x, a, s, b, t)
    BY <1>5, <2>1 DEF StrAtWork
  <2>3. b = a /\ t = s
    BY <2>2 DEF StrLink
  <2>4. w2 = strWire' /\ StrPath(w2, a, s, c, m) /\ StrFollows(a, s, c, m)
    BY <2>1, <2>3 DEF StrAtWork
  <2>5. c <= strCount' /\ m <= c /\ strPending' = StrChars(c, strCount') /\ strSaid' = StrChars(m, strCount')
    BY <1>1, <2>4 DEF StrFollows
  <2> QED BY <1>2, <1>3, <2>4, <2>5, StrAgentSteps
<1> QED BY <1>4, <1>5

StrStays == strWire' \in Seq(StrEventType) /\ strCount' \in Nat /\ strPending' \in Seq(Nat) /\ strSaid' \in Seq(Nat)

LEMMA StrMainShows ==
    ASSUME StrInv, strRun = "active", strWire # <<>>, strWire' = Tail(strWire), StrMainText(Head(strWire)), StrHostRests, StrStays
    PROVE  StrInv'
<1>1. PICK a \in Nat, s \in Nat, c \in Nat, m \in Nat, b \in Nat, t \in Nat, x \in StrEventType, w2 \in Seq(StrEventType) :
          StrAtWork(x, w2, a, s, b, t, c, m)
  BY StrMainHears
<1>2. x = Head(strWire) /\ w2 = strWire' /\ StrFollows(a, s, c, m) /\ StrLink(x, a, s, b, t) /\ StrPath(w2, b, t, c, m)
  BY <1>1 DEF StrAtWork
<1>3. x.kind = "text.delta"
  BY <1>2 DEF StrMainText
<1>4. a < b /\ x.text = StrChars(a, b) /\ t = s /\ t <= b
  BY <1>2, <1>3 DEF StrLink
<1>5. PICK said : said = StrChars(a, b)
  OBVIOUS
<1>6. PICK new : new = strBubbles'
  OBVIOUS
<1>7. new = IF strOpen THEN [strBubbles EXCEPT ![Len(strBubbles)] = @ \o said] ELSE Append(strBubbles, said)
  BY <1>2, <1>4, <1>5, <1>6 DEF StrMainText
<1>8. strOpen' = TRUE /\ strRun' = strRun /\ strKept' = strKept
  BY DEF StrMainText
<1>9. /\ strBubbles \in Seq(Seq(Nat)) /\ strOpen \in BOOLEAN /\ StrBubbleWhole /\ StrKeptApart
      /\ strKept \in Seq([text : Seq(Nat), bubble : Nat])
  BY DEF StrInv, StrShape
<1>10. StrShownAs(strBubbles, strOpen, a, s)
  BY <1>2 DEF StrFollows
<1>11. \A i \in DOMAIN strKept : strKept[i].bubble \in DOMAIN strBubbles /\ strBubbles[strKept[i].bubble] = strKept[i].text
  BY <1>9 DEF StrBubbleWhole
<1>12. /\ new \in Seq(Seq(Nat)) /\ StrShownAs(new, TRUE, b, s)
       /\ \A i \in DOMAIN strKept : strKept[i].bubble \in DOMAIN new /\ strKept[i].bubble < Len(new)
                                    /\ new[strKept[i].bubble] = strKept[i].text
  <2>1. CASE strOpen
    <3>1. StrShownAs(strBubbles, TRUE, a, s)
      BY <1>9, <1>10, <2>1
    <3>2. new = [strBubbles EXCEPT ![Len(strBubbles)] = @ \o StrChars(a, b)]
      BY <1>5, <1>7, <2>1
    <3>3. StrLonger(strBubbles, new)
      BY <1>4, <1>9, <3>1, <3>2, StrBubbleGrows
    <3>4. StrShownAs(new, TRUE, b, s)
      BY <1>4, <1>9, <3>1, <3>2, StrBubbleGrows
    <3>5. Len(new) = Len(strBubbles)
      BY <1>4, <1>9, <3>1, <3>2, StrBubbleGrows
    <3>6. \A i \in DOMAIN strKept : strKept[i].bubble < Len(new)
      BY <1>9, <2>1, <3>5 DEF StrKeptApart
    <3> QED BY <1>11, <3>3, <3>4, <3>6 DEF StrLonger
  <2>2. CASE ~strOpen
    <3>1. StrShownAs(strBubbles, FALSE, a, s)
      BY <1>9, <1>10, <2>2
    <3>2. new = Append(strBubbles, StrChars(a, b))
      BY <1>5, <1>7, <2>2
    <3>3. StrLonger(strBubbles, new) /\ StrShownAs(new, TRUE, b, s)
      BY <1>4, <1>9, <3>1, <3>2, StrBubbleBegins
    <3>4. \A i \in DOMAIN strBubbles : i < Len(new)
      BY <1>4, <1>9, <3>1, <3>2, StrBubbleBegins
    <3> QED BY <1>11, <3>3, <3>4 DEF StrLonger
  <2> QED BY <2>1, <2>2
<1>13. StrShape'
  BY <1>6, <1>8, <1>9, <1>12 DEF StrShape, StrStays
<1>14. StrBubbleWhole' /\ StrKeptApart'
  BY <1>6, <1>8, <1>12 DEF StrBubbleWhole, StrKeptApart
<1>15. StrShownAs(strBubbles', strOpen', b, t)
  BY <1>4, <1>6, <1>8, <1>12
<1>16. StrPath(strWire', b, t, c, m)
  BY <1>2
<1> QED BY <1>2, <1>4, <1>13, <1>14, <1>15, <1>16, StrMainSteps

LEMMA StrMainKeeps ==
    ASSUME StrInv, strRun = "active", strWire # <<>>, strWire' = Tail(strWire), StrMainMessage(Head(strWire)), StrHostRests, StrStays
    PROVE  StrInv'
<1>1. PICK a \in Nat, s \in Nat, c \in Nat, m \in Nat, b \in Nat, t \in Nat, x \in StrEventType, w2 \in Seq(StrEventType) :
          StrAtWork(x, w2, a, s, b, t, c, m)
  BY StrMainHears
<1>2. /\ x = Head(strWire) /\ w2 = strWire' /\ StrFollows(a, s, c, m) /\ StrLink(x, a, s, b, t) /\ StrPath(w2, b, t, c, m)
      /\ x \in StrEventType
  BY <1>1 DEF StrAtWork
<1>3. x.kind = "message.assistant"
  BY <1>2 DEF StrMainMessage
<1>4. x.text = StrChars(s, a) /\ b = a /\ t = a /\ s <= a
  BY <1>2, <1>3 DEF StrLink
<1>5. PICK said : said = x.text
  OBVIOUS
<1>6. said \in Seq(Nat)
  BY <1>2, <1>5 DEF StrEventType
<1>7. PICK l : l = Len(strBubbles)
  OBVIOUS
<1>8. PICK row : row = [text |-> said, bubble |-> l]
  OBVIOUS
<1>9. /\ strKept' = (IF said = <<>> THEN strKept ELSE Append(strKept, row))
      /\ strOpen' = FALSE /\ strRun' = strRun /\ strBubbles' = strBubbles
  BY <1>2, <1>5, <1>7, <1>8 DEF StrMainMessage, StrCloses
<1>10. /\ strBubbles \in Seq(Seq(Nat)) /\ strOpen \in BOOLEAN /\ StrBubbleWhole
       /\ strKept \in Seq([text : Seq(Nat), bubble : Nat])
  BY DEF StrInv, StrShape
<1>11. StrShownAs(strBubbles, strOpen, a, s)
  BY <1>2 DEF StrFollows
<1>12. row \in [text : Seq(Nat), bubble : Nat] /\ row.text = said /\ row.bubble = l
  <2>1. l \in Nat
    BY <1>7, <1>10
  <2> QED BY <1>6, <1>8, <2>1
<1>13. said # <<>> => l \in DOMAIN strBubbles /\ strBubbles[l] = said
  BY <1>4, <1>5, <1>7, <1>10, <1>11, StrBubbleReads
<1>14. strKept' \in Seq([text : Seq(Nat), bubble : Nat])
  <2>1. PICK R : R = [text : Seq(Nat), bubble : Nat]
    OBVIOUS
  <2>2. strKept \in Seq(R) /\ row \in R
    BY <1>10, <1>12, <2>1
  <2>3. Append(strKept, row) \in Seq(R)
    BY <2>2
  <2> QED BY <1>9, <2>1, <2>2, <2>3
<1>15. StrShape'
  BY <1>9, <1>10, <1>14 DEF StrShape, StrStays
<1>16. StrBubbleWhole'
  <2>1. \A i \in DOMAIN strKept : strKept[i].bubble \in DOMAIN strBubbles /\ strBubbles[strKept[i].bubble] = strKept[i].text
    BY <1>10 DEF StrBubbleWhole
  <2>2. CASE said = <<>>
    BY <1>9, <2>1, <2>2 DEF StrBubbleWhole
  <2>3. CASE said # <<>>
    <3>1. PICK R : R = [text : Seq(Nat), bubble : Nat]
      OBVIOUS
    <3>2. strKept \in Seq(R) /\ row \in R
      BY <1>10, <1>12, <3>1
    <3>3. PICK new : new = strKept'
      OBVIOUS
    <3>4. new = Append(strKept, row)
      BY <1>9, <2>3, <3>3
    <3>5. StrGrown(strKept, row, new)
      BY <3>2, <3>4, StrAppended
    <3>6. new \in Seq(R)
      BY <3>2, <3>4
    <3>7. \A i \in DOMAIN new : new[i] = row \/ (i \in DOMAIN strKept /\ new[i] = strKept[i])
      <4>1. DOMAIN new = 1..Len(new) /\ DOMAIN strKept = 1..Len(strKept)
        BY <3>2, <3>6
      <4>2. StrGrown(strKept, row, new)
        BY <3>5
      <4>3. ASSUME NEW i \in 1..Len(new) PROVE new[i] = row \/ (i \in 1..Len(strKept) /\ new[i] = strKept[i])
        <5>1. i \in 1..Len(strKept) \/ i = Len(strKept) + 1
          BY <4>2 DEF StrGrown
        <5>2. new[Len(strKept) + 1] = row /\ \A j \in 1..Len(strKept) : new[j] = strKept[j]
          BY <4>2 DEF StrGrown
        <5> QED BY <5>1, <5>2
      <4> QED BY <4>1, <4>3
    <3>8. \A i \in DOMAIN new : new[i].bubble \in DOMAIN strBubbles /\ strBubbles[new[i].bubble] = new[i].text
      BY <1>12, <1>13, <2>1, <2>3, <3>7
    <3> QED BY <1>9, <3>3, <3>8 DEF StrBubbleWhole
  <2> QED BY <2>2, <2>3
<1>17. StrKeptApart'
  BY <1>9 DEF StrKeptApart
<1>18. StrShownAs(strBubbles', strOpen', a, a)
  BY <1>9, <1>11, StrBubbleCloses
<1>19. StrPath(strWire', a, a, c, m) /\ a <= a
  BY <1>2, <1>4
<1> QED BY <1>2, <1>9, <1>15, <1>16, <1>17, <1>18, <1>19, StrMainSteps

\* A run that stops being at work: its bubbles and messages stay.
StrRunStops ==
    /\ strRun' # "active" /\ strOpen' = FALSE /\ strBubbles' = strBubbles /\ strKept' = strKept
    /\ StrHostRests /\ StrStays
LEMMA StrStops ==
    ASSUME StrInv, StrRunStops PROVE StrInv'
<1>1. StrShape' /\ StrBubbleWhole'
  BY DEF StrInv, StrShape, StrBubbleWhole, StrRunStops, StrStays
<1> QED BY <1>1 DEF StrInv, StrWhole, StrKeptApart, StrRunStops

LEMMA StrMainActs ==
    ASSUME StrInv, StrMain PROVE StrInv'
<1>1. strWire # <<>> /\ strWire' = Tail(strWire) /\ UNCHANGED <<strSaid, strCount, strPending>>
  BY DEF StrMain
<1>2. StrHostRests
  BY <1>1 DEF StrHostRests
<1>3. StrStays
  <2>1. strWire' \in Seq(StrEventType)
    BY <1>1, StrTailTyped
  <2> QED BY <1>1, <2>1 DEF StrStays, StrInv, StrShape
<1>4. CASE strRun # "active" \/ Head(strWire).kind \in {"tool.started", "tool.finished"}
  BY <1>4, StrMainPasses
<1>5. CASE ~(strRun # "active" \/ Head(strWire).kind \in {"tool.started", "tool.finished"})
  <2>1. StrMainText(Head(strWire)) \/ StrMainMessage(Head(strWire)) \/ StrMainEnd(Head(strWire))
    BY <1>5 DEF StrMain
  <2>2. strRun = "active"
    BY <1>5
  <2>3. CASE StrMainText(Head(strWire))
    BY <1>1, <1>2, <1>3, <2>2, <2>3, StrMainShows
  <2>4. CASE StrMainMessage(Head(strWire))
    BY <1>1, <1>2, <1>3, <2>2, <2>4, StrMainKeeps
  <2>5. CASE StrMainEnd(Head(strWire))
    <3>1. strRun' # "active" /\ strOpen' = FALSE /\ strBubbles' = strBubbles /\ strKept' = strKept
      BY <2>5 DEF StrMainEnd
    <3>2. StrRunStops
      BY <1>2, <1>3, <3>1 DEF StrRunStops
    <3> QED BY <3>2, StrStops
  <2> QED BY <2>1, <2>3, <2>4, <2>5
<1> QED BY <1>4, <1>5

LEMMA StrPauseActs ==
    ASSUME StrInv, StrPauses PROVE StrInv'
<1>1. strRun' # "active" /\ strOpen' = FALSE /\ strBubbles' = strBubbles /\ strKept' = strKept
      /\ UNCHANGED <<strSaid, strCount, strPending, strWire>>
  BY DEF StrPauses
<1>2. StrRunStops
  BY <1>1 DEF StrRunStops, StrHostRests, StrStays, StrInv, StrShape
<1> QED BY <1>2, StrStops

LEMMA StrBegins ==
    ASSUME StrInit PROVE StrInv
<1>1. /\ strCount = 0 /\ strSaid = <<>> /\ strPending = <<>> /\ strWire = <<>> /\ strBubbles = <<>> /\ strKept = <<>>
      /\ strOpen = FALSE
  BY DEF StrInit
<1>2. StrShape
  <2>1. PICK R : R = [text : Seq(Nat), bubble : Nat]
    OBVIOUS
  <2>2. <<>> \in Seq(StrEventType) /\ <<>> \in Seq(Seq(Nat)) /\ <<>> \in Seq(Nat) /\ <<>> \in Seq(R)
    OBVIOUS
  <2> QED BY <1>1, <2>1, <2>2 DEF StrShape
<1>3. StrBubbleWhole /\ StrKeptApart
  BY <1>1 DEF StrBubbleWhole, StrKeptApart
<1>4. PICK f : f = [i \in Nat |-> 0]
  OBVIOUS
<1>5. f \in [Nat -> Nat] /\ \A i \in Nat : f[i] = 0
  BY <1>4
<1>6. Len(strWire) = 0 /\ Len(strBubbles) = 0
  BY <1>1
<1>7. StrSpread(strBubbles, f, 0, 0)
  BY <1>5, <1>6 DEF StrSpread
<1>8. StrShownAs(strBubbles, strOpen, 0, 0)
  BY <1>1, <1>5, <1>7 DEF StrShownAs, StrLastFrom
<1>9. StrLaid(strWire, f, f, 0, 0, 0, 0)
  BY <1>5, <1>6 DEF StrLaid
<1>10. StrPath(strWire, 0, 0, 0, 0)
  BY <1>5, <1>9 DEF StrPath
<1>11. StrFollows(0, 0, 0, 0)
  BY <1>1, <1>8, <1>10, StrNoChars DEF StrFollows
<1>12. StrWhole
  BY <1>11 DEF StrWhole
<1> QED BY <1>2, <1>3, <1>12 DEF StrInv

LEMMA StrRests ==
    ASSUME StrInv, UNCHANGED strVars PROVE StrInv'
<1>1. UNCHANGED <<strSaid, strCount, strPending, strWire, strRun, strBubbles, strOpen, strKept>>
  BY DEF strVars
<1>2. StrShape' /\ StrBubbleWhole' /\ StrKeptApart'
  BY <1>1 DEF StrInv, StrShape, StrBubbleWhole, StrKeptApart
<1>3. StrWhole'
  BY <1>1 DEF StrInv, StrWhole, StrFollows
<1> QED BY <1>2, <1>3 DEF StrInv

\* What the model says reaches the user whole, in order and once, and every stored message reads
\* as the bubble it streamed in: whatever the lengths of the pieces and the size of the buffer,
\* and wherever the timer, a tool, the end of the run or a pause falls between them
\* (TextDeltaBuffer, EventBuffer and RunCoordinator.handleAgentEvent).
THEOREM TextArrivesWhole == StrSpec => []StrTextWhole
<1>1. StrInit => StrInv
  BY StrBegins
<1>2. StrInv /\ [StrNext]_strVars => StrInv'
  <2> SUFFICES ASSUME StrInv, [StrNext]_strVars PROVE StrInv'
    OBVIOUS
  <2>1. ASSUME NEW n \in StrPieces, StrDelta(n) PROVE StrInv'
    BY <2>1, StrDeltaSteps
  <2>2. CASE StrTimerFires
    BY <2>2, StrTimerSteps
  <2>3. CASE StrMessageEnds
    BY <2>3, StrMessageSteps
  <2>4. CASE StrToolStarts \/ StrToolEnds
    BY <2>4, StrToolSteps
  <2>5. ASSUME NEW k \in {"agent.completed", "agent.failed"}, StrEnds(k) PROVE StrInv'
    BY <2>5, StrEndSteps
  <2>6. CASE StrMain
    BY <2>6, StrMainActs
  <2>7. CASE StrPauses
    BY <2>7, StrPauseActs
  <2>8. CASE UNCHANGED strVars
    BY <2>8, StrRests
  <2> QED BY <2>1, <2>2, <2>3, <2>4, <2>5, <2>6, <2>7, <2>8 DEF StrNext
<1>3. StrInv => StrTextWhole
  BY StrWholeLosesNothing DEF StrInv, StrTextWhole
<1> QED BY <1>1, <1>2, <1>3, PTL DEF StrSpec

===============================================================================
