---------------------------- MODULE ServicesProofs ----------------------------
(***************************************************************************)
(* Theorems about the services that outlive a run: Automations, McpOAuth   *)
(* and McpConnections, for any automations, flows, handlers and servers.   *)
(*                                                                         *)
(* Automations rests on arithmetic: the next instant of an interval or of  *)
(* a pattern is the first of its kind that lies after a given one, which   *)
(* the lemmas on quotients and remainders show.  Then each occurrence that *)
(* was run lies before the reach of the tick at work, and the next one     *)
(* after it. McpOAuth orders flows by number: only the latest can be       *)
(* waited for. McpConnections is about ownership: a connection is in the   *)
(* table, or in the hands of the one handler that opens or closes it.      *)
(***************************************************************************)
EXTENDS Automations, McpOAuth, McpConnections, FiniteSetTheorems, TLAPS

-----------------------------------------------------------------------------
(* Automations: schedules and occurrences *)

\* Division with remainder.
LEMMA DivisionRest ==
    ASSUME NEW x \in Int, NEW e \in Nat \ {0}
    PROVE  x \div e \in Int /\ x % e \in 0 .. (e - 1) /\ x = ((x \div e) * e) + (x % e)
<1>1. x = ((x \div e) * e) + (x % e)
  OBVIOUS
<1>2. x \div e \in Int /\ x % e \in 0 .. (e - 1)
  OBVIOUS
<1> QED BY <1>1, <1>2

LEMMA MultipleRest ==
    ASSUME NEW q \in Int, NEW e \in Nat \ {0}
    PROVE  (q * e) % e = 0
  OBVIOUS

LEMMA RestOf ==
    ASSUME NEW q \in Int, NEW e \in Nat \ {0}, NEW r \in 0 .. (e - 1)
    PROVE  ((q * e) + r) % e = r
  OBVIOUS

\* Between two neighbouring multiples of e there is none.
LEMMA NoneBetween ==
    ASSUME NEW q \in Int, NEW e \in Nat \ {0}, NEW y \in Int, q * e < y, y < (q + 1) * e
    PROVE  y % e # 0
<1>1. y % e \in 0 .. (e - 1) /\ y \div e \in Int /\ y = ((y \div e) * e) + (y % e)
  BY DivisionRest
<1>2. SUFFICES ASSUME y % e = 0 PROVE FALSE
  OBVIOUS
<1> DEFINE p == y \div e
<1>3. p \in Int /\ y = p * e
  BY <1>1, <1>2
<1> HIDE DEF p
<1>4. p <= q \/ p >= q + 1
  BY <1>3
<1>5. CASE p <= q
  <2>1. p * e <= q * e
    BY <1>3, <1>5
  <2> QED BY <1>3, <2>1
<1>6. CASE p >= q + 1
  <2>1. p * e >= (q + 1) * e
    BY <1>3, <1>6
  <2> QED BY <1>3, <2>1
<1> QED BY <1>4, <1>5, <1>6

\* The first run of an interval: the multiple after the one reached.
LEMMA IntervalNext ==
    ASSUME NEW at \in Nat, NEW e \in Nat \ {0}, NEW after \in Nat, at <= after,
           NEW n, n = at + ((after - at) \div e + 1) * e
    PROVE  /\ n \in Nat /\ n > after /\ (n - at) % e = 0
           /\ \A t \in after + 1 .. n - 1 : (t - at) % e # 0
<1> DEFINE x == after - at
           q == x \div e
<1>9. n = at + (q + 1) * e
  OBVIOUS
<1>0. x \in Nat /\ x \in Int
  OBVIOUS
<1> HIDE DEF x
<1>1. q \in Int /\ x % e \in 0 .. (e - 1) /\ x = (q * e) + (x % e)
  BY <1>0, DivisionRest
<1>2. q * e <= x /\ x < (q * e) + e /\ x \in Nat /\ q \in Int /\ q * e \in Int
  BY <1>0, <1>1
<1> HIDE DEF q
<1>3. (q + 1) * e = (q * e) + e
  BY <1>2
<1>4. n \in Nat /\ n > after
  BY <1>2, <1>3, <1>9 DEF x
<1>5. n - at = (q + 1) * e
  BY <1>2, <1>9 DEF x
<1>6. (n - at) % e = 0
  BY <1>2, <1>5, MultipleRest
<1>7. ASSUME NEW t \in after + 1 .. n - 1 PROVE (t - at) % e # 0
  <2>1. t - at \in Int /\ q * e < t - at /\ t - at < (q + 1) * e
    BY <1>2, <1>3, <1>4, <1>5 DEF x
  <2> QED BY <1>2, <2>1, NoneBetween
<1> QED BY <1>4, <1>6, <1>7

\* And of a calendar pattern: the first instant of the right remainder.
LEMMA PatternNext ==
    ASSUME NEW at \in Nat, NEW e \in Nat \ {0}, NEW after \in Nat,
           NEW n, n = after + 1 + ((at - after - 1) % e)
    PROVE  /\ n \in Nat /\ n > after /\ n % e = at % e
           /\ \A t \in after + 1 .. n - 1 : t % e # at % e
<1> DEFINE y == at - after - 1
           r == y % e
<1>9. n = after + 1 + r
  OBVIOUS
<1>0. y \in Int
  OBVIOUS
<1> HIDE DEF y
<1>1. r \in 0 .. (e - 1) /\ y \div e \in Int /\ y = ((y \div e) * e) + r
  BY <1>0, DivisionRest
<1>2. PICK q \in Int : y = (q * e) + r
  BY <1>1
<1> HIDE DEF r
<1>3. n \in Nat /\ n > after
  BY <1>1, <1>9
<1>4. at - n = q * e
  BY <1>1, <1>2, <1>9 DEF y
<1>11. at \in Int
  OBVIOUS
<1>5. at \div e \in Int /\ at % e \in 0 .. (e - 1) /\ at = ((at \div e) * e) + (at % e)
  BY <1>11, DivisionRest
<1> DEFINE p == at \div e
           s == at % e
<1> HIDE DEF p
<1>6. p \in Int /\ s \in 0 .. (e - 1) /\ at = (p * e) + s
  BY <1>5 DEF p
<1> HIDE DEF s
<1>10. n = ((p - q) * e) + s
  <2>1. n = ((p * e) + s) - (q * e)
    BY <1>3, <1>4, <1>6
  <2>2. (p - q) * e = (p * e) - (q * e)
    BY <1>2, <1>6
  <2> QED BY <1>2, <1>6, <2>1, <2>2
<1>7. n % e = at % e
  <2>1. p - q \in Int
    BY <1>2, <1>6
  <2>2. (((p - q) * e) + s) % e = s
    BY <1>6, <2>1, RestOf
  <2> QED BY <1>10, <2>2 DEF s
<1>8. ASSUME NEW t \in after + 1 .. n - 1, t % e = at % e PROVE FALSE
  <2>1. t \in Int
    BY <1>3
  <2>2. t \div e \in Int /\ t = ((t \div e) * e) + s
    BY <1>8, <2>1, DivisionRest DEF s
  <2>3. PICK m \in Int : t = (m * e) + s
    BY <2>2
  <2>4. n - t \in 1 .. (e - 1)
    BY <1>1, <1>3, <1>9
  <2>5. n - t = ((p - q) * e) - (m * e)
    BY <1>2, <1>6, <1>10, <2>3
  <2>6. ((p - q) - m) * e = ((p - q) * e) - (m * e)
    BY <1>2, <1>6, <2>3
  <2>7. (p - q) - m \in Int
    BY <1>2, <1>6, <2>3
  <2>8. (n - t) % e = 0
    BY <2>5, <2>6, <2>7, MultipleRest
  <2>9. (n - t) % e = n - t
    BY <2>4
  <2> QED BY <2>4, <2>8, <2>9
<1> QED BY <1>3, <1>7, <1>8

\* A schedule that was given an instant to count from.
AutoCounted(s) == s \in AutoScheduleType /\ (s.type # "cron" => s.at > 0)

LEMMA AutoScheduleFacts ==
    ASSUME NEW s \in AutoScheduleType
    PROVE  s.type \in {"once", "interval", "cron"} /\ s.at \in Nat /\ s.every \in Nat \ {0}
  BY DEF AutoScheduleType

\* The next run lies after the time it is computed for.
LEMMA AutoNextAfter ==
    ASSUME NEW s \in AutoScheduleType, NEW after \in Nat
    PROVE  AutoNextRun(s, after) \in Nat /\ (AutoNextRun(s, after) = 0 \/ AutoNextRun(s, after) > after)
<1>1. s.type \in {"once", "interval", "cron"} /\ s.at \in Nat /\ s.every \in Nat \ {0}
  BY AutoScheduleFacts
<1>2. CASE s.type = "once"
  <2>1. AutoNextRun(s, after) = IF s.at > after THEN s.at ELSE 0
    BY <1>2 DEF AutoNextRun
  <2> QED BY <1>1, <2>1
<1>3. CASE s.type = "interval" /\ s.at > after
  <2>1. AutoNextRun(s, after) = s.at
    BY <1>3 DEF AutoNextRun
  <2> QED BY <1>1, <1>3, <2>1
<1>4. CASE s.type = "interval" /\ ~(s.at > after)
  <2>1. AutoNextRun(s, after) = s.at + ((after - s.at) \div s.every + 1) * s.every
    BY <1>4 DEF AutoNextRun
  <2>2. s.at <= after
    BY <1>1, <1>4
  <2>3. AutoNextRun(s, after) \in Nat /\ AutoNextRun(s, after) > after
    BY <1>1, <2>1, <2>2, IntervalNext
  <2> QED BY <2>3
<1>5. CASE s.type = "cron"
  <2>1. AutoNextRun(s, after) = after + 1 + ((s.at - after - 1) % s.every)
    BY <1>5 DEF AutoNextRun
  <2>2. PICK n : n = AutoNextRun(s, after)
    OBVIOUS
  <2>3. n = after + 1 + ((s.at - after - 1) % s.every)
    BY <2>1, <2>2
  <2>4. n \in Nat /\ n > after
    BY <1>1, <2>3, PatternNext
  <2> QED BY <2>2, <2>4
<1> QED BY <1>1, <1>2, <1>3, <1>4, <1>5

LEMMA AutoNextFirst == autoClock \in Nat => AutoNextIsFirst
<1> SUFFICES ASSUME autoClock \in Nat,
                    NEW u \in AutoSchedules, NEW anchor \in 1..AutoHorizon, NEW s,
                    s = [u EXCEPT !.at = IF u.at = 0 THEN anchor ELSE @]
             PROVE  LET occurs(t) == CASE s.type = "once" -> t = s.at
                           [] s.type = "interval" -> t >= s.at /\ (t - s.at) % s.every = 0
                           [] OTHER -> t % s.every = s.at % s.every
                        next == AutoNextRun(s, autoClock)
                    IN IF next = 0 THEN s.type = "once" /\ s.at <= autoClock
                       ELSE next > autoClock /\ occurs(next) /\ \A t \in autoClock + 1 .. next - 1 : ~occurs(t)
  BY DEF AutoNextIsFirst
<1>1. u \in AutoScheduleType /\ AutoHorizon \in Nat
  BY AutoAssumption
<1>2. s \in AutoScheduleType /\ s.at > 0
  BY <1>1 DEF AutoScheduleType
<1>3. s.type \in {"once", "interval", "cron"} /\ s.at \in Nat /\ s.every \in Nat \ {0}
  BY <1>2, AutoScheduleFacts
<1>4. CASE s.type = "once"
  <2>1. AutoNextRun(s, autoClock) = IF s.at > autoClock THEN s.at ELSE 0
    BY <1>4 DEF AutoNextRun
  <2> QED BY <1>2, <1>3, <1>4, <2>1
<1>5. CASE s.type = "interval" /\ s.at > autoClock
  <2>1. AutoNextRun(s, autoClock) = s.at
    BY <1>5 DEF AutoNextRun
  <2>2. (s.at - s.at) % s.every = 0
    BY <1>3
  <2> QED BY <1>2, <1>3, <1>5, <2>1, <2>2
<1>6. CASE s.type = "interval" /\ ~(s.at > autoClock)
  <2>1. AutoNextRun(s, autoClock) = s.at + ((autoClock - s.at) \div s.every + 1) * s.every
    BY <1>6 DEF AutoNextRun
  <2>2. s.at <= autoClock
    BY <1>3, <1>6
  <2> DEFINE n == AutoNextRun(s, autoClock)
  <2>5. n = s.at + ((autoClock - s.at) \div s.every + 1) * s.every
    BY <2>1
  <2> HIDE DEF n
  <2>3. /\ n \in Nat /\ n > autoClock /\ (n - s.at) % s.every = 0
        /\ \A t \in autoClock + 1 .. n - 1 : (t - s.at) % s.every # 0
    BY <1>3, <2>5, <2>2, IntervalNext
  <2>4. n >= s.at /\ n # 0
    BY <1>3, <2>2, <2>3
  <2> QED BY <1>6, <2>3, <2>4 DEF n
<1>7. CASE s.type = "cron"
  <2>1. AutoNextRun(s, autoClock) = autoClock + 1 + ((s.at - autoClock - 1) % s.every)
    BY <1>7 DEF AutoNextRun
  <2> DEFINE n == AutoNextRun(s, autoClock)
  <2>5. n = autoClock + 1 + ((s.at - autoClock - 1) % s.every)
    BY <2>1
  <2> HIDE DEF n
  <2>2. /\ n \in Nat /\ n > autoClock /\ n % s.every = s.at % s.every
        /\ \A t \in autoClock + 1 .. n - 1 : t % s.every # s.at % s.every
    BY <1>3, <2>5, PatternNext
  <2>3. n # 0
    BY <2>2
  <2> QED BY <1>7, <2>2, <2>3 DEF n
<1> QED BY <1>3, <1>4, <1>5, <1>6, <1>7

--------------------------------------------------------------------------------
(* The invariant. *)

\* What a tick read: the rows of the automations that were due.
AutoDues == UNION {[D -> AutoRowType] : D \in SUBSET Autos}
AutoTickType == [phase : {"none", "loop", "await"}, at : Nat, due : AutoDues]

\* Types, with the rows kept whole.
AutoShape ==
    /\ autoRows \in [Autos -> AutoRowType] /\ autoClock \in Nat \ {0} /\ autoUp \in BOOLEAN
    /\ autoTick \in AutoTickType /\ autoRunning \in [AutoCallers -> Autos \cup {NoAuto}]
    /\ autoFired \subseteq Autos \X Nat

\* An automation is enabled exactly if it has a next run, and one that is gone has none.
AutoRowFine(r) == (r.enabled <=> r.next # 0) /\ (~r.exists => r.next = 0)

\* The rows a tick has left were due when it read them.
AutoTickFine ==
    /\ autoTick.at <= autoClock
    /\ \A a \in DOMAIN autoTick.due : autoTick.due[a].next \in 1 .. autoTick.at
    /\ autoTick.phase = "await" <=> autoRunning["tick"] # NoAuto
    /\ ~autoUp => autoTick.phase = "none"

\* The latest instant of which an occurrence can have been run.
AutoReach == IF autoTick.phase = "none" THEN autoClock ELSE autoTick.at
AutoRunBefore(f) == f[2] <= AutoReach
AutoNotAgain(f) == autoRows[f[1]].next = 0 \/ autoRows[f[1]].next > f[2]

\* The inductive invariant: what has been run lies in the past of the tick, and what comes next lies after it.
AutoInv ==
    /\ AutoShape /\ AutoTickFine /\ AutoOneRun
    /\ \A a \in Autos : AutoRowFine(autoRows[a])
    /\ \A f \in autoFired : AutoRunBefore(f) /\ AutoNotAgain(f)

LEMMA AutoTickFacts ==
    ASSUME AutoShape
    PROVE  /\ autoTick.phase \in {"none", "loop", "await"} /\ autoTick.at \in Nat /\ autoTick.due \in AutoDues
           /\ DOMAIN autoTick.due \subseteq Autos
           /\ \A a \in DOMAIN autoTick.due : autoTick.due[a] \in AutoRowType
<1>1. autoTick.phase \in {"none", "loop", "await"} /\ autoTick.at \in Nat /\ autoTick.due \in AutoDues
  BY DEF AutoShape, AutoTickType
<1>2. PICK D \in SUBSET Autos : autoTick.due \in [D -> AutoRowType]
  BY <1>1 DEF AutoDues
<1> QED BY <1>1, <1>2

LEMMA AutoRowFacts ==
    ASSUME NEW r \in AutoRowType
    PROVE  r.exists \in BOOLEAN /\ r.enabled \in BOOLEAN /\ r.next \in Nat /\ r.sched \in AutoScheduleType
  BY DEF AutoRowType

LEMMA AutoReachFacts ==
    ASSUME AutoInv
    PROVE  AutoReach \in Nat /\ autoClock \in Nat /\ AutoReach <= autoClock /\ autoTick.at <= autoClock
  BY AutoTickFacts DEF AutoInv, AutoShape, AutoTickFine, AutoReach

LEMMA AutoStored ==
    ASSUME NEW r \in AutoRowType, NEW s \in AutoScheduleType, NEW after \in Nat, r.exists, NEW o,
           o = AutoScheduled(r, s, after) \/ o = AutoOff(r, s)
    PROVE  o \in AutoRowType /\ AutoRowFine(o) /\ (o.next = 0 \/ o.next > after)
<1>1. AutoNextRun(s, after) \in Nat /\ (AutoNextRun(s, after) = 0 \/ AutoNextRun(s, after) > after)
  BY AutoNextAfter
<1>2. CASE o = AutoScheduled(r, s, after)
  <2>1. /\ o \in AutoRowType /\ o.next = AutoNextRun(s, after) /\ o.enabled = (AutoNextRun(s, after) # 0)
        /\ o.exists = r.exists
    BY <1>1, <1>2 DEF AutoScheduled, AutoRowType
  <2> QED BY <1>1, <2>1 DEF AutoRowFine
<1>3. CASE o = AutoOff(r, s)
  <2>1. o \in AutoRowType /\ o.next = 0 /\ o.enabled = FALSE
    BY <1>3 DEF AutoOff, AutoRowType
  <2> QED BY <2>1 DEF AutoRowFine
<1> QED BY <1>2, <1>3

\* One row is written.
LEMMA AutoRowWritten ==
    ASSUME AutoInv, NEW a \in Autos, NEW o \in AutoRowType, AutoRowFine(o), o.next = 0 \/ o.next > AutoReach,
           autoRows' = [autoRows EXCEPT ![a] = o]
    PROVE  /\ autoRows' \in [Autos -> AutoRowType] /\ \A b \in Autos : AutoRowFine(autoRows'[b])
           /\ \A f \in autoFired : autoRows'[f[1]].next = 0 \/ autoRows'[f[1]].next > f[2]
           /\ autoRows'[a] = o
<1>1. autoRows \in [Autos -> AutoRowType] /\ autoFired \subseteq Autos \X Nat
  BY DEF AutoInv, AutoShape
<1>2. autoRows' \in [Autos -> AutoRowType] /\ autoRows'[a] = o /\ \A b \in Autos : b # a => autoRows'[b] = autoRows[b]
  BY <1>1
<1>3. \A b \in Autos : AutoRowFine(autoRows'[b])
  BY <1>2 DEF AutoInv
<1>4. ASSUME NEW f \in autoFired PROVE autoRows'[f[1]].next = 0 \/ autoRows'[f[1]].next > f[2]
  <2>1. f[1] \in Autos /\ f[2] \in Nat
    BY <1>1
  <2>2. f[2] <= AutoReach /\ (autoRows[f[1]].next = 0 \/ autoRows[f[1]].next > f[2])
    BY DEF AutoInv, AutoRunBefore, AutoNotAgain
  <2>3. CASE f[1] = a
    <3>1. autoRows'[f[1]].next = o.next /\ o.next \in Nat /\ AutoReach \in Nat
      BY <1>2, <2>3, AutoRowFacts, AutoReachFacts
    <3> QED BY <2>1, <2>2, <3>1
  <2>4. CASE f[1] # a
    BY <1>2, <2>1, <2>2, <2>4
  <2> QED BY <2>3, <2>4
<1> QED BY <1>2, <1>3, <1>4

\* A call of the user writes a row; the scheduler is not touched.
LEMMA AutoUserWrites ==
    ASSUME AutoInv, NEW a \in Autos, NEW o \in AutoRowType, AutoRowFine(o), o.next = 0 \/ o.next > autoClock,
           autoRows' = [autoRows EXCEPT ![a] = o],
           UNCHANGED <<autoClock, autoUp, autoTick, autoRunning, autoFired>>
    PROVE  AutoInv'
<1>1. o.next \in Nat /\ AutoReach \in Nat /\ autoClock \in Nat /\ AutoReach <= autoClock
  BY AutoRowFacts, AutoReachFacts
<1>2. o.next = 0 \/ o.next > AutoReach
  BY <1>1
<1>3. /\ autoRows' \in [Autos -> AutoRowType] /\ \A b \in Autos : AutoRowFine(autoRows'[b])
      /\ \A f \in autoFired : autoRows'[f[1]].next = 0 \/ autoRows'[f[1]].next > f[2]
  BY <1>2, AutoRowWritten
<1>4. AutoShape' /\ AutoTickFine' /\ AutoOneRun'
  BY <1>3 DEF AutoInv, AutoShape, AutoTickFine, AutoOneRun
<1>5. \A f \in autoFired' : AutoRunBefore(f)' /\ AutoNotAgain(f)'
  BY <1>3 DEF AutoInv, AutoRunBefore, AutoReach, AutoNotAgain
<1> QED BY <1>3, <1>4, <1>5 DEF AutoInv

LEMMA AutoUpsertKeeps ==
    ASSUME AutoInv, NEW a \in Autos, NEW s \in AutoSchedules, NEW on \in BOOLEAN, AutoUpsert(a, s, on) PROVE AutoInv'
<1>1. PICK row : row = [autoRows[a] EXCEPT !.exists = TRUE]
  OBVIOUS
<1>2. autoRows[a] \in AutoRowType /\ autoClock \in Nat
  BY DEF AutoInv, AutoShape
<1>3. row \in AutoRowType /\ row.exists
  BY <1>1, <1>2 DEF AutoRowType
<1>4. AutoAnchored(s) \in AutoScheduleType
  <2>1. s \in AutoScheduleType
    BY AutoAssumption
  <2>2. [s EXCEPT !.at = autoClock] \in AutoScheduleType
    BY <1>2, <2>1 DEF AutoScheduleType
  <2> QED BY <2>1, <2>2 DEF AutoAnchored
<1>5. PICK o : o = IF on THEN AutoScheduled(row, AutoAnchored(s), autoClock) ELSE AutoOff(row, AutoAnchored(s))
  OBVIOUS
<1>6. o \in AutoRowType /\ AutoRowFine(o) /\ (o.next = 0 \/ o.next > autoClock)
  <2>1. o = AutoScheduled(row, AutoAnchored(s), autoClock) \/ o = AutoOff(row, AutoAnchored(s))
    BY <1>5
  <2> QED BY <1>2, <1>3, <1>4, <2>1, AutoStored
<1>7. autoRows' = [autoRows EXCEPT ![a] = o] /\ UNCHANGED <<autoClock, autoUp, autoTick, autoRunning, autoFired>>
  BY <1>1, <1>5 DEF AutoUpsert
<1> QED BY <1>6, <1>7, AutoUserWrites

LEMMA AutoEnableKeeps ==
    ASSUME AutoInv, NEW a \in Autos, NEW on \in BOOLEAN, AutoSetEnabled(a, on) PROVE AutoInv'
<1>1. PICK row : row = autoRows[a]
  OBVIOUS
<1>2. row \in AutoRowType /\ autoClock \in Nat /\ row.exists
  BY <1>1 DEF AutoInv, AutoShape, AutoSetEnabled
<1>3. row.sched \in AutoScheduleType
  BY <1>2, AutoRowFacts
<1>4. PICK o : o = IF on THEN AutoScheduled(row, row.sched, autoClock) ELSE AutoOff(row, row.sched)
  OBVIOUS
<1>5. o \in AutoRowType /\ AutoRowFine(o) /\ (o.next = 0 \/ o.next > autoClock)
  <2>1. o = AutoScheduled(row, row.sched, autoClock) \/ o = AutoOff(row, row.sched)
    BY <1>4
  <2> QED BY <1>2, <1>3, <2>1, AutoStored
<1>6. autoRows' = [autoRows EXCEPT ![a] = o] /\ UNCHANGED <<autoClock, autoUp, autoTick, autoRunning, autoFired>>
  BY <1>1, <1>4 DEF AutoSetEnabled
<1> QED BY <1>5, <1>6, AutoUserWrites

LEMMA AutoNoRowFine == AutoNoRow \in AutoRowType /\ AutoRowFine(AutoNoRow) /\ AutoNoRow.next = 0
<1>1. AutoNoRow \in AutoRowType
  BY DEF AutoNoRow, AutoRowType, AutoScheduleType
<1>2. AutoNoRow.next = 0 /\ AutoNoRow.enabled = FALSE
  BY DEF AutoNoRow
<1> QED BY <1>1, <1>2 DEF AutoRowFine

LEMMA AutoRemoveKeeps == ASSUME AutoInv, NEW a \in Autos, AutoRemove(a) PROVE AutoInv'
<1>1. autoRows' = [autoRows EXCEPT ![a] = AutoNoRow] /\ UNCHANGED <<autoClock, autoUp, autoTick, autoRunning, autoFired>>
  BY DEF AutoRemove
<1> QED BY <1>1, AutoNoRowFine, AutoUserWrites

LEMMA AutoAdvanced ==
    ASSUME AutoInv, NEW a \in Autos, NEW row \in AutoRowType, autoTick.phase # "none",
           autoRows' = AutoAdvance(a, row, autoTick.at)
    PROVE  /\ autoRows' \in [Autos -> AutoRowType] /\ \A b \in Autos : AutoRowFine(autoRows'[b])
           /\ \A f \in autoFired : autoRows'[f[1]].next = 0 \/ autoRows'[f[1]].next > f[2]
           /\ autoRows'[a].next = 0 \/ autoRows'[a].next > autoTick.at
<1>1. autoRows \in [Autos -> AutoRowType] /\ AutoRowFine(autoRows[a])
  BY DEF AutoInv, AutoShape
<1>2. CASE ~autoRows[a].exists
  <2>1. autoRows' = autoRows
    BY <1>2 DEF AutoAdvance
  <2>2. autoRows[a].next = 0
    BY <1>1, <1>2 DEF AutoRowFine
  <2> QED BY <1>1, <2>1, <2>2 DEF AutoInv, AutoNotAgain
<1>3. CASE autoRows[a].exists
  <2>1. PICK n : n = AutoNextRun(row.sched, autoTick.at)
    OBVIOUS
  <2>2. row.sched \in AutoScheduleType /\ autoTick.at \in Nat
    BY AutoRowFacts, AutoTickFacts DEF AutoInv
  <2>3. n \in Nat /\ (n = 0 \/ n > autoTick.at)
    BY <2>1, <2>2, AutoNextAfter
  <2>4. PICK r : r = autoRows[a]
    OBVIOUS
  <2>5. r \in AutoRowType /\ r.exists
    BY <1>1, <1>3, <2>4
  <2>6. PICK o : o = [r EXCEPT !.next = n, !.enabled = (n # 0)]
    OBVIOUS
  <2>7. o \in AutoRowType /\ o.next = n /\ o.enabled = (n # 0) /\ o.exists = r.exists
    BY <2>3, <2>5, <2>6 DEF AutoRowType
  <2>8. AutoRowFine(o)
    BY <2>5, <2>7 DEF AutoRowFine
  <2>9. autoRows' = [autoRows EXCEPT ![a].next = n, ![a].enabled = (n # 0)]
    BY <1>3, <2>1 DEF AutoAdvance
  <2>10. autoRows' = [autoRows EXCEPT ![a] = o]
    BY <1>1, <2>4, <2>6, <2>9
  <2>11. AutoReach = autoTick.at
    BY DEF AutoReach
  <2>12. o.next = 0 \/ o.next > AutoReach
    BY <2>3, <2>7, <2>11
  <2>13. /\ autoRows' \in [Autos -> AutoRowType] /\ \A b \in Autos : AutoRowFine(autoRows'[b])
         /\ \A f \in autoFired : autoRows'[f[1]].next = 0 \/ autoRows'[f[1]].next > f[2]
         /\ autoRows'[a] = o
    BY <2>7, <2>8, <2>10, <2>12, AutoRowWritten
  <2> QED BY <2>3, <2>7, <2>13
<1> QED BY <1>2, <1>3

\* A tick goes on without the row it has dealt with.
LEMMA AutoOneLess ==
    ASSUME AutoShape, NEW a \in DOMAIN autoTick.due, NEW p \in {"loop", "await"},
           autoTick' = [autoTick EXCEPT !.due = AutoLater(a), !.phase = p]
    PROVE  /\ autoTick' \in AutoTickType /\ autoTick'.phase = p /\ autoTick'.at = autoTick.at
           /\ DOMAIN autoTick'.due = DOMAIN autoTick.due \ {a}
           /\ \A b \in DOMAIN autoTick'.due : autoTick'.due[b] = autoTick.due[b]
<1>1. PICK d : d = AutoLater(a)
  OBVIOUS
<1>2. DOMAIN d = DOMAIN autoTick.due \ {a} /\ \A b \in DOMAIN d : d[b] = autoTick.due[b]
  BY <1>1 DEF AutoLater
<1>3. d \in AutoDues
  <2>1. /\ DOMAIN autoTick.due \subseteq Autos
        /\ \A b \in DOMAIN autoTick.due : autoTick.due[b] \in AutoRowType
    BY AutoTickFacts
  <2>2. d = [b \in DOMAIN autoTick.due \ {a} |-> autoTick.due[b]]
    BY <1>1 DEF AutoLater
  <2>3. d \in [DOMAIN autoTick.due \ {a} -> AutoRowType]
    BY <2>1, <2>2
  <2>4. DOMAIN autoTick.due \ {a} \in SUBSET Autos
    BY <2>1
  <2> QED BY <2>3, <2>4 DEF AutoDues
<1>4. autoTick' = [autoTick EXCEPT !.due = d, !.phase = p]
  BY <1>1
<1>5. autoTick' \in AutoTickType /\ autoTick'.phase = p /\ autoTick'.at = autoTick.at /\ autoTick'.due = d
  BY <1>3, <1>4 DEF AutoShape, AutoTickType
<1> QED BY <1>2, <1>5

LEMMA AutoMisfireKeeps == ASSUME AutoInv, NEW a \in Autos, AutoMisfire(a) PROVE AutoInv'
<1>1. /\ autoUp /\ autoTick.phase = "loop" /\ a \in DOMAIN autoTick.due
      /\ autoRows' = AutoAdvance(a, autoTick.due[a], autoTick.at)
      /\ autoTick' = [autoTick EXCEPT !.due = AutoLater(a)]
      /\ UNCHANGED <<autoClock, autoUp, autoRunning, autoFired>>
  BY DEF AutoMisfire, AutoEarliest
<1>2. AutoShape /\ AutoTickFine
  BY DEF AutoInv
<1>3. autoTick.due[a] \in AutoRowType
  BY <1>1, <1>2, AutoTickFacts
<1>4. /\ autoRows' \in [Autos -> AutoRowType] /\ \A b \in Autos : AutoRowFine(autoRows'[b])
      /\ \A f \in autoFired : autoRows'[f[1]].next = 0 \/ autoRows'[f[1]].next > f[2]
  BY <1>1, <1>3, AutoAdvanced
<1>5. autoTick' = [autoTick EXCEPT !.due = AutoLater(a), !.phase = "loop"]
  BY <1>1, <1>2 DEF AutoShape, AutoTickType
<1>6. /\ autoTick' \in AutoTickType /\ autoTick'.phase = "loop" /\ autoTick'.at = autoTick.at
      /\ DOMAIN autoTick'.due = DOMAIN autoTick.due \ {a}
      /\ \A b \in DOMAIN autoTick'.due : autoTick'.due[b] = autoTick.due[b]
  BY <1>1, <1>2, <1>5, AutoOneLess
<1>7. AutoShape'
  BY <1>1, <1>2, <1>4, <1>6 DEF AutoShape
<1>8. AutoTickFine' /\ AutoOneRun'
  BY <1>1, <1>2, <1>6 DEF AutoInv, AutoTickFine, AutoOneRun
<1>9. \A f \in autoFired' : AutoRunBefore(f)' /\ AutoNotAgain(f)'
  BY <1>1, <1>4, <1>6 DEF AutoInv, AutoRunBefore, AutoReach, AutoNotAgain
<1> QED BY <1>4, <1>7, <1>8, <1>9 DEF AutoInv

LEMMA AutoTriggerKeeps == ASSUME AutoInv, NEW a \in Autos, AutoTrigger(a) PROVE AutoInv'
<1>1. /\ autoUp /\ autoTick.phase = "loop" /\ a \in DOMAIN autoTick.due
      /\ autoRows' = AutoAdvance(a, autoTick.due[a], autoTick.at)
      /\ UNCHANGED <<autoClock, autoUp>>
  BY DEF AutoTrigger, AutoEarliest
<1>2. AutoShape /\ AutoTickFine
  BY DEF AutoInv
<1>3. autoTick.due[a] \in AutoRowType
  BY <1>1, <1>2, AutoTickFacts
<1>4. /\ autoRows' \in [Autos -> AutoRowType] /\ \A b \in Autos : AutoRowFine(autoRows'[b])
      /\ \A f \in autoFired : autoRows'[f[1]].next = 0 \/ autoRows'[f[1]].next > f[2]
      /\ autoRows'[a].next = 0 \/ autoRows'[a].next > autoTick.at
  BY <1>1, <1>3, AutoAdvanced
<1>5. autoTick.due[a].next \in 1 .. autoTick.at /\ autoTick.at \in Nat
  BY <1>1, <1>2, AutoTickFacts DEF AutoTickFine
<1>6. autoRunning["tick"] = NoAuto
  BY <1>1, <1>2 DEF AutoTickFine
<1>7. CASE ~AutoFree(a)
  <2>1. autoTick' = [autoTick EXCEPT !.due = AutoLater(a), !.phase = "loop"]
    BY <1>1, <1>2, <1>7 DEF AutoTrigger, AutoShape, AutoTickType
  <2>2. /\ autoTick' \in AutoTickType /\ autoTick'.phase = "loop" /\ autoTick'.at = autoTick.at
        /\ DOMAIN autoTick'.due = DOMAIN autoTick.due \ {a}
        /\ \A b \in DOMAIN autoTick'.due : autoTick'.due[b] = autoTick.due[b]
    BY <1>1, <1>2, <2>1, AutoOneLess
  <2>3. autoRunning' = autoRunning /\ autoFired' = autoFired
    BY <1>7 DEF AutoTrigger
  <2>4. AutoShape'
    BY <1>1, <1>2, <1>4, <2>2, <2>3 DEF AutoShape
  <2>5. AutoTickFine' /\ AutoOneRun'
    BY <1>1, <1>2, <2>2, <2>3 DEF AutoInv, AutoTickFine, AutoOneRun
  <2>6. \A f \in autoFired' : AutoRunBefore(f)' /\ AutoNotAgain(f)'
    BY <1>1, <1>4, <2>2, <2>3 DEF AutoInv, AutoRunBefore, AutoReach, AutoNotAgain
  <2> QED BY <1>4, <2>4, <2>5, <2>6 DEF AutoInv
<1>8. CASE AutoFree(a)
  <2>1. autoTick' = [autoTick EXCEPT !.due = AutoLater(a), !.phase = "await"]
    BY <1>8 DEF AutoTrigger
  <2>2. /\ autoTick' \in AutoTickType /\ autoTick'.phase = "await" /\ autoTick'.at = autoTick.at
        /\ DOMAIN autoTick'.due = DOMAIN autoTick.due \ {a}
        /\ \A b \in DOMAIN autoTick'.due : autoTick'.due[b] = autoTick.due[b]
    BY <1>1, <1>2, <2>1, AutoOneLess
  <2>3. /\ autoRunning' = [autoRunning EXCEPT !["tick"] = a]
        /\ autoFired' = autoFired \cup {<<a, autoTick.due[a].next>>}
    BY <1>8 DEF AutoTrigger
  <2>4. a # NoAuto
    BY AutoAssumption DEF NoAuto
  <2>5. autoRunning \in [AutoCallers -> Autos \cup {NoAuto}]
    BY <1>2 DEF AutoShape
  <2>6. /\ autoRunning' \in [AutoCallers -> Autos \cup {NoAuto}] /\ autoRunning'["tick"] = a
        /\ autoRunning'["user"] = autoRunning["user"]
    BY <2>3, <2>5 DEF AutoCallers
  <2>7. autoRunning["user"] # a
    BY <1>8, <2>4 DEF AutoFree, AutoRunningIds, AutoCallers
  <2>8. autoFired' \subseteq Autos \X Nat
    BY <1>2, <1>5, <2>3 DEF AutoShape
  <2>9. AutoShape'
    BY <1>1, <1>2, <1>4, <2>2, <2>6, <2>8 DEF AutoShape
  <2>10. AutoTickFine'
    BY <1>1, <1>2, <2>2, <2>4, <2>6 DEF AutoTickFine
  <2>11. AutoOneRun'
    BY <2>6, <2>7 DEF AutoOneRun, AutoCallers
  <2>12. \A f \in autoFired : AutoRunBefore(f)' /\ AutoNotAgain(f)'
    BY <1>1, <1>4, <2>2 DEF AutoInv, AutoRunBefore, AutoReach, AutoNotAgain
  <2>13. ASSUME NEW f, f = <<a, autoTick.due[a].next>> PROVE AutoRunBefore(f)' /\ AutoNotAgain(f)'
    <3>1. f[1] = a /\ f[2] = autoTick.due[a].next
      BY <2>13
    <3>2. AutoReach' = autoTick.at
      BY <2>2 DEF AutoReach
    <3>3. autoRows'[a].next \in Nat
      BY <1>4, AutoRowFacts
    <3>4. autoRows'[a].next = 0 \/ autoRows'[a].next > autoTick.due[a].next
      BY <1>4, <1>5, <3>3
    <3> QED BY <1>5, <3>1, <3>2, <3>4 DEF AutoRunBefore, AutoNotAgain
  <2>14. \A f \in autoFired' : AutoRunBefore(f)' /\ AutoNotAgain(f)'
    BY <2>3, <2>12, <2>13
  <2> QED BY <1>4, <2>9, <2>10, <2>11, <2>14 DEF AutoInv
<1> QED BY <1>7, <1>8

\* A step that leaves the rows and what was run alone, and takes the scheduler nowhere back.
LEMMA AutoRowsKept ==
    ASSUME AutoInv, UNCHANGED <<autoRows, autoFired>>, AutoShape', AutoTickFine', AutoOneRun',
           AutoReach' >= AutoReach
    PROVE  AutoInv'
<1>1. AutoReach \in Nat /\ AutoReach' \in Nat
  <2>1. autoTick'.phase \in {"none", "loop", "await"} /\ autoTick'.at \in Nat /\ autoClock' \in Nat
    BY DEF AutoShape, AutoTickType
  <2> QED BY <2>1, AutoReachFacts DEF AutoReach
<1>2. ASSUME NEW f \in autoFired PROVE AutoRunBefore(f)' /\ AutoNotAgain(f)'
  <2>1. f[2] \in Nat /\ AutoRunBefore(f) /\ AutoNotAgain(f)
    BY DEF AutoInv, AutoShape
  <2> QED BY <1>1, <2>1 DEF AutoRunBefore, AutoNotAgain
<1>3. \A a \in Autos : AutoRowFine(autoRows'[a])
  BY DEF AutoInv
<1> QED BY <1>2, <1>3 DEF AutoInv

LEMMA AutoTickStarted ==
    ASSUME AutoShape
    PROVE  /\ AutoTickStarts \in AutoTickType /\ AutoTickStarts.phase = "loop" /\ AutoTickStarts.at = autoClock
           /\ \A a \in DOMAIN AutoTickStarts.due : AutoTickStarts.due[a].next \in 1 .. autoClock
<1>1. PICK d : d = [a \in AutoDueRows(autoClock) |-> autoRows[a]]
  OBVIOUS
<1>2. AutoDueRows(autoClock) \in SUBSET Autos
  BY DEF AutoDueRows
<1>3. d \in [AutoDueRows(autoClock) -> AutoRowType]
  BY <1>1, <1>2 DEF AutoShape
<1>4. d \in AutoDues
  BY <1>2, <1>3 DEF AutoDues
<1>5. \A a \in DOMAIN d : d[a].next \in 1 .. autoClock
  BY <1>1 DEF AutoDueRows
<1>6. AutoTickStarts = [phase |-> "loop", at |-> autoClock, due |-> d]
  BY <1>1 DEF AutoTickStarts
<1>7. AutoTickStarts \in AutoTickType
  BY <1>4, <1>6 DEF AutoShape, AutoTickType
<1> QED BY <1>5, <1>6, <1>7

LEMMA AutoNoTickFacts ==
    /\ AutoNoTick \in AutoTickType /\ AutoNoTick.phase = "none" /\ AutoNoTick.at = 0
    /\ DOMAIN AutoNoTick.due = {}
<1>1. PICK d : d = [a \in {} |-> AutoNoRow]
  OBVIOUS
<1>2. d \in [{} -> AutoRowType] /\ DOMAIN d = {}
  BY <1>1
<1>3. d \in AutoDues
  BY <1>2 DEF AutoDues
<1>4. AutoNoTick = [phase |-> "none", at |-> 0, due |-> d]
  BY <1>1 DEF AutoNoTick
<1>5. AutoNoTick \in AutoTickType
  BY <1>3, <1>4 DEF AutoTickType
<1> QED BY <1>2, <1>4, <1>5

LEMMA AutoRunNowKeeps ==
    ASSUME AutoInv, NEW c \in AutoCallers, NEW a \in Autos, AutoRunNow(c, a) PROVE AutoInv'
<1>1. /\ c = "user" /\ AutoFree(a) /\ autoRunning' = [autoRunning EXCEPT !["user"] = a]
      /\ UNCHANGED <<autoRows, autoClock, autoUp, autoTick, autoFired>>
  BY DEF AutoRunNow, AutoCallers
<1>2. AutoShape /\ AutoTickFine
  BY DEF AutoInv
<1>3. autoRunning \in [AutoCallers -> Autos \cup {NoAuto}] /\ a # NoAuto
  BY <1>2, AutoAssumption DEF AutoShape, NoAuto
<1>4. /\ autoRunning' \in [AutoCallers -> Autos \cup {NoAuto}] /\ autoRunning'["user"] = a
      /\ autoRunning'["tick"] = autoRunning["tick"]
  BY <1>1, <1>3 DEF AutoCallers
<1>5. autoRunning["tick"] # a
  BY <1>1, <1>3 DEF AutoFree, AutoRunningIds, AutoCallers
<1>6. AutoShape' /\ AutoTickFine'
  BY <1>1, <1>2, <1>4 DEF AutoShape, AutoTickFine
<1>7. AutoOneRun'
  BY <1>4, <1>5 DEF AutoOneRun, AutoCallers
<1>8. AutoReach' >= AutoReach
  BY <1>1, AutoReachFacts DEF AutoReach
<1> QED BY <1>1, <1>6, <1>7, <1>8, AutoRowsKept

LEMMA AutoFiresKeeps == AutoInv /\ AutoTickFires => AutoInv'
<1> SUFFICES ASSUME AutoInv, AutoTickFires PROVE AutoInv'
  OBVIOUS
<1>1. /\ autoUp /\ autoTick.phase = "none" /\ autoTick' = AutoTickStarts
      /\ UNCHANGED <<autoRows, autoClock, autoUp, autoRunning, autoFired>>
  BY DEF AutoTickFires
<1>2. AutoShape /\ AutoTickFine /\ AutoOneRun
  BY DEF AutoInv
<1>3. /\ autoTick' \in AutoTickType /\ autoTick'.phase = "loop" /\ autoTick'.at = autoClock
      /\ \A a \in DOMAIN autoTick'.due : autoTick'.due[a].next \in 1 .. autoClock
  BY <1>1, <1>2, AutoTickStarted
<1>4. autoClock \in Nat
  BY AutoReachFacts
<1>5. AutoShape' /\ AutoTickFine' /\ AutoOneRun'
  BY <1>1, <1>2, <1>3, <1>4 DEF AutoShape, AutoTickFine, AutoOneRun
<1>6. AutoReach' >= AutoReach
  BY <1>1, <1>3, <1>4 DEF AutoReach
<1> QED BY <1>1, <1>5, <1>6, AutoRowsKept

LEMMA AutoEndsKeeps == AutoInv /\ AutoTickEnds => AutoInv'
<1> SUFFICES ASSUME AutoInv, AutoTickEnds PROVE AutoInv'
  OBVIOUS
<1>1. /\ autoUp /\ autoTick.phase = "loop" /\ autoTick' = AutoNoTick
      /\ UNCHANGED <<autoRows, autoClock, autoUp, autoRunning, autoFired>>
  BY DEF AutoTickEnds
<1>2. AutoShape /\ AutoTickFine /\ AutoOneRun
  BY DEF AutoInv
<1>3. autoClock \in Nat /\ autoTick.at <= autoClock
  BY AutoReachFacts
<1>4. AutoShape' /\ AutoTickFine' /\ AutoOneRun'
  BY <1>1, <1>2, <1>3, AutoNoTickFacts DEF AutoShape, AutoTickFine, AutoOneRun
<1>5. AutoReach' >= AutoReach
  BY <1>1, <1>3, AutoNoTickFacts DEF AutoReach
<1> QED BY <1>1, <1>4, <1>5, AutoRowsKept

LEMMA AutoCallbackKeeps ==
    ASSUME AutoInv, NEW c \in AutoCallers, NEW ok \in BOOLEAN, AutoCallbackEnds(c, ok) PROVE AutoInv'
<1>1. /\ autoUp /\ autoRunning[c] # NoAuto /\ autoRunning' = [autoRunning EXCEPT ![c] = NoAuto]
      /\ autoTick' = IF c = "tick" THEN [autoTick EXCEPT !.phase = "loop"] ELSE autoTick
      /\ UNCHANGED <<autoRows, autoClock, autoUp, autoFired>>
  BY DEF AutoCallbackEnds, AutoReleased, AutoIdle
<1>2. AutoShape /\ AutoTickFine /\ AutoOneRun
  BY DEF AutoInv
<1>3. autoRunning \in [AutoCallers -> Autos \cup {NoAuto}]
  BY <1>2 DEF AutoShape
<1>4. /\ autoRunning' \in [AutoCallers -> Autos \cup {NoAuto}] /\ autoRunning'[c] = NoAuto
      /\ \A d \in AutoCallers : d # c => autoRunning'[d] = autoRunning[d]
  BY <1>1, <1>3
<1>5. AutoOneRun'
  BY <1>2, <1>4 DEF AutoOneRun
<1>6. AutoShape' /\ AutoTickFine' /\ AutoReach' = AutoReach
  <2>1. CASE c = "tick"
    <3>1. autoTick' = [autoTick EXCEPT !.phase = "loop"]
      BY <1>1, <2>1
    <3>2. autoTick.phase = "await"
      BY <1>1, <1>2, <2>1 DEF AutoTickFine
    <3>3. /\ autoTick' \in AutoTickType /\ autoTick'.phase = "loop" /\ autoTick'.at = autoTick.at
          /\ autoTick'.due = autoTick.due
      BY <1>2, <3>1 DEF AutoShape, AutoTickType
    <3>4. AutoShape'
      BY <1>1, <1>2, <1>4, <3>3 DEF AutoShape
    <3>5. AutoTickFine'
      BY <1>1, <1>2, <1>4, <2>1, <3>3 DEF AutoTickFine
    <3> QED BY <1>1, <3>2, <3>3, <3>4, <3>5 DEF AutoReach
  <2>2. CASE c = "user"
    <3>1. autoTick' = autoTick /\ autoRunning'["tick"] = autoRunning["tick"]
      BY <1>1, <1>4, <2>2 DEF AutoCallers
    <3> QED BY <1>1, <1>2, <1>4, <3>1 DEF AutoShape, AutoTickFine, AutoReach
  <2> QED BY <2>1, <2>2 DEF AutoCallers
<1>7. AutoReach' >= AutoReach
  BY <1>6, AutoReachFacts
<1> QED BY <1>1, <1>5, <1>6, <1>7, AutoRowsKept

LEMMA AutoTimeKeeps == AutoInv /\ AutoTimePasses => AutoInv'
<1> SUFFICES ASSUME AutoInv, AutoTimePasses PROVE AutoInv'
  OBVIOUS
<1>1. autoClock' = autoClock + 1 /\ UNCHANGED <<autoRows, autoUp, autoTick, autoRunning, autoFired>>
  BY DEF AutoTimePasses
<1>2. autoClock \in Nat /\ AutoReach \in Nat /\ AutoShape /\ AutoTickFine /\ AutoOneRun /\ autoTick.at \in Nat
  BY AutoReachFacts, AutoTickFacts DEF AutoInv
<1>3. AutoShape' /\ AutoOneRun'
  BY <1>1, <1>2 DEF AutoShape, AutoOneRun
<1>4. AutoTickFine'
  BY <1>1, <1>2 DEF AutoTickFine
<1>5. AutoReach' >= AutoReach
  BY <1>1, <1>2 DEF AutoReach
<1> QED BY <1>1, <1>3, <1>4, <1>5, AutoRowsKept

LEMMA AutoCrashKeeps == AutoInv /\ AutoCrash => AutoInv'
<1> SUFFICES ASSUME AutoInv, AutoCrash PROVE AutoInv'
  OBVIOUS
<1>1. /\ autoUp' = FALSE /\ autoTick' = AutoNoTick /\ autoRunning' = [c \in AutoCallers |-> NoAuto]
      /\ UNCHANGED <<autoRows, autoClock, autoFired>>
  BY DEF AutoCrash
<1>2. autoClock \in Nat /\ AutoReach <= autoClock /\ AutoReach \in Nat /\ AutoShape
  BY AutoReachFacts DEF AutoInv
<1>3. AutoShape'
  BY <1>1, <1>2, AutoNoTickFacts DEF AutoShape
<1>4. AutoTickFine' /\ AutoOneRun'
  BY <1>1, <1>2, AutoNoTickFacts DEF AutoTickFine, AutoOneRun, AutoCallers
<1>5. AutoReach' >= AutoReach
  BY <1>1, <1>2, AutoNoTickFacts DEF AutoReach
<1> QED BY <1>1, <1>3, <1>4, <1>5, AutoRowsKept

LEMMA AutoStartKeeps == AutoInv /\ AutoStart => AutoInv'
<1> SUFFICES ASSUME AutoInv, AutoStart PROVE AutoInv'
  OBVIOUS
<1>1. /\ autoUp' = TRUE /\ autoTick' \in {AutoTickStarts, AutoNoTick}
      /\ UNCHANGED <<autoClock, autoRunning, autoFired>>
  BY DEF AutoStart
<1>2. autoClock \in Nat /\ AutoReach <= autoClock /\ AutoReach \in Nat /\ AutoShape /\ AutoTickFine /\ AutoOneRun
  BY AutoReachFacts DEF AutoInv
<1>3. autoRows' = autoRows
  <2>1. \A a \in Autos : ~(autoRows[a].enabled /\ autoRows[a].next = 0)
    BY DEF AutoInv, AutoRowFine
  <2>2. autoRows' = [a \in Autos |-> IF autoRows[a].enabled /\ autoRows[a].next = 0
                                    THEN AutoScheduled(autoRows[a], autoRows[a].sched, autoClock)
                                    ELSE autoRows[a]]
    BY DEF AutoStart
  <2>3. autoRows' = [a \in Autos |-> autoRows[a]]
    BY <2>1, <2>2
  <2> QED BY <1>2, <2>3 DEF AutoShape
<1>4. /\ autoTick' \in AutoTickType /\ autoTick'.phase # "await"
      /\ autoTick'.at <= autoClock /\ (autoTick'.phase # "none" => autoTick'.at = autoClock)
      /\ \A a \in DOMAIN autoTick'.due : autoTick'.due[a].next \in 1 .. autoTick'.at
  <2>1. CASE autoTick' = AutoTickStarts
    BY <1>2, <2>1, AutoTickStarted
  <2>2. CASE autoTick' = AutoNoTick
    BY <1>2, <2>2, AutoNoTickFacts
  <2> QED BY <1>1, <2>1, <2>2
<1>5. autoRunning["tick"] = NoAuto
  BY <1>2 DEF AutoStart, AutoTickFine
<1>6. AutoShape' /\ AutoOneRun'
  BY <1>1, <1>2, <1>3, <1>4 DEF AutoShape, AutoOneRun
<1>7. AutoTickFine'
  BY <1>1, <1>4, <1>5 DEF AutoTickFine
<1>8. AutoReach' >= AutoReach
  BY <1>1, <1>2, <1>4 DEF AutoReach
<1> QED BY <1>1, <1>3, <1>6, <1>7, <1>8, AutoRowsKept

LEMMA AutoStepKeeps == AutoInv /\ [AutoNext]_autoVars => AutoInv'
<1> SUFFICES ASSUME AutoInv, [AutoNext]_autoVars PROVE AutoInv'
  OBVIOUS
<1>1. CASE UNCHANGED autoVars
  <2>1. UNCHANGED <<autoRows, autoClock, autoUp, autoTick, autoRunning, autoFired>>
    BY <1>1 DEF autoVars
  <2>2. AutoShape' /\ AutoTickFine' /\ AutoOneRun' /\ AutoReach' = AutoReach
    BY <2>1 DEF AutoInv, AutoShape, AutoTickFine, AutoOneRun, AutoReach
  <2>3. AutoReach' >= AutoReach
    BY <2>2, AutoReachFacts
  <2> QED BY <2>1, <2>2, <2>3, AutoRowsKept
<1>2. ASSUME NEW a \in Autos, NEW s \in AutoSchedules, NEW on \in BOOLEAN, AutoUpsert(a, s, on) PROVE AutoInv'
  BY <1>2, AutoUpsertKeeps
<1>3. ASSUME NEW a \in Autos, NEW on \in BOOLEAN, AutoSetEnabled(a, on) PROVE AutoInv'
  BY <1>3, AutoEnableKeeps
<1>4. ASSUME NEW a \in Autos, AutoRemove(a) \/ AutoMisfire(a) \/ AutoTrigger(a) PROVE AutoInv'
  BY <1>4, AutoRemoveKeeps, AutoMisfireKeeps, AutoTriggerKeeps
<1>5. ASSUME NEW c \in AutoCallers, NEW a \in Autos, AutoRunNow(c, a) PROVE AutoInv'
  BY <1>5, AutoRunNowKeeps
<1>6. ASSUME NEW c \in AutoCallers, NEW ok \in BOOLEAN, AutoCallbackEnds(c, ok) PROVE AutoInv'
  BY <1>6, AutoCallbackKeeps
<1>7. CASE AutoTickFires \/ AutoTickEnds \/ AutoTimePasses \/ AutoCrash \/ AutoStart
  BY <1>7, AutoFiresKeeps, AutoEndsKeeps, AutoTimeKeeps, AutoCrashKeeps, AutoStartKeeps
<1> QED BY <1>1, <1>2, <1>3, <1>4, <1>5, <1>6, <1>7 DEF AutoNext

LEMMA AutoStartsFine == AutoInit => AutoInv
<1> SUFFICES ASSUME AutoInit PROVE AutoInv
  OBVIOUS
<1>1. /\ autoRows = [a \in Autos |-> AutoNoRow] /\ autoClock = 1 /\ autoUp = TRUE
      /\ autoTick = AutoNoTick /\ autoRunning = [c \in AutoCallers |-> NoAuto] /\ autoFired = {}
  BY DEF AutoInit
<1>2. AutoShape
  BY <1>1, AutoNoRowFine, AutoNoTickFacts DEF AutoShape
<1>3. AutoTickFine /\ AutoOneRun
  BY <1>1, AutoNoTickFacts DEF AutoTickFine, AutoOneRun, AutoCallers
<1>4. \A a \in Autos : AutoRowFine(autoRows[a])
  BY <1>1, AutoNoRowFine
<1>5. \A f \in autoFired : AutoRunBefore(f) /\ AutoNotAgain(f)
  BY <1>1
<1> QED BY <1>2, <1>3, <1>4, <1>5 DEF AutoInv

LEMMA AutoAlways == AutoSpec => []AutoInv
  BY AutoStartsFine, AutoStepKeeps, PTL DEF AutoSpec

\* Whatever is edited during a tick and wherever the application ends: an occurrence that was
\* run is never run again, two runs of one automation never overlap, an enabled automation has a
\* next run, and the next run is the first occurrence of the schedule after the time it is
\* computed for, for every interval and pattern (AutomationService.tick, nextRun, runNow).
THEOREM SchedulesAreKept == AutoSpec => []AutoRunsOnTime
<1>1. AutoInv => AutoNoReplay
  <2> SUFFICES ASSUME AutoInv, NEW a \in Autos, NEW t \in {f[2] : f \in {g \in autoFired : g[1] = a}}
               PROVE  autoRows[a].next = 0 \/ autoRows[a].next > t
    BY DEF AutoNoReplay
  <2>1. PICK f \in autoFired : f[1] = a /\ f[2] = t
    OBVIOUS
  <2> QED BY <2>1 DEF AutoInv, AutoNotAgain
<1>2. AutoInv => AutoOneRun /\ AutoEnabledHasNext
  BY DEF AutoInv, AutoRowFine, AutoEnabledHasNext
<1>3. AutoInv => AutoNextIsFirst
  BY AutoNextFirst DEF AutoInv, AutoShape
<1>4. AutoInv => AutoRunsOnTime
  BY <1>1, <1>2, <1>3 DEF AutoRunsOnTime
<1> QED BY <1>4, AutoAlways, PTL

\* Rows, ticks and schedules keep their shapes.
THEOREM SchedulesAreTyped == AutoSpec => []AutoTypeOK
<1>1. AutoInv => AutoTypeOK
  BY AutoTickFacts DEF AutoInv, AutoShape, AutoTickFine, AutoTypeOK
<1> QED BY <1>1, AutoAlways, PTL

-----------------------------------------------------------------------------
(* McpOAuth: sign-ins *)

\* A flow is either ahead, on its way to the browser, waited for, or over; its code has only
\* been exchanged once it is over.
OAuthFlowOrder ==
    /\ oauthFlows <= OAuthMaxFlows /\ oauthPending.flow <= oauthFlows
    /\ oauthOp.kind = "start" => oauthOp.flow \in 1..oauthFlows /\ oauthPending.flow < oauthOp.flow
    /\ oauthOp.kind = "complete" => oauthPending.flow = 0
    /\ oauthPending.refresh <= oauthIssued /\ oauthOp.refresh <= oauthIssued

\* A flow whose code nobody has exchanged: ahead, on its way, or waited for.
OAuthUnspent(f) == f > oauthFlows \/ f = oauthPending.flow \/ (oauthOp.kind = "start" /\ f = oauthOp.flow)

OAuthNotExchanged == \A f \in 1..OAuthMaxFlows : OAuthUnspent(f) => oauthExchanges[<<f, f>>] = 0

\* Types, the order of flows, and the two promises.
OAuthInv == OAuthTypeOK /\ OAuthFlowOrder /\ OAuthNotExchanged /\ OAuthFlowsHold

LEMMA OAuthInitHolds == OAuthInit => OAuthInv
<1> SUFFICES ASSUME OAuthInit PROVE OAuthInv
  OBVIOUS
<1> USE OAuthAssumption DEF OAuthInit, OAuthNone, OAuthNoOp
<1>1. OAuthTypeOK
  <2>1. oauthRow \in [exists : BOOLEAN, refresh : Nat, expired : BOOLEAN] /\ oauthRow.refresh <= oauthIssued
    OBVIOUS
  <2>2. oauthPending \in [flow : Nat, refresh : Nat] /\ oauthPastTtl \in BOOLEAN
    OBVIOUS
  <2>3. oauthOp \in [kind : {"none", "start", "complete", "refresh"}, flow : Nat, refresh : Nat]
    OBVIOUS
  <2>4. oauthStates \subseteq 1..oauthFlows /\ oauthFlows \in Nat /\ oauthIssued \in Nat
    OBVIOUS
  <2>5. oauthExchanges \in [(1..OAuthMaxFlows) \X (1..OAuthMaxFlows) -> Nat]
    OBVIOUS
  <2> QED BY <2>1, <2>2, <2>3, <2>4, <2>5 DEF OAuthTypeOK
<1>2. OAuthFlowOrder
  BY DEF OAuthFlowOrder
<1>3. OAuthNotExchanged /\ OAuthFlowsHold
  BY DEF OAuthNotExchanged, OAuthFlowsHold, OAuthCodeOnce, OAuthPendingRoutes
<1> QED BY <1>1, <1>2, <1>3 DEF OAuthInv

\* What the invariant says of each field.
OAuthRowType == [exists : BOOLEAN, refresh : Nat, expired : BOOLEAN]
OAuthPendingType == [flow : Nat, refresh : Nat]
OAuthOpType == [kind : {"none", "start", "complete", "refresh"}, flow : Nat, refresh : Nat]

LEMMA OAuthValues ==
    ASSUME OAuthTypeOK
    PROVE  /\ oauthRow \in OAuthRowType /\ oauthRow.refresh \in Nat /\ oauthRow.exists \in BOOLEAN /\ oauthRow.expired \in BOOLEAN
           /\ oauthPending \in OAuthPendingType /\ oauthPending.flow \in Nat /\ oauthPending.refresh \in Nat
           /\ oauthOp \in OAuthOpType /\ oauthOp.flow \in Nat /\ oauthOp.refresh \in Nat
           /\ oauthFlows \in Nat /\ oauthIssued \in Nat
           /\ OAuthNone \in OAuthPendingType /\ OAuthNoOp \in OAuthOpType
           /\ OAuthNone.flow = 0 /\ OAuthNone.refresh = 0 /\ OAuthNoOp.kind = "none" /\ OAuthNoOp.refresh = 0
  BY DEF OAuthTypeOK, OAuthRowType, OAuthPendingType, OAuthOpType, OAuthNone, OAuthNoOp

\* Storing what a provider has does not bring a row back.
LEMMA OAuthPersists ==
    ASSUME OAuthTypeOK, NEW issued \in Nat, oauthRow.refresh <= issued,
           NEW refresh \in Nat, refresh <= issued, NEW expired \in BOOLEAN
    PROVE  /\ OAuthPersisted(refresh, expired) \in OAuthRowType
           /\ OAuthPersisted(refresh, expired).exists = oauthRow.exists
           /\ OAuthPersisted(refresh, expired).refresh <= issued
<1>1. oauthRow \in OAuthRowType /\ oauthRow.refresh <= issued
  BY OAuthValues
<1> QED BY <1>1 DEF OAuthPersisted, OAuthRowType

\* The steps that change only the row: it is not brought back and no token is made up.
LEMMA OAuthRowSteps ==
    ASSUME OAuthInv, oauthRow' \in OAuthRowType, oauthRow'.exists => oauthRow.exists, oauthRow'.refresh <= oauthIssued,
           oauthOp' = oauthOp \/ oauthOp' = OAuthNoOp,
           UNCHANGED <<oauthPending, oauthPastTtl, oauthStates, oauthFlows, oauthIssued, oauthExchanges>>
    PROVE  OAuthInv'
<1> USE OAuthValues DEF OAuthInv
<1>1. OAuthTypeOK'
  BY DEF OAuthTypeOK, OAuthRowType, OAuthOpType
<1>2. OAuthFlowOrder'
  BY DEF OAuthFlowOrder
<1>3. OAuthNotExchanged'
  BY DEF OAuthNotExchanged, OAuthUnspent
<1>4. OAuthFlowsHold'
  BY DEF OAuthFlowsHold, OAuthCodeOnce, OAuthPendingRoutes
<1> QED BY <1>1, <1>2, <1>3, <1>4 DEF OAuthInv

LEMMA OAuthStartKeeps == ASSUME OAuthInv, OAuthStart PROVE OAuthInv'
<1>0. OAuthTypeOK /\ OAuthFlowOrder /\ OAuthNotExchanged /\ OAuthFlowsHold
  BY DEF OAuthInv
<1>1. /\ oauthOp.kind = "none" /\ oauthFlows < OAuthMaxFlows /\ oauthFlows' = oauthFlows + 1
      /\ oauthOp' = [kind |-> "start", flow |-> oauthFlows + 1, refresh |-> oauthRow.refresh]
      /\ UNCHANGED <<oauthRow, oauthPending, oauthPastTtl, oauthStates, oauthIssued, oauthExchanges>>
  BY DEF OAuthStart, OAuthFree, OAuthOp
<1>2. oauthOp' \in OAuthOpType /\ oauthOp'.kind = "start" /\ oauthOp'.flow = oauthFlows + 1 /\ oauthOp'.refresh = oauthRow.refresh
  BY <1>0, <1>1, OAuthValues DEF OAuthOpType
<1>3. OAuthTypeOK'
  BY <1>0, <1>1, <1>2, OAuthValues DEF OAuthTypeOK, OAuthOpType
<1>4. OAuthFlowOrder'
  BY <1>0, <1>1, <1>2, OAuthValues, OAuthAssumption DEF OAuthFlowOrder, OAuthTypeOK
<1>5. OAuthNotExchanged'
  BY <1>0, <1>1, <1>2, OAuthValues DEF OAuthNotExchanged, OAuthUnspent
<1>6. OAuthFlowsHold'
  BY <1>0, <1>1 DEF OAuthFlowsHold, OAuthCodeOnce, OAuthPendingRoutes
<1> QED BY <1>3, <1>4, <1>5, <1>6 DEF OAuthInv

LEMMA OAuthRedirectedKeeps == ASSUME OAuthInv, OAuthRedirected PROVE OAuthInv'
<1>0. OAuthTypeOK /\ OAuthFlowOrder /\ OAuthNotExchanged /\ OAuthFlowsHold
  BY DEF OAuthInv
<1>1. /\ oauthOp.kind = "start" /\ oauthPending' = [flow |-> oauthOp.flow, refresh |-> oauthOp.refresh]
      /\ oauthPastTtl' = FALSE /\ oauthStates' = oauthStates \cup {oauthOp.flow} /\ oauthOp' = OAuthNoOp
      /\ UNCHANGED <<oauthRow, oauthFlows, oauthIssued, oauthExchanges>>
  BY DEF OAuthRedirected, OAuthRouted
<1>2. oauthPending' \in OAuthPendingType /\ oauthPending'.flow = oauthOp.flow /\ oauthPending'.refresh = oauthOp.refresh
  BY <1>0, <1>1, OAuthValues DEF OAuthPendingType
<1>3. OAuthTypeOK'
  BY <1>0, <1>1, <1>2, OAuthValues DEF OAuthTypeOK, OAuthPendingType, OAuthOpType, OAuthFlowOrder
<1>4. OAuthFlowOrder'
  BY <1>0, <1>1, <1>2, OAuthValues DEF OAuthFlowOrder
<1>5. OAuthNotExchanged'
  BY <1>0, <1>1, <1>2, OAuthValues DEF OAuthNotExchanged, OAuthUnspent
<1>6. OAuthFlowsHold'
  BY <1>0, <1>1, <1>2 DEF OAuthFlowsHold, OAuthCodeOnce, OAuthPendingRoutes
<1> QED BY <1>3, <1>4, <1>5, <1>6 DEF OAuthInv

\* A flow that is dropped with its callback, or by a restart, is over.
LEMMA OAuthDropKeeps ==
    ASSUME OAuthInv, oauthPending' = OAuthNone, oauthPastTtl' = FALSE,
           oauthStates' = oauthStates \/ oauthStates' = {}, oauthOp' = oauthOp \/ oauthOp' = OAuthNoOp,
           UNCHANGED <<oauthRow, oauthFlows, oauthIssued, oauthExchanges>>
    PROVE  OAuthInv'
<1>0. OAuthTypeOK /\ OAuthFlowOrder /\ OAuthNotExchanged /\ OAuthFlowsHold
  BY DEF OAuthInv
<1>1. OAuthTypeOK'
  BY <1>0, OAuthValues DEF OAuthTypeOK, OAuthPendingType, OAuthOpType
<1>2. OAuthFlowOrder'
  BY <1>0, OAuthValues DEF OAuthFlowOrder
<1>3. OAuthNotExchanged'
  BY <1>0, OAuthValues DEF OAuthNotExchanged, OAuthUnspent
<1>4. OAuthFlowsHold'
  BY <1>0, OAuthValues DEF OAuthFlowsHold, OAuthCodeOnce, OAuthPendingRoutes
<1> QED BY <1>1, <1>2, <1>3, <1>4 DEF OAuthInv

LEMMA OAuthExchangeKeeps ==
    ASSUME OAuthInv, NEW f \in 1..OAuthMaxFlows, NEW link \in BOOLEAN, OAuthExchange(f, link) PROVE OAuthInv'
<1>0. OAuthTypeOK /\ OAuthFlowOrder /\ OAuthNotExchanged /\ OAuthFlowsHold
  BY DEF OAuthInv
<1>1. /\ oauthOp.kind = "none" /\ f = oauthPending.flow /\ oauthPending' = OAuthNone
      /\ oauthOp' = [kind |-> "complete", flow |-> f, refresh |-> oauthPending.refresh]
      /\ oauthExchanges' = [oauthExchanges EXCEPT ![<<f, f>>] = @ + 1]
      /\ UNCHANGED <<oauthRow, oauthPastTtl, oauthStates, oauthFlows, oauthIssued>>
  BY DEF OAuthExchange, OAuthCallbackArrives, OAuthFree, OAuthStateMatches, OAuthConsumed, OAuthOp
<1>2. /\ oauthOp' \in OAuthOpType /\ oauthOp'.kind = "complete" /\ oauthOp'.refresh = oauthPending.refresh
      /\ oauthPending'.flow = 0 /\ oauthPending'.refresh = 0 /\ oauthPending' \in OAuthPendingType
  BY <1>0, <1>1, OAuthValues, OAuthAssumption DEF OAuthOpType
<1>3. /\ oauthExchanges \in [(1..OAuthMaxFlows) \X (1..OAuthMaxFlows) -> Nat] /\ oauthExchanges[<<f, f>>] = 0
  BY <1>0, <1>1 DEF OAuthTypeOK, OAuthNotExchanged, OAuthUnspent
<1>4. /\ oauthExchanges' \in [(1..OAuthMaxFlows) \X (1..OAuthMaxFlows) -> Nat]
      /\ oauthExchanges'[<<f, f>>] = 1
      /\ \A p \in (1..OAuthMaxFlows) \X (1..OAuthMaxFlows) : p # <<f, f>> => oauthExchanges'[p] = oauthExchanges[p]
  BY <1>1, <1>3
<1>5. OAuthTypeOK'
  BY <1>0, <1>1, <1>2, <1>4, OAuthValues DEF OAuthTypeOK, OAuthOpType, OAuthPendingType
<1>6. OAuthFlowOrder'
  BY <1>0, <1>1, <1>2, OAuthValues DEF OAuthFlowOrder
<1>7. OAuthNotExchanged'
  BY <1>0, <1>1, <1>2, <1>4, OAuthValues DEF OAuthNotExchanged, OAuthUnspent, OAuthFlowOrder
<1>8. OAuthCodeOnce'
  BY <1>0, <1>3, <1>4 DEF OAuthFlowsHold, OAuthCodeOnce
<1>9. OAuthPendingRoutes'
  BY <1>2 DEF OAuthPendingRoutes
<1> QED BY <1>5, <1>6, <1>7, <1>8, <1>9 DEF OAuthInv, OAuthFlowsHold

LEMMA OAuthAuthorizedKeeps == ASSUME OAuthInv, NEW rotates \in BOOLEAN, OAuthAuthorized(rotates) PROVE OAuthInv'
<1>0. OAuthTypeOK /\ OAuthFlowOrder /\ OAuthNotExchanged /\ OAuthFlowsHold
  BY DEF OAuthInv
<1>1. /\ oauthOp.kind \in {"complete", "refresh"} /\ oauthOp' = OAuthNoOp
      /\ oauthIssued' = IF rotates THEN oauthIssued + 1 ELSE oauthIssued
      /\ oauthRow' = OAuthPersisted(IF rotates THEN oauthIssued + 1 ELSE oauthOp.refresh, FALSE)
      /\ oauthStates' = oauthStates \/ (oauthOp.kind = "complete" /\ oauthStates' = oauthStates \ {oauthOp.flow})
      /\ UNCHANGED <<oauthPending, oauthPastTtl, oauthFlows, oauthExchanges>>
  BY DEF OAuthAuthorized
<1>2. oauthRow' \in OAuthRowType /\ oauthRow'.exists = oauthRow.exists /\ oauthRow'.refresh <= oauthIssued'
  <2> DEFINE token == IF rotates THEN oauthIssued + 1 ELSE oauthOp.refresh
  <2>1. oauthOp.refresh \in Nat /\ oauthOp.refresh <= oauthIssued /\ oauthIssued \in Nat
        /\ oauthRow.refresh \in Nat /\ oauthRow.refresh <= oauthIssued
    BY <1>0, OAuthValues DEF OAuthTypeOK, OAuthFlowOrder
  <2>2. token \in Nat /\ token <= oauthIssued' /\ oauthIssued' \in Nat /\ oauthRow.refresh <= oauthIssued'
    BY <1>1, <2>1
  <2>3. oauthRow' = OAuthPersisted(token, FALSE)
    BY <1>1
  <2> HIDE DEF token
  <2> QED BY <1>0, <2>2, <2>3, OAuthPersists
<1>3. OAuthTypeOK'
  <2>1. oauthIssued' \in Nat
    BY <1>0, <1>1, OAuthValues
  <2>2. oauthOp' \in OAuthOpType
    BY <1>0, <1>1, OAuthValues
  <2>3. oauthStates' \subseteq 1..oauthFlows
    BY <1>0, <1>1 DEF OAuthTypeOK
  <2> QED BY <1>0, <1>1, <1>2, <2>1, <2>2, <2>3 DEF OAuthTypeOK, OAuthRowType, OAuthOpType
<1>4. OAuthFlowOrder'
  BY <1>0, <1>1, OAuthValues DEF OAuthFlowOrder
<1>5. OAuthNotExchanged'
  BY <1>0, <1>1, OAuthValues DEF OAuthNotExchanged, OAuthUnspent
<1>6. OAuthFlowsHold'
  BY <1>0, <1>1, <1>2 DEF OAuthFlowsHold, OAuthCodeOnce, OAuthPendingRoutes, OAuthFlowOrder
<1> QED BY <1>3, <1>4, <1>5, <1>6 DEF OAuthInv

LEMMA OAuthStepKeeps == OAuthInv /\ [OAuthNext]_oauthVars => OAuthInv'
<1> SUFFICES ASSUME OAuthInv, [OAuthNext]_oauthVars PROVE OAuthInv'
  OBVIOUS
<1>0. OAuthTypeOK /\ OAuthFlowOrder
  BY DEF OAuthInv
<1>v. /\ oauthRow \in OAuthRowType /\ oauthRow.refresh <= oauthIssued /\ oauthRow.refresh \in Nat
      /\ oauthOp.refresh \in Nat /\ oauthOp.refresh <= oauthIssued /\ oauthIssued \in Nat /\ oauthRow.expired \in BOOLEAN
  BY <1>0, OAuthValues DEF OAuthTypeOK, OAuthFlowOrder
<1>1. CASE OAuthExpires \/ OAuthUpsert
  <2>1. oauthRow' \in OAuthRowType /\ oauthRow'.exists = oauthRow.exists /\ oauthRow'.refresh <= oauthIssued
    <3>1. CASE OAuthExpires
      <4>1. oauthRow' = [oauthRow EXCEPT !.expired = TRUE]
        BY <3>1 DEF OAuthExpires
      <4> QED BY <1>v, <4>1 DEF OAuthRowType
    <3>2. CASE OAuthUpsert
      <4>1. oauthRow' = [oauthRow EXCEPT !.refresh = 0, !.expired = FALSE]
        BY <3>2 DEF OAuthUpsert
      <4>2. oauthRow' = [exists |-> oauthRow.exists, refresh |-> 0, expired |-> FALSE] /\ oauthRow.exists \in BOOLEAN
        BY <1>v, <4>1 DEF OAuthRowType
      <4> QED BY <1>v, <4>2 DEF OAuthRowType
    <3> QED BY <1>1, <3>1, <3>2
  <2> QED BY <1>1, <2>1, OAuthRowSteps DEF OAuthExpires, OAuthUpsert
<1>2. CASE OAuthSdkSaves \/ OAuthFails(TRUE) \/ OAuthFails(FALSE)
  <2>1. oauthRow' \in OAuthRowType /\ oauthRow'.exists = oauthRow.exists /\ oauthRow'.refresh <= oauthIssued
    <3>1. CASE OAuthSdkSaves
      <4> DEFINE due == oauthRow.expired /\ oauthOp.refresh # 0
      <4>1. oauthRow' = OAuthPersisted(oauthOp.refresh, due) /\ due \in BOOLEAN
        BY <3>1 DEF OAuthSdkSaves
      <4> HIDE DEF due
      <4> QED BY <1>0, <1>v, <4>1, OAuthPersists
    <3>2. CASE OAuthFails(TRUE)
      <4>1. oauthRow' = OAuthPersisted(0, FALSE)
        BY <3>2 DEF OAuthFails
      <4>2. 0 \in Nat /\ 0 <= oauthIssued /\ FALSE \in BOOLEAN
        BY <1>v
      <4> QED BY <1>0, <1>v, <4>1, <4>2, OAuthPersists
    <3>3. CASE OAuthFails(FALSE)
      BY <1>v, <3>3 DEF OAuthFails
    <3> QED BY <1>2, <3>1, <3>2, <3>3
  <2>2. oauthOp' = oauthOp \/ oauthOp' = OAuthNoOp
    BY <1>2 DEF OAuthSdkSaves, OAuthFails, OAuthReleased
  <2> QED BY <1>2, <2>1, <2>2, OAuthRowSteps DEF OAuthSdkSaves, OAuthFails
<1>3. CASE OAuthRemove
  <2>1. /\ oauthRow' = [exists |-> FALSE, refresh |-> 0, expired |-> FALSE] /\ oauthStates' = {}
        /\ UNCHANGED <<oauthPending, oauthPastTtl, oauthOp, oauthFlows, oauthIssued, oauthExchanges>>
    BY <1>3 DEF OAuthRemove
  <2>2. OAuthTypeOK'
    BY <1>0, <2>1 DEF OAuthTypeOK
  <2>3. OAuthFlowOrder' /\ OAuthNotExchanged'
    BY <2>1 DEF OAuthInv, OAuthFlowOrder, OAuthNotExchanged, OAuthUnspent
  <2>4. OAuthFlowsHold'
    BY <2>1 DEF OAuthInv, OAuthFlowsHold, OAuthCodeOnce, OAuthPendingRoutes
  <2> QED BY <2>2, <2>3, <2>4 DEF OAuthInv
<1>4. CASE OAuthTtlPasses
  <2>1. oauthPastTtl' = TRUE /\ UNCHANGED <<oauthRow, oauthPending, oauthStates, oauthOp, oauthFlows, oauthIssued, oauthExchanges>>
    BY <1>4 DEF OAuthTtlPasses
  <2> QED BY <2>1 DEF OAuthInv, OAuthTypeOK, OAuthFlowOrder, OAuthNotExchanged, OAuthUnspent, OAuthFlowsHold,
                      OAuthCodeOnce, OAuthPendingRoutes
<1>5. CASE OAuthRefresh
  <2>1. /\ oauthOp.kind = "none" /\ oauthOp' = [kind |-> "refresh", flow |-> 0, refresh |-> oauthRow.refresh]
        /\ UNCHANGED <<oauthRow, oauthPending, oauthPastTtl, oauthStates, oauthFlows, oauthIssued, oauthExchanges>>
    BY <1>5 DEF OAuthRefresh, OAuthFree, OAuthOp
  <2>2. oauthOp' \in OAuthOpType /\ oauthOp'.kind = "refresh" /\ oauthOp'.refresh = oauthRow.refresh
    BY <1>v, <2>1 DEF OAuthOpType
  <2>3. OAuthTypeOK'
    BY <1>0, <2>1, <2>2 DEF OAuthTypeOK, OAuthOpType
  <2>4. OAuthFlowOrder' /\ OAuthNotExchanged'
    BY <1>v, <2>1, <2>2 DEF OAuthInv, OAuthFlowOrder, OAuthNotExchanged, OAuthUnspent
  <2>5. OAuthFlowsHold'
    BY <2>1 DEF OAuthInv, OAuthFlowsHold, OAuthCodeOnce, OAuthPendingRoutes
  <2> QED BY <2>3, <2>4, <2>5 DEF OAuthInv
<1>6. ASSUME NEW f \in 1..OAuthMaxFlows, NEW link \in BOOLEAN, OAuthCallbackDrops(f, link) PROVE OAuthInv'
  BY <1>6, OAuthDropKeeps DEF OAuthCallbackDrops
<1>7. CASE OAuthRestart
  BY <1>7, OAuthDropKeeps DEF OAuthRestart
<1>8. CASE UNCHANGED oauthVars
  <2>1. UNCHANGED <<oauthRow, oauthPending, oauthPastTtl, oauthStates, oauthOp, oauthFlows, oauthIssued, oauthExchanges>>
    BY <1>8 DEF oauthVars
  <2> QED BY <2>1 DEF OAuthInv, OAuthTypeOK, OAuthFlowOrder, OAuthNotExchanged, OAuthUnspent, OAuthFlowsHold,
                      OAuthCodeOnce, OAuthPendingRoutes
<1>9. CASE \E b \in BOOLEAN : OAuthAuthorized(b) \/ OAuthFails(b)
  BY <1>2, <1>9, OAuthAuthorizedKeeps
<1> QED BY <1>1, <1>2, <1>3, <1>4, <1>5, <1>6, <1>7, <1>8, <1>9, OAuthStartKeeps, OAuthRedirectedKeeps,
           OAuthExchangeKeeps DEF OAuthNext

\* The code of a sign-in is exchanged at most once, with the verifier of its own flow, and a
\* sign-in that is waited for is found by its state unless the server was removed, though flows
\* are started again, expire, and cross a refresh (McpOAuthService).
THEOREM SignInsHold == OAuthSpec => []OAuthFlowsHold
<1>1. OAuthInv => OAuthFlowsHold
  BY DEF OAuthInv
<1> QED BY <1>1, OAuthInitHolds, OAuthStepKeeps, PTL DEF OAuthSpec

-----------------------------------------------------------------------------
(* McpConnections: one connection to a server *)

\* The places where a handler is replacing a connection.
McpOpeners == {"closing", "opening"}

\* The use that replaces the connection is the one that others wait for, and the table is
\* empty meanwhile.
McpOneOpener ==
    /\ \A u \in McpUses : mcpAt[u] \in McpOpeners <=> mcpPending = u
    /\ mcpPending # McpNobody => mcpPending \in McpUses /\ mcpEntry = 0

\* What a handler holds is where the handler is; nobody else is closing it.
McpHeld ==
    /\ \A a \in McpActors : mcpAt[a] = "closing" => mcpHas[a] \in McpIds /\ mcpConn[mcpHas[a]] = "closing"
    /\ \A a, b \in McpActors : mcpAt[a] = "closing" /\ mcpAt[b] = "closing" /\ mcpHas[a] = mcpHas[b] => a = b
    /\ \A u \in McpUses : mcpAt[u] \in {"opening", "using"} =>
          mcpHas[u] \in McpIds /\ mcpConn[mcpHas[u]] # "unused" /\ mcpOf[mcpHas[u]] = mcpWants[u]
    /\ \A d \in McpDrops : mcpAt[d] # "opening"

\* Connections that live are in the table or in the hands of the one that opens them.
McpLive ==
    /\ \A c \in McpIds : mcpConn[c] = "open" => mcpEntry = c
    /\ \A c \in McpIds : mcpConn[c] = "opening" => \E u \in McpUses : mcpAt[u] = "opening" /\ mcpHas[u] = c
    /\ \A u \in McpUses : mcpAt[u] = "opening" => mcpConn[mcpHas[u]] = "opening"
    /\ mcpEntry # 0 => mcpEntry \in McpIds /\ mcpConn[mcpEntry] \in {"open", "dead"}

\* Types.
McpShape ==
    /\ mcpAt \in [McpActors -> McpPlaces] /\ mcpHas \in [McpActors -> 0..McpMaxConns] /\ mcpWants \in [McpActors -> 0..McpMaxConfig]
    /\ mcpConn \in [McpIds -> {"unused", "opening", "open", "dead", "closing", "closed"}]
    /\ mcpOf \in [McpIds -> 0..McpMaxConfig] /\ mcpEntry \in 0..McpMaxConns /\ mcpConfig \in 1..McpMaxConfig

\* The inductive invariant: at most one handler replaces, and each connection has one owner.
McpInv == McpShape /\ McpOneOpener /\ McpHeld /\ McpLive

LEMMA McpInitHolds == McpInit => McpInv
  BY McpAssumption DEF McpInit, McpInv, McpShape, McpOneOpener, McpHeld, McpLive, McpActors, McpIds, McpPlaces, McpOpeners

LEMMA McpFreshUnused == ASSUME McpRoom, McpInv PROVE McpFresh \in McpIds /\ mcpConn[McpFresh] = "unused"
  BY DEF McpRoom, McpFresh

\* Nothing of this is disturbed by a handler that goes from one place to another, neither of
\* which holds a connection.
McpEmptyHanded == {"new", "reading", "sent", "looking", "waiting", "woken", "done", "failed"}
McpLeavesAlone(a) ==
    \/ mcpAt'[a] = mcpAt[a] /\ mcpWants'[a] = mcpWants[a]
    \/ mcpAt'[a] \in McpEmptyHanded /\ mcpAt[a] \in McpEmptyHanded \cup {"using"}

LEMMA McpMoves ==
    ASSUME McpInv, mcpAt' \in [McpActors -> McpPlaces],
           \A a \in McpActors : McpLeavesAlone(a),
           mcpWants' \in [McpActors -> 0..McpMaxConfig], mcpConfig' \in 1..McpMaxConfig,
           UNCHANGED <<mcpPending, mcpEntry, mcpConn, mcpOf, mcpHas>>
    PROVE  McpInv'
<1> USE DEF McpEmptyHanded, McpLeavesAlone
<1>1. McpShape'
  BY DEF McpInv, McpShape
<1>2. McpOneOpener'
  BY DEF McpInv, McpShape, McpOneOpener, McpOpeners, McpActors
<1>3. McpHeld'
  BY DEF McpInv, McpShape, McpHeld, McpActors
<1>4. McpLive'
  BY DEF McpInv, McpShape, McpLive, McpActors
<1> QED BY <1>1, <1>2, <1>3, <1>4 DEF McpInv

\* The same for one handler.
LEMMA McpGoesOn ==
    ASSUME McpInv, NEW a \in McpActors, NEW at \in McpEmptyHanded, mcpAt[a] \in McpEmptyHanded \cup {"using"},
           mcpAt' = [mcpAt EXCEPT ![a] = at],
           UNCHANGED <<mcpConfig, mcpWants, mcpPending, mcpEntry, mcpConn, mcpOf, mcpHas>>
    PROVE  McpInv'
<1>1. at \in McpPlaces /\ mcpAt \in [McpActors -> McpPlaces] /\ mcpWants \in [McpActors -> 0..McpMaxConfig]
      /\ mcpConfig \in 1..McpMaxConfig
  BY DEF McpEmptyHanded, McpPlaces, McpInv, McpShape
<1>2. mcpAt' \in [McpActors -> McpPlaces] /\ mcpWants' \in [McpActors -> 0..McpMaxConfig] /\ mcpConfig' \in 1..McpMaxConfig
  BY <1>1
<1>3. \A b \in McpActors : McpLeavesAlone(b)
  BY <1>1 DEF McpLeavesAlone
<1> QED BY <1>1, <1>2, <1>3, McpMoves

\* A handler that takes hold of a connection.
LEMMA McpShapeKept ==
    ASSUME McpShape, NEW a \in McpActors, NEW at \in McpPlaces, NEW c \in McpIds, NEW state \in {"opening", "closing"},
           mcpAt' = [mcpAt EXCEPT ![a] = at], mcpHas' = [mcpHas EXCEPT ![a] = c],
           mcpConn' = [mcpConn EXCEPT ![c] = state],
           mcpOf' = mcpOf \/ mcpOf' = [mcpOf EXCEPT ![c] = mcpWants[a]],
           mcpEntry' = 0, UNCHANGED <<mcpConfig, mcpWants>>
    PROVE  McpShape'
<1>1. c \in 0..McpMaxConns /\ 0 \in 0..McpMaxConns
  BY McpAssumption DEF McpIds
<1>2. mcpAt' \in [McpActors -> McpPlaces] /\ mcpHas' \in [McpActors -> 0..McpMaxConns]
  BY <1>1 DEF McpShape
<1>3. mcpConn' \in [McpIds -> {"unused", "opening", "open", "dead", "closing", "closed"}]
  BY DEF McpShape
<1>4. mcpOf' \in [McpIds -> 0..McpMaxConfig]
  BY DEF McpShape
<1> QED BY <1>1, <1>2, <1>3, <1>4 DEF McpShape

LEMMA McpReusesKeeps == ASSUME McpInv, NEW u \in McpUses, McpReuses(u) PROVE McpInv'
<1>1. /\ mcpAt[u] = "looking" /\ mcpEntry # 0 /\ mcpOf[mcpEntry] = mcpWants[u]
      /\ mcpAt' = [mcpAt EXCEPT ![u] = "using"] /\ mcpHas' = [mcpHas EXCEPT ![u] = mcpEntry]
      /\ UNCHANGED <<mcpConfig, mcpWants, mcpPending, mcpEntry, mcpConn, mcpOf>>
  BY DEF McpReuses, McpRuns, McpGoes, McpFits, McpMain
<1>2. McpShape'
  BY <1>1 DEF McpInv, McpShape, McpActors, McpPlaces
<1>3. McpOneOpener'
  BY <1>1 DEF McpInv, McpShape, McpOneOpener, McpOpeners, McpActors
<1>4. McpHeld'
  BY <1>1 DEF McpInv, McpShape, McpHeld, McpActors, McpLive
<1>5. McpLive'
  BY <1>1 DEF McpInv, McpShape, McpLive, McpActors
<1> QED BY <1>2, <1>3, <1>4, <1>5 DEF McpInv

\* Opening the fresh connection c, when the connections but c are as in conn.
LEMMA McpReplacesKeeps == ASSUME McpInv, NEW u \in McpUses, McpReplaces(u) PROVE McpInv'
<1>1. /\ mcpAt[u] = "looking" /\ mcpPending = McpNobody /\ mcpPending' = u /\ mcpEntry' = 0
      /\ UNCHANGED <<mcpConfig, mcpWants>>
  BY DEF McpReplaces, McpRuns, McpBusy, McpMain
<1>2. CASE mcpEntry = 0
  <2>1. PICK c \in McpIds : /\ mcpConn[c] = "unused" /\ mcpAt' = [mcpAt EXCEPT ![u] = "opening"]
                            /\ mcpConn' = [mcpConn EXCEPT ![c] = "opening"] /\ mcpOf' = [mcpOf EXCEPT ![c] = mcpWants[u]]
                            /\ mcpHas' = [mcpHas EXCEPT ![u] = c]
    BY <1>2, McpFreshUnused DEF McpReplaces, McpOpens, McpGoes
  <2>2. McpShape'
    BY <1>1, <2>1, McpShapeKept DEF McpInv, McpActors, McpPlaces
  <2>3. McpOneOpener'
    BY <1>1, <2>1, McpAssumption DEF McpInv, McpShape, McpOneOpener, McpOpeners, McpActors
  <2>4. McpHeld'
    BY <1>1, <2>1, McpAssumption DEF McpInv, McpShape, McpHeld, McpActors
  <2>5. McpLive'
    BY <1>1, <1>2, <2>1 DEF McpInv, McpShape, McpLive, McpActors, McpOneOpener, McpOpeners
  <2> QED BY <2>2, <2>3, <2>4, <2>5 DEF McpInv
<1>3. CASE mcpEntry # 0
  <2>1. /\ mcpAt' = [mcpAt EXCEPT ![u] = "closing"] /\ mcpConn' = [mcpConn EXCEPT ![mcpEntry] = "closing"]
        /\ mcpHas' = [mcpHas EXCEPT ![u] = mcpEntry] /\ UNCHANGED mcpOf
    BY <1>3 DEF McpReplaces, McpGoes
  <2>2. McpShape'
    BY <1>1, <1>3, <2>1, McpShapeKept DEF McpInv, McpActors, McpPlaces, McpLive
  <2>3. McpOneOpener'
    BY <1>1, <2>1, McpAssumption DEF McpInv, McpShape, McpOneOpener, McpOpeners, McpActors
  <2>4. McpHeld'
    BY <1>1, <1>3, <2>1, McpAssumption DEF McpInv, McpShape, McpHeld, McpActors, McpLive
  <2>5. McpLive'
    BY <1>1, <1>3, <2>1 DEF McpInv, McpShape, McpLive, McpActors, McpOneOpener, McpOpeners
  <2> QED BY <2>2, <2>3, <2>4, <2>5 DEF McpInv
<1> QED BY <1>2, <1>3

LEMMA McpOldClosedKeeps == ASSUME McpInv, NEW u \in McpUses, McpOldClosed(u) PROVE McpInv'
<1>1. PICK c \in McpIds : /\ mcpConn[c] = "unused" /\ mcpAt[u] = "closing" /\ mcpAt' = [mcpAt EXCEPT ![u] = "opening"]
                          /\ mcpConn' = [[mcpConn EXCEPT ![mcpHas[u]] = "closed"] EXCEPT ![c] = "opening"]
                          /\ mcpOf' = [mcpOf EXCEPT ![c] = mcpWants[u]] /\ mcpHas' = [mcpHas EXCEPT ![u] = c]
                          /\ UNCHANGED <<mcpConfig, mcpWants, mcpPending, mcpEntry>>
  BY McpFreshUnused DEF McpOldClosed, McpOpens, McpGoes, McpMain
<1>2. McpShape'
  BY <1>1 DEF McpInv, McpShape, McpActors, McpPlaces, McpIds
<1>3. McpOneOpener'
  BY <1>1 DEF McpInv, McpShape, McpOneOpener, McpOpeners, McpActors
<1>4. McpHeld'
  BY <1>1, McpAssumption DEF McpInv, McpShape, McpHeld, McpActors
<1>5. McpLive'
  BY <1>1 DEF McpInv, McpShape, McpLive, McpActors, McpOneOpener, McpOpeners, McpHeld
<1> QED BY <1>2, <1>3, <1>4, <1>5 DEF McpInv

LEMMA McpOpenedKeeps == ASSUME McpInv, NEW u \in McpUses, NEW ok \in BOOLEAN, McpOpened(u, ok) PROVE McpInv'
<1>1. /\ mcpAt[u] = "opening" /\ mcpPending' = McpNobody
      /\ mcpConn' = [mcpConn EXCEPT ![mcpHas[u]] = IF ok THEN "open" ELSE "closed"]
      /\ mcpEntry' = IF ok THEN mcpHas[u] ELSE mcpEntry
      /\ mcpAt' = McpWoken(u, IF ok THEN "using" ELSE "failed")
      /\ UNCHANGED <<mcpConfig, mcpWants, mcpOf, mcpHas>>
  BY DEF McpOpened, McpPendingAfter, McpMain
<1>2. /\ mcpAt' \in [McpActors -> McpPlaces] /\ mcpAt'[u] = (IF ok THEN "using" ELSE "failed")
      /\ \A a \in McpActors : a = u \/ mcpAt'[a] = mcpAt[a] \/ (mcpAt[a] = "waiting" /\ mcpAt'[a] \in {"woken", "looking"})
  <2>1. \A a \in McpActors : mcpAt[a] \in McpPlaces
    BY DEF McpInv, McpShape
  <2>2. u \in McpActors /\ \A at \in {"using", "failed", "woken", "looking"} : at \in McpPlaces
    BY DEF McpActors, McpPlaces
  <2>3. \A a \in McpActors : mcpAt'[a] = (IF a = u THEN IF ok THEN "using" ELSE "failed" ELSE IF mcpAt[a] # "waiting" THEN mcpAt[a]
                                            ELSE IF a \in McpDrops THEN "woken" ELSE "looking")
    BY <1>1 DEF McpWoken
  <2>4. mcpAt' = [a \in McpActors |-> mcpAt'[a]]
    BY <1>1 DEF McpWoken
  <2>5. \A a \in McpActors : mcpAt'[a] \in McpPlaces
    BY <2>1, <2>2, <2>3
  <2>6. mcpAt' \in [McpActors -> McpPlaces]
    BY <2>4, <2>5
  <2>7. \A a \in McpActors : a = u \/ mcpAt'[a] = mcpAt[a] \/ (mcpAt[a] = "waiting" /\ mcpAt'[a] \in {"woken", "looking"})
    BY <2>3
  <2>8. mcpAt'[u] = (IF ok THEN "using" ELSE "failed")
    BY <2>2, <2>3
  <2> QED BY <2>6, <2>7, <2>8
<1>3. u \in McpActors /\ mcpPending = u /\ mcpEntry = 0 /\ mcpHas[u] \in McpIds /\ mcpConn[mcpHas[u]] = "opening"
  BY <1>1, McpAssumption DEF McpInv, McpOneOpener, McpOpeners, McpActors, McpHeld, McpLive
<1>4. McpShape'
  BY <1>1, <1>2, <1>3 DEF McpInv, McpShape, McpIds
<1>5. McpOneOpener'
  BY <1>1, <1>2, <1>3, McpAssumption DEF McpInv, McpShape, McpOneOpener, McpOpeners, McpActors
<1>6. McpHeld'
  BY <1>1, <1>2, <1>3, McpAssumption DEF McpInv, McpShape, McpHeld, McpActors
<1>7. McpLive'
  <2> DEFINE c == mcpHas[u]
  <2>1. /\ c \in McpIds /\ c # 0 /\ mcpConn'[c] = (IF ok THEN "open" ELSE "closed")
        /\ \A b \in McpIds : b # c => mcpConn'[b] = mcpConn[b]
    BY <1>1, <1>3 DEF McpInv, McpShape, McpIds
  <2>2. \A b \in McpIds : mcpConn[b] # "open"
    BY <1>3 DEF McpInv, McpLive, McpIds
  <2>3. \A b \in McpIds : mcpConn[b] = "opening" => b = c
    BY <1>1, <1>3 DEF McpInv, McpLive, McpOneOpener, McpOpeners
  <2>4. \A b \in McpIds : mcpConn'[b] = "open" => mcpEntry' = b
    BY <1>1, <2>1, <2>2
  <2>5. \A b \in McpIds : mcpConn'[b] # "opening"
    BY <2>1, <2>3
  <2>6. \A v \in McpUses : mcpAt[v] = "opening" => v = u
    BY <1>3 DEF McpInv, McpOneOpener, McpOpeners
  <2>7. \A v \in McpUses : mcpAt'[v] # "opening"
    BY <1>2, <2>6 DEF McpActors
  <2>8. mcpEntry' # 0 => mcpEntry' \in McpIds /\ mcpConn'[mcpEntry'] \in {"open", "dead"}
    BY <1>1, <1>3, <2>1
  <2> QED BY <2>4, <2>5, <2>7, <2>8 DEF McpLive
<1> QED BY <1>4, <1>5, <1>6, <1>7 DEF McpInv

LEMMA McpDisconnectsKeeps == ASSUME McpInv, NEW d \in McpDrops, McpDisconnects(d) PROVE McpInv'
<1>1. /\ mcpAt[d] \in {"looking", "woken"} /\ mcpEntry' = 0
      /\ UNCHANGED <<mcpConfig, mcpWants, mcpPending, mcpOf>>
  BY DEF McpDisconnects, McpRuns, McpEntryWithout, McpMain
<1>2. CASE mcpEntry = 0
  <2>1. mcpAt' = [mcpAt EXCEPT ![d] = "done"] /\ UNCHANGED <<mcpEntry, mcpConn, mcpHas>>
    BY <1>1, <1>2 DEF McpDisconnects, McpGoes
  <2> QED BY <1>1, <2>1, McpGoesOn DEF McpActors, McpEmptyHanded
<1>3. CASE mcpEntry # 0
  <2>1. /\ mcpAt' = [mcpAt EXCEPT ![d] = "closing"] /\ mcpConn' = [mcpConn EXCEPT ![mcpEntry] = "closing"]
        /\ mcpHas' = [mcpHas EXCEPT ![d] = mcpEntry]
    BY <1>3 DEF McpDisconnects, McpGoes
  <2>2. McpShape'
    BY <1>1, <1>3, <2>1, McpShapeKept DEF McpInv, McpActors, McpPlaces, McpLive
  <2>3. McpOneOpener'
    BY <1>1, <2>1, McpAssumption DEF McpInv, McpShape, McpOneOpener, McpOpeners, McpActors
  <2>4. McpHeld'
    BY <1>1, <1>3, <2>1, McpAssumption DEF McpInv, McpShape, McpHeld, McpActors, McpLive
  <2>5. McpLive'
    BY <1>1, <1>3, <2>1, McpAssumption DEF McpInv, McpShape, McpLive, McpActors
  <2> QED BY <2>2, <2>3, <2>4, <2>5 DEF McpInv
<1> QED BY <1>2, <1>3

LEMMA McpDisconnectedKeeps == ASSUME McpInv, NEW d \in McpDrops, McpDisconnected(d) PROVE McpInv'
<1>1. /\ mcpAt[d] = "closing" /\ mcpAt' = [mcpAt EXCEPT ![d] = "done"]
      /\ mcpConn' = [mcpConn EXCEPT ![mcpHas[d]] = "closed"]
      /\ UNCHANGED <<mcpConfig, mcpWants, mcpPending, mcpEntry, mcpOf, mcpHas>>
  BY DEF McpDisconnected, McpGoes, McpMain
<1>2. mcpHas[d] \in McpIds /\ mcpConn[mcpHas[d]] = "closing"
  BY <1>1 DEF McpInv, McpHeld, McpActors
<1>3. McpShape'
  BY <1>1, <1>2 DEF McpInv, McpShape, McpActors, McpPlaces, McpIds
<1>4. McpOneOpener'
  BY <1>1, McpAssumption DEF McpInv, McpShape, McpOneOpener, McpOpeners, McpActors
<1>5. McpHeld'
  BY <1>1, <1>2, McpAssumption DEF McpInv, McpShape, McpHeld, McpActors
<1>6. McpLive'
  BY <1>1, <1>2, McpAssumption DEF McpInv, McpShape, McpLive, McpActors
<1> QED BY <1>3, <1>4, <1>5, <1>6 DEF McpInv

LEMMA McpDiesKeeps == ASSUME McpInv, NEW c \in McpIds, McpDies(c) PROVE McpInv'
<1>1. /\ mcpConn[c] = "open" /\ mcpConn' = [mcpConn EXCEPT ![c] = "dead"]
      /\ UNCHANGED <<mcpConfig, mcpWants, mcpAt, mcpPending, mcpEntry, mcpOf, mcpHas>>
  BY DEF McpDies, McpMain
<1>2. McpShape' /\ McpOneOpener'
  BY <1>1 DEF McpInv, McpShape, McpOneOpener
<1>3. McpHeld'
  BY <1>1 DEF McpInv, McpShape, McpHeld
<1>4. McpLive'
  BY <1>1 DEF McpInv, McpShape, McpLive
<1> QED BY <1>2, <1>3, <1>4 DEF McpInv

\* A command that is on its way has been posted once, and its caller waits.
McpOnTheWay ==
    /\ mcpSent \in Seq(McpActors)
    /\ \A i \in 1..Len(mcpSent) : mcpAt[mcpSent[i]] = "sent"
    /\ \A i, j \in 1..Len(mcpSent) : mcpSent[i] = mcpSent[j] => i = j

LEMMA McpPosted ==
    ASSUME McpShape, McpOnTheWay, NEW a \in McpActors, mcpAt[a] # "sent",
           mcpAt' = [mcpAt EXCEPT ![a] = "sent"], mcpSent' = Append(mcpSent, a)
    PROVE  McpOnTheWay'
<1>1. mcpSent \in Seq(McpActors) /\ mcpAt \in [McpActors -> McpPlaces]
  BY DEF McpOnTheWay, McpShape
<1>2. mcpSent' \in Seq(McpActors) /\ Len(mcpSent') = Len(mcpSent) + 1 /\ Len(mcpSent) \in Nat
  BY <1>1
<1>3. \A i \in 1..Len(mcpSent') : mcpSent'[i] = (IF i = Len(mcpSent) + 1 THEN a ELSE mcpSent[i])
  BY <1>1
<1>4. \A i \in 1..Len(mcpSent') : i = Len(mcpSent) + 1 \/ i \in 1..Len(mcpSent)
  BY <1>2
<1>5. \A i \in 1..Len(mcpSent) : mcpSent[i] \in McpActors /\ mcpSent[i] # a
  BY <1>1 DEF McpOnTheWay
<1>6. \A i \in 1..Len(mcpSent') : mcpAt'[mcpSent'[i]] = "sent"
  BY <1>1, <1>3, <1>4, <1>5 DEF McpOnTheWay
<1>7. \A i, j \in 1..Len(mcpSent') : mcpSent'[i] = mcpSent'[j] => i = j
  BY <1>3, <1>4, <1>5 DEF McpOnTheWay
<1> QED BY <1>2, <1>6, <1>7 DEF McpOnTheWay

LEMMA McpReceived ==
    ASSUME McpShape, McpOnTheWay, mcpSent # <<>>,
           mcpAt' = [mcpAt EXCEPT ![Head(mcpSent)] = "looking"], mcpSent' = Tail(mcpSent)
    PROVE  McpOnTheWay' /\ Head(mcpSent) \in McpActors /\ mcpAt[Head(mcpSent)] = "sent"
<1>1. mcpSent \in Seq(McpActors) /\ mcpAt \in [McpActors -> McpPlaces]
  BY DEF McpOnTheWay, McpShape
<1>2. Len(mcpSent) \in Nat \ {0} /\ Head(mcpSent) = mcpSent[1] /\ Head(mcpSent) \in McpActors
  BY <1>1
<1>3. mcpSent' \in Seq(McpActors) /\ Len(mcpSent') = Len(mcpSent) - 1
  BY <1>1, <1>2
<1>4. \A i \in 1..Len(mcpSent') : mcpSent'[i] = mcpSent[i + 1] /\ i + 1 \in 1..Len(mcpSent) /\ i + 1 # 1
  BY <1>1, <1>2, <1>3
<1>5. 1 \in 1..Len(mcpSent)
  BY <1>2
<1>6. \A i \in 1..Len(mcpSent') : mcpSent'[i] \in McpActors /\ mcpSent'[i] # mcpSent[1] /\ mcpAt[mcpSent'[i]] = "sent"
  BY <1>1, <1>4, <1>5 DEF McpOnTheWay
<1>7. \A i \in 1..Len(mcpSent') : mcpAt'[mcpSent'[i]] = "sent"
  BY <1>1, <1>2, <1>6
<1>8. \A i, j \in 1..Len(mcpSent') : mcpSent'[i] = mcpSent'[j] => i = j
  <2> TAKE i, j \in 1..Len(mcpSent')
  <2> HAVE mcpSent'[i] = mcpSent'[j]
  <2>1. i + 1 = j + 1
    BY <1>4 DEF McpOnTheWay
  <2> QED BY <1>3, <2>1
<1> QED BY <1>2, <1>3, <1>5, <1>7, <1>8 DEF McpOnTheWay

\* The handlers of the Tool Runner do not touch what is on its way.
LEMMA McpWayKept ==
    ASSUME McpShape, McpOnTheWay, mcpSent' = mcpSent, \A a \in McpActors : mcpAt[a] = "sent" => mcpAt'[a] = "sent"
    PROVE  McpOnTheWay'
<1>1. \A i \in 1..Len(mcpSent) : mcpSent[i] \in McpActors
  BY DEF McpOnTheWay
<1> QED BY <1>1 DEF McpOnTheWay

LEMMA McpStepKeeps == McpInv /\ McpOnTheWay /\ [McpNext]_mcpVars => McpInv'
<1> SUFFICES ASSUME McpInv, McpOnTheWay, [McpNext]_mcpVars PROVE McpInv'
  OBVIOUS
<1>0. McpShape
  BY DEF McpInv
<1>1. CASE McpTokens
  <2>1. /\ mcpConfig' = mcpConfig + 1 /\ mcpConfig < McpMaxConfig
        /\ UNCHANGED <<mcpAt, mcpWants, mcpPending, mcpEntry, mcpConn, mcpOf, mcpHas>>
    BY <1>1 DEF McpTokens, McpCache
  <2>2. mcpConfig' \in 1..McpMaxConfig
    BY <1>0, <2>1, McpAssumption DEF McpShape
  <2>3. mcpAt' \in [McpActors -> McpPlaces] /\ mcpWants' \in [McpActors -> 0..McpMaxConfig]
    BY <1>0, <2>1 DEF McpShape
  <2>4. \A a \in McpActors : McpLeavesAlone(a)
    BY <2>1 DEF McpLeavesAlone
  <2> QED BY <2>1, <2>2, <2>3, <2>4, McpMoves
<1>2. CASE McpArrives
  <2>1. UNCHANGED <<mcpConfig, mcpWants, mcpPending, mcpEntry, mcpConn, mcpOf, mcpHas>>
        /\ mcpAt' = [mcpAt EXCEPT ![Head(mcpSent)] = "looking"] /\ mcpSent # <<>> /\ mcpSent' = Tail(mcpSent)
    BY <1>2 DEF McpArrives, McpGoes
  <2> QED BY <1>0, <2>1, McpReceived, McpGoesOn DEF McpEmptyHanded
<1>3. ASSUME NEW u \in McpUses, McpRead(u) PROVE McpInv'
  <2>1. /\ mcpAt[u] = "new" /\ mcpAt' = [mcpAt EXCEPT ![u] = "reading"] /\ mcpWants' = [mcpWants EXCEPT ![u] = mcpConfig]
        /\ UNCHANGED <<mcpConfig, mcpPending, mcpEntry, mcpConn, mcpOf, mcpHas>>
    BY <1>3 DEF McpRead, McpGoes, McpCache
  <2>2. u \in McpActors /\ mcpConfig \in 0..McpMaxConfig /\ mcpConfig \in 1..McpMaxConfig /\ "reading" \in McpPlaces
    BY <1>0, McpAssumption DEF McpActors, McpShape, McpPlaces
  <2>3. mcpAt' \in [McpActors -> McpPlaces] /\ mcpWants' \in [McpActors -> 0..McpMaxConfig]
    BY <1>0, <2>1, <2>2 DEF McpShape
  <2>4. \A a \in McpActors : a # u => mcpAt'[a] = mcpAt[a] /\ mcpWants'[a] = mcpWants[a]
    BY <1>0, <2>1, <2>2 DEF McpShape
  <2>5. mcpAt'[u] \in McpEmptyHanded /\ mcpAt[u] \in McpEmptyHanded
    BY <1>0, <2>1, <2>2 DEF McpShape, McpEmptyHanded
  <2>6. \A a \in McpActors : McpLeavesAlone(a)
    BY <2>4, <2>5 DEF McpLeavesAlone
  <2> QED BY <2>1, <2>2, <2>3, <2>6, McpMoves
<1>4. ASSUME NEW u \in McpUses, McpPost(u) PROVE McpInv'
  <2>1. /\ mcpAt[u] = "reading" /\ mcpAt' = [mcpAt EXCEPT ![u] = "sent"]
        /\ UNCHANGED <<mcpConfig, mcpWants, mcpPending, mcpEntry, mcpConn, mcpOf, mcpHas>>
    BY <1>4 DEF McpPost, McpGoes, McpCache
  <2> QED BY <2>1, McpGoesOn DEF McpActors, McpEmptyHanded
<1>5. ASSUME NEW d \in McpDrops, McpUpsert(d) PROVE McpInv'
  <2>1. /\ mcpAt[d] = "new" /\ mcpAt' = [mcpAt EXCEPT ![d] = "sent"] /\ mcpConfig' = mcpConfig + 1 /\ mcpConfig < McpMaxConfig
        /\ UNCHANGED <<mcpWants, mcpPending, mcpEntry, mcpConn, mcpOf, mcpHas>>
    BY <1>5 DEF McpUpsert, McpGoes, McpCache
  <2>2. mcpConfig' \in 1..McpMaxConfig
    BY <1>0, <2>1, McpAssumption DEF McpShape
  <2>3. d \in McpActors /\ mcpAt' \in [McpActors -> McpPlaces]
    BY <1>0, <2>1 DEF McpShape, McpActors, McpPlaces
  <2>4. \A a \in McpActors : a # d => mcpAt'[a] = mcpAt[a]
    BY <1>0, <2>1, <2>3 DEF McpShape
  <2>5. mcpAt'[d] \in McpEmptyHanded /\ mcpAt[d] \in McpEmptyHanded
    BY <1>0, <2>1, <2>3 DEF McpShape, McpEmptyHanded
  <2>6. \A a \in McpActors : McpLeavesAlone(a)
    BY <2>1, <2>4, <2>5 DEF McpLeavesAlone
  <2>7. mcpWants' \in [McpActors -> 0..McpMaxConfig]
    BY <1>0, <2>1 DEF McpShape
  <2> QED BY <2>1, <2>2, <2>3, <2>6, <2>7, McpMoves
<1>6. ASSUME NEW a \in McpActors, McpWaits(a) PROVE McpInv'
  <2>1. /\ mcpAt[a] = "looking" /\ mcpAt' = [mcpAt EXCEPT ![a] = "waiting"]
        /\ UNCHANGED <<mcpConfig, mcpWants, mcpPending, mcpEntry, mcpConn, mcpOf, mcpHas>>
    BY <1>6 DEF McpWaits, McpRuns, McpGoes, McpMain
  <2> QED BY <2>1, McpGoesOn DEF McpEmptyHanded
<1>7. ASSUME NEW u \in McpUses, McpCalled(u) PROVE McpInv'
  <2>1. PICK at \in {"done", "failed"} :
            /\ mcpAt[u] = "using" /\ mcpAt' = [mcpAt EXCEPT ![u] = at]
            /\ UNCHANGED <<mcpConfig, mcpWants, mcpPending, mcpEntry, mcpConn, mcpOf, mcpHas>>
    BY <1>7 DEF McpCalled, McpGoes, McpMain, McpCache
  <2> QED BY <2>1, McpGoesOn DEF McpActors, McpEmptyHanded
<1>8. CASE UNCHANGED mcpVars
  <2>1. UNCHANGED <<mcpConfig, mcpWants, mcpAt, mcpPending, mcpEntry, mcpConn, mcpOf, mcpHas>>
    BY <1>8 DEF mcpVars
  <2>2. mcpAt' \in [McpActors -> McpPlaces] /\ mcpWants' \in [McpActors -> 0..McpMaxConfig] /\ mcpConfig' \in 1..McpMaxConfig
    BY <1>0, <2>1 DEF McpShape
  <2>3. \A a \in McpActors : McpLeavesAlone(a)
    BY <2>1 DEF McpLeavesAlone
  <2> QED BY <2>1, <2>2, <2>3, McpMoves
<1> QED BY <1>1, <1>2, <1>3, <1>4, <1>5, <1>6, <1>7, <1>8, McpReusesKeeps, McpReplacesKeeps, McpOldClosedKeeps, McpOpenedKeeps,
           McpDisconnectsKeeps, McpDisconnectedKeeps, McpDiesKeeps DEF McpNext, McpHandles, McpSettles

LEMMA McpWayStep == McpShape /\ McpOnTheWay /\ [McpNext]_mcpVars => McpOnTheWay'
<1> SUFFICES ASSUME McpShape, McpOnTheWay, [McpNext]_mcpVars PROVE McpOnTheWay'
  OBVIOUS
<1>0. mcpAt \in [McpActors -> McpPlaces]
  BY DEF McpShape
<1>1. CASE McpTokens \/ (\E c \in McpIds : McpDies(c)) \/ UNCHANGED mcpVars
  <2>1. UNCHANGED <<mcpSent, mcpAt>>
    BY <1>1 DEF McpTokens, McpDies, McpMain, mcpVars
  <2> QED BY <2>1, McpWayKept
<1>2. CASE McpArrives
  BY <1>2, McpReceived DEF McpArrives, McpGoes
<1>3. ASSUME NEW u \in McpUses, McpRead(u) PROVE McpOnTheWay'
  <2>1. mcpAt[u] = "new" /\ mcpAt' = [mcpAt EXCEPT ![u] = "reading"] /\ mcpSent' = mcpSent
    BY <1>3 DEF McpRead, McpGoes
  <2> QED BY <1>0, <2>1, McpWayKept
<1>4. CASE (\E u \in McpUses : McpPost(u)) \/ \E d \in McpDrops : McpUpsert(d)
  <2>1. PICK a \in McpActors : mcpAt[a] # "sent" /\ mcpAt' = [mcpAt EXCEPT ![a] = "sent"] /\ mcpSent' = Append(mcpSent, a)
    BY <1>4 DEF McpPost, McpUpsert, McpGoes, McpActors
  <2> QED BY <2>1, McpPosted
<1>5. ASSUME NEW a \in McpActors, McpHandles(a) PROVE McpOnTheWay'
  <2>1. mcpSent' = mcpSent /\ mcpAt[a] \in {"looking", "woken"} /\ \E at : mcpAt' = [mcpAt EXCEPT ![a] = at]
    BY <1>5 DEF McpHandles, McpWaits, McpReuses, McpReplaces, McpDisconnects, McpOpens, McpRuns, McpGoes, McpMain
  <2> QED BY <1>0, <2>1, McpWayKept
<1>6. ASSUME NEW a \in McpActors, McpSettles(a), ~\E ok \in BOOLEAN : McpOpened(a, ok) PROVE McpOnTheWay'
  <2>1. mcpSent' = mcpSent /\ mcpAt[a] \in {"closing", "using"} /\ \E at : mcpAt' = [mcpAt EXCEPT ![a] = at]
    BY <1>6 DEF McpSettles, McpOldClosed, McpCalled, McpDisconnected, McpOpens, McpGoes, McpMain
  <2> QED BY <1>0, <2>1, McpWayKept
<1>7. ASSUME NEW a \in McpActors, NEW ok \in BOOLEAN, McpOpened(a, ok) PROVE McpOnTheWay'
  <2>1. /\ mcpSent' = mcpSent /\ mcpAt[a] = "opening"
        /\ mcpAt' = McpWoken(a, IF ok THEN "using" ELSE "failed")
    BY <1>7 DEF McpOpened, McpMain
  <2> QED BY <2>1, McpWayKept DEF McpWoken
<1> QED BY <1>1, <1>2, <1>3, <1>4, <1>5, <1>6, <1>7 DEF McpNext

\* At most one connection to a server is open or being opened, one that is open is in the table,
\* the one in the table has not been closed, and a call goes over a connection of the
\* configuration it was sent with, with any number of calls, changes of the configuration and
\* lost connections at the same time (getOrConnectMcp of the Tool Runner).
THEOREM ServedAsConfigured == McpSpec => []McpServesAsConfigured
<1>1. McpInv => McpServesAsConfigured
  <2> SUFFICES ASSUME McpInv PROVE McpServesAsConfigured
    OBVIOUS
  <2> DEFINE live == {c \in McpIds : mcpConn[c] \in {"opening", "open"}}
  <2>1. \A c, d \in live : c = d
    <3>1. \A c \in live : mcpConn[c] = "open" => mcpEntry = c
      BY DEF McpInv, McpLive
    <3>2. \A c \in live : mcpConn[c] # "open" => \E u \in McpUses : mcpPending = u /\ mcpHas[u] = c
      BY DEF McpInv, McpLive, McpOneOpener, McpOpeners
    <3>3. mcpPending \in McpUses => mcpEntry = 0
      BY McpAssumption DEF McpInv, McpOneOpener
    <3>4. 0 \notin live
      BY DEF McpIds
    <3> QED BY <3>1, <3>2, <3>3, <3>4
  <2>2. live = {} \/ \E c : live = {c}
    BY <2>1
  <2>3. Cardinality(live) <= 1
    <3>1. CASE live = {}
      BY <3>1, FS_EmptySet
    <3>2. ASSUME NEW c, live = {c} PROVE Cardinality(live) <= 1
      <4>1. Cardinality({c}) = 1
        BY FS_Singleton
      <4> QED BY <3>2, <4>1
    <3> QED BY <2>2, <3>1, <3>2
  <2>4. McpAsAsked /\ McpEntryUsable
    BY DEF McpInv, McpHeld, McpLive, McpAsAsked, McpEntryUsable
  <2> QED BY <2>3, <2>4 DEF McpServesAsConfigured, McpOneLive, McpInv, McpLive
<1>2. McpInit => McpOnTheWay
  BY DEF McpInit, McpOnTheWay
<1>3. McpInv => McpShape
  BY DEF McpInv
<1> QED BY <1>1, <1>2, <1>3, McpInitHolds, McpStepKeeps, McpWayStep, PTL DEF McpSpec

===============================================================================
