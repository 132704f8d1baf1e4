----------------------------- MODULE QueueProofs -----------------------------
(***************************************************************************)
(* Theorems about the two queues of tool calls: FileLeases, for any calls, *)
(* paths, runs and faults, and ReadLimiter, for any finite set of reads    *)
(* and any limit.                                                          *)
(*                                                                         *)
(* FileLeases: the argument is about the chain of a path: ordered by       *)
(* arrival, each live call awaits the one just before it, and the tail is  *)
(* the last.  So only the first live call of a path can have its           *)
(* predecessor resolved.                                                   *)
(*                                                                         *)
(* ReadLimiter: the counter equals the number of slots held because a slot *)
(* is handed over only to somebody who had none: the queue holds exactly   *)
(* the queued reads, each of them once.  It holds them in the order of     *)
(* arrival, which is why nobody is overtaken.                              *)
(***************************************************************************)
EXTENDS FileLeases, ReadLimiter, FiniteSetTheorems, TLAPS

-----------------------------------------------------------------------------
(* FileLeases: the chain of a path *)

SamePath(v, w) == PathOf[v] = PathOf[w]

\* Arrivals are counted, and no two live calls of a path arrived together.
RanksCount ==
    /\ \A w \in Live : leaseRank[w] < leaseClock
    /\ \A v, w \in Live : SamePath(v, w) /\ leaseRank[v] = leaseRank[w] => v = w

\* Nobody awaits a call that has not been made.
LinksAreOld == \A w \in Live : prev[w] # None => leasePhase[prev[w]] # "idle"

\* A call with an older live call in its path awaits the youngest of those.
LinksAreClose ==
    \A v, w \in Live : SamePath(v, w) /\ leaseRank[v] < leaseRank[w] =>
        prev[w] \in Live /\ leaseRank[v] <= leaseRank[prev[w]]

LinksGoBack ==
    \A w \in Live : prev[w] \in Live => SamePath(prev[w], w) /\ leaseRank[prev[w]] < leaseRank[w]

\* The tail of a path is the youngest call in it.
TailIsLast ==
    /\ \A w \in Live : tail[PathOf[w]] \in Live /\ leaseRank[w] <= leaseRank[tail[PathOf[w]]]
    /\ \A p \in Paths : tail[p] # None => tail[p] \in Live /\ PathOf[tail[p]] = p

\* Whoever holds a lease awaits nobody.
HoldersAreFirst == \A w \in Writes : Holds(w) => prev[w] \notin Live

\* Requests in the runner belong to calls that hold their lease.
RequestsAreHeld ==
    /\ \A w \in pending : leasePhase[w] = "executing"
    /\ \A w \in working : leasePhase[w] = "executing" /\ w \notin dying \cup answered
    /\ \A w \in dying \cup answered : leasePhase[w] \notin {"idle", "leasing"}

LeaseInv ==
    /\ LeaseTypeOK /\ RanksCount /\ LinksAreOld /\ LinksAreClose /\ LinksGoBack
    /\ TailIsLast /\ HoldersAreFirst /\ RequestsAreHeld

-----------------------------------------------------------------------------
LEMMA InitType == LeaseInit => LeaseTypeOK
<1> SUFFICES ASSUME LeaseInit PROVE LeaseTypeOK
  OBVIOUS
<1>1. leasePhase \in [Writes -> LeasePhases] /\ prev \in [Writes -> Writes \cup {None}]
  BY DEF LeaseInit, LeasePhases
<1>2. tail \in [Paths -> Writes \cup {None}] /\ leaseRank \in [Writes -> Nat] /\ leaseClock \in Nat
  BY DEF LeaseInit
<1>3. alive \in BOOLEAN
  BY DEF LeaseInit
<1> QED BY <1>1, <1>2, <1>3 DEF LeaseInit, LeaseTypeOK

LEMMA NextType == LeaseTypeOK /\ [LeaseNext]_leaseVars => LeaseTypeOK'
<1> SUFFICES ASSUME LeaseTypeOK, [LeaseNext]_leaseVars PROVE LeaseTypeOK'
  OBVIOUS
<1> USE LeaseAssumption DEF LeaseTypeOK, LeasePhases, chain, runner
<1>1. CASE UNCHANGED leaseVars
  BY <1>1 DEF leaseVars
<1>2. ASSUME NEW w \in Writes, Request(w) PROVE LeaseTypeOK'
  BY <1>2 DEF Request
<1>3. ASSUME NEW w \in Writes, Execute(w) PROVE LeaseTypeOK'
  BY <1>3 DEF Execute
<1>4. ASSUME NEW w \in Writes, Serve(w) PROVE LeaseTypeOK'
  BY <1>4 DEF Serve
<1>5. ASSUME NEW w \in Writes, Receive(w) PROVE LeaseTypeOK'
  BY <1>5 DEF Receive
<1>6. ASSUME NEW w \in Writes, ReleaseLease(w) PROVE LeaseTypeOK'
  BY <1>6 DEF ReleaseLease, TailWithout
<1>7. ASSUME NEW r \in Runs, StopRun(r) PROVE LeaseTypeOK'
  BY <1>7 DEF StopRun, Live
<1>8. CASE RunnerExits
  BY <1>8 DEF RunnerExits, GivenUp
<1>9. CASE WorkersStopped
  BY <1>9 DEF WorkersStopped, Live
<1>10. CASE DyingGone
  BY <1>10 DEF DyingGone
<1> QED BY <1>1, <1>2, <1>3, <1>4, <1>5, <1>6, <1>7, <1>8, <1>9, <1>10 DEF LeaseNext

LEMMA InitLease == LeaseInit => LeaseInv
<1> SUFFICES ASSUME LeaseInit PROVE LeaseInv
  OBVIOUS
<1>1. Live = {} /\ \A w \in Writes : ~Holds(w)
  BY DEF LeaseInit, Live, Holds
<1>2. \A p \in Paths : tail[p] = None
  BY DEF LeaseInit
<1>3. RequestsAreHeld
  BY DEF LeaseInit, RequestsAreHeld
<1>4. HoldersAreFirst
  BY <1>1 DEF HoldersAreFirst
<1> QED BY <1>1, <1>2, <1>3, <1>4, InitType
         DEF LeaseInv, RanksCount, LinksAreOld, LinksAreClose, LinksGoBack, TailIsLast

\* A step that leaves the chain and the set of live calls alone keeps what is said
\* of the chain.
LEMMA ChainUntouched ==
    ASSUME LeaseInv, UNCHANGED chain, Live' = Live,
           \A w \in Writes : leasePhase'[w] = "idle" => leasePhase[w] = "idle"
    PROVE  RanksCount' /\ LinksAreOld' /\ LinksAreClose' /\ LinksGoBack' /\ TailIsLast'
<1>1. \A w \in Live : prev[w] # None => prev[w] \in Writes
  BY DEF LeaseInv, LeaseTypeOK, Live
<1>2. LinksAreOld'
  BY <1>1 DEF LeaseInv, LinksAreOld, chain
<1>3. RanksCount' /\ LinksAreClose' /\ LinksGoBack' /\ TailIsLast'
  BY DEF LeaseInv, RanksCount, LinksAreClose, LinksGoBack, TailIsLast, SamePath, chain
<1> QED BY <1>2, <1>3

\* A new call joins the chain of its path at the end.
LEMMA RequestKeepsLease ==
    ASSUME LeaseInv, NEW x \in Writes, Request(x)
    PROVE  RanksCount' /\ LinksAreOld' /\ LinksAreClose' /\ LinksGoBack' /\ TailIsLast'
            /\ HoldersAreFirst' /\ RequestsAreHeld'
<1> DEFINE p == PathOf[x]
<1> USE DEF LeaseInv, SamePath
<1>1. /\ x \notin Live /\ Live' = Live \cup {x} /\ leasePhase[x] = "idle"
      /\ \A w \in Writes \ {x} : leasePhase'[w] = leasePhase[w]
      /\ leasePhase'[x] = "leasing"
  BY DEF Request, Live, LeaseTypeOK
<1>2. /\ \A w \in Live : prev'[w] = prev[w] /\ leaseRank'[w] = leaseRank[w]
      /\ prev'[x] = tail[p] /\ leaseRank'[x] = leaseClock /\ leaseClock' = leaseClock + 1
  BY <1>1 DEF Request, LeaseTypeOK, Live
<1>3. p \in Paths /\ tail'[p] = x /\ \A q \in Paths \ {p} : tail'[q] = tail[q]
  BY LeaseAssumption DEF Request, LeaseTypeOK
<1>4. /\ leaseClock \in Nat /\ \A w \in Live : leaseRank[w] \in Nat /\ leaseRank[w] < leaseClock
      /\ \A w \in Live : w \in Writes /\ PathOf[w] \in Paths
      /\ \A w \in Live : prev[w] # x
  BY <1>1, LeaseAssumption DEF LeaseTypeOK, RanksCount, LinksAreOld, Live
<1>5. tail[p] = None \/ (tail[p] \in Live /\ PathOf[tail[p]] = p)
  BY <1>3 DEF TailIsLast
<1>6. RanksCount'
  BY <1>1, <1>2, <1>4 DEF RanksCount
<1>7. LinksAreOld'
  <2>1. ASSUME NEW w \in Live, prev[w] # None PROVE leasePhase'[prev[w]] # "idle"
    BY <2>1, <1>1, <1>4 DEF LinksAreOld, LeaseTypeOK
  <2>2. ASSUME tail[p] # None PROVE leasePhase'[tail[p]] # "idle"
    BY <2>2, <1>1, <1>5 DEF Live
  <2> QED BY <2>1, <2>2, <1>1, <1>2 DEF LinksAreOld
<1>8. LinksAreClose'
  <2>1. ASSUME NEW v \in Live, NEW w \in Live, PathOf[v] = PathOf[w], leaseRank[v] < leaseRank[w]
        PROVE  prev'[w] \in Live' /\ leaseRank'[v] <= leaseRank'[prev'[w]]
    BY <2>1, <1>1, <1>2 DEF LinksAreClose
  <2>2. ASSUME NEW v \in Live, PathOf[v] = p
        PROVE  prev'[x] \in Live' /\ leaseRank'[v] <= leaseRank'[prev'[x]]
    BY <2>2, <1>1, <1>2 DEF TailIsLast
  <2>3. ASSUME NEW w \in Live PROVE ~(leaseRank'[x] < leaseRank'[w])
    BY <2>3, <1>2, <1>4
  <2>4. ~(leaseRank'[x] < leaseRank'[x])
    BY <1>2, <1>4
  <2> QED BY <2>1, <2>2, <2>3, <2>4, <1>1, <1>2 DEF LinksAreClose
<1>9. LinksGoBack'
  <2>1. ASSUME NEW w \in Live, prev[w] \in Live'
        PROVE  PathOf[prev[w]] = PathOf[w] /\ leaseRank'[prev[w]] < leaseRank'[w]
    BY <2>1, <1>1, <1>2, <1>4 DEF LinksGoBack
  <2>2. ASSUME tail[p] \in Live' PROVE PathOf[tail[p]] = p /\ leaseRank'[tail[p]] < leaseRank'[x]
    <3>1. tail[p] \in Live /\ PathOf[tail[p]] = p
      BY <2>2, <1>1, <1>5, LeaseAssumption DEF Live
    <3> QED BY <3>1, <1>2, <1>4
  <2> QED BY <2>1, <2>2, <1>1, <1>2 DEF LinksGoBack
<1>10. TailIsLast'
  <2>1. ASSUME NEW w \in Live'
        PROVE  tail'[PathOf[w]] \in Live' /\ leaseRank'[w] <= leaseRank'[tail'[PathOf[w]]]
    <3>1. CASE PathOf[w] = p
      BY <3>1, <1>1, <1>2, <1>3, <1>4
    <3>2. CASE PathOf[w] # p
      <4>1. w \in Live /\ PathOf[w] \in Paths \ {p}
        BY <3>2, <1>1, <1>4
      <4>2. tail'[PathOf[w]] = tail[PathOf[w]] /\ tail[PathOf[w]] \in Live
        BY <4>1, <1>3 DEF TailIsLast
      <4> QED BY <4>1, <4>2, <1>1, <1>2 DEF TailIsLast
    <3> QED BY <3>1, <3>2
  <2>2. ASSUME NEW q \in Paths, tail'[q] # None PROVE tail'[q] \in Live' /\ PathOf[tail'[q]] = q
    BY <2>2, <1>1, <1>3 DEF TailIsLast
  <2> QED BY <2>1, <2>2 DEF TailIsLast
<1>11. HoldersAreFirst'
  BY <1>1, <1>2, <1>4 DEF HoldersAreFirst, Holds, Live
<1>12. RequestsAreHeld'
  BY <1>1 DEF RequestsAreHeld, Request, runner, LeaseTypeOK
<1> QED BY <1>6, <1>7, <1>8, <1>9, <1>10, <1>11, <1>12

\* The first call of a chain leaves it; the tail is forgotten only if it was alone.
LEMMA ReleaseKeepsLease ==
    ASSUME LeaseInv, NEW x \in Writes, ReleaseLease(x)
    PROVE  RanksCount' /\ LinksAreOld' /\ LinksAreClose' /\ LinksGoBack' /\ TailIsLast'
            /\ HoldersAreFirst' /\ RequestsAreHeld'
<1> DEFINE p == PathOf[x]
<1> USE DEF LeaseInv, SamePath
<1>1. /\ x \in Live /\ Holds(x) /\ Live' = Live \ {x}
      /\ \A w \in Writes \ {x} : leasePhase'[w] = leasePhase[w]
      /\ leasePhase'[x] = "done"
  BY DEF ReleaseLease, Live, Holds, LeaseTypeOK
<1>2. prev' = prev /\ leaseRank' = leaseRank /\ leaseClock' = leaseClock
  BY DEF ReleaseLease
<1>3. /\ p \in Paths /\ \A q \in Paths \ {p} : tail'[q] = tail[q]
      /\ tail'[p] = IF tail[p] = x THEN None ELSE tail[p]
  BY LeaseAssumption DEF ReleaseLease, TailWithout, LeaseTypeOK
<1>4. /\ \A w \in Live : w \in Writes /\ PathOf[w] \in Paths /\ leaseRank[w] \in Nat
      /\ None \notin Live
  BY LeaseAssumption DEF LeaseTypeOK, Live
<1>5. \A v \in Live : PathOf[v] = p /\ v # x => leaseRank[x] < leaseRank[v]
  <2>1. prev[x] \notin Live
    BY <1>1 DEF HoldersAreFirst
  <2>2. \A v \in Live : PathOf[v] = p => ~(leaseRank[v] < leaseRank[x])
    BY <2>1, <1>1 DEF LinksAreClose
  <2>3. \A v \in Live : PathOf[v] = p /\ leaseRank[v] = leaseRank[x] => v = x
    BY <1>1 DEF RanksCount
  <2> QED BY <2>2, <2>3, <1>1, <1>4
<1>6. RanksCount'
  BY <1>1, <1>2 DEF RanksCount
<1>7. LinksAreOld'
  <2>1. \A w \in Live : prev[w] # None => prev[w] \in Writes
    BY <1>4 DEF LeaseTypeOK
  <2> QED BY <2>1, <1>1, <1>2 DEF LinksAreOld
<1>8. LinksAreClose'
  <2>1. ASSUME NEW v \in Live, NEW w \in Live, v # x, w # x,
               PathOf[v] = PathOf[w], leaseRank[v] < leaseRank[w]
        PROVE  prev[w] \in Live \ {x} /\ leaseRank[v] <= leaseRank[prev[w]]
    <3>1. prev[w] \in Live /\ leaseRank[v] <= leaseRank[prev[w]] /\ PathOf[prev[w]] = PathOf[w]
      BY <2>1 DEF LinksAreClose, LinksGoBack
    <3>2. prev[w] # x
      BY <3>1, <2>1, <1>4, <1>5, <1>1
    <3> QED BY <3>1, <3>2
  <2> QED BY <2>1, <1>1, <1>2 DEF LinksAreClose
<1>9. LinksGoBack'
  BY <1>1, <1>2 DEF LinksGoBack
<1>10. TailIsLast'
  <2>1. ASSUME NEW w \in Live, w # x
        PROVE  tail'[PathOf[w]] \in Live' /\ leaseRank[w] <= leaseRank[tail'[PathOf[w]]]
    <3>1. tail[PathOf[w]] \in Live /\ leaseRank[w] <= leaseRank[tail[PathOf[w]]]
      BY <2>1 DEF TailIsLast
    <3>2. tail[PathOf[w]] # x
      <4>1. CASE PathOf[w] = p
        BY <4>1, <3>1, <2>1, <1>4, <1>5, <1>1
      <4>2. CASE PathOf[w] # p
        BY <4>2, <3>1, <2>1, <1>4 DEF TailIsLast
      <4> QED BY <4>1, <4>2
    <3> QED BY <3>1, <3>2, <2>1, <1>1, <1>3, <1>4
  <2>2. ASSUME NEW q \in Paths, tail'[q] # None PROVE tail'[q] \in Live' /\ PathOf[tail'[q]] = q
    <3>1. tail'[q] = tail[q] /\ tail[q] # x
      <4>1. CASE q = p
        BY <4>1, <2>2, <1>3
      <4>2. CASE q # p
        BY <4>2, <2>2, <1>3 DEF TailIsLast
      <4> QED BY <4>1, <4>2
    <3> QED BY <3>1, <2>2, <1>1 DEF TailIsLast
  <2> QED BY <2>1, <2>2, <1>1, <1>2 DEF TailIsLast
<1>11. HoldersAreFirst'
  BY <1>1, <1>2 DEF HoldersAreFirst, Holds
<1>12. RequestsAreHeld'
  <2>1. x \notin pending /\ x \notin working
    BY DEF ReleaseLease, RequestsAreHeld
  <2> QED BY <2>1, <1>1 DEF RequestsAreHeld, ReleaseLease, runner, LeaseTypeOK
<1> QED BY <1>6, <1>7, <1>8, <1>9, <1>10, <1>11, <1>12

LEMMA NextLease == LeaseInv /\ [LeaseNext]_leaseVars => LeaseInv'
<1> SUFFICES ASSUME LeaseInv, [LeaseNext]_leaseVars PROVE LeaseInv'
  OBVIOUS
<1>1. LeaseTypeOK'
  BY NextType DEF LeaseInv
<1>2. ASSUME UNCHANGED chain, Live' = Live,
             \A w \in Writes : leasePhase'[w] = "idle" => leasePhase[w] = "idle",
             HoldersAreFirst', RequestsAreHeld'
      PROVE  LeaseInv'
  BY <1>1, <1>2, ChainUntouched DEF LeaseInv
<1> USE DEF LeaseInv, LeaseTypeOK, chain, runner, RequestsAreHeld, HoldersAreFirst, Holds, Live
<1>3. CASE UNCHANGED leaseVars
  BY <1>2, <1>3 DEF leaseVars
<1>4. ASSUME NEW w \in Writes, Request(w) PROVE LeaseInv'
  BY <1>1, <1>4, RequestKeepsLease
<1>5. ASSUME NEW w \in Writes, Execute(w) PROVE LeaseInv'
  <2>1. Live' = Live /\ prev' = prev /\ prev[w] \notin Live
    BY <1>5, LeaseAssumption DEF Execute, Reached
  <2>2. HoldersAreFirst'
    BY <1>5, <2>1 DEF Execute
  <2>3. RequestsAreHeld'
    BY <1>5 DEF Execute
  <2> QED BY <1>2, <1>5, <2>1, <2>2, <2>3 DEF Execute
<1>6. ASSUME NEW w \in Writes, Serve(w) PROVE LeaseInv'
  BY <1>2, <1>6 DEF Serve
<1>7. ASSUME NEW w \in Writes, Receive(w) PROVE LeaseInv'
  <2>1. Live' = Live /\ HoldersAreFirst' /\ RequestsAreHeld'
    BY <1>7 DEF Receive
  <2> QED BY <1>2, <1>7, <2>1 DEF Receive
<1>8. ASSUME NEW w \in Writes, ReleaseLease(w) PROVE LeaseInv'
  BY <1>1, <1>8, ReleaseKeepsLease
<1>9. ASSUME NEW r \in Runs, StopRun(r) PROVE LeaseInv'
  BY <1>2, <1>9 DEF StopRun
<1>10. CASE RunnerExits
  <2>1. Live' = Live /\ HoldersAreFirst' /\ RequestsAreHeld'
    BY <1>10 DEF RunnerExits, GivenUp
  <2> QED BY <1>2, <1>10, <2>1 DEF RunnerExits, GivenUp
<1>11. CASE WorkersStopped
  BY <1>2, <1>11 DEF WorkersStopped
<1>12. CASE DyingGone
  BY <1>2, <1>12 DEF DyingGone
<1> QED BY <1>3, <1>4, <1>5, <1>6, <1>7, <1>8, <1>9, <1>10, <1>11, <1>12 DEF LeaseNext

LEMMA LeaseInvariant == LeaseSpec => []LeaseInv
  BY InitLease, NextLease, PTL DEF LeaseSpec

-----------------------------------------------------------------------------
\* Every reachable state is well typed.
THEOREM LeasesAreTyped == LeaseSpec => []LeaseTypeOK
<1>1. LeaseInv => LeaseTypeOK
  BY DEF LeaseInv
<1> QED BY <1>1, LeaseInvariant, PTL

\* A file has one writer, whatever is paused, answered late, stopped or killed.
THEOREM WritersExclude == LeaseSpec => []OneWriterPerFile
<1>1. ASSUME LeaseInv PROVE OneWriterPerFile
  <2> SUFFICES ASSUME NEW v \in Writes, NEW w \in Writes, PathOf[v] = PathOf[w],
                      Holds(v) \/ v \in working, Holds(w) \/ w \in working
               PROVE  v = w
    BY DEF OneWriterPerFile
  <2>1. Holds(v) /\ Holds(w)
    BY <1>1 DEF LeaseInv, RequestsAreHeld, Holds
  <2>2. v \in Live /\ w \in Live /\ prev[v] \notin Live /\ prev[w] \notin Live
    BY <1>1, <2>1 DEF LeaseInv, HoldersAreFirst, Holds, Live
  <2>3. ~(leaseRank[v] < leaseRank[w]) /\ ~(leaseRank[w] < leaseRank[v])
    BY <1>1, <2>2 DEF LeaseInv, LinksAreClose, SamePath
  <2>4. leaseRank[v] = leaseRank[w]
    BY <1>1, <2>3 DEF LeaseInv, LeaseTypeOK
  <2> QED BY <1>1, <2>2, <2>4 DEF LeaseInv, RanksCount, SamePath
<1> QED BY <1>1, LeaseInvariant, PTL

\* The entry of a path exists exactly while calls wait for it or hold it.
THEOREM TailsCurrent == LeaseSpec => []TailsAreCurrent
<1>1. ASSUME LeaseInv PROVE TailsAreCurrent
  BY <1>1, LeaseAssumption DEF LeaseInv, LeaseTypeOK, TailIsLast, TailsAreCurrent, Live
<1> QED BY <1>1, LeaseInvariant, PTL

-----------------------------------------------------------------------------
(* FileLeases implements TurnTaking *)

LEMMA LeaseStages ==
    \A w \in Writes :
        /\ leasePhase[w] = "idle" => LeaseStage[w] = "away"
        /\ leasePhase[w] = "leasing" => LeaseStage[w] = "waiting"
        /\ leasePhase[w] = "done" => LeaseStage[w] = "gone"
        /\ Holds(w) => LeaseStage[w] = "inside"
  BY DEF LeaseStage, Holds

\* And back, when phases are what they may be.
LEMMA LeasePhasesOf ==
    ASSUME LeaseTypeOK, NEW w \in Writes
    PROVE  /\ LeaseStage[w] = "away" <=> leasePhase[w] = "idle"
           /\ LeaseStage[w] = "waiting" <=> leasePhase[w] = "leasing"
           /\ LeaseStage[w] = "gone" <=> leasePhase[w] = "done"
           /\ LeaseStage[w] = "inside" <=> Holds(w)
<1>1. leasePhase[w] \in LeasePhases
  BY DEF LeaseTypeOK
<1>2. leasePhase[w] \in {"idle", "leasing", "done"} \/ Holds(w)
  BY <1>1 DEF LeasePhases, Holds
<1>3. Holds(w) => leasePhase[w] \notin {"idle", "leasing", "done"}
  BY DEF Holds
<1>4. "away" # "waiting" /\ "away" # "gone" /\ "away" # "inside" /\ "waiting" # "gone" /\ "waiting" # "inside" /\ "gone" # "inside"
  OBVIOUS
<1> QED BY <1>2, <1>3, <1>4, LeaseStages

\* A step that moves no call to another stage is a stutter of the queue.
LEMMA LeaseStutters ==
    ASSUME UNCHANGED <<leaseRank, leaseClock>>,
           \A w \in Writes : leasePhase'[w] = leasePhase[w] \/ (Holds(w) /\ Holds(w)')
    PROVE  UNCHANGED <<LeaseStage, leaseRank, leaseClock>>
<1>1. ASSUME NEW w \in Writes PROVE LeaseStage'[w] = LeaseStage[w]
  <2>1. CASE leasePhase'[w] = leasePhase[w]
    BY <2>1 DEF LeaseStage
  <2>2. CASE Holds(w) /\ Holds(w)'
    BY <2>2 DEF LeaseStage, Holds
  <2> QED BY <2>1, <2>2
<1>2. LeaseStage' = LeaseStage
  BY <1>1 DEF LeaseStage
<1> QED BY <1>2

\* A step of one call moves this call.
LEMMA LeaseMoves ==
    ASSUME NEW w \in Writes, leasePhase \in [Writes -> LeasePhases], NEW p \in LeasePhases,
           leasePhase' = [leasePhase EXCEPT ![w] = p]
    PROVE  LeaseStage' = [LeaseStage EXCEPT ![w] = LeaseStage'[w]] /\ leasePhase'[w] = p
<1>1. leasePhase'[w] = p /\ \A v \in Writes \ {w} : leasePhase'[v] = leasePhase[v]
  OBVIOUS
<1>2. \A v \in Writes \ {w} : LeaseStage'[v] = LeaseStage[v]
  BY <1>1 DEF LeaseStage
<1>3. LeaseStage' = [v \in Writes |-> LeaseStage'[v]] /\ LeaseStage = [v \in Writes |-> LeaseStage[v]]
  BY DEF LeaseStage
<1> HIDE DEF LeaseStage
<1> QED BY <1>1, <1>2, <1>3

\* Who is reached is the first of its path, and nobody has the lease.
LEMMA ReachedIsNext ==
    ASSUME LeaseInv, NEW w \in Writes, leasePhase[w] = "leasing", Reached(w)
    PROVE  LeaseTurns!IsNext(w) /\ LeaseTurns!Inside(PathOf[w]) = {}
<1>0. LeaseTypeOK
  BY DEF LeaseInv
<1>1. w \in Live /\ prev[w] \notin Live
  BY LeaseAssumption DEF Reached, Live
<1>2. ASSUME NEW v \in Live, PathOf[v] = PathOf[w] PROVE leaseRank[w] <= leaseRank[v]
  <2>1. ~(leaseRank[v] < leaseRank[w])
    BY <1>1, <1>2 DEF LeaseInv, LinksAreClose, SamePath
  <2> QED BY <1>0, <1>1, <2>1 DEF LeaseTypeOK, Live
<1>3. LeaseTurns!IsNext(w)
  <2>1. \A v \in LeaseTurns!Waiting(PathOf[w]) : v \in Live /\ PathOf[v] = PathOf[w]
    BY <1>0, LeasePhasesOf DEF LeaseTurns!Waiting, Live
  <2> QED BY <1>2, <2>1, LeaseStages DEF LeaseTurns!IsNext
<1>4. ASSUME NEW v \in Writes, PathOf[v] = PathOf[w], Holds(v) PROVE FALSE
  <2>1. v \in Live /\ prev[v] \notin Live /\ v # w
    BY <1>4 DEF LeaseInv, HoldersAreFirst, Holds, Live
  <2>2. ~(leaseRank[w] < leaseRank[v]) /\ ~(leaseRank[v] < leaseRank[w])
    BY <1>1, <1>4, <2>1 DEF LeaseInv, LinksAreClose, SamePath
  <2>3. leaseRank[v] = leaseRank[w]
    BY <1>0, <2>2 DEF LeaseTypeOK
  <2> QED BY <1>1, <1>4, <2>1, <2>3 DEF LeaseInv, RanksCount, SamePath
<1>5. LeaseTurns!Inside(PathOf[w]) = {}
  BY <1>0, <1>4, LeasePhasesOf DEF LeaseTurns!Inside
<1> QED BY <1>3, <1>5

LEMMA LeaseStepTurns ==
    ASSUME LeaseInv, LeaseInv', [LeaseNext]_leaseVars
    PROVE  [LeaseTurns!Next]_<<LeaseStage, leaseRank, leaseClock>>
<1>0. LeaseTypeOK /\ leasePhase \in [Writes -> LeasePhases]
  BY DEF LeaseInv, LeaseTypeOK
<1>1. ASSUME NEW w \in Writes, Request(w) PROVE LeaseTurns!Arrive(w)
  <2>1. leasePhase[w] = "idle" /\ "leasing" \in LeasePhases /\ leasePhase' = [leasePhase EXCEPT ![w] = "leasing"]
    BY <1>1 DEF Request, LeasePhases
  <2>2. LeaseStage' = [LeaseStage EXCEPT ![w] = LeaseStage'[w]] /\ leasePhase'[w] = "leasing"
    BY <1>0, <2>1, LeaseMoves
  <2>3. LeaseStage'[w] = "waiting" /\ LeaseStage[w] = "away"
    BY <2>1, <2>2 DEF LeaseStage
  <2>4. leaseRank' = [leaseRank EXCEPT ![w] = leaseClock] /\ leaseClock' = leaseClock + 1
    BY <1>1 DEF Request
  <2> QED BY <2>2, <2>3, <2>4 DEF LeaseTurns!Arrive
<1>2. ASSUME NEW w \in Writes, Execute(w) PROVE LeaseTurns!Enter(w)
  <2>1. /\ leasePhase[w] = "leasing" /\ Reached(w) /\ "executing" \in LeasePhases
        /\ leasePhase' = [leasePhase EXCEPT ![w] = "executing"] /\ UNCHANGED <<leaseRank, leaseClock>>
    BY <1>2 DEF Execute, LeasePhases, chain
  <2>2. LeaseStage' = [LeaseStage EXCEPT ![w] = LeaseStage'[w]] /\ leasePhase'[w] = "executing"
    BY <1>0, <2>1, LeaseMoves
  <2>3. LeaseStage'[w] = "inside"
    BY <2>2 DEF LeaseStage
  <2>4. LeaseTurns!IsNext(w) /\ LeaseTurns!Inside(PathOf[w]) = {}
    BY <2>1, ReachedIsNext
  <2>5. LeaseTurns!IsFree(PathOf[w])
    BY <2>4, FS_EmptySet DEF LeaseTurns!IsFree, LeaseTurns!Cardinality, Cardinality
  <2> QED BY <2>1, <2>2, <2>3, <2>4, <2>5 DEF LeaseTurns!Enter
<1>3. ASSUME NEW w \in Writes, ReleaseLease(w) PROVE LeaseTurns!Leave(w)
  <2>1. /\ Holds(w) /\ "done" \in LeasePhases /\ leasePhase' = [leasePhase EXCEPT ![w] = "done"]
        /\ UNCHANGED <<leaseRank, leaseClock>>
    BY <1>3 DEF ReleaseLease, LeasePhases, Holds
  <2>2. LeaseStage' = [LeaseStage EXCEPT ![w] = LeaseStage'[w]] /\ leasePhase'[w] = "done"
    BY <1>0, <2>1, LeaseMoves
  <2>3. LeaseStage'[w] = "gone" /\ LeaseStage[w] = "inside"
    BY <2>1, <2>2 DEF LeaseStage, Holds
  <2> QED BY <2>1, <2>2, <2>3 DEF LeaseTurns!Leave
<1>4. ASSUME NEW w \in Writes, Receive(w) PROVE UNCHANGED <<LeaseStage, leaseRank, leaseClock>>
  <2>1. UNCHANGED <<leaseRank, leaseClock>>
    BY <1>4 DEF Receive, chain
  <2>2. w \in pending => leasePhase[w] = "executing"
    BY DEF LeaseInv, RequestsAreHeld
  <2>3. \A v \in Writes : leasePhase'[v] = leasePhase[v] \/ (Holds(v) /\ Holds(v)')
    BY <1>0, <1>4, <2>2 DEF Receive, Holds
  <2> QED BY <2>1, <2>3, LeaseStutters
<1>5. ASSUME RunnerExits PROVE UNCHANGED <<LeaseStage, leaseRank, leaseClock>>
  <2>1. UNCHANGED <<leaseRank, leaseClock>>
    BY <1>5 DEF RunnerExits, chain
  <2>2. \A v \in pending : leasePhase[v] = "executing"
    BY DEF LeaseInv, RequestsAreHeld
  <2>3. \A v \in Writes : leasePhase'[v] = leasePhase[v] \/ (Holds(v) /\ Holds(v)')
    BY <1>0, <1>5, <2>2 DEF RunnerExits, GivenUp, Holds
  <2> QED BY <2>1, <2>3, LeaseStutters
<1>6. ASSUME \/ \E w \in Writes : Serve(w)
             \/ \E r \in Runs : StopRun(r)
             \/ WorkersStopped \/ DyingGone \/ UNCHANGED leaseVars
      PROVE  UNCHANGED <<LeaseStage, leaseRank, leaseClock>>
  <2>1. UNCHANGED <<leasePhase, leaseRank, leaseClock>>
    BY <1>6 DEF Serve, StopRun, WorkersStopped, DyingGone, leaseVars, chain
  <2> QED BY <2>1, LeaseStutters
<1> QED BY <1>1, <1>2, <1>3, <1>4, <1>5, <1>6 DEF LeaseNext, LeaseTurns!Next

\* Calls for a file take turns, one at a time and in the order of arrival, whatever happens to
\* their runs and to the runner.
THEOREM LeasesInTurn == LeaseSpec => LeasesTakeTurns
<1>1. LeaseInit => LeaseTurns!Init
  BY DEF LeaseInit, LeaseTurns!Init, LeaseStage
<1>2. LeaseInv /\ LeaseInv' /\ [LeaseNext]_leaseVars => [LeaseTurns!Next]_<<LeaseStage, leaseRank, leaseClock>>
  BY LeaseStepTurns
<1> QED BY <1>1, <1>2, LeaseInvariant, PTL DEF LeaseSpec, LeasesTakeTurns, LeaseTurns!Spec

-----------------------------------------------------------------------------
(* ReadLimiter: the queue of waiters *)

\* The queue holds the queued reads, each of them once; none after an abort.
QueueIsExact ==
    /\ \A i \in 1..Len(waiters) : readPhase[waiters[i]] = "queued"
    /\ \A r \in Reads : readPhase[r] = "queued" => \E i \in 1..Len(waiters) : waiters[i] = r
    /\ \A i, j \in 1..Len(waiters) : waiters[i] = waiters[j] => i = j
    /\ aborted => waiters = <<>>

\* It is ordered by arrival.
QueueIsOrdered ==
    /\ \A i, j \in 1..Len(waiters) : i < j => readRank[waiters[i]] < readRank[waiters[j]]
    /\ \A r \in Reads : readPhase[r] # "idle" => readRank[r] < readClock

LimiterInv == LimTypeOK /\ SlotsAreCounted /\ NoSlotIdle /\ QueueIsExact /\ QueueIsOrdered /\ NoOvertaking

-----------------------------------------------------------------------------
LEMMA HoldingIsFinite == IsFiniteSet(Holding) /\ Cardinality(Holding) \in Nat
  BY LimiterAssumption, FS_Subset, FS_CardinalityType DEF Holding

LEMMA InitLimiter == LimInit => LimiterInv
<1> SUFFICES ASSUME LimInit PROVE LimiterInv
  OBVIOUS
<1>1. readPhase \in [Reads -> ReadPhases] /\ \A r \in Reads : readPhase[r] = "idle"
  BY DEF LimInit, ReadPhases
<1>2. readRank \in [Reads -> Nat] /\ readClock \in Nat /\ active = 0 /\ waiters = <<>> /\ Len(waiters) = 0
  BY DEF LimInit
<1>3. aborted \in BOOLEAN
  BY DEF LimInit
<1>4. LimTypeOK
  BY <1>1, <1>2, <1>3 DEF LimInit, LimTypeOK
<1>5. Holding = {}
  BY <1>1 DEF Holding
<1>6. SlotsAreCounted
  BY <1>2, <1>5, FS_EmptySet, LimiterAssumption DEF SlotsAreCounted
<1> QED BY <1>1, <1>2, <1>4, <1>6
         DEF LimiterInv, NoSlotIdle, QueueIsExact, QueueIsOrdered, NoOvertaking

LEMMA AcquireKeepsLimiter ==
    ASSUME LimiterInv, NEW r \in Reads, Acquire(r) PROVE LimiterInv'
<1> USE DEF LimiterInv
<1>1. /\ readPhase \in [Reads -> ReadPhases] /\ readRank \in [Reads -> Nat] /\ readClock \in Nat /\ active \in Nat
      /\ waiters \in Seq(Reads) /\ readPhase[r] = "idle"
      /\ readRank' = [readRank EXCEPT ![r] = readClock] /\ readClock' = readClock + 1
      /\ aborted' = aborted /\ atMain' = atMain
  BY DEF Acquire, LimTypeOK
<1>2. \A i \in 1..Len(waiters) : waiters[i] \in Reads /\ waiters[i] # r
  BY <1>1 DEF QueueIsExact
<1>3. \A q \in Reads \ {r} : readRank'[q] = readRank[q] /\ readRank'[r] = readClock
  BY <1>1
<1>4. CASE aborted /\ readPhase' = [readPhase EXCEPT ![r] = "done"] /\ UNCHANGED limiter
  <2>1. LimTypeOK'
    BY <1>1, <1>4 DEF LimTypeOK, limiter, ReadPhases
  <2>2. Holding' = Holding
    BY <1>1, <1>4 DEF Holding
  <2>3. SlotsAreCounted' /\ NoSlotIdle'
    BY <1>4, <2>2 DEF SlotsAreCounted, NoSlotIdle, limiter
  <2>4. \A q \in Reads : readPhase[q] # "queued" /\ readPhase'[q] # "queued"
    BY <1>1, <1>4 DEF QueueIsExact
  <2>5. QueueIsExact' /\ NoOvertaking'
    BY <1>1, <1>4, <2>4 DEF QueueIsExact, NoOvertaking, limiter
  <2>6. QueueIsOrdered'
    BY <1>1, <1>3, <1>4 DEF QueueIsExact, QueueIsOrdered, limiter
  <2> QED BY <2>1, <2>3, <2>5, <2>6
<1>5. CASE /\ ~aborted /\ active < Limit /\ active' = active + 1
           /\ readPhase' = [readPhase EXCEPT ![r] = "granted"] /\ UNCHANGED waiters
  <2>1. LimTypeOK'
    BY <1>1, <1>5 DEF LimTypeOK, ReadPhases
  <2>2. Holding' = Holding \cup {r} /\ r \notin Holding
    BY <1>1, <1>5 DEF Holding
  <2>3. Cardinality(Holding') = Cardinality(Holding) + 1
    BY <2>2, HoldingIsFinite, FS_AddElement
  <2>4. waiters = <<>> /\ Len(waiters) = 0
    BY <1>1, <1>5, LimiterAssumption DEF NoSlotIdle
  <2>5. SlotsAreCounted' /\ NoSlotIdle'
    BY <1>1, <1>5, <2>3, <2>4, LimiterAssumption DEF SlotsAreCounted, NoSlotIdle
  <2>6. \A q \in Reads : readPhase'[q] # "queued"
    BY <1>1, <1>5, <2>4 DEF QueueIsExact
  <2>7. QueueIsExact' /\ NoOvertaking'
    BY <1>1, <1>5, <2>4, <2>6 DEF QueueIsExact, NoOvertaking
  <2>8. QueueIsOrdered'
    BY <1>1, <1>3, <1>5, <2>4 DEF QueueIsOrdered
  <2> QED BY <2>1, <2>5, <2>7, <2>8
<1>6. CASE /\ ~aborted /\ active >= Limit /\ waiters' = Append(waiters, r)
           /\ readPhase' = [readPhase EXCEPT ![r] = "queued"] /\ UNCHANGED active
  <2> DEFINE n == Len(waiters)
  <2>1. LimTypeOK'
    BY <1>1, <1>6 DEF LimTypeOK, ReadPhases
  <2>2. Holding' = Holding
    BY <1>1, <1>6 DEF Holding
  <2>3. SlotsAreCounted' /\ NoSlotIdle'
    BY <1>1, <1>6, <2>2, LimiterAssumption DEF SlotsAreCounted, NoSlotIdle
  <2>4. /\ n \in Nat /\ Len(waiters') = n + 1 /\ waiters'[n + 1] = r
        /\ \A i \in 1..n : waiters'[i] = waiters[i]
    BY <1>1, <1>6
  <2>5. readPhase'[r] = "queued" /\ \A q \in Reads \ {r} : readPhase'[q] = readPhase[q]
    BY <1>1, <1>6
  <2>6. QueueIsExact'
    <3>1. \A i \in 1..Len(waiters') : readPhase'[waiters'[i]] = "queued"
      BY <1>2, <2>4, <2>5 DEF QueueIsExact
    <3>2. ASSUME NEW q \in Reads, readPhase'[q] = "queued"
          PROVE  \E i \in 1..Len(waiters') : waiters'[i] = q
      <4>1. CASE q = r
        BY <4>1, <2>4
      <4>2. CASE q # r
        <5>1. PICK i \in 1..n : waiters[i] = q
          BY <3>2, <4>2, <2>5 DEF QueueIsExact
        <5> QED BY <5>1, <2>4
      <4> QED BY <4>1, <4>2
    <3>3. \A i, j \in 1..Len(waiters') : waiters'[i] = waiters'[j] => i = j
      BY <1>2, <2>4 DEF QueueIsExact
    <3> QED BY <3>1, <3>2, <3>3, <1>1, <1>6 DEF QueueIsExact
  <2>7. QueueIsOrdered'
    <3>1. \A i \in 1..n : readRank[waiters[i]] < readClock
      BY <1>1, <1>2 DEF QueueIsOrdered, QueueIsExact
    <3>2. \A i, j \in 1..Len(waiters') : i < j => readRank'[waiters'[i]] < readRank'[waiters'[j]]
      BY <3>1, <1>2, <1>3, <2>4 DEF QueueIsOrdered
    <3>3. \A q \in Reads : readPhase'[q] # "idle" => readRank'[q] < readClock'
      BY <1>1, <1>3, <2>5 DEF QueueIsOrdered
    <3> QED BY <3>2, <3>3 DEF QueueIsOrdered
  <2>8. NoOvertaking'
    BY <1>1, <1>3, <2>5 DEF NoOvertaking, QueueIsOrdered
  <2> QED BY <2>1, <2>3, <2>6, <2>7, <2>8
<1> QED BY <1>4, <1>5, <1>6 DEF Acquire

\* A step inside an operation moves no slot and no place in the queue.
LEMMA QueueUntouched ==
    ASSUME LimiterInv, UNCHANGED <<limiter, aborted, ghosts>>, Holding' = Holding, LimTypeOK',
           \A r \in Reads : /\ readPhase'[r] = "queued" <=> readPhase[r] = "queued"
                            /\ readPhase'[r] = "idle" <=> readPhase[r] = "idle"
    PROVE  LimiterInv'
<1> USE DEF LimiterInv, limiter, ghosts
<1>1. SlotsAreCounted' /\ NoSlotIdle'
  BY DEF SlotsAreCounted, NoSlotIdle
<1>2. \A i \in 1..Len(waiters) : waiters[i] \in Reads
  BY DEF LimTypeOK
<1>3. QueueIsExact' /\ QueueIsOrdered' /\ NoOvertaking'
  BY <1>2 DEF QueueIsExact, QueueIsOrdered, NoOvertaking
<1> QED BY <1>1, <1>3

LEMMA StartKeepsLimiter ==
    ASSUME LimiterInv, NEW r \in Reads, StartOperation(r) PROVE LimiterInv'
<1> USE DEF LimiterInv, StartOperation
<1>1. readPhase \in [Reads -> ReadPhases] /\ readPhase[r] = "granted"
  BY DEF LimTypeOK
<1>2. readPhase' = [readPhase EXCEPT ![r] = "asked"] \/ readPhase' = [readPhase EXCEPT ![r] = "settled"]
  OBVIOUS
<1>3. LimTypeOK'
  BY <1>1, <1>2 DEF LimTypeOK, ReadPhases, limiter, ghosts
<1>4. Holding' = Holding
  BY <1>1, <1>2 DEF Holding
<1> QED BY <1>1, <1>2, <1>3, <1>4, QueueUntouched

LEMMA AnswerKeepsLimiter ==
    ASSUME LimiterInv, NEW r \in Reads, Answer(r) PROVE LimiterInv'
<1> USE DEF LimiterInv, Answer
<1>1. readPhase \in [Reads -> ReadPhases]
  BY DEF LimTypeOK
<1>2. readPhase' = readPhase \/ (readPhase[r] = "asked" /\ readPhase' = [readPhase EXCEPT ![r] = "settled"])
  OBVIOUS
<1>3. LimTypeOK'
  BY <1>1, <1>2 DEF LimTypeOK, ReadPhases, limiter, ghosts
<1>4. Holding' = Holding
  BY <1>1, <1>2 DEF Holding
<1> QED BY <1>1, <1>2, <1>3, <1>4, QueueUntouched

LEMMA AbortKeepsLimiter ==
    ASSUME LimiterInv, Abort PROVE LimiterInv'
<1> USE DEF LimiterInv, Abort, AbortedQueue
<1>1. /\ readPhase \in [Reads -> ReadPhases] /\ readRank \in [Reads -> Nat] /\ readClock \in Nat
      /\ readRank' = readRank /\ readClock' = readClock /\ active' = active /\ atMain' = atMain
      /\ waiters' = <<>> /\ Len(waiters') = 0
  BY DEF LimTypeOK, ghosts
<1>2. readPhase' \in [Reads -> ReadPhases]
  BY <1>1 DEF ReadPhases
<1>3. aborted' \in BOOLEAN
  OBVIOUS
<1>4. LimTypeOK'
  BY <1>1, <1>2, <1>3 DEF LimTypeOK
<1>5. Holding' = Holding
  BY <1>1 DEF Holding
<1>6. SlotsAreCounted' /\ NoSlotIdle'
  BY <1>1, <1>5 DEF SlotsAreCounted, NoSlotIdle
<1>7. \A q \in Reads : readPhase'[q] # "queued" /\ (readPhase'[q] = "idle" <=> readPhase[q] = "idle")
  BY <1>1
<1>8. QueueIsExact' /\ NoOvertaking'
  BY <1>1, <1>7 DEF QueueIsExact, NoOvertaking
<1>9. QueueIsOrdered'
  BY <1>1, <1>7 DEF QueueIsOrdered
<1> QED BY <1>4, <1>6, <1>8, <1>9

\* The slot of r goes to the head of the queue, or becomes free.
LEMMA ReleaseKeepsLimiter ==
    ASSUME LimiterInv, NEW r \in Reads, ReleaseSlot(r) PROVE LimiterInv'
<1> USE DEF LimiterInv
<1>1. /\ readPhase \in [Reads -> ReadPhases] /\ readRank \in [Reads -> Nat] /\ readClock \in Nat /\ active \in Nat
      /\ waiters \in Seq(Reads) /\ readPhase[r] = "settled" /\ r \in Holding
      /\ readRank' = readRank /\ readClock' = readClock /\ aborted' = aborted /\ atMain' = atMain
  BY DEF ReleaseSlot, LimTypeOK, Holding, ghosts
<1>2. IsFiniteSet(Holding \ {r}) /\ Cardinality(Holding \ {r}) = active - 1 /\ active > 0
  BY <1>1, HoldingIsFinite, FS_RemoveElement, FS_CardinalityType, FS_EmptySet DEF SlotsAreCounted
<1>3. CASE /\ HandsOver
           /\ readPhase' = [readPhase EXCEPT ![r] = "done", ![Shift.waiter] = "granted"]
           /\ waiters' = Shift.rest /\ active' = ActiveHandedOver
  <2> DEFINE h == Head(waiters)
             n == Len(waiters) - 1
  <2>1. /\ n \in Nat /\ h = waiters[1] /\ h \in Reads /\ h # r /\ ~aborted /\ 1 \in 1..Len(waiters)
        /\ readPhase[h] = "queued"
    BY <1>1, <1>3 DEF HandsOver, QueueIsExact
  <2>2. /\ waiters' = Tail(waiters) /\ active' = active
        /\ readPhase' = [readPhase EXCEPT ![r] = "done", ![h] = "granted"]
    BY <1>3 DEF Shift, ActiveHandedOver
  <2>3. /\ waiters' \in Seq(Reads) /\ Len(waiters') = n
        /\ \A i \in 1..n : waiters'[i] = waiters[i + 1] /\ i + 1 \in 1..Len(waiters)
    BY <1>1, <2>1, <2>2
  <2>4. /\ readPhase'[r] = "done" /\ readPhase'[h] = "granted"
        /\ \A q \in Reads \ {r, h} : readPhase'[q] = readPhase[q]
        /\ readPhase' \in [Reads -> ReadPhases]
    BY <1>1, <2>1, <2>2 DEF ReadPhases
  <2>5. LimTypeOK'
    BY <1>1, <2>2, <2>3, <2>4 DEF LimTypeOK
  <2>6. Holding' = (Holding \ {r}) \cup {h} /\ h \notin Holding \ {r}
    BY <2>1, <2>4 DEF Holding
  <2>7. SlotsAreCounted'
    <3>1. Cardinality(Holding') = (active - 1) + 1
      BY <1>2, <2>6, FS_AddElement
    <3> QED BY <3>1, <1>1, <2>2 DEF SlotsAreCounted
  <2>8. NoSlotIdle'
    BY <2>1, <2>2, <1>1 DEF NoSlotIdle
  <2>9. \A i \in 2..Len(waiters) : waiters[i] # h /\ waiters[i] # r /\ waiters[i] \in Reads
    BY <1>1, <2>1 DEF QueueIsExact
  <2>10. QueueIsExact'
    <3>1. \A i \in 1..n : readPhase'[waiters'[i]] = "queued"
      BY <2>1, <2>3, <2>4, <2>9 DEF QueueIsExact
    <3>2. ASSUME NEW q \in Reads, readPhase'[q] = "queued" PROVE \E i \in 1..n : waiters'[i] = q
      <4>1. q # h /\ q # r /\ readPhase[q] = "queued"
        BY <3>2, <2>4
      <4>2. PICK i \in 1..Len(waiters) : waiters[i] = q
        BY <4>1 DEF QueueIsExact
      <4>3. i # 1 /\ i - 1 \in 1..n /\ (i - 1) + 1 = i
        BY <4>1, <4>2, <2>1
      <4> QED BY <4>2, <4>3, <2>3
    <3>3. \A i, j \in 1..n : waiters'[i] = waiters'[j] => i = j
      BY <2>1, <2>3 DEF QueueIsExact
    <3> QED BY <3>1, <3>2, <3>3, <2>1, <2>3, <1>1 DEF QueueIsExact
  <2>11. QueueIsOrdered'
    <3>1. \A i, j \in 1..n : i < j => readRank[waiters'[i]] < readRank[waiters'[j]]
      <4> SUFFICES ASSUME NEW i \in 1..n, NEW j \in 1..n, i < j
                   PROVE  readRank[waiters'[i]] < readRank[waiters'[j]]
        OBVIOUS
      <4>1. i + 1 \in 1..Len(waiters) /\ j + 1 \in 1..Len(waiters) /\ i + 1 < j + 1
        BY <2>1, <2>3
      <4>2. readRank[waiters[i + 1]] < readRank[waiters[j + 1]]
        BY <4>1 DEF QueueIsOrdered
      <4> QED BY <2>3, <4>2
    <3>2. \A q \in Reads : readPhase'[q] # "idle" => readPhase[q] # "idle"
      BY <1>1, <2>1, <2>4
    <3> QED BY <3>1, <3>2, <2>3, <1>1 DEF QueueIsOrdered
  <2>12. NoOvertaking'
    <3> SUFFICES ASSUME NEW q \in Reads, NEW s \in Reads, readPhase'[q] = "queued",
                        readPhase'[s] # "idle", readRank[q] < readRank[s]
                 PROVE  readPhase'[s] = "queued"
      BY <1>1 DEF NoOvertaking
    <3>1. readPhase[q] = "queued" /\ readPhase[s] # "idle" /\ q # h
      BY <1>1, <2>1, <2>4
    <3>2. readPhase[s] = "queued" /\ s # r
      BY <1>1, <3>1 DEF NoOvertaking
    <3>3. PICK i \in 1..Len(waiters) : waiters[i] = q
      BY <3>1 DEF QueueIsExact
    <3>4. readRank[h] < readRank[q]
      BY <2>1, <3>1, <3>3 DEF QueueIsOrdered
    <3>5. s # h
      BY <3>4, <1>1, <2>1
    <3> QED BY <3>2, <3>5, <2>4
  <2> QED BY <2>5, <2>7, <2>8, <2>10, <2>11, <2>12
<1>4. CASE /\ ~HandsOver /\ readPhase' = [readPhase EXCEPT ![r] = "done"] /\ active' = Freed
           /\ waiters' = IF aborted THEN <<>> ELSE waiters
  <2>1. waiters = <<>> /\ waiters' = <<>> /\ Len(waiters') = 0 /\ active' = active - 1
    BY <1>1, <1>2, <1>4 DEF HandsOver, QueueIsExact, Freed
  <2>2. readPhase'[r] = "done" /\ \A q \in Reads \ {r} : readPhase'[q] = readPhase[q]
    BY <1>1, <1>4
  <2>3. readPhase' \in [Reads -> ReadPhases] /\ active' \in Nat
    BY <1>1, <1>2, <1>4, <2>1 DEF ReadPhases
  <2>4. LimTypeOK'
    BY <1>1, <2>1, <2>3 DEF LimTypeOK
  <2>5. Holding' = Holding \ {r}
    BY <2>2 DEF Holding
  <2>6. SlotsAreCounted' /\ NoSlotIdle'
    BY <1>1, <1>2, <2>1, <2>5, LimiterAssumption DEF SlotsAreCounted, NoSlotIdle
  <2>7. \A q \in Reads : readPhase'[q] # "queued"
    BY <2>1, <2>2 DEF QueueIsExact
  <2>8. QueueIsExact' /\ NoOvertaking'
    BY <2>1, <2>7 DEF QueueIsExact, NoOvertaking
  <2>9. QueueIsOrdered'
    BY <1>1, <2>1, <2>2 DEF QueueIsOrdered
  <2> QED BY <2>4, <2>6, <2>8, <2>9
<1> QED BY <1>3, <1>4 DEF ReleaseSlot

LEMMA NextLimiter == LimiterInv /\ [LimNext]_limVars => LimiterInv'
<1> SUFFICES ASSUME LimiterInv, [LimNext]_limVars PROVE LimiterInv'
  OBVIOUS
<1>1. CASE UNCHANGED limVars
  <2>1. LimTypeOK' /\ Holding' = Holding
    BY <1>1 DEF LimiterInv, LimTypeOK, Holding, limVars, limiter, ghosts
  <2> QED BY <1>1, <2>1, QueueUntouched DEF limVars
<1> QED BY <1>1, AbortKeepsLimiter, AcquireKeepsLimiter, StartKeepsLimiter, AnswerKeepsLimiter,
           ReleaseKeepsLimiter DEF LimNext

LEMMA LimiterInvariant == LimSpec => []LimiterInv
  BY InitLimiter, NextLimiter, PTL DEF LimSpec

-----------------------------------------------------------------------------
\* Every reachable state is well typed.
THEOREM ReadsAreTyped == LimSpec => []LimTypeOK
<1>1. LimiterInv => LimTypeOK
  BY DEF LimiterInv
<1> QED BY <1>1, LimiterInvariant, PTL

\* Slots are neither lost nor counted twice, whatever is answered late or aborted.
THEOREM SlotsCounted == LimSpec => []SlotsAreCounted
<1>1. LimiterInv => SlotsAreCounted
  BY DEF LimiterInv
<1> QED BY <1>1, LimiterInvariant, PTL

\* While a read waits, every slot is taken.
THEOREM SlotsBusy == LimSpec => []NoSlotIdle
<1>1. LimiterInv => NoSlotIdle
  BY DEF LimiterInv
<1> QED BY <1>1, LimiterInvariant, PTL

\* Waiting reads are served in the order of arrival.
THEOREM ReadsInOrder == LimSpec => []NoOvertaking
<1>1. LimiterInv => NoOvertaking
  BY DEF LimiterInv
<1> QED BY <1>1, LimiterInvariant, PTL

-----------------------------------------------------------------------------
(* ReadLimiter implements TurnTaking *)

LEMMA ReadPhasesOf ==
    ASSUME LimTypeOK, NEW r \in Reads
    PROVE  /\ ReadStage[r] = "away" <=> readPhase[r] = "idle"
           /\ ReadStage[r] = "waiting" <=> readPhase[r] = "queued"
           /\ ReadStage[r] = "gone" <=> readPhase[r] = "done"
           /\ ReadStage[r] = "inside" <=> r \in Holding
<1>1. readPhase[r] \in ReadPhases
  BY DEF LimTypeOK
<1>2. readPhase[r] \in {"idle", "queued", "done"} \/ r \in Holding
  BY <1>1 DEF ReadPhases, Holding
<1>3. r \in Holding => readPhase[r] \notin {"idle", "queued", "done"}
  BY DEF Holding
<1> QED BY <1>2, <1>3 DEF ReadStage

\* The places behind the line are the slots.
LEMMA ReadsInside ==
    ASSUME LimTypeOK
    PROVE  \A r \in Reads : /\ ReadTurns!Inside([q \in Reads |-> "agent"][r]) = Holding
                            /\ ReadTurns!Waiting([q \in Reads |-> "agent"][r]) = {q \in Reads : readPhase[q] = "queued"}
<1> SUFFICES ASSUME NEW r \in Reads
             PROVE  /\ ReadTurns!Inside([q \in Reads |-> "agent"][r]) = Holding
                    /\ ReadTurns!Waiting([q \in Reads |-> "agent"][r]) = {q \in Reads : readPhase[q] = "queued"}
  OBVIOUS
<1>1. \A q \in Reads : [s \in Reads |-> "agent"][q] = [s \in Reads |-> "agent"][r]
  OBVIOUS
<1>2. Holding \in SUBSET Reads
  BY DEF Holding
<1> QED BY <1>1, <1>2, ReadPhasesOf DEF ReadTurns!Inside, ReadTurns!Waiting

LEMMA ReadMoves ==
    ASSUME NEW r \in Reads, readPhase \in [Reads -> ReadPhases], NEW p \in ReadPhases,
           readPhase' = [readPhase EXCEPT ![r] = p]
    PROVE  ReadStage' = [ReadStage EXCEPT ![r] = ReadStage'[r]] /\ readPhase'[r] = p
<1>1. readPhase'[r] = p /\ \A q \in Reads \ {r} : readPhase'[q] = readPhase[q]
  OBVIOUS
<1>2. \A q \in Reads \ {r} : ReadStage'[q] = ReadStage[q]
  BY <1>1 DEF ReadStage
<1>3. ReadStage' = [q \in Reads |-> ReadStage'[q]] /\ ReadStage = [q \in Reads |-> ReadStage[q]]
  BY DEF ReadStage
<1> HIDE DEF ReadStage
<1> QED BY <1>1, <1>2, <1>3

LEMMA ReadStutters ==
    ASSUME UNCHANGED ghosts,
           \A r \in Reads : readPhase'[r] = readPhase[r] \/ (r \in Holding /\ r \in Holding')
    PROVE  UNCHANGED <<ReadStage, readRank, readClock>>
<1>1. ASSUME NEW r \in Reads PROVE ReadStage'[r] = ReadStage[r]
  <2>1. CASE readPhase'[r] = readPhase[r]
    BY <2>1 DEF ReadStage
  <2>2. CASE r \in Holding /\ r \in Holding'
    BY <2>2 DEF ReadStage, Holding
  <2> QED BY <2>1, <2>2
<1>2. ReadStage' = ReadStage
  BY <1>1 DEF ReadStage
<1> QED BY <1>2 DEF ghosts

LEMMA ReadArrives ==
    ASSUME LimiterInv, NEW r \in Reads, Acquire(r) PROVE ReadTurns!Arrive(r)
<1>0. LimTypeOK /\ readPhase \in [Reads -> ReadPhases] /\ SlotsAreCounted /\ NoSlotIdle /\ QueueIsExact
  BY DEF LimiterInv, LimTypeOK
<1>1. readPhase[r] = "idle" /\ readRank' = [readRank EXCEPT ![r] = readClock] /\ readClock' = readClock + 1
  BY DEF Acquire
<1>2. ReadStage[r] = "away"
  BY <1>1 DEF ReadStage
<1>3. CASE readPhase' = [readPhase EXCEPT ![r] = "done"]
  <2>1. ReadStage' = [ReadStage EXCEPT ![r] = ReadStage'[r]] /\ readPhase'[r] = "done"
    BY <1>0, <1>3, ReadMoves DEF ReadPhases
  <2>2. ReadStage'[r] = "gone"
    BY <2>1 DEF ReadStage
  <2> QED BY <1>1, <1>2, <2>1, <2>2 DEF ReadTurns!Arrive
<1>4. CASE active < Limit /\ readPhase' = [readPhase EXCEPT ![r] = "granted"]
  <2>1. ReadStage' = [ReadStage EXCEPT ![r] = ReadStage'[r]] /\ readPhase'[r] = "granted"
    BY <1>0, <1>4, ReadMoves DEF ReadPhases
  <2>2. ReadStage'[r] = "inside"
    BY <2>1 DEF ReadStage
  <2>3. waiters = <<>>
    BY <1>0, <1>4, LimiterAssumption DEF NoSlotIdle, LimTypeOK
  <2>4. {q \in Reads : readPhase[q] = "queued"} = {}
    BY <1>0, <2>3 DEF QueueIsExact
  <2>5. Cardinality(Holding) < Limit
    BY <1>0, <1>4 DEF SlotsAreCounted
  <2>6. ReadTurns!IsFree([q \in Reads |-> "agent"][r]) /\ ReadTurns!Waiting([q \in Reads |-> "agent"][r]) = {}
    BY <1>0, <2>4, <2>5, ReadsInside DEF ReadTurns!IsFree, ReadTurns!Cardinality, Cardinality
  <2> QED BY <1>1, <1>2, <2>1, <2>2, <2>6 DEF ReadTurns!Arrive
<1>5. CASE readPhase' = [readPhase EXCEPT ![r] = "queued"]
  <2>1. ReadStage' = [ReadStage EXCEPT ![r] = ReadStage'[r]] /\ readPhase'[r] = "queued"
    BY <1>0, <1>5, ReadMoves DEF ReadPhases
  <2>2. ReadStage'[r] = "waiting"
    BY <2>1 DEF ReadStage
  <2> QED BY <1>1, <1>2, <2>1, <2>2 DEF ReadTurns!Arrive
<1> QED BY <1>3, <1>4, <1>5 DEF Acquire

\* The head of the queue is the one that waits longest.
LEMMA HeadIsNext ==
    ASSUME LimiterInv, waiters # <<>>
    PROVE  Head(waiters) \in Reads /\ readPhase[Head(waiters)] = "queued" /\ ReadTurns!IsNext(Head(waiters))
<1> DEFINE h == Head(waiters)
<1>0. LimTypeOK /\ QueueIsExact /\ QueueIsOrdered /\ waiters \in Seq(Reads) /\ readRank \in [Reads -> Nat]
  BY DEF LimiterInv, LimTypeOK
<1>1. h \in Reads /\ h = waiters[1] /\ 1 \in 1..Len(waiters) /\ Len(waiters) \in Nat
  BY <1>0
<1>2. readPhase[h] = "queued"
  BY <1>0, <1>1 DEF QueueIsExact
<1> HIDE DEF h
<1>3. ASSUME NEW q \in Reads, readPhase[q] = "queued" PROVE readRank[h] <= readRank[q]
  <2>1. PICK i \in 1..Len(waiters) : waiters[i] = q
    BY <1>0, <1>3 DEF QueueIsExact
  <2>2. CASE i = 1
    BY <1>0, <1>1, <2>1, <2>2
  <2>3. CASE i # 1
    <3>1. 1 < i
      BY <1>1, <2>3
    <3>2. readRank[h] < readRank[q]
      BY <1>0, <1>1, <2>1, <3>1 DEF QueueIsOrdered
    <3> QED BY <1>0, <1>1, <3>2
  <2> QED BY <2>2, <2>3
<1>4. ReadStage[h] = "waiting"
  BY <1>0, <1>1, <1>2, ReadPhasesOf
<1>5. ReadTurns!IsNext(h)
  BY <1>0, <1>1, <1>3, <1>4, ReadsInside DEF ReadTurns!IsNext
<1> QED BY <1>1, <1>2, <1>5 DEF h

LEMMA ReadReturns ==
    ASSUME LimiterInv, NEW r \in Reads, ReleaseSlot(r)
    PROVE  ReadTurns!Leave(r) \/ \E q \in Reads : ReadTurns!HandOver(r, q)
<1>0. LimTypeOK /\ readPhase \in [Reads -> ReadPhases]
  BY DEF LimiterInv, LimTypeOK
<1>1. readPhase[r] = "settled" /\ ReadStage[r] = "inside" /\ UNCHANGED <<readRank, readClock>>
  BY DEF ReleaseSlot, ReadStage, ghosts
<1>2. CASE readPhase' = [readPhase EXCEPT ![r] = "done"]
  <2>1. ReadStage' = [ReadStage EXCEPT ![r] = ReadStage'[r]] /\ readPhase'[r] = "done"
    BY <1>0, <1>2, ReadMoves DEF ReadPhases
  <2>2. ReadStage'[r] = "gone"
    BY <2>1 DEF ReadStage
  <2> QED BY <1>1, <2>1, <2>2 DEF ReadTurns!Leave
<1>3. CASE HandsOver /\ readPhase' = [readPhase EXCEPT ![r] = "done", ![Shift.waiter] = "granted"]
  <2> DEFINE h == Head(waiters)
  <2>1. h \in Reads /\ readPhase[h] = "queued" /\ ReadTurns!IsNext(h)
    BY <1>3, HeadIsNext DEF HandsOver
  <2>2. readPhase' = [readPhase EXCEPT ![r] = "done", ![h] = "granted"]
    BY <1>3 DEF Shift
  <2> HIDE DEF h
  <2>3. h # r
    BY <1>1, <2>1
  <2>4. readPhase'[r] = "done" /\ readPhase'[h] = "granted" /\ \A q \in Reads \ {r, h} : readPhase'[q] = readPhase[q]
    BY <1>0, <2>1, <2>2, <2>3
  <2>5. ReadStage'[r] = "gone" /\ ReadStage'[h] = "inside" /\ \A q \in Reads \ {r, h} : ReadStage'[q] = ReadStage[q]
    BY <2>1, <2>4 DEF ReadStage
  <2>6. ReadStage' = [q \in Reads |-> ReadStage'[q]] /\ ReadStage = [q \in Reads |-> ReadStage[q]]
    BY DEF ReadStage
  <2>7. ReadStage' = [ReadStage EXCEPT ![r] = "gone", ![h] = "inside"]
    <3> HIDE DEF ReadStage
    <3> QED BY <2>1, <2>3, <2>5, <2>6
  <2>8. [q \in Reads |-> "agent"][r] = [q \in Reads |-> "agent"][h]
    BY <2>1
  <2>9. ReadTurns!HandOver(r, h)
    BY <1>1, <2>1, <2>7, <2>8 DEF ReadTurns!HandOver
  <2> QED BY <2>1, <2>9
<1> QED BY <1>2, <1>3 DEF ReleaseSlot

LEMMA ReadsGiveUp ==
    ASSUME LimiterInv, Abort
    PROVE  \/ UNCHANGED <<ReadStage, readRank, readClock>>
           \/ \E r \in Reads : ReadTurns!Disperse([q \in Reads |-> "agent"][r])
<1>0. LimTypeOK /\ UNCHANGED <<readRank, readClock>>
  BY DEF LimiterInv, Abort, ghosts
<1> DEFINE queued == {q \in Reads : readPhase[q] = "queued"}
<1>1. \A q \in Reads : ReadStage'[q] = IF q \in queued THEN "gone" ELSE ReadStage[q]
  <2> SUFFICES ASSUME NEW q \in Reads PROVE ReadStage'[q] = IF q \in queued THEN "gone" ELSE ReadStage[q]
    OBVIOUS
  <2>1. CASE readPhase[q] = "queued"
    <3>1. readPhase'[q] = "done"
      BY <2>1 DEF Abort, AbortedQueue
    <3> QED BY <2>1, <3>1 DEF ReadStage
  <2>2. CASE readPhase[q] = "asked"
    <3>1. readPhase'[q] = "settled"
      BY <2>2 DEF Abort
    <3> QED BY <2>2, <3>1 DEF ReadStage
  <2>3. CASE readPhase[q] # "queued" /\ readPhase[q] # "asked"
    <3>1. readPhase'[q] = readPhase[q]
      BY <2>3 DEF Abort
    <3> QED BY <2>3, <3>1 DEF ReadStage
  <2> QED BY <2>1, <2>2, <2>3
<1>2. ReadStage' = [q \in Reads |-> IF q \in queued THEN "gone" ELSE ReadStage[q]]
  <2>1. ReadStage' = [q \in Reads |-> ReadStage'[q]]
    BY DEF ReadStage
  <2> HIDE DEF ReadStage, queued
  <2> QED BY <1>1, <2>1
<1>3. CASE Reads = {}
  <2>1. ReadStage' = ReadStage
    BY <1>3 DEF ReadStage
  <2> QED BY <1>0, <2>1
<1>4. CASE Reads # {}
  <2>1. PICK r \in Reads : TRUE
    BY <1>4
  <2>2. ReadTurns!Waiting([q \in Reads |-> "agent"][r]) = queued
    BY <1>0, ReadsInside
  <2> HIDE DEF queued
  <2> QED BY <1>0, <1>2, <2>1, <2>2 DEF ReadTurns!Disperse
<1> QED BY <1>3, <1>4

LEMMA ReadStepTurns ==
    ASSUME LimiterInv, [LimNext]_limVars
    PROVE  [ReadTurns!Next]_<<ReadStage, readRank, readClock>>
<1>0. LimTypeOK /\ readPhase \in [Reads -> ReadPhases]
  BY DEF LimiterInv, LimTypeOK
<1>1. ASSUME NEW r \in Reads, Acquire(r) PROVE ReadTurns!Next
  BY <1>1, ReadArrives DEF ReadTurns!Next
<1>2. ASSUME NEW r \in Reads, ReleaseSlot(r) PROVE ReadTurns!Next
  BY <1>2, ReadReturns DEF ReadTurns!Next
<1>3. ASSUME Abort PROVE [ReadTurns!Next]_<<ReadStage, readRank, readClock>>
  BY <1>3, ReadsGiveUp DEF ReadTurns!Next
<1>4. ASSUME NEW r \in Reads, StartOperation(r) \/ Answer(r) PROVE UNCHANGED <<ReadStage, readRank, readClock>>
  <2>1. UNCHANGED ghosts
    BY <1>4 DEF StartOperation, Answer
  <2>2. \A q \in Reads : readPhase'[q] = readPhase[q] \/ (q \in Holding /\ q \in Holding')
    BY <1>0, <1>4 DEF StartOperation, Answer, Holding
  <2> QED BY <2>1, <2>2, ReadStutters
<1>5. ASSUME UNCHANGED limVars PROVE UNCHANGED <<ReadStage, readRank, readClock>>
  BY <1>5 DEF limVars, ghosts, ReadStage
<1> QED BY <1>1, <1>2, <1>3, <1>4, <1>5 DEF LimNext

\* Reads take turns, as many at a time as there are slots, through aborts and late answers.
THEOREM ReadsInTurn == LimSpec => ReadsTakeTurns
<1>1. LimInit => ReadTurns!Init
  BY DEF LimInit, ReadTurns!Init, ReadStage
<1>2. LimiterInv /\ [LimNext]_limVars => [ReadTurns!Next]_<<ReadStage, readRank, readClock>>
  BY ReadStepTurns
<1> QED BY <1>1, <1>2, LimiterInvariant, PTL DEF LimSpec, ReadsTakeTurns, ReadTurns!Spec
=============================================================================
