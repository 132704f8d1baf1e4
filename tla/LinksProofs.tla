----------------------------- MODULE LinksProofs ------------------------------
(***************************************************************************)
(* Theorems about links between processes: ChromeBridge, PublicFetch,      *)
(* ChromeTabs and RunView, for any connections, addresses, tabs, runs,     *)
(* messages and limits.                                                    *)
(*                                                                         *)
(* In ChromeBridge the extension keeps one port, so a live host is the one *)
(* behind it, and what the bridge holds is a sequence of sockets from      *)
(* which each leaves once.  In PublicFetch what the check has found must   *)
(* hold from the check to the request, for the same URL.  ChromeTabs       *)
(* counts: each tab beyond those the user clicked, and each tab that may   *)
(* open one more, is paid for by an action of a grant.  RunView follows    *)
(* two orders: the details of a run come in the order in which what Main   *)
(* stores of it grows, and pieces of a reply come before every detail that *)
(* has the reply; and for each sending it says where the detail is that    *)
(* will confirm it.                                                        *)
(***************************************************************************)
EXTENDS ChromeBridge, PublicFetch, ChromeTabs, RunView, SequenceTheorems, FiniteSetTheorems,
        WellFoundedInduction, TLAPS

-----------------------------------------------------------------------------
(* ChromeBridge: one browser, one host *)

\* A host that runs is the one behind the port of the moment, which is still open.
BrOnePort == \A c \in BrConns : brHost[c] \in {"starting", "connected"} => c = brPort /\ c \in brOpen

\* The inductive invariant: one port, one host behind it, and sockets that somebody holds.
BrSound ==
    /\ brSockets \in Seq(BrConns) /\ brHost \in [BrConns -> {"unused", "starting", "connected", "gone"}]
    /\ brState \in [BrRequests -> {"new", "asked", "ok", "error", "timeout", "disconnected"}]
    /\ brPending \subseteq BrRequests /\ 0 \notin BrConns
    /\ BrNoOrphans /\ BrOnePort

LEMMA BrSettlesPending ==
    ASSUME NEW S, NEW state \in {"ok", "error", "timeout", "disconnected"}, NEW left,
           BrSound, left = brPending \ S, brState' = BrSettled(S, state), brPending' = left
    PROVE  /\ brState' \in [BrRequests -> {"new", "asked", "ok", "error", "timeout", "disconnected"}]
           /\ brPending' \subseteq BrRequests
           /\ \A r \in BrRequests : r \in brPending' <=> brState'[r] = "asked"
  BY DEF BrSettled, BrSound, BrNoOrphans

LEMMA BrInitSound == BrInit => BrSound
  BY BrAssumption DEF BrInit, BrSound, BrNoOrphans, BrOnePort, BrConns

\* What the desktop does with requests leaves the hosts alone.
LEMMA BrDesktopKeeps ==
    ASSUME BrSound, UNCHANGED <<brHost, brPort, brOpen>>,
           \/ UNCHANGED <<brSockets, brPending, brState>>
           \/ \E r \in BrRequests : BrAsks(r) \/ BrTimesOut(r)
           \/ \E c \in BrConns : BrAnswered(c) \/ BrSocketCloses(c)
    PROVE  BrSound'
<1>0. BrOnePort' /\ brHost' \in [BrConns -> {"unused", "starting", "connected", "gone"}] /\ 0 \notin BrConns
  BY DEF BrSound, BrOnePort
<1>1. CASE UNCHANGED <<brSockets, brPending, brState>>
  BY <1>0, <1>1 DEF BrSound, BrNoOrphans
<1>2. ASSUME NEW r \in BrRequests, BrAsks(r) PROVE BrSound'
  <2>1. /\ brState' = [brState EXCEPT ![r] = "asked"] /\ brPending' = brPending \cup {r}
        /\ brSockets # <<>> /\ brSockets' = brSockets
    BY <1>2 DEF BrAsks
  <2> QED BY <1>0, <2>1 DEF BrSound, BrNoOrphans
<1>3. ASSUME NEW r \in BrRequests, BrTimesOut(r) PROVE BrSound'
  <2>1. /\ brState' = BrSettled({r}, "timeout") /\ brPending' = brPending \ {r} /\ brSockets' = brSockets
    BY <1>3 DEF BrTimesOut
  <2>2. BrNoOrphans'
    BY <2>1, BrSettlesPending DEF BrNoOrphans, BrSound
  <2> QED BY <1>0, <2>1, <2>2, BrSettlesPending DEF BrSound
<1>4. ASSUME NEW c \in BrConns, BrAnswered(c) PROVE BrSound'
  <2>1. PICK q, ok : /\ brState' = BrSettled({q}, IF ok THEN "ok" ELSE "error")
                     /\ brPending' = brPending \ {q} /\ brSockets' = brSockets
    BY <1>4 DEF BrAnswered, BrPendingWithout
  <2>2. PICK state \in {"ok", "error", "timeout", "disconnected"} : brState' = BrSettled({q}, state)
    BY <2>1
  <2>3. BrNoOrphans'
    BY <2>1, <2>2, BrSettlesPending DEF BrNoOrphans, BrSound
  <2> QED BY <1>0, <2>1, <2>2, <2>3, BrSettlesPending DEF BrSound
<1>5. ASSUME NEW c \in BrConns, BrSocketCloses(c) PROVE BrSound'
  <2>1. PICK i \in DOMAIN brSockets :
            /\ brSockets' = RemoveAt(brSockets, i)
            /\ brPending' = BrLeft(RemoveAt(brSockets, i))
            /\ brState' = IF RemoveAt(brSockets, i) = <<>> THEN BrSettled(BrRequests, "disconnected") ELSE brState
    <3> DEFINE at == CHOOSE i \in DOMAIN brSockets : brSockets[i] = c
    <3>1. \E i \in DOMAIN brSockets : brSockets[i] = c
      BY <1>5 DEF BrSocketCloses, Contains, BrSound
    <3>2. at \in DOMAIN brSockets
      BY <3>1
    <3>3. /\ brSockets' = RemoveAt(brSockets, at) /\ brPending' = BrLeft(RemoveAt(brSockets, at))
          /\ brState' = IF RemoveAt(brSockets, at) = <<>> THEN BrSettled(BrRequests, "disconnected") ELSE brState
      BY <1>5 DEF BrSocketCloses, BrDisconnected
    <3> HIDE DEF at
    <3> QED BY <3>2, <3>3
  <2>2. brSockets' \in Seq(BrConns)
    <3>1. brSockets \in Seq(BrConns) /\ i \in 1..Len(brSockets)
      BY <2>1 DEF BrSound
    <3>2. SubSeq(brSockets, 1, i - 1) \in Seq(BrConns)
      BY <3>1
    <3>3. SubSeq(brSockets, i + 1, Len(brSockets)) \in Seq(BrConns)
      BY <3>1
    <3>4. brSockets' = SubSeq(brSockets, 1, i - 1) \o SubSeq(brSockets, i + 1, Len(brSockets))
      BY <2>1 DEF RemoveAt
    <3> QED BY <3>2, <3>3, <3>4, ConcatProperties
  <2>3. CASE brSockets' = <<>>
    <3>1. brPending' = brPending \ BrRequests /\ brState' = BrSettled(BrRequests, "disconnected")
      BY <2>1, <2>3 DEF BrLeft, BrSound
    <3>2. BrNoOrphans'
      BY <3>1, BrSettlesPending DEF BrNoOrphans, BrSound
    <3> QED BY <1>0, <2>2, <3>1, <3>2, BrSettlesPending DEF BrSound
  <2>4. CASE brSockets' # <<>>
    <3>1. UNCHANGED <<brPending, brState>>
      BY <2>1, <2>4 DEF BrLeft
    <3> QED BY <1>0, <2>2, <2>4, <3>1 DEF BrSound, BrNoOrphans
  <2> QED BY <2>3, <2>4
<1> QED BY <1>1, <1>2, <1>3, <1>4, <1>5

LEMMA BrStepKeeps == BrSound /\ [BrNext]_brVars => BrSound'
<1> SUFFICES ASSUME BrSound, [BrNext]_brVars PROVE BrSound'
  OBVIOUS
<1>1. CASE BrStops
  <2>1. /\ brSockets' = <<>> /\ brPending' = {} /\ brState' = BrSettled(BrRequests, "disconnected")
        /\ brHost' = [c \in BrConns |-> IF brHost[c] = "connected" THEN "gone" ELSE brHost[c]]
        /\ UNCHANGED <<brPort, brOpen>>
    BY <1>1 DEF BrStops
  <2>2. BrOnePort' /\ brHost' \in [BrConns -> {"unused", "starting", "connected", "gone"}]
    BY <2>1 DEF BrSound, BrOnePort
  <2>3. brPending' = brPending \ BrRequests
    BY <2>1 DEF BrSound
  <2>4. BrNoOrphans'
    BY <2>1, <2>3, BrSettlesPending DEF BrNoOrphans
  <2>5. brSockets' \in Seq(BrConns)
    BY <2>1
  <2> QED BY <2>1, <2>2, <2>3, <2>4, <2>5, BrSettlesPending DEF BrSound
<1>2. CASE BrReconnects \/ BrEnsures
  <2>1. BrConnects /\ UNCHANGED <<brSockets, brPending, brState>>
    BY <1>2 DEF BrReconnects, BrEnsures
  <2>2. CASE brPort # 0
    BY <2>1, <2>2 DEF BrConnects, BrNoPort, BrSound, BrNoOrphans, BrOnePort
  <2>3. CASE brPort = 0
    <3>1. PICK c \in BrConns : brHost' = [brHost EXCEPT ![c] = "starting"] /\ brPort' = c /\ brOpen' = brOpen \cup {c}
      BY <2>1, <2>3 DEF BrConnects, BrNoPort, BrUnused
    <3> QED BY <2>1, <2>3, <3>1 DEF BrSound, BrNoOrphans, BrOnePort
  <2> QED BY <2>2, <2>3
<1>3. ASSUME NEW c \in BrConns, BrHostConnects(c) PROVE BrSound'
  <2>1. /\ brHost[c] = "starting" /\ brHost' = [brHost EXCEPT ![c] = IF brUp THEN "connected" ELSE "gone"]
        /\ brSockets' = brSockets \/ brSockets' = Append(brSockets, c)
        /\ UNCHANGED <<brPort, brOpen, brPending, brState>>
    BY <1>3 DEF BrHostConnects
  <2>2. brSockets' \in Seq(BrConns) /\ (brSockets # <<>> => brSockets' # <<>>)
    BY <2>1 DEF BrSound
  <2> QED BY <2>1, <2>2 DEF BrSound, BrNoOrphans, BrOnePort
<1>4. ASSUME NEW c \in BrConns, BrHostDies(c) PROVE BrSound'
  <2>1. /\ brHost' = [brHost EXCEPT ![c] = "gone"]
        /\ UNCHANGED <<brSockets, brPort, brOpen, brPending, brState>>
    BY <1>4 DEF BrHostDies
  <2> QED BY <2>1 DEF BrSound, BrNoOrphans, BrOnePort
<1>5. ASSUME NEW c \in BrConns, BrPortCloses(c) PROVE BrSound'
  <2>1. /\ brHost[c] = "gone" /\ brOpen' = brOpen \ {c} /\ brPort' = IF brPort = c THEN 0 ELSE brPort
        /\ UNCHANGED <<brSockets, brHost, brPending, brState>>
    BY <1>5 DEF BrPortCloses, BrPortWithout
  <2> QED BY <2>1 DEF BrSound, BrNoOrphans, BrOnePort
<1>6. CASE BrStarts \/ (\E c \in BrConns : BrTooLarge(c) \/ BrReceives(c)) \/ (\E s \in brServing, ok \in BOOLEAN : BrServed(s, ok))
  BY <1>6, BrDesktopKeeps DEF BrStarts, BrTooLarge, BrReceives, BrServed
<1>7. CASE (\E r \in BrRequests : BrAsks(r) \/ BrTimesOut(r)) \/ \E c \in BrConns : BrAnswered(c) \/ BrSocketCloses(c)
  <2>1. UNCHANGED <<brHost, brPort, brOpen>>
    BY <1>7 DEF BrAsks, BrTimesOut, BrAnswered, BrSocketCloses
  <2> QED BY <1>7, <2>1, BrDesktopKeeps
<1>8. CASE UNCHANGED brVars
  BY <1>8, BrDesktopKeeps DEF brVars
<1> QED BY <1>1, <1>2, <1>3, <1>4, <1>5, <1>6, <1>7, <1>8 DEF BrNext

\* A request is pending exactly while its caller waits, and only while a socket is attached; and
\* the extension never runs two hosts, though hosts die, ports close and sockets are replaced in
\* any order (ChromeBridge, the native messaging host, the extension).
THEOREM BrowserLinked == BrSpec => []BrLinked
<1>1. BrSound => BrLinked
  BY DEF BrSound, BrLinked, BrOnePort, BrOneHost
<1> QED BY <1>1, BrInitSound, BrStepKeeps, PTL DEF BrSpec

-----------------------------------------------------------------------------
(* PublicFetch: every hop is checked *)

\* A URL is checked before its address is taken, so what the request will rely on holds from
\* the check on, while the connection is not open yet.
FxChecked ==
    fxStage \in {"connect", "headers", "body"} =>
        /\ fxAddress \in FxPublic
        /\ fxSearch => fxUrl.host \in FxEngine /\ fxUrl.scheme = "https"

\* Redirects and bytes are counted.
FxCounted ==
    /\ fxStage \in {"check", "connect", "headers", "body", "done"}
    /\ fxPromise \in {"open", "too large", "failed", "answered"}
    /\ fxHops \in Nat /\ fxRead \in Nat /\ (fxStage = "connect" => fxHops < FxMaxHops)

\* The inductive invariant.
FxInv == FxTypeOK /\ FxCounted /\ FxChecked

\* The first address of an answer that passed the check is a public one.
LEMMA FxFirstIsPublic ==
    \A records \in FxAnswers : FxAllPublic(records) => records[1] \in FxPublic
<1> TAKE records \in FxAnswers
<1> HAVE FxAllPublic(records)
<1>1. CASE records = <<>>
  BY <1>1 DEF FxAllPublic
<1>2. CASE records \in [1..1 -> FxAddresses] \cup [1..2 -> FxAddresses]
  BY <1>2 DEF FxAllPublic
<1> QED BY <1>1, <1>2 DEF FxAnswers

LEMMA FxInitHolds == FxInit => FxInv
  BY FxAssumption DEF FxInit, FxInv, FxTypeOK, FxCounted, FxChecked, FxNoAddress

LEMMA FxStepKeeps == FxInv /\ [FxNext]_fxVars => FxInv'
<1> SUFFICES ASSUME FxInv, [FxNext]_fxVars PROVE FxInv'
  OBVIOUS
<1>n. FxMaxHops \in Nat /\ FxMaxBytes \in Nat /\ fxHops \in Nat /\ fxRead \in Nat /\ fxRead <= FxMaxBytes
  BY FxAssumption DEF FxInv, FxTypeOK, FxCounted
<1>h. fxHops < FxMaxHops => fxHops + 1 \in Nat /\ fxHops + 1 <= FxMaxHops
  BY <1>n
<1>z. 0 <= FxMaxBytes
  BY <1>n
<1>b. \A n \in 1..FxMaxBytes : ~(fxRead + n > FxMaxBytes) => fxRead + n \in Nat /\ fxRead + n <= FxMaxBytes
  BY <1>n
<1> USE FxAssumption DEF FxInv, FxTypeOK, FxCounted, FxChecked
<1>1. CASE FxCheck
  <2>1. CASE fxStage' = "done"
    BY <1>1, <2>1 DEF FxCheck, FxEnds
  <2>2. CASE fxStage' # "done"
    <3>1. PICK records \in FxAnswers : /\ FxAllPublic(records) /\ fxAddress' = records[1]
                                       /\ fxStage' = "connect" /\ FxHopsLeft /\ FxMayGo
                                       /\ UNCHANGED <<fxUrl, fxHops, fxRead, fxResult, fxSearch, fxPromise>>
      BY <1>1, <2>2 DEF FxCheck, FxEnds
    <3>2. fxAddress' \in FxPublic
      BY <3>1, FxFirstIsPublic
    <3>3. fxHops < FxMaxHops
      BY <3>1 DEF FxHopsLeft
    <3>4. fxSearch => fxUrl.host \in FxEngine /\ fxUrl.scheme = "https"
      BY <3>1 DEF FxMayGo, FxAllowed
    <3>5. fxStage = "check"
      BY <1>1 DEF FxCheck
    <3>6. FxTypeOK'
      BY <3>1, <3>2, <3>5
    <3>7. FxCounted'
      BY <3>1, <3>3
    <3>8. FxChecked'
      BY <3>1, <3>2, <3>4
    <3> QED BY <3>6, <3>7, <3>8
  <2> QED BY <2>1, <2>2
<1>2. CASE FxConnect
  <2>1. /\ fxStage = "connect" /\ fxStage' = "headers" /\ fxHops' = fxHops + 1 /\ fxRead' = 0
        /\ fxPromise' = "open" /\ UNCHANGED <<fxSearch, fxUrl, fxAddress, fxResult>>
    BY <1>2 DEF FxConnect
  <2>2. fxHops < FxMaxHops /\ fxHops \in Nat /\ fxResult = "open"
    BY <2>1
  <2>3. fxHops' <= FxMaxHops /\ fxHops' \in Nat /\ 0 <= FxMaxBytes
    BY <1>h, <1>z, <2>1, <2>2
  <2>4. FxTypeOK'
    BY <2>1, <2>2, <2>3
  <2>5. FxCounted' /\ FxChecked'
    BY <2>1, <2>3
  <2> QED BY <2>4, <2>5
<1>3. ASSUME NEW u \in FxUrls, FxRedirect(u) PROVE FxInv'
  BY <1>3 DEF FxRedirect
<1>4. ASSUME NEW o \in {"document", "status", "unreadable", "failed", "too large"}, FxReturn(o) PROVE FxInv'
  BY <1>4 DEF FxReturn, FxEnds
<1>5. CASE FxFails \/ FxEnd
  <2>1. UNCHANGED <<fxSearch, fxStage, fxUrl, fxHops, fxAddress, fxRead, fxResult>>
    BY <1>5 DEF FxFails, FxEnd
  <2>2. /\ fxPromise' \in {"open", "too large", "failed", "answered"}
        /\ fxPromise = "answered" => fxPromise' = "answered"
    BY <1>5 DEF FxFails, FxEnd, FxSettles
  <2>3. FxTypeOK' /\ FxCounted'
    BY <2>1, <2>2
  <2>4. FxChecked'
    BY <2>1
  <2> QED BY <2>3, <2>4
<1>6. ASSUME NEW n \in 0..FxMaxBytes + 1, FxHeaders(n) PROVE FxInv'
  BY <1>6 DEF FxHeaders, FxSettles
<1>7. ASSUME NEW n \in 1..FxMaxBytes, FxChunk(n) PROVE FxInv'
  <2>1. UNCHANGED <<fxSearch, fxStage, fxUrl, fxHops, fxAddress, fxResult>>
    BY <1>7 DEF FxChunk
  <2>2. fxPromise = "open" /\ fxPromise' \in {"open", "too large"}
    BY <1>7 DEF FxChunk, FxOverflow, FxSettles
  <2>3. fxRead' = fxRead \/ (fxRead' = fxRead + n /\ ~(fxRead + n > FxMaxBytes))
    BY <1>7 DEF FxChunk, FxOverflow
  <2>4. fxRead' \in Nat /\ fxRead' <= FxMaxBytes
    BY <1>n, <1>b, <2>3
  <2>5. FxTypeOK' /\ FxCounted'
    BY <2>1, <2>2, <2>4
  <2>6. FxChecked'
    BY <2>1
  <2> QED BY <2>5, <2>6
<1>8. CASE UNCHANGED fxVars
  BY <1>8 DEF fxVars
<1> QED BY <1>1, <1>2, <1>3, <1>4, <1>5, <1>6, <1>7, <1>8 DEF FxNext, FxGoesOn

\* Every connection of a fetch goes to a public address that was checked for this URL, however
\* redirects and the answers of the name service change in between; a search goes to a search
\* engine over https only (fetchPublicUrl).
THEOREM FetchGoesWhereAllowed == FxSpec => []FxGoesWhereAllowed
<1>1. FxInv => FxGoesWhereAllowed
  BY DEF FxInv, FxChecked, FxGoesWhereAllowed, FxOnlyPublic, FxStaysWithEngine
<1> QED BY <1>1, FxInitHolds, FxStepKeeps, PTL DEF FxSpec

\* No fetch follows more redirects or reads more bytes than its limits.
THEOREM FetchTyped == FxSpec => []FxTypeOK
<1>1. FxInv => FxTypeOK
  BY DEF FxInv
<1> QED BY <1>1, FxInitHolds, FxStepKeeps, PTL DEF FxSpec

-----------------------------------------------------------------------------
(* ChromeTabs: tabs under control *)

\* A set of numbers has a smallest.
LEMMA SmallestExists ==
    ASSUME NEW S \in SUBSET Nat, S # {}
    PROVE  Min(S) \in S
<1>1. PICK m \in S : \A y \in S : ~(<<y, m>> \in OpToRel(<, Nat))
  BY WFMin, NatLessThanWellFounded
<1>2. \A y \in S : ~(y < m)
  BY <1>1 DEF OpToRel
<1>3. \A y \in S : m <= y
  BY <1>2
<1> QED BY <1>3 DEF Min

\* Grants, and operations on their way.
ChrGrantType == [live : BOOLEAN, root : ChrTabs \cup {0}, tabs : SUBSET Nat, task : ChrTasks \cup {"none"}]
ChrOpType == [cmd : {"none", "gesture", "bind", "look", "click", "openTab", "detach"}, tab : ChrTabs \cup {0},
              grant : ChrGrantIds \cup {0}, at : {"none", "attach", "send", "create", "adopt", "reply"}]

\* Grants that live or are being revoked were given to a root, and an operation that has
\* still to do with a tab has a grant.
ChrShape ==
    /\ chrGrants \in [ChrGrantIds -> ChrGrantType] /\ chrOp \in [ChrOps -> ChrOpType]
    /\ chrOwner \in [ChrTabs -> ChrGrantIds \cup {0}] /\ chrArmed \in [ChrTabs -> ChrGrantIds \cup {0}]
    /\ chrRevoking \subseteq [grant : ChrGrantIds, done : SUBSET Nat] /\ chrActs \in Nat
    /\ chrRows \subseteq [task : ChrTasks \cup {"none"}, tab : ChrTabs \cup {0}, parent : ChrTabs \cup {0}]
    /\ ChrLive \subseteq ChrUsed /\ \A r \in chrRevoking : r.grant \in ChrUsed
    /\ \A o \in ChrOps : chrOp[o].at \in {"attach", "send", "create", "adopt"} => chrOp[o].grant # 0

\* The tabs of grants and those that openTab is about to add, without the ones the user
\* clicked; and the tabs that may bring about one more.
ChrPending == {chrOp[o].tab : o \in {p \in ChrOps : chrOp[p].at = "adopt"}}
ChrMembers == UNION {chrGrants[g].tabs : g \in ChrUsed}
ChrRoots == {chrGrants[g].root : g \in ChrUsed}
ChrCounted == (ChrMembers \cup ChrPending) \ ChrRoots
ChrArmedTabs == {t \in ChrTabs : chrArmed[t] # 0}
ChrEachPaidFor ==
    /\ IsFiniteSet(ChrCounted) /\ IsFiniteSet(ChrArmedTabs)
    /\ Cardinality(ChrCounted) + Cardinality(ChrArmedTabs) <= chrActs

\* The inductive invariant: types, a count of the tabs, and no debugger without a grant.
ChrInv == ChrShape /\ ChrEachPaidFor /\ ChrAttachedIsGranted

LEMMA ChrInitHolds == ChrInit => ChrInv
<1> SUFFICES ASSUME ChrInit PROVE ChrInv
  OBVIOUS
<1>1. ChrNoGrant \in ChrGrantType /\ ChrIdle \in ChrOpType /\ ChrNoGrant.root = 0 /\ ~ChrNoGrant.live /\ ChrIdle.at = "none"
  BY DEF ChrNoGrant, ChrIdle, ChrGrantType, ChrOpType
<1>2. ChrUsed = {} /\ ChrLive = {}
  BY <1>1 DEF ChrInit, ChrUsed, ChrLive
<1>3. ChrShape
  BY <1>1, <1>2 DEF ChrInit, ChrShape
<1>4. ChrCounted = {} /\ ChrArmedTabs = {}
  BY <1>1, <1>2 DEF ChrInit, ChrCounted, ChrMembers, ChrPending, ChrArmedTabs
<1>5. ChrEachPaidFor
  BY <1>4, FS_EmptySet DEF ChrInit, ChrEachPaidFor
<1>6. ChrAttachedIsGranted
  BY DEF ChrInit, ChrAttachedIsGranted
<1> QED BY <1>3, <1>5, <1>6 DEF ChrInv

-----------------------------------------------------------------------------
(* Counting. *)

LEMMA ChrCounts ==
    ASSUME ChrEachPaidFor, chrActs \in Nat, chrActs' \in Nat, NEW x, NEW t,
           \/ ChrCounted' \subseteq ChrCounted /\ ChrArmedTabs' \subseteq ChrArmedTabs /\ chrActs' >= chrActs
           \/ ChrCounted' \subseteq ChrCounted /\ ChrArmedTabs' \subseteq ChrArmedTabs \cup {t} /\ chrActs' = chrActs + 1
           \/ ChrCounted' \subseteq ChrCounted \cup {x} /\ ChrArmedTabs' \subseteq ChrArmedTabs /\ chrActs' = chrActs + 1
           \/ ChrCounted' \subseteq ChrCounted \cup {x} /\ t \in ChrArmedTabs /\ ChrArmedTabs' \subseteq ChrArmedTabs \ {t} /\ chrActs' = chrActs
    PROVE  ChrEachPaidFor'
<1> DEFINE C == ChrCounted
           A == ChrArmedTabs
<1>1. IsFiniteSet(C) /\ IsFiniteSet(A) /\ Cardinality(C) + Cardinality(A) <= chrActs
  BY DEF ChrEachPaidFor
<1>2. /\ Cardinality(C) \in Nat /\ Cardinality(A) \in Nat
      /\ IsFiniteSet(C \cup {x}) /\ Cardinality(C \cup {x}) \in Nat /\ Cardinality(C \cup {x}) <= Cardinality(C) + 1
      /\ IsFiniteSet(A \cup {t}) /\ Cardinality(A \cup {t}) \in Nat /\ Cardinality(A \cup {t}) <= Cardinality(A) + 1
      /\ IsFiniteSet(A \ {t}) /\ Cardinality(A \ {t}) \in Nat /\ (t \in A => Cardinality(A \ {t}) = Cardinality(A) - 1)
  <2>1. Cardinality(C) \in Nat /\ Cardinality(A) \in Nat
    BY <1>1, FS_CardinalityType
  <2>2. IsFiniteSet(C \cup {x}) /\ IsFiniteSet(A \cup {t}) /\ IsFiniteSet(A \ {t})
    BY <1>1, FS_AddElement, FS_RemoveElement
  <2>3. Cardinality(C \cup {x}) = Cardinality(C) \/ Cardinality(C \cup {x}) = Cardinality(C) + 1
    BY <1>1, FS_AddElement
  <2>4. Cardinality(A \cup {t}) = Cardinality(A) \/ Cardinality(A \cup {t}) = Cardinality(A) + 1
    BY <1>1, FS_AddElement
  <2>5. t \in A => Cardinality(A \ {t}) = Cardinality(A) - 1
    BY <1>1, FS_RemoveElement
  <2>6. Cardinality(C \cup {x}) \in Nat /\ Cardinality(A \cup {t}) \in Nat /\ Cardinality(A \ {t}) \in Nat
    BY <2>2, FS_CardinalityType
  <2> QED BY <2>1, <2>2, <2>3, <2>4, <2>5, <2>6
<1>3. ASSUME NEW D, NEW B, IsFiniteSet(D), IsFiniteSet(B), ChrCounted' \subseteq D, ChrArmedTabs' \subseteq B,
             Cardinality(D) \in Nat, Cardinality(B) \in Nat, Cardinality(D) + Cardinality(B) <= chrActs'
      PROVE  ChrEachPaidFor'
  <2>1. IsFiniteSet(ChrCounted') /\ Cardinality(ChrCounted') <= Cardinality(D)
    BY <1>3, FS_Subset
  <2>2. IsFiniteSet(ChrArmedTabs') /\ Cardinality(ChrArmedTabs') <= Cardinality(B)
    BY <1>3, FS_Subset
  <2>3. Cardinality(ChrCounted') \in Nat /\ Cardinality(ChrArmedTabs') \in Nat
    BY <2>1, <2>2, FS_CardinalityType
  <2>4. Cardinality(ChrCounted') + Cardinality(ChrArmedTabs') <= chrActs'
    BY <1>3, <2>1, <2>2, <2>3
  <2> QED BY <2>1, <2>2, <2>4 DEF ChrEachPaidFor
<1> HIDE DEF C, A
<1>4. CASE ChrCounted' \subseteq C /\ ChrArmedTabs' \subseteq A /\ chrActs' >= chrActs
  <2>1. Cardinality(C) + Cardinality(A) <= chrActs'
    BY <1>1, <1>2, <1>4
  <2> QED BY <1>1, <1>2, <1>3, <1>4, <2>1
<1>5. CASE ChrCounted' \subseteq C /\ ChrArmedTabs' \subseteq A \cup {t} /\ chrActs' = chrActs + 1
  <2>1. Cardinality(C) + Cardinality(A \cup {t}) <= chrActs'
    BY <1>1, <1>2, <1>5
  <2> QED BY <1>1, <1>2, <1>3, <1>5, <2>1
<1>6. CASE ChrCounted' \subseteq C \cup {x} /\ ChrArmedTabs' \subseteq A /\ chrActs' = chrActs + 1
  <2>1. Cardinality(C \cup {x}) + Cardinality(A) <= chrActs'
    BY <1>1, <1>2, <1>6
  <2> QED BY <1>1, <1>2, <1>3, <1>6, <2>1
<1>7. CASE ChrCounted' \subseteq C \cup {x} /\ t \in A /\ ChrArmedTabs' \subseteq A \ {t} /\ chrActs' = chrActs
  <2>1. Cardinality(C \cup {x}) + Cardinality(A \ {t}) <= chrActs'
    BY <1>1, <1>2, <1>7
  <2> QED BY <1>1, <1>2, <1>3, <1>7, <2>1
<1> QED BY <1>4, <1>5, <1>6, <1>7 DEF C, A

\* Roots stay, and no grant takes a tab in that is not expected.
ChrRootsStay == \A g \in ChrGrantIds : chrGrants'[g].root = chrGrants[g].root

LEMMA ChrCountedFrom ==
    ASSUME ChrRootsStay, NEW X, \A g \in ChrGrantIds : chrGrants'[g].tabs \subseteq chrGrants[g].tabs \cup ChrPending \cup X,
           ChrPending' \subseteq ChrPending \cup X
    PROVE  ChrCounted' \subseteq ChrCounted \cup X
<1>1. ChrUsed' = ChrUsed /\ ChrUsed \subseteq ChrGrantIds
  BY DEF ChrUsed, ChrRootsStay
<1>2. ChrRoots' = ChrRoots
  BY <1>1 DEF ChrRoots, ChrRootsStay
<1>3. ChrMembers' \subseteq ChrMembers \cup ChrPending \cup X
  BY <1>1 DEF ChrMembers
<1> QED BY <1>2, <1>3 DEF ChrCounted

LEMMA ChrPendingFrom ==
    ASSUME NEW o \in ChrOps, chrOp \in [ChrOps -> ChrOpType], NEW n, chrOp' = [chrOp EXCEPT ![o] = n]
    PROVE  /\ n.at # "adopt" => ChrPending' \subseteq ChrPending
           /\ ChrPending' \subseteq ChrPending \cup {n.tab}
  BY DEF ChrPending

-----------------------------------------------------------------------------
(* Attached tabs. *)

LEMMA ChrGrantsGrow ==
    ASSUME ChrShape, ChrAttachedIsGranted,
           \A g \in ChrUsed : (chrGrants[g].live => chrGrants'[g].live) /\ chrGrants[g].tabs \subseteq chrGrants'[g].tabs,
           chrRevoking' = chrRevoking, chrAttached' \ chrOrphans' \subseteq chrAttached \ chrOrphans
    PROVE  ChrAttachedIsGranted'
  BY DEF ChrShape, ChrAttachedIsGranted, ChrLive, ChrUsed, ChrRest

LEMMA ChrTabLeaves ==
    ASSUME ChrShape, ChrAttachedIsGranted, NEW t,
           \A g \in ChrGrantIds : chrGrants'[g].live = chrGrants[g].live /\ chrGrants[g].tabs \ {t} \subseteq chrGrants'[g].tabs,
           chrRevoking' = chrRevoking, chrOrphans' = chrOrphans, chrAttached' \subseteq chrAttached \ {t}
    PROVE  ChrAttachedIsGranted'
  BY DEF ChrShape, ChrAttachedIsGranted, ChrLive, ChrUsed, ChrRest

LEMMA ChrGrantGoes ==
    ASSUME ChrShape, ChrAttachedIsGranted, NEW grants \in [ChrGrantIds -> ChrGrantType], NEW owner, NEW attached,
           NEW g \in ChrGrantIds, ChrRevokeFrom(grants, owner, attached, g), chrOrphans' = chrOrphans,
           attached \subseteq chrAttached, 
           \A h \in ChrGrantIds : /\ grants[h].live = chrGrants[h].live /\ grants[h].root = chrGrants[h].root
                                  /\ grants[h].tabs \subseteq chrGrants[h].tabs
                                  /\ \A u \in attached : u \in chrGrants[h].tabs => u \in grants[h].tabs
    PROVE  /\ chrGrants' \in [ChrGrantIds -> ChrGrantType]
           /\ \A h \in ChrGrantIds : /\ chrGrants'[h].live = (h # g /\ chrGrants[h].live)
                                     /\ chrGrants'[h].root = chrGrants[h].root
                                     /\ chrGrants'[h].tabs = grants[h].tabs
           /\ chrOwner' \in [ChrTabs -> UNION {{0, owner[t]} : t \in ChrTabs}]
           /\ chrRevoking' \subseteq chrRevoking \cup [grant : {g}, done : SUBSET Nat]
           /\ ChrAttachedIsGranted'
<1> DEFINE tabs == grants[g].tabs
           first == IF tabs = {} THEN {} ELSE {Min(tabs)}
<1>1. tabs \subseteq Nat /\ first \subseteq tabs
  BY SmallestExists DEF ChrGrantType
<1>2. /\ chrGrants' = [grants EXCEPT ![g].live = FALSE] /\ chrAttached' = attached \ first
      /\ chrOwner' = [t \in ChrTabs |-> IF t \in first THEN 0 ELSE owner[t]]
      /\ chrRevoking' = IF tabs = first THEN chrRevoking ELSE chrRevoking \cup {[grant |-> g, done |-> first]}
  BY DEF ChrRevokeFrom
<1> HIDE DEF first
<1>3. PICK n : n = [grants[g] EXCEPT !.live = FALSE]
  OBVIOUS
<1>4. n \in ChrGrantType /\ n.live = FALSE /\ n.root = grants[g].root /\ n.tabs = grants[g].tabs
  <2>1. grants[g] \in ChrGrantType
    OBVIOUS
  <2> QED BY <1>3, <2>1 DEF ChrGrantType
<1>5. chrGrants' = [grants EXCEPT ![g] = n]
  BY <1>2, <1>3
<1>6. \A h \in ChrGrantIds : grants[h].live \in BOOLEAN
  BY DEF ChrGrantType
<1>7. /\ chrGrants' \in [ChrGrantIds -> ChrGrantType]
      /\ \A h \in ChrGrantIds : /\ chrGrants'[h].live = (h # g /\ chrGrants[h].live)
                                /\ chrGrants'[h].root = chrGrants[h].root
                                /\ chrGrants'[h].tabs = grants[h].tabs
  BY <1>4, <1>5, <1>6
<1>8. chrRevoking' \subseteq chrRevoking \cup [grant : {g}, done : SUBSET Nat] /\ chrRevoking \subseteq chrRevoking'
  BY <1>1, <1>2
<1>9. ASSUME NEW t \in chrAttached' \ chrOrphans'
      PROVE  (\E h \in ChrLive' : t \in chrGrants'[h].tabs) \/ (\E r \in chrRevoking' : t \in ChrRest(r)')
  <2>1. t \in attached /\ t \notin first /\ t \in chrAttached \ chrOrphans
    BY <1>2, <1>9
  <2>2. CASE \E h \in ChrLive : t \in chrGrants[h].tabs
    <3>1. PICK h \in ChrLive : t \in chrGrants[h].tabs
      BY <2>2
    <3>2. h \in ChrGrantIds /\ chrGrants[h].live /\ t \in grants[h].tabs
      BY <2>1, <3>1 DEF ChrLive
    <3>3. CASE h # g
      BY <1>7, <3>2, <3>3 DEF ChrLive
    <3>4. CASE h = g
      <4>1. PICK r : r = [grant |-> g, done |-> first]
        OBVIOUS
      <4>2. r \in chrRevoking' /\ r.grant = g /\ r.done = first
        BY <1>2, <2>1, <3>2, <3>4, <4>1
      <4>3. t \in ChrRest(r)'
        BY <1>7, <2>1, <3>2, <3>4, <4>2 DEF ChrRest
      <4> QED BY <4>2, <4>3
    <3> QED BY <3>3, <3>4
  <2>3. CASE \E r \in chrRevoking : t \in ChrRest(r)
    <3>1. PICK r \in chrRevoking : t \in chrGrants[r.grant].tabs /\ t \notin r.done
      BY <2>3 DEF ChrRest
    <3>2. r.grant \in ChrGrantIds
      BY DEF ChrShape
    <3>3. t \in chrGrants'[r.grant].tabs
      BY <1>7, <2>1, <3>1, <3>2
    <3> QED BY <1>8, <3>1, <3>3 DEF ChrRest
  <2> QED BY <2>1, <2>2, <2>3 DEF ChrAttachedIsGranted
<1>10. ChrAttachedIsGranted'
  BY <1>9 DEF ChrAttachedIsGranted
<1>11. chrOwner' \in [ChrTabs -> UNION {{0, owner[t]} : t \in ChrTabs}]
  BY <1>2
<1> QED BY <1>7, <1>8, <1>10, <1>11

LEMMA ChrTabsChange ==
    ASSUME chrGrants \in [ChrGrantIds -> ChrGrantType], NEW g \in ChrGrantIds, NEW S \in SUBSET Nat,
           NEW grants, grants = [chrGrants EXCEPT ![g].tabs = S]
    PROVE  /\ grants \in [ChrGrantIds -> ChrGrantType]
           /\ \A h \in ChrGrantIds : /\ grants[h].live = chrGrants[h].live /\ grants[h].root = chrGrants[h].root
                                     /\ grants[h].tabs = IF h = g THEN S ELSE chrGrants[h].tabs
<1>1. PICK n : n = [chrGrants[g] EXCEPT !.tabs = S]
  OBVIOUS
<1>2. chrGrants[g] \in ChrGrantType
  OBVIOUS
<1>3. n \in ChrGrantType /\ n.live = chrGrants[g].live /\ n.root = chrGrants[g].root /\ n.tabs = S
  BY <1>1, <1>2 DEF ChrGrantType
<1>4. grants = [chrGrants EXCEPT ![g] = n]
  BY <1>1
<1> QED BY <1>3, <1>4

LEMMA ChrGrantFields ==
    ASSUME ChrShape, NEW g \in ChrGrantIds
    PROVE  /\ chrGrants[g] \in ChrGrantType /\ chrGrants[g].live \in BOOLEAN /\ chrGrants[g].root \in ChrTabs \cup {0}
           /\ chrGrants[g].tabs \in SUBSET Nat /\ chrGrants[g].task \in ChrTasks \cup {"none"}
           /\ chrGrants[g].live => g \in ChrUsed
<1>1. chrGrants[g] \in ChrGrantType
  BY DEF ChrShape
<1> QED BY <1>1 DEF ChrGrantType, ChrShape, ChrLive

LEMMA ChrNumbers == ChrGrantIds \subseteq Nat \ {0} /\ ChrTabs \subseteq Nat \ {0} /\ 0 \notin ChrTabs /\ 0 \notin ChrGrantIds
  BY ChrAssumption DEF ChrGrantIds

\* The grant a task is let in by is live and bound to the task.
LEMMA ChrGrantOfTask ==
    ASSUME NEW task, ChrGrantOf(task) # 0
    PROVE  ChrGrantOf(task) \in ChrLive /\ chrGrants[ChrGrantOf(task)].task = task /\ ChrGrantOf(task) \in ChrGrantIds
<1> DEFINE bound == {g \in ChrLive : chrGrants[g].task = task}
<1>1. bound \subseteq Nat /\ bound # {} /\ ChrGrantOf(task) = Min(bound)
  BY ChrNumbers DEF ChrGrantOf, ChrLive
<1>2. Min(bound) \in bound
  BY <1>1, SmallestExists
<1> QED BY <1>1, <1>2 DEF ChrLive

\* What the shape takes of a step that leaves the roots.
LEMMA ChrShapeFrom ==
    ASSUME ChrShape, ChrRootsStay, chrGrants' \in [ChrGrantIds -> ChrGrantType],
           \A g \in ChrGrantIds : chrGrants'[g].live => chrGrants[g].live,
           chrOp' \in [ChrOps -> ChrOpType],
           \A o \in ChrOps : chrOp'[o].at \in {"attach", "send", "create", "adopt"} => chrOp'[o].grant # 0,
           chrOwner' \in [ChrTabs -> ChrGrantIds \cup {0}], chrArmed' \in [ChrTabs -> ChrGrantIds \cup {0}],
           chrRevoking' \subseteq chrRevoking \cup [grant : ChrUsed, done : SUBSET Nat], chrActs' \in Nat,
           chrRows' \subseteq chrRows \cup [task : ChrTasks \cup {"none"}, tab : ChrTabs \cup {0}, parent : ChrTabs \cup {0}]
    PROVE  ChrShape'
<1>1. ChrUsed' = ChrUsed /\ ChrUsed \subseteq ChrGrantIds
  BY DEF ChrUsed, ChrRootsStay
<1>2. ChrLive' \subseteq ChrUsed'
  BY <1>1 DEF ChrLive, ChrShape
<1>3. \A r \in chrRevoking' : r.grant \in ChrUsed'
  BY <1>1 DEF ChrShape
<1>4. chrRevoking' \subseteq [grant : ChrGrantIds, done : SUBSET Nat]
  BY <1>1 DEF ChrShape
<1>5. chrRows' \subseteq [task : ChrTasks \cup {"none"}, tab : ChrTabs \cup {0}, parent : ChrTabs \cup {0}]
  BY DEF ChrShape
<1> QED BY <1>2, <1>3, <1>4, <1>5 DEF ChrShape

\* An operation comes, goes on or ends.
LEMMA ChrOpMoves ==
    ASSUME ChrShape, NEW o \in ChrOps, NEW n \in ChrOpType,
           n.at \in {"attach", "send", "create", "adopt"} => n.grant # 0, chrOp' = [chrOp EXCEPT ![o] = n]
    PROVE  /\ chrOp' \in [ChrOps -> ChrOpType]
           /\ \A p \in ChrOps : chrOp'[p].at \in {"attach", "send", "create", "adopt"} => chrOp'[p].grant # 0
           /\ n.at # "adopt" => ChrPending' \subseteq ChrPending
           /\ ChrPending' \subseteq ChrPending \cup {n.tab}
<1>1. chrOp \in [ChrOps -> ChrOpType]
  BY DEF ChrShape
<1>2. /\ n.at # "adopt" => ChrPending' \subseteq ChrPending
      /\ ChrPending' \subseteq ChrPending \cup {n.tab}
  BY <1>1, ChrPendingFrom
<1> QED BY <1>1, <1>2 DEF ChrShape

LEMMA ChrIdleFine == ChrIdle \in ChrOpType /\ ChrIdle.at = "none"
  BY DEF ChrIdle, ChrOpType

LEMMA ChrOpFields ==
    ASSUME ChrShape, NEW o \in ChrOps
    PROVE  /\ chrOp[o] \in ChrOpType /\ chrOp[o].tab \in ChrTabs \cup {0} /\ chrOp[o].grant \in ChrGrantIds \cup {0}
           /\ chrOp[o].at \in {"attach", "send", "create", "adopt"} => chrOp[o].grant \in ChrGrantIds
<1>1. chrOp[o] \in ChrOpType
  BY DEF ChrShape
<1> QED BY <1>1 DEF ChrOpType, ChrShape

LEMMA ChrMovesOn ==
    ASSUME ChrShape, NEW o \in ChrOps, NEW at \in {"none", "attach", "send", "create", "adopt", "reply"}, NEW n,
           n = [chrOp[o] EXCEPT !.at = at]
    PROVE  n \in ChrOpType /\ n.at = at /\ n.grant = chrOp[o].grant /\ n.tab = chrOp[o].tab
<1>1. chrOp[o] \in ChrOpType
  BY DEF ChrShape
<1> QED BY <1>1 DEF ChrOpType

\* A new tab joins at most the grant that its opener was armed for.
LEMMA ChrAppears ==
    ASSUME ChrShape, NEW t \in ChrTabs, NEW opener \in ChrTabs \cup {0}, NEW heard, ChrTabAppears(t, opener, heard)
    PROVE  /\ chrGrants' \in [ChrGrantIds -> ChrGrantType] /\ ChrRootsStay
           /\ \A g \in ChrGrantIds : /\ chrGrants'[g].live = chrGrants[g].live
                                     /\ chrGrants[g].tabs \subseteq chrGrants'[g].tabs
                                     /\ chrGrants'[g].tabs \subseteq chrGrants[g].tabs \cup {t}
           /\ chrOwner' \in [ChrTabs -> ChrGrantIds \cup {0}] /\ chrArmed' \in [ChrTabs -> ChrGrantIds \cup {0}]
           /\ ChrArmedTabs' \subseteq ChrArmedTabs
           /\ \/ chrGrants' = chrGrants
              \/ opener \in ChrArmedTabs /\ ChrArmedTabs' \subseteq ChrArmedTabs \ {opener}
           /\ chrRows' \subseteq chrRows \cup [task : ChrTasks \cup {"none"}, tab : ChrTabs \cup {0}, parent : ChrTabs \cup {0}]
<1> DEFINE g == IF opener = 0 THEN 0 ELSE chrArmed[opener]
<1>0. chrArmed \in [ChrTabs -> ChrGrantIds \cup {0}] /\ chrOwner \in [ChrTabs -> ChrGrantIds \cup {0}]
      /\ chrGrants \in [ChrGrantIds -> ChrGrantType] /\ ChrLive \subseteq ChrGrantIds
  BY DEF ChrShape, ChrLive
<1>1. /\ chrArmed' = IF opener = 0 THEN chrArmed ELSE [chrArmed EXCEPT ![opener] = 0]
      /\ chrGrants' = IF g \in ChrLive THEN [chrGrants EXCEPT ![g].tabs = chrGrants[g].tabs \cup {t}] ELSE chrGrants
      /\ chrOwner' = IF g \in ChrLive THEN [chrOwner EXCEPT ![t] = g] ELSE chrOwner
      /\ chrRows' \subseteq chrRows \cup
            IF g \in ChrLive THEN {[task |-> chrGrants[g].task, tab |-> t, parent |-> chrGrants[g].root]} ELSE {}
  BY DEF ChrTabAppears, ChrAdopter, ChrDisarmed
<1> HIDE DEF g
<1>2. chrOwner' \in [ChrTabs -> ChrGrantIds \cup {0}] /\ chrArmed' \in [ChrTabs -> ChrGrantIds \cup {0}]
  BY <1>0, <1>1
<1>3. ChrArmedTabs' \subseteq ChrArmedTabs /\ (opener # 0 => ChrArmedTabs' \subseteq ChrArmedTabs \ {opener})
  BY <1>0, <1>1 DEF ChrArmedTabs
<1>4. CASE g \notin ChrLive
  BY <1>0, <1>1, <1>2, <1>3, <1>4 DEF ChrRootsStay
<1>5. CASE g \in ChrLive
  <2>1. g \in ChrGrantIds /\ g # 0
    BY <1>0, <1>5, ChrNumbers
  <2>2. opener \in ChrArmedTabs /\ opener # 0
    BY <2>1 DEF g, ChrArmedTabs
  <2>3. PICK S : S = chrGrants[g].tabs \cup {t}
    OBVIOUS
  <2>30. S \in SUBSET Nat
    BY <2>1, <2>3, ChrGrantFields, ChrNumbers
  <2>31. PICK grants : grants = [chrGrants EXCEPT ![g].tabs = S]
    OBVIOUS
  <2>32. chrGrants' = grants
    BY <1>1, <1>5, <2>3, <2>31
  <2>33. /\ grants \in [ChrGrantIds -> ChrGrantType]
         /\ \A h \in ChrGrantIds : /\ grants[h].live = chrGrants[h].live /\ grants[h].root = chrGrants[h].root
                                   /\ grants[h].tabs = IF h = g THEN S ELSE chrGrants[h].tabs
    BY <1>0, <2>1, <2>30, <2>31, ChrTabsChange
  <2>4. /\ chrGrants' \in [ChrGrantIds -> ChrGrantType]
        /\ \A h \in ChrGrantIds : /\ chrGrants'[h].live = chrGrants[h].live /\ chrGrants'[h].root = chrGrants[h].root
                                  /\ chrGrants'[h].tabs = IF h = g THEN chrGrants[g].tabs \cup {t} ELSE chrGrants[h].tabs
    BY <2>3, <2>32, <2>33
  <2>5. PICK row : row = [task |-> chrGrants[g].task, tab |-> t, parent |-> chrGrants[g].root]
    OBVIOUS
  <2>6. row \in [task : ChrTasks \cup {"none"}, tab : ChrTabs \cup {0}, parent : ChrTabs \cup {0}]
    BY <2>1, <2>5, ChrGrantFields
  <2>7. chrRows' \subseteq chrRows \cup {row}
    BY <1>1, <1>5, <2>5
  <2> QED BY <1>2, <1>3, <2>2, <2>4, <2>6, <2>7 DEF ChrRootsStay
<1> QED BY <1>4, <1>5

\* A grant goes, all of it or a tab of it.
ChrTakenBack ==
    /\ chrGrants' \in [ChrGrantIds -> ChrGrantType] /\ ChrRootsStay
    /\ \A g \in ChrGrantIds : (chrGrants'[g].live => chrGrants[g].live) /\ chrGrants'[g].tabs \subseteq chrGrants[g].tabs
    /\ chrOwner' \in [ChrTabs -> ChrGrantIds \cup {0}]
    /\ chrRevoking' \subseteq chrRevoking \cup [grant : ChrUsed, done : SUBSET Nat]
    /\ ChrAttachedIsGranted'

LEMMA ChrAllTakenBack ==
    ASSUME ChrShape, ChrAttachedIsGranted, NEW g \in ChrLive, ChrRevokeFrom(chrGrants, chrOwner, chrAttached, g),
           chrOrphans' = chrOrphans
    PROVE  ChrTakenBack
<1>1. g \in ChrGrantIds /\ g \in ChrUsed /\ chrGrants \in [ChrGrantIds -> ChrGrantType]
      /\ chrOwner \in [ChrTabs -> ChrGrantIds \cup {0}]
  BY DEF ChrShape, ChrLive
<1>2. /\ chrGrants' \in [ChrGrantIds -> ChrGrantType]
      /\ \A h \in ChrGrantIds : /\ chrGrants'[h].live = (h # g /\ chrGrants[h].live)
                                /\ chrGrants'[h].root = chrGrants[h].root
                                /\ chrGrants'[h].tabs = chrGrants[h].tabs
      /\ chrOwner' \in [ChrTabs -> UNION {{0, chrOwner[t]} : t \in ChrTabs}]
      /\ chrRevoking' \subseteq chrRevoking \cup [grant : {g}, done : SUBSET Nat]
      /\ ChrAttachedIsGranted'
  BY <1>1, ChrGrantGoes
<1>3. chrOwner' \in [ChrTabs -> ChrGrantIds \cup {0}]
  BY <1>1, <1>2
<1> QED BY <1>1, <1>2, <1>3 DEF ChrTakenBack, ChrRootsStay

LEMMA ChrTabTakenBack ==
    ASSUME ChrShape, ChrAttachedIsGranted, NEW t \in ChrTabs, ChrRevokeTab(t, chrAttached \ {t}), chrOrphans' = chrOrphans
    PROVE  ChrTakenBack
<1>1. PICK g : g = chrOwner[t]
  OBVIOUS
<1>2. PICK grants : grants = [chrGrants EXCEPT ![g].tabs = chrGrants[g].tabs \ {t}]
  OBVIOUS
<1>3. g \in ChrGrantIds \cup {0} /\ chrGrants \in [ChrGrantIds -> ChrGrantType]
      /\ chrOwner \in [ChrTabs -> ChrGrantIds \cup {0}]
  BY <1>1 DEF ChrShape
<1>4. ChrDisowned(t) \in [ChrTabs -> ChrGrantIds \cup {0}]
  BY <1>3 DEF ChrDisowned
<1>5. CASE g = 0 \/ ~chrGrants[g].live
  <2>1. chrOwner' = ChrDisowned(t) /\ chrAttached' = chrAttached \ {t} /\ UNCHANGED <<chrGrants, chrRevoking>>
    BY <1>1, <1>5 DEF ChrRevokeTab
  <2>2. ChrAttachedIsGranted'
    BY <2>1, ChrTabLeaves
  <2> QED BY <1>3, <1>4, <2>1, <2>2 DEF ChrTakenBack, ChrRootsStay
<1>6. CASE g # 0 /\ chrGrants[g].live
  <2>1. g \in ChrGrantIds /\ g \in ChrUsed
    BY <1>3, <1>6, ChrGrantFields
  <2>2. PICK S : S = chrGrants[g].tabs \ {t}
    OBVIOUS
  <2>20. S \in SUBSET Nat
    BY <2>1, <2>2, ChrGrantFields
  <2>21. grants = [chrGrants EXCEPT ![g].tabs = S]
    BY <1>2, <2>2
  <2>22. /\ grants \in [ChrGrantIds -> ChrGrantType]
         /\ \A h \in ChrGrantIds : /\ grants[h].live = chrGrants[h].live /\ grants[h].root = chrGrants[h].root
                                   /\ grants[h].tabs = IF h = g THEN S ELSE chrGrants[h].tabs
    BY <1>3, <2>1, <2>20, <2>21, ChrTabsChange
  <2>3. /\ grants \in [ChrGrantIds -> ChrGrantType]
        /\ \A h \in ChrGrantIds : /\ grants[h].live = chrGrants[h].live /\ grants[h].root = chrGrants[h].root
                                  /\ grants[h].tabs = IF h = g THEN chrGrants[g].tabs \ {t} ELSE chrGrants[h].tabs
    BY <2>2, <2>22
  <2>4. CASE ChrRevokeFrom(grants, ChrDisowned(t), chrAttached \ {t}, g)
    <3>1. /\ chrGrants' \in [ChrGrantIds -> ChrGrantType]
          /\ \A h \in ChrGrantIds : /\ chrGrants'[h].live = (h # g /\ chrGrants[h].live)
                                    /\ chrGrants'[h].root = chrGrants[h].root
                                    /\ chrGrants'[h].tabs = grants[h].tabs
          /\ chrOwner' \in [ChrTabs -> UNION {{0, ChrDisowned(t)[u]} : u \in ChrTabs}]
          /\ chrRevoking' \subseteq chrRevoking \cup [grant : {g}, done : SUBSET Nat]
          /\ ChrAttachedIsGranted'
      BY <2>1, <2>3, <2>4, ChrGrantGoes
    <3>2. chrOwner' \in [ChrTabs -> ChrGrantIds \cup {0}]
      BY <1>4, <3>1
    <3> QED BY <2>1, <2>3, <3>1, <3>2 DEF ChrTakenBack, ChrRootsStay
  <2>5. CASE chrGrants' = grants /\ chrOwner' = ChrDisowned(t) /\ chrAttached' = chrAttached \ {t} /\ chrRevoking' = chrRevoking
    <3>1. ChrAttachedIsGranted'
      BY <2>3, <2>5, ChrTabLeaves
    <3> QED BY <1>4, <2>3, <2>5, <3>1 DEF ChrTakenBack, ChrRootsStay
  <2> QED BY <1>1, <1>2, <1>6, <2>4, <2>5 DEF ChrRevokeTab
<1> QED BY <1>5, <1>6

-----------------------------------------------------------------------------
(* The steps. *)

ChrOpsFine ==
    /\ chrOp' \in [ChrOps -> ChrOpType]
    /\ \A o \in ChrOps : chrOp'[o].at \in {"attach", "send", "create", "adopt"} => chrOp'[o].grant # 0

ChrRowType == [task : ChrTasks \cup {"none"}, tab : ChrTabs \cup {0}, parent : ChrTabs \cup {0}]

LEMMA ChrEndsFine ==
    ASSUME ChrShape, NEW o \in ChrOps, ChrEnds(o)
    PROVE  ChrOpsFine /\ ChrPending' \subseteq ChrPending
<1>1. chrOp' = [chrOp EXCEPT ![o] = ChrIdle]
  BY DEF ChrEnds
<1>2. PICK n : n = ChrIdle
  OBVIOUS
<1>3. n \in ChrOpType /\ n.at = "none" /\ chrOp' = [chrOp EXCEPT ![o] = n]
  BY <1>1, <1>2, ChrIdleFine
<1> QED BY <1>3, ChrOpMoves DEF ChrOpsFine

LEMMA ChrMovesFine ==
    ASSUME ChrShape, NEW o \in ChrOps, NEW at \in {"attach", "send"}, ChrMoves(o, at), chrOp[o].grant # 0
    PROVE  ChrOpsFine /\ ChrPending' \subseteq ChrPending
<1>1. chrOp' = [chrOp EXCEPT ![o].at = at]
  BY DEF ChrMoves
<1>2. PICK n : n = [chrOp[o] EXCEPT !.at = at]
  OBVIOUS
<1>3. n \in ChrOpType /\ n.at = at /\ n.grant = chrOp[o].grant
  BY <1>2, ChrMovesOn
<1>4. chrOp' = [chrOp EXCEPT ![o] = n]
  BY <1>1, <1>2
<1> QED BY <1>3, <1>4, ChrOpMoves DEF ChrOpsFine

LEMMA ChrOpsStay ==
    ASSUME ChrShape, chrOp' = chrOp
    PROVE  ChrOpsFine /\ ChrPending' = ChrPending
  BY DEF ChrShape, ChrOpsFine, ChrPending

\* A step that leaves the grants as they are.
LEMMA ChrGrantsStay ==
    ASSUME ChrShape, ChrOpsFine, ChrPending' \subseteq ChrPending, UNCHANGED <<chrGrants, chrOwner, chrRevoking>>,
           chrArmed' \in [ChrTabs -> ChrGrantIds \cup {0}], chrActs' \in Nat,
           chrRows' \subseteq chrRows \cup ChrRowType
    PROVE  ChrShape' /\ ChrCounted' \subseteq ChrCounted
<1>1. /\ ChrRootsStay /\ chrGrants' \in [ChrGrantIds -> ChrGrantType]
      /\ \A g \in ChrGrantIds : (chrGrants'[g].live => chrGrants[g].live) /\ chrGrants'[g].tabs = chrGrants[g].tabs
      /\ chrOwner' \in [ChrTabs -> ChrGrantIds \cup {0}]
      /\ chrRevoking' \subseteq chrRevoking \cup [grant : ChrUsed, done : SUBSET Nat]
  BY DEF ChrRootsStay, ChrShape
<1>2. ChrShape'
  BY <1>1, ChrShapeFrom DEF ChrOpsFine, ChrRowType
<1>3. ChrCounted' \subseteq ChrCounted \cup {}
  BY <1>1, ChrCountedFrom
<1> QED BY <1>2, <1>3

\* Of the shape.
LEMMA ChrShapeFields ==
    ASSUME ChrShape
    PROVE  /\ chrGrants \in [ChrGrantIds -> ChrGrantType] /\ chrOwner \in [ChrTabs -> ChrGrantIds \cup {0}]
           /\ chrArmed \in [ChrTabs -> ChrGrantIds \cup {0}] /\ chrActs \in Nat
  BY DEF ChrShape

LEMMA ChrArmedStay == chrArmed' = chrArmed => ChrArmedTabs' = ChrArmedTabs
  BY DEF ChrArmedTabs

\* A step that leaves the grants, arms no tab and attaches none.
LEMMA ChrQuietStep ==
    ASSUME ChrInv, ChrOpsFine, ChrPending' \subseteq ChrPending,
           UNCHANGED <<chrGrants, chrOwner, chrRevoking, chrActs, chrOrphans>>,
           chrArmed' \in [ChrTabs -> ChrGrantIds \cup {0}], ChrArmedTabs' \subseteq ChrArmedTabs,
           chrRows' \subseteq chrRows \cup ChrRowType, chrAttached' \subseteq chrAttached
    PROVE  ChrInv'
<1>1. ChrShape /\ ChrEachPaidFor /\ ChrAttachedIsGranted /\ chrActs \in Nat /\ chrActs' = chrActs
  BY ChrShapeFields DEF ChrInv
<1>2. ChrShape' /\ ChrCounted' \subseteq ChrCounted
  BY <1>1, ChrGrantsStay
<1>3. ChrEachPaidFor'
  BY <1>1, <1>2, ChrCounts
<1>4. ChrAttachedIsGranted'
  BY <1>1, ChrGrantsGrow
<1> QED BY <1>2, <1>3, <1>4 DEF ChrInv

\* A step that takes grants back.
LEMMA ChrBackStep ==
    ASSUME ChrInv, ChrTakenBack, ChrOpsFine, ChrPending' \subseteq ChrPending, UNCHANGED <<chrArmed, chrRows, chrActs>>
    PROVE  ChrInv'
<1>1. ChrShape /\ ChrEachPaidFor /\ chrActs \in Nat /\ chrActs' = chrActs
  BY ChrShapeFields DEF ChrInv
<1>2. /\ ChrRootsStay /\ chrGrants' \in [ChrGrantIds -> ChrGrantType]
      /\ \A g \in ChrGrantIds : (chrGrants'[g].live => chrGrants[g].live) /\ chrGrants'[g].tabs \subseteq chrGrants[g].tabs
      /\ chrOwner' \in [ChrTabs -> ChrGrantIds \cup {0}]
      /\ chrRevoking' \subseteq chrRevoking \cup [grant : ChrUsed, done : SUBSET Nat]
      /\ ChrAttachedIsGranted'
  BY DEF ChrTakenBack
<1>3. chrArmed' \in [ChrTabs -> ChrGrantIds \cup {0}] /\ chrActs' \in Nat
  BY <1>1, ChrShapeFields
<1>4. ChrShape'
  BY <1>1, <1>2, <1>3, ChrShapeFrom DEF ChrOpsFine
<1>5. ChrCounted' \subseteq ChrCounted \cup {}
  BY <1>2, ChrCountedFrom
<1>6. ChrEachPaidFor'
  BY <1>1, <1>5, ChrArmedStay, ChrCounts
<1> QED BY <1>2, <1>4, <1>6 DEF ChrInv

LEMMA ChrRequestStep ==
    ASSUME ChrInv, NEW o \in ChrOps, NEW cmd \in {"look", "click", "openTab"}, NEW task \in ChrTasks, NEW t \in ChrTabs,
           ChrRequest(o, cmd, task, t)
    PROVE  ChrInv'
<1>1. ChrShape /\ ChrEachPaidFor /\ ChrAttachedIsGranted /\ chrActs \in Nat
      /\ chrArmed \in [ChrTabs -> ChrGrantIds \cup {0}]
  BY ChrShapeFields DEF ChrInv
<1>2. PICK g : g = ChrGrantOf(task)
  OBVIOUS
<1>3. g # 0
  BY <1>2 DEF ChrRequest, ChrControls
<1>4. g \in ChrGrantIds
  BY <1>2, <1>3, ChrGrantOfTask
<1>5. PICK n : n = [cmd |-> cmd, tab |-> t, grant |-> g,
                    at |-> IF cmd = "openTab" THEN "create" ELSE IF t \in chrAttached THEN "send" ELSE "attach"]
  OBVIOUS
<1>6. n \in ChrOpType /\ n.grant # 0 /\ n.at # "adopt"
  BY <1>3, <1>4, <1>5 DEF ChrOpType
<1>7. /\ chrOp' = [chrOp EXCEPT ![o] = n]
      /\ chrArmed' = IF cmd = "openTab" THEN [chrArmed EXCEPT ![t] = g] ELSE chrArmed
      /\ chrActs' = IF cmd = "openTab" THEN chrActs + 1 ELSE chrActs
      /\ chrGrants' = chrGrants /\ chrOwner' = chrOwner /\ chrRevoking' = chrRevoking
      /\ chrAttached' = chrAttached /\ chrOrphans' = chrOrphans /\ chrRows' = chrRows
  BY <1>2, <1>5 DEF ChrRequest
<1>8. ChrOpsFine /\ ChrPending' \subseteq ChrPending
  BY <1>1, <1>6, <1>7, ChrOpMoves DEF ChrOpsFine
<1>9. chrArmed' \in [ChrTabs -> ChrGrantIds \cup {0}] /\ chrActs' \in Nat
  BY <1>1, <1>4, <1>7
<1>10. ChrShape' /\ ChrCounted' \subseteq ChrCounted
  BY <1>1, <1>7, <1>8, <1>9, ChrGrantsStay
<1>11. ChrEachPaidFor'
  <2>1. CASE cmd = "openTab"
    <3>1. ChrArmedTabs' \subseteq ChrArmedTabs \cup {t}
      BY <1>1, <1>7 DEF ChrArmedTabs
    <3> QED BY <1>1, <1>7, <1>9, <1>10, <2>1, <3>1, ChrCounts
  <2>2. CASE cmd # "openTab"
    <3>1. ChrArmedTabs' = ChrArmedTabs
      BY <1>7, <2>2, ChrArmedStay
    <3>2. chrActs' >= chrActs
      BY <1>1, <1>7, <2>2
    <3> QED BY <1>1, <1>9, <1>10, <3>1, <3>2, ChrCounts
  <2> QED BY <2>1, <2>2
<1>12. ChrAttachedIsGranted'
  BY <1>1, <1>7, ChrGrantsGrow
<1> QED BY <1>10, <1>11, <1>12 DEF ChrInv

LEMMA ChrSendsStep ==
    ASSUME ChrInv, NEW o \in ChrOps, ChrSends(o)
    PROVE  ChrInv'
<1>1. ChrShape /\ ChrEachPaidFor /\ ChrAttachedIsGranted /\ chrActs \in Nat
      /\ chrArmed \in [ChrTabs -> ChrGrantIds \cup {0}]
  BY ChrShapeFields DEF ChrInv
<1>2. PICK t : t = chrOp[o].tab
  OBVIOUS
<1>3. PICK g : g = chrOp[o].grant
  OBVIOUS
<1>4. g \in ChrGrantIds \cup {0}
  BY <1>1, <1>3, ChrOpFields
<1>5. /\ ChrEnds(o)
      /\ chrArmed' = IF chrOp[o].cmd = "click" THEN [chrArmed EXCEPT ![t] = g] ELSE chrArmed
      /\ chrActs' = IF chrOp[o].cmd = "click" THEN chrActs + 1 ELSE chrActs
      /\ chrGrants' = chrGrants /\ chrOwner' = chrOwner /\ chrRevoking' = chrRevoking
      /\ chrAttached' = chrAttached /\ chrOrphans' = chrOrphans /\ chrRows' = chrRows
  BY <1>2, <1>3 DEF ChrSends
<1>6. ChrOpsFine /\ ChrPending' \subseteq ChrPending
  BY <1>1, <1>5, ChrEndsFine
<1>7. chrArmed' \in [ChrTabs -> ChrGrantIds \cup {0}] /\ chrActs' \in Nat
  <2>1. [chrArmed EXCEPT ![t] = g] \in [ChrTabs -> ChrGrantIds \cup {0}]
    BY <1>1, <1>4
  <2>2. chrActs' \in Nat
    BY <1>1, <1>5
  <2>3. CASE chrOp[o].cmd = "click"
    BY <1>5, <2>1, <2>2, <2>3
  <2>4. CASE chrOp[o].cmd # "click"
    BY <1>1, <1>5, <2>2, <2>4
  <2> QED BY <2>3, <2>4
<1>8. ChrShape' /\ ChrCounted' \subseteq ChrCounted
  BY <1>1, <1>5, <1>6, <1>7, ChrGrantsStay
<1>9. ChrEachPaidFor'
  <2>1. CASE chrOp[o].cmd = "click"
    <3>1. ChrArmedTabs' \subseteq ChrArmedTabs \cup {t}
      BY <1>1, <1>5 DEF ChrArmedTabs
    <3> QED BY <1>1, <1>5, <1>7, <1>8, <2>1, <3>1, ChrCounts
  <2>2. CASE chrOp[o].cmd # "click"
    <3>1. ChrArmedTabs' = ChrArmedTabs
      BY <1>5, <2>2, ChrArmedStay
    <3>2. chrActs' >= chrActs
      BY <1>1, <1>5, <2>2
    <3> QED BY <1>1, <1>7, <1>8, <3>1, <3>2, ChrCounts
  <2> QED BY <2>1, <2>2
<1>10. ChrAttachedIsGranted'
  BY <1>1, <1>5, ChrGrantsGrow
<1> QED BY <1>8, <1>9, <1>10 DEF ChrInv

LEMMA ChrAttachesStep ==
    ASSUME ChrInv, NEW o \in ChrOps, ChrAttaches(o)
    PROVE  ChrInv'
<1>1. ChrShape /\ ChrEachPaidFor /\ ChrAttachedIsGranted /\ chrActs \in Nat
      /\ chrArmed \in [ChrTabs -> ChrGrantIds \cup {0}]
  BY ChrShapeFields DEF ChrInv
<1>2. PICK g : g = chrOp[o].grant
  OBVIOUS
<1>3. PICK t : t = chrOp[o].tab
  OBVIOUS
<1>4. g \in ChrGrantIds /\ g # 0 /\ t \in ChrTabs \cup {0} /\ chrOp[o].at = "attach"
  BY <1>1, <1>2, <1>3, ChrOpFields, ChrNumbers DEF ChrAttaches
<1>5. /\ chrGrants' = chrGrants /\ chrOwner' = chrOwner /\ chrRevoking' = chrRevoking
      /\ chrArmed' = chrArmed /\ chrActs' = chrActs
      /\ chrAttached' = chrAttached \cup {t}
      /\ chrOrphans' = IF chrGrants[g].live /\ ChrOwns(g, t) THEN chrOrphans ELSE chrOrphans \cup {t}
      /\ IF chrOp[o].cmd \in {"look", "click"} THEN ChrMoves(o, "send") ELSE ChrEnds(o)
  BY <1>2, <1>3 DEF ChrAttaches
<1>6. ChrOpsFine /\ ChrPending' \subseteq ChrPending
  BY <1>1, <1>2, <1>4, <1>5, ChrMovesFine, ChrEndsFine
<1>7. chrRows' \subseteq chrRows \cup ChrRowType
  <2>1. PICK a : a = [task |-> chrGrants[g].task, tab |-> chrGrants[g].root, parent |-> 0]
    OBVIOUS
  <2>2. PICK b : b = [task |-> chrGrants[g].task, tab |-> t, parent |-> chrGrants[g].root]
    OBVIOUS
  <2>3. a \in ChrRowType /\ b \in ChrRowType
    BY <1>1, <1>4, <2>1, <2>2, ChrGrantFields DEF ChrRowType
  <2>4. chrRows' \in {chrRows, chrRows \cup {a}, chrRows \cup {b}}
    BY <1>2, <1>3, <2>1, <2>2 DEF ChrAttaches
  <2> QED BY <2>3, <2>4
<1>8. ChrShape' /\ ChrCounted' \subseteq ChrCounted
  BY <1>1, <1>5, <1>6, <1>7, ChrGrantsStay
<1>9. ChrEachPaidFor'
  BY <1>1, <1>5, <1>8, ChrArmedStay, ChrCounts
<1>10. ASSUME NEW u \in chrAttached' \ chrOrphans'
       PROVE  (\E h \in ChrLive' : u \in chrGrants'[h].tabs) \/ (\E r \in chrRevoking' : u \in ChrRest(r)')
  <2>1. CASE u \in chrAttached \ chrOrphans
    BY <1>1, <1>5, <2>1 DEF ChrAttachedIsGranted, ChrLive, ChrRest
  <2>2. CASE u \notin chrAttached \ chrOrphans
    <3>1. u = t /\ chrGrants[g].live /\ ChrOwns(g, t)
      BY <1>5, <1>10, <2>2
    <3> QED BY <1>4, <1>5, <3>1 DEF ChrOwns, ChrLive
  <2> QED BY <2>1, <2>2
<1>11. ChrAttachedIsGranted'
  BY <1>10 DEF ChrAttachedIsGranted
<1> QED BY <1>8, <1>9, <1>11 DEF ChrInv

LEMMA ChrGoesOnStep ==
    ASSUME ChrInv, NEW r \in chrRevoking, ChrRevokeGoesOn(r)
    PROVE  ChrInv'
<1>1. ChrShape /\ ChrEachPaidFor /\ ChrAttachedIsGranted /\ chrActs \in Nat
      /\ chrArmed \in [ChrTabs -> ChrGrantIds \cup {0}] /\ chrGrants \in [ChrGrantIds -> ChrGrantType]
      /\ chrOwner \in [ChrTabs -> ChrGrantIds \cup {0}]
  BY ChrShapeFields DEF ChrInv
<1>2. r \in [grant : ChrGrantIds, done : SUBSET Nat] /\ r.grant \in ChrUsed
  BY <1>1 DEF ChrShape
<1>3. /\ chrGrants' = chrGrants /\ chrArmed' = chrArmed /\ chrActs' = chrActs /\ chrOp' = chrOp
      /\ chrRows' = chrRows /\ chrOrphans' = chrOrphans
  BY DEF ChrRevokeGoesOn
<1>4. ChrOpsFine /\ ChrPending' \subseteq ChrPending
  BY <1>1, <1>3, ChrOpsStay
<1>5. ChrTakenBack
  <2>1. CASE ChrRest(r) = {}
    <3>1. chrRevoking' = chrRevoking \ {r} /\ chrOwner' = chrOwner /\ chrAttached' = chrAttached
      BY <2>1 DEF ChrRevokeGoesOn
    <3>2. ChrAttachedIsGranted'
      BY <1>1, <1>3, <2>1, <3>1 DEF ChrAttachedIsGranted, ChrRest, ChrLive
    <3> QED BY <1>1, <1>3, <3>1, <3>2 DEF ChrTakenBack, ChrRootsStay
  <2>2. CASE ChrRest(r) # {}
    <3>1. PICK t : t = Min(ChrRest(r))
      OBVIOUS
    <3>2. chrGrants[r.grant].tabs \in SUBSET Nat
      BY <1>1, <1>2, ChrGrantFields
    <3>3. t \in chrGrants[r.grant].tabs /\ t \in Nat
      <4>1. ChrRest(r) \in SUBSET Nat /\ ChrRest(r) \subseteq chrGrants[r.grant].tabs
        BY <3>2 DEF ChrRest
      <4> QED BY <2>2, <3>1, <3>2, <4>1, SmallestExists
    <3>4. PICK n : n = [r EXCEPT !.done = r.done \cup {t}]
      OBVIOUS
    <3>5. n \in [grant : ChrGrantIds, done : SUBSET Nat] /\ n.grant = r.grant /\ n.done = r.done \cup {t}
      BY <1>2, <3>3, <3>4
    <3>6. /\ chrOwner' = ChrDisowned(t) /\ chrAttached' = chrAttached \ {t}
          /\ chrRevoking' = (chrRevoking \ {r}) \cup {n}
      BY <2>2, <3>1, <3>4 DEF ChrRevokeGoesOn
    <3>7. chrOwner' \in [ChrTabs -> ChrGrantIds \cup {0}]
      BY <1>1, <3>6 DEF ChrDisowned
    <3>8. n \in [grant : ChrUsed, done : SUBSET Nat]
      BY <1>2, <3>5
    <3>9. ASSUME NEW u \in chrAttached' \ chrOrphans'
          PROVE  (\E h \in ChrLive' : u \in chrGrants'[h].tabs) \/ (\E q \in chrRevoking' : u \in ChrRest(q)')
      <4>1. u # t /\ u \in chrAttached \ chrOrphans
        BY <1>3, <3>6, <3>9
      <4>2. CASE \E h \in ChrLive : u \in chrGrants[h].tabs
        BY <1>3, <4>2 DEF ChrLive
      <4>3. CASE \E q \in chrRevoking : u \in ChrRest(q)
        <5>1. PICK q \in chrRevoking : u \in chrGrants[q.grant].tabs /\ u \notin q.done
          BY <4>3 DEF ChrRest
        <5>2. CASE q = r
          <6>1. u \in chrGrants'[n.grant].tabs /\ u \notin n.done /\ n \in chrRevoking'
            BY <1>3, <3>5, <3>6, <4>1, <5>1, <5>2
          <6> QED BY <6>1 DEF ChrRest
        <5>3. CASE q # r
          BY <1>3, <3>6, <5>1, <5>3 DEF ChrRest
        <5> QED BY <5>2, <5>3
      <4> QED BY <1>1, <4>1, <4>2, <4>3 DEF ChrAttachedIsGranted
    <3>10. ChrAttachedIsGranted'
      BY <3>9 DEF ChrAttachedIsGranted
    <3> QED BY <1>1, <1>3, <3>6, <3>7, <3>8, <3>10 DEF ChrTakenBack, ChrRootsStay
  <2> QED BY <2>1, <2>2
<1> QED BY <1>3, <1>4, <1>5, ChrBackStep

LEMMA ChrClosesStep ==
    ASSUME ChrInv, NEW t \in ChrTabs, ChrTabCloses(t)
    PROVE  ChrInv'
<1>1. ChrShape /\ ChrAttachedIsGranted
  BY DEF ChrInv
<1>2. /\ ChrRevokeTab(t, chrAttached \ {t}) /\ chrOrphans' = chrOrphans /\ chrOp' = chrOp
      /\ chrArmed' = chrArmed /\ chrRows' = chrRows /\ chrActs' = chrActs
  BY DEF ChrTabCloses
<1>3. ChrTakenBack
  BY <1>1, <1>2, ChrTabTakenBack
<1>4. ChrOpsFine /\ ChrPending' \subseteq ChrPending
  BY <1>1, <1>2, ChrOpsStay
<1> QED BY <1>2, <1>3, <1>4, ChrBackStep

LEMMA ChrAttachFailsStep ==
    ASSUME ChrInv, NEW o \in ChrOps, ChrAttachFails(o)
    PROVE  ChrInv'
<1>1. ChrShape /\ ChrAttachedIsGranted /\ chrArmed \in [ChrTabs -> ChrGrantIds \cup {0}]
  BY ChrShapeFields DEF ChrInv
<1>2. PICK g : g = chrOp[o].grant
  OBVIOUS
<1>3. /\ ChrEnds(o) /\ chrOrphans' = chrOrphans
      /\ chrArmed' = chrArmed /\ chrRows' = chrRows /\ chrActs' = chrActs
  BY DEF ChrAttachFails
<1>4. ChrOpsFine /\ ChrPending' \subseteq ChrPending
  BY <1>1, <1>3, ChrEndsFine
<1>5. CASE chrOp[o].cmd = "gesture" /\ chrGrants[g].live
  <2>1. g \in ChrGrantIds
    BY <1>1, <1>2, ChrOpFields DEF ChrAttachFails
  <2>2. g \in ChrLive
    BY <1>5, <2>1 DEF ChrLive
  <2>3. ChrRevokeFrom(chrGrants, chrOwner, chrAttached, g)
    BY <1>2, <1>5 DEF ChrAttachFails
  <2>4. ChrTakenBack
    BY <1>1, <1>3, <2>2, <2>3, ChrAllTakenBack
  <2> QED BY <1>3, <1>4, <2>4, ChrBackStep
<1>6. CASE ~(chrOp[o].cmd = "gesture" /\ chrGrants[g].live)
  <2>1. /\ chrGrants' = chrGrants /\ chrOwner' = chrOwner /\ chrAttached' = chrAttached
        /\ chrRevoking' = chrRevoking
    BY <1>2, <1>6 DEF ChrAttachFails
  <2> QED BY <1>1, <1>3, <1>4, <2>1, ChrArmedStay, ChrQuietStep
<1> QED BY <1>5, <1>6

LEMMA ChrDetachStep ==
    ASSUME ChrInv, NEW o \in ChrOps, NEW row \in chrRows, ChrDetachArrives(o, row)
    PROVE  ChrInv'
<1>1. ChrShape /\ ChrAttachedIsGranted /\ chrArmed \in [ChrTabs -> ChrGrantIds \cup {0}]
      /\ chrGrants \in [ChrGrantIds -> ChrGrantType] /\ chrOwner \in [ChrTabs -> ChrGrantIds \cup {0}]
  BY ChrShapeFields DEF ChrInv
<1>2. PICK t : t = row.tab
  OBVIOUS
<1>3. t \in ChrTabs \cup {0}
  BY <1>1, <1>2 DEF ChrShape
<1>4. /\ chrOrphans' = chrOrphans /\ chrArmed' = chrArmed /\ chrRows' = chrRows /\ chrActs' = chrActs
  BY DEF ChrDetachArrives
<1>5. PICK n : n = [cmd |-> "detach", tab |-> t, grant |-> 0, at |-> "reply"]
  OBVIOUS
<1>6. n \in ChrOpType /\ n.at = "reply" /\ chrOp' = [chrOp EXCEPT ![o] = n]
  BY <1>2, <1>3, <1>5 DEF ChrOpType, ChrDetachArrives
<1>7. ChrOpsFine /\ ChrPending' \subseteq ChrPending
  BY <1>1, <1>6, ChrOpMoves DEF ChrOpsFine
<1>8. PICK g : g = ChrGrantOf(row.task)
  OBVIOUS
<1>9. CASE ~ChrControls(row.task, row.tab)
  <2>1. /\ chrGrants' = chrGrants /\ chrOwner' = chrOwner /\ chrAttached' = chrAttached
        /\ chrRevoking' = chrRevoking
    BY <1>9 DEF ChrDetachArrives
  <2> QED BY <1>1, <1>4, <1>7, <2>1, ChrArmedStay, ChrQuietStep
<1>10. CASE ChrControls(row.task, row.tab)
  <2>1. g \in ChrLive /\ g \in ChrGrantIds
    BY <1>8, <1>10, ChrGrantOfTask DEF ChrControls
  <2>2. CASE row.parent = 0
    <3>1. ChrRevokeFrom(chrGrants, chrOwner, chrAttached, g)
      BY <1>8, <1>10, <2>2 DEF ChrDetachArrives
    <3>2. ChrTakenBack
      BY <1>1, <1>4, <2>1, <3>1, ChrAllTakenBack
    <3> QED BY <1>4, <1>7, <3>2, ChrBackStep
  <2>3. CASE row.parent # 0
    <3>1. PICK S : S = chrGrants[g].tabs \ {t}
      OBVIOUS
    <3>2. S \in SUBSET Nat
      BY <1>1, <2>1, <3>1, ChrGrantFields
    <3>3. PICK grants : grants = [chrGrants EXCEPT ![g].tabs = S]
      OBVIOUS
    <3>4. /\ grants \in [ChrGrantIds -> ChrGrantType]
          /\ \A h \in ChrGrantIds : /\ grants[h].live = chrGrants[h].live /\ grants[h].root = chrGrants[h].root
                                    /\ grants[h].tabs = IF h = g THEN S ELSE chrGrants[h].tabs
      BY <1>1, <2>1, <3>2, <3>3, ChrTabsChange
    <3>5. /\ chrGrants' = grants /\ chrOwner' = ChrDisowned(t) /\ chrAttached' = chrAttached \ {t}
          /\ chrRevoking' = chrRevoking
      BY <1>2, <1>8, <1>10, <2>3, <3>1, <3>3 DEF ChrDetachArrives
    <3>6. ChrAttachedIsGranted'
      BY <1>1, <1>4, <3>1, <3>4, <3>5, ChrTabLeaves
    <3>7. chrOwner' \in [ChrTabs -> ChrGrantIds \cup {0}]
      BY <1>1, <3>5 DEF ChrDisowned
    <3>8. ChrTakenBack
      BY <3>1, <3>4, <3>5, <3>6, <3>7 DEF ChrTakenBack, ChrRootsStay
    <3> QED BY <1>4, <1>7, <3>8, ChrBackStep
  <2> QED BY <2>2, <2>3
<1> QED BY <1>9, <1>10

LEMMA ChrBindStep ==
    ASSUME ChrInv, NEW o \in ChrOps, NEW task \in ChrTasks, NEW g \in ChrGrantIds, ChrBind(o, task, g)
    PROVE  ChrInv'
<1>1. ChrShape /\ ChrEachPaidFor /\ ChrAttachedIsGranted /\ chrActs \in Nat
      /\ chrArmed \in [ChrTabs -> ChrGrantIds \cup {0}] /\ chrGrants \in [ChrGrantIds -> ChrGrantType]
      /\ chrOwner \in [ChrTabs -> ChrGrantIds \cup {0}]
  BY ChrShapeFields DEF ChrInv
<1>2. /\ chrOwner' = chrOwner /\ chrAttached' = chrAttached /\ chrArmed' = chrArmed /\ chrActs' = chrActs
      /\ chrRevoking' = chrRevoking /\ chrRows' = chrRows /\ chrOrphans' = chrOrphans
      /\ chrGrants' = [chrGrants EXCEPT ![g].task = task]
  BY DEF ChrBind
<1>3. PICK m : m = [chrGrants[g] EXCEPT !.task = task]
  OBVIOUS
<1>4. chrGrants[g] \in ChrGrantType
  BY <1>1
<1>5. m \in ChrGrantType /\ m.live = chrGrants[g].live /\ m.root = chrGrants[g].root /\ m.tabs = chrGrants[g].tabs
  BY <1>3, <1>4 DEF ChrGrantType
<1>6. chrGrants' = [chrGrants EXCEPT ![g] = m]
  BY <1>2, <1>3
<1>7. /\ chrGrants' \in [ChrGrantIds -> ChrGrantType] /\ ChrRootsStay
      /\ \A h \in ChrGrantIds : chrGrants'[h].live = chrGrants[h].live /\ chrGrants'[h].tabs = chrGrants[h].tabs
  BY <1>1, <1>5, <1>6 DEF ChrRootsStay
<1>8. PICK n : n = [cmd |-> "bind", tab |-> chrGrants[g].root, grant |-> g, at |-> "attach"]
  OBVIOUS
<1>9. n \in ChrOpType /\ n.at = "attach" /\ n.grant # 0 /\ chrOp' = [chrOp EXCEPT ![o] = n]
  BY <1>1, <1>8, ChrGrantFields, ChrNumbers DEF ChrOpType, ChrBind
<1>10. ChrOpsFine /\ ChrPending' \subseteq ChrPending
  BY <1>1, <1>9, ChrOpMoves DEF ChrOpsFine
<1>11. chrOwner' \in [ChrTabs -> ChrGrantIds \cup {0}] /\ chrArmed' \in [ChrTabs -> ChrGrantIds \cup {0}] /\ chrActs' \in Nat
  BY <1>1, <1>2
<1>12. ChrShape'
  BY <1>1, <1>2, <1>7, <1>10, <1>11, ChrShapeFrom DEF ChrOpsFine
<1>13. ChrCounted' \subseteq ChrCounted \cup {}
  BY <1>7, <1>10, ChrCountedFrom
<1>14. ChrEachPaidFor'
  BY <1>1, <1>2, <1>13, ChrArmedStay, ChrCounts
<1>15. ChrAttachedIsGranted'
  <2>1. \A h \in ChrUsed : (chrGrants[h].live => chrGrants'[h].live) /\ chrGrants[h].tabs \subseteq chrGrants'[h].tabs
    BY <1>7 DEF ChrUsed
  <2> QED BY <1>1, <1>2, <2>1, ChrGrantsGrow
<1> QED BY <1>12, <1>14, <1>15 DEF ChrInv

LEMMA ChrAdoptsStep ==
    ASSUME ChrInv, NEW o \in ChrOps, ChrAdopts(o)
    PROVE  ChrInv'
<1>1. ChrShape /\ ChrEachPaidFor /\ ChrAttachedIsGranted /\ chrActs \in Nat
      /\ chrArmed \in [ChrTabs -> ChrGrantIds \cup {0}] /\ chrGrants \in [ChrGrantIds -> ChrGrantType]
      /\ chrOwner \in [ChrTabs -> ChrGrantIds \cup {0}]
  BY ChrShapeFields DEF ChrInv
<1>2. PICK g : g = chrOp[o].grant
  OBVIOUS
<1>3. PICK t : t = chrOp[o].tab
  OBVIOUS
<1>4. g \in ChrGrantIds /\ g # 0 /\ t \in ChrTabs \cup {0} /\ chrOp[o].at = "adopt"
  BY <1>1, <1>2, <1>3, ChrOpFields, ChrNumbers DEF ChrAdopts
<1>5. t \in ChrPending
  BY <1>3, <1>4 DEF ChrPending
<1>6. /\ chrAttached' = chrAttached /\ chrArmed' = chrArmed /\ chrActs' = chrActs
      /\ chrRevoking' = chrRevoking /\ chrRows' = chrRows /\ chrOrphans' = chrOrphans
      /\ chrGrants' = [chrGrants EXCEPT ![g].tabs = chrGrants[g].tabs \cup {t}]
      /\ chrOwner' = [chrOwner EXCEPT ![t] = g] /\ ChrMoves(o, "attach")
  BY <1>2, <1>3 DEF ChrAdopts
<1>7. PICK S : S = chrGrants[g].tabs \cup {t}
  OBVIOUS
<1>8. S \in SUBSET Nat
  BY <1>1, <1>4, <1>7, ChrGrantFields, ChrNumbers
<1>9. PICK grants : grants = [chrGrants EXCEPT ![g].tabs = S]
  OBVIOUS
<1>10. chrGrants' = grants
  BY <1>6, <1>7, <1>9
<1>11. /\ grants \in [ChrGrantIds -> ChrGrantType]
       /\ \A h \in ChrGrantIds : /\ grants[h].live = chrGrants[h].live /\ grants[h].root = chrGrants[h].root
                                 /\ grants[h].tabs = IF h = g THEN S ELSE chrGrants[h].tabs
  BY <1>1, <1>4, <1>8, <1>9, ChrTabsChange
<1>12. /\ chrGrants' \in [ChrGrantIds -> ChrGrantType] /\ ChrRootsStay
       /\ \A h \in ChrGrantIds : /\ chrGrants'[h].live = chrGrants[h].live
                                 /\ chrGrants[h].tabs \subseteq chrGrants'[h].tabs
                                 /\ chrGrants'[h].tabs \subseteq chrGrants[h].tabs \cup ChrPending
  BY <1>5, <1>7, <1>10, <1>11 DEF ChrRootsStay
<1>13. ChrOpsFine /\ ChrPending' \subseteq ChrPending
  BY <1>1, <1>2, <1>4, <1>6, ChrMovesFine
<1>14. chrOwner' \in [ChrTabs -> ChrGrantIds \cup {0}]
  BY <1>1, <1>4, <1>6
<1>15. chrArmed' \in [ChrTabs -> ChrGrantIds \cup {0}] /\ chrActs' \in Nat
  BY <1>1, <1>6
<1>16. ChrShape'
  BY <1>1, <1>6, <1>12, <1>13, <1>14, <1>15, ChrShapeFrom DEF ChrOpsFine
<1>17. ChrCounted' \subseteq ChrCounted \cup {}
  BY <1>12, <1>13, ChrCountedFrom
<1>18. ChrEachPaidFor'
  BY <1>1, <1>6, <1>17, ChrArmedStay, ChrCounts
<1>19. ChrAttachedIsGranted'
  <2>1. \A h \in ChrUsed : (chrGrants[h].live => chrGrants'[h].live) /\ chrGrants[h].tabs \subseteq chrGrants'[h].tabs
    BY <1>12 DEF ChrUsed
  <2> QED BY <1>1, <1>6, <2>1, ChrGrantsGrow
<1> QED BY <1>16, <1>18, <1>19 DEF ChrInv

\* The browser's next tab is one of its tabs.
LEMMA ChrFreshTab == ChrFresh # {} => Min(ChrFresh) \in ChrTabs
<1>1. ChrFresh \in SUBSET Nat /\ ChrFresh \subseteq ChrTabs
  BY ChrNumbers DEF ChrFresh
<1> QED BY <1>1, SmallestExists

LEMMA ChrOpensStep ==
    ASSUME ChrInv, NEW opener \in ChrTabs \cup {0}, NEW heard \in BOOLEAN, ChrTabOpens(opener, heard)
    PROVE  ChrInv'
<1>1. ChrShape /\ ChrEachPaidFor /\ ChrAttachedIsGranted /\ chrActs \in Nat
  BY ChrShapeFields DEF ChrInv
<1>2. PICK t : t = Min(ChrFresh)
  OBVIOUS
<1>3. t \in ChrTabs /\ ChrTabAppears(t, opener, heard)
  BY <1>2, ChrFreshTab DEF ChrTabOpens
<1>4. /\ chrAttached' = chrAttached /\ chrOp' = chrOp /\ chrRevoking' = chrRevoking /\ chrActs' = chrActs
      /\ chrOrphans' = chrOrphans
  BY DEF ChrTabOpens
<1>5. ChrOpsFine /\ ChrPending' = ChrPending
  BY <1>1, <1>4, ChrOpsStay
<1>6. /\ chrGrants' \in [ChrGrantIds -> ChrGrantType] /\ ChrRootsStay
      /\ \A g \in ChrGrantIds : /\ chrGrants'[g].live = chrGrants[g].live
                                /\ chrGrants[g].tabs \subseteq chrGrants'[g].tabs
                                /\ chrGrants'[g].tabs \subseteq chrGrants[g].tabs \cup {t}
      /\ chrOwner' \in [ChrTabs -> ChrGrantIds \cup {0}] /\ chrArmed' \in [ChrTabs -> ChrGrantIds \cup {0}]
      /\ ChrArmedTabs' \subseteq ChrArmedTabs
      /\ \/ chrGrants' = chrGrants
         \/ opener \in ChrArmedTabs /\ ChrArmedTabs' \subseteq ChrArmedTabs \ {opener}
      /\ chrRows' \subseteq chrRows \cup [task : ChrTasks \cup {"none"}, tab : ChrTabs \cup {0}, parent : ChrTabs \cup {0}]
  BY <1>1, <1>3, ChrAppears
<1>7. ChrShape'
  BY <1>1, <1>4, <1>5, <1>6, ChrShapeFrom DEF ChrOpsFine
<1>8. ChrEachPaidFor'
  <2>1. CASE chrGrants' = chrGrants
    <3>1. ChrCounted' \subseteq ChrCounted \cup {}
      BY <1>5, <1>6, <2>1, ChrCountedFrom
    <3>2. ChrCounted' \subseteq ChrCounted /\ ChrArmedTabs' \subseteq ChrArmedTabs
      BY <1>6, <3>1
    <3>3. chrActs' >= chrActs /\ chrActs' \in Nat
      BY <1>1, <1>4
    <3> QED BY <1>1, <3>2, <3>3, ChrCounts
  <2>2. CASE opener \in ChrArmedTabs /\ ChrArmedTabs' \subseteq ChrArmedTabs \ {opener}
    <3>1. ChrCounted' \subseteq ChrCounted \cup {t}
      BY <1>5, <1>6, ChrCountedFrom
    <3>2. chrActs' = chrActs /\ chrActs' \in Nat
      BY <1>1, <1>4
    <3> QED BY <1>1, <2>2, <3>1, <3>2, ChrCounts
  <2> QED BY <1>6, <2>1, <2>2
<1>9. ChrAttachedIsGranted'
  <2>1. \A h \in ChrUsed : (chrGrants[h].live => chrGrants'[h].live) /\ chrGrants[h].tabs \subseteq chrGrants'[h].tabs
    BY <1>6 DEF ChrUsed
  <2> QED BY <1>1, <1>4, <2>1, ChrGrantsGrow
<1> QED BY <1>7, <1>8, <1>9 DEF ChrInv

LEMMA ChrCreatesStep ==
    ASSUME ChrInv, NEW o \in ChrOps, NEW heard \in BOOLEAN, ChrCreates(o, heard)
    PROVE  ChrInv'
<1>1. ChrShape /\ ChrEachPaidFor /\ ChrAttachedIsGranted /\ chrActs \in Nat
      /\ chrOp \in [ChrOps -> ChrOpType]
  BY ChrShapeFields DEF ChrInv, ChrShape
<1>2. PICK t : t = Min(ChrFresh)
  OBVIOUS
<1>3. PICK opener : opener = chrOp[o].tab
  OBVIOUS
<1>4. t \in ChrTabs /\ opener \in ChrTabs \cup {0} /\ ChrTabAppears(t, opener, heard)
  BY <1>1, <1>2, <1>3, ChrFreshTab, ChrOpFields DEF ChrCreates
<1>5. /\ chrAttached' = chrAttached /\ chrRevoking' = chrRevoking /\ chrActs' = chrActs + 1
      /\ chrOrphans' = chrOrphans /\ chrOp' = [chrOp EXCEPT ![o].tab = t, ![o].at = "adopt"]
  BY <1>2 DEF ChrCreates
<1>6. PICK n : n = [chrOp[o] EXCEPT !.tab = t, !.at = "adopt"]
  OBVIOUS
<1>7. chrOp[o] \in ChrOpType /\ chrOp[o].grant # 0
  BY <1>1, ChrOpFields, ChrNumbers DEF ChrCreates
<1>8. n \in ChrOpType /\ n.tab = t /\ n.grant # 0
  BY <1>4, <1>6, <1>7 DEF ChrOpType
<1>9. chrOp' = [chrOp EXCEPT ![o] = n]
  BY <1>1, <1>5, <1>6
<1>10. ChrOpsFine /\ ChrPending' \subseteq ChrPending \cup {t}
  BY <1>1, <1>8, <1>9, ChrOpMoves DEF ChrOpsFine
<1>11. /\ chrGrants' \in [ChrGrantIds -> ChrGrantType] /\ ChrRootsStay
       /\ \A g \in ChrGrantIds : /\ chrGrants'[g].live = chrGrants[g].live
                                 /\ chrGrants[g].tabs \subseteq chrGrants'[g].tabs
                                 /\ chrGrants'[g].tabs \subseteq chrGrants[g].tabs \cup {t}
       /\ chrOwner' \in [ChrTabs -> ChrGrantIds \cup {0}] /\ chrArmed' \in [ChrTabs -> ChrGrantIds \cup {0}]
       /\ ChrArmedTabs' \subseteq ChrArmedTabs
       /\ chrRows' \subseteq chrRows \cup [task : ChrTasks \cup {"none"}, tab : ChrTabs \cup {0}, parent : ChrTabs \cup {0}]
  BY <1>1, <1>4, ChrAppears
<1>12. chrActs' \in Nat
  BY <1>1, <1>5
<1>13. ChrShape'
  <2>1. \A g \in ChrGrantIds : chrGrants'[g].live => chrGrants[g].live
    BY <1>11
  <2>2. chrRevoking' \subseteq chrRevoking \cup [grant : ChrUsed, done : SUBSET Nat]
    BY <1>5
  <2>3. /\ chrOp' \in [ChrOps -> ChrOpType]
        /\ \A p \in ChrOps : chrOp'[p].at \in {"attach", "send", "create", "adopt"} => chrOp'[p].grant # 0
    BY <1>10 DEF ChrOpsFine
  <2>4. /\ chrGrants' \in [ChrGrantIds -> ChrGrantType] /\ ChrRootsStay
        /\ chrOwner' \in [ChrTabs -> ChrGrantIds \cup {0}] /\ chrArmed' \in [ChrTabs -> ChrGrantIds \cup {0}]
    BY <1>11
  <2>5. chrRows' \subseteq chrRows \cup [task : ChrTasks \cup {"none"}, tab : ChrTabs \cup {0}, parent : ChrTabs \cup {0}]
    BY <1>11
  <2>6. ChrShape
    BY <1>1
  <2> QED BY <1>12, <2>1, <2>2, <2>3, <2>4, <2>5, <2>6, ChrShapeFrom
<1>14. ChrCounted' \subseteq ChrCounted \cup {t}
  BY <1>10, <1>11, ChrCountedFrom
<1>15. ChrEachPaidFor'
  <2>1. chrActs' = chrActs + 1
    BY <1>5
  <2>2. ChrArmedTabs' \subseteq ChrArmedTabs
    BY <1>11
  <2>3. ChrEachPaidFor /\ chrActs \in Nat
    BY <1>1
  <2> QED BY <1>12, <1>14, <2>1, <2>2, <2>3, ChrCounts
<1>16. ChrAttachedIsGranted'
  <2>1. \A h \in ChrUsed : (chrGrants[h].live => chrGrants'[h].live) /\ chrGrants[h].tabs \subseteq chrGrants'[h].tabs
    BY <1>11 DEF ChrUsed
  <2> QED BY <1>1, <1>5, <2>1, ChrGrantsGrow
<1> QED BY <1>13, <1>15, <1>16 DEF ChrInv

\* The user's click: a grant that no one has used gets a root.
LEMMA ChrGestureStep ==
    ASSUME ChrInv, NEW o \in ChrOps, NEW t \in ChrTabs, ChrGesture(o, t)
    PROVE  ChrInv'
<1>1. ChrShape /\ ChrEachPaidFor /\ ChrAttachedIsGranted /\ chrActs \in Nat
      /\ chrArmed \in [ChrTabs -> ChrGrantIds \cup {0}] /\ chrGrants \in [ChrGrantIds -> ChrGrantType]
      /\ chrOwner \in [ChrTabs -> ChrGrantIds \cup {0}]
  BY ChrShapeFields DEF ChrInv
<1>2. /\ chrAttached' = chrAttached /\ chrArmed' = chrArmed /\ chrActs' = chrActs
      /\ chrRevoking' = chrRevoking /\ chrRows' = chrRows /\ chrOrphans' = chrOrphans
  BY DEF ChrGesture
<1>3. CASE chrOwner[t] \in ChrLive
  <2>1. chrGrants' = chrGrants /\ chrOwner' = chrOwner /\ chrOp' = chrOp
    BY <1>3 DEF ChrGesture
  <2>2. ChrOpsFine /\ ChrPending' \subseteq ChrPending
    BY <1>1, <2>1, ChrOpsStay
  <2> QED BY <1>1, <1>2, <2>1, <2>2, ChrArmedStay, ChrQuietStep
<1>4. CASE chrOwner[t] \notin ChrLive
  <2>1. PICK g \in ChrGrantIds \ ChrUsed :
          /\ chrGrants' = [chrGrants EXCEPT ![g] = [live |-> TRUE, root |-> t, tabs |-> {t}, task |-> "none"]]
          /\ chrOwner' = [chrOwner EXCEPT ![t] = g]
          /\ chrOp' = IF t \in chrAttached THEN chrOp
                      ELSE [chrOp EXCEPT ![o] = [cmd |-> "gesture", tab |-> t, grant |-> g, at |-> "attach"]]
    BY <1>4 DEF ChrGesture
  <2>2. PICK m : m = [live |-> TRUE, root |-> t, tabs |-> {t}, task |-> "none"]
    OBVIOUS
  <2>3. m \in ChrGrantType /\ m.live = TRUE /\ m.root = t /\ m.tabs = {t} /\ t # 0 /\ g # 0
    BY <2>2, ChrNumbers DEF ChrGrantType
  <2>4. chrGrants' = [chrGrants EXCEPT ![g] = m]
    BY <2>1, <2>2
  <2>5. /\ chrGrants' \in [ChrGrantIds -> ChrGrantType]
        /\ \A h \in ChrGrantIds : h # g => chrGrants'[h] = chrGrants[h]
        /\ chrGrants'[g] = m
    BY <1>1, <2>3, <2>4
  <2>6. ChrUsed' = ChrUsed \cup {g} /\ ChrUsed \subseteq ChrGrantIds
    BY <2>3, <2>5 DEF ChrUsed
  <2>7. ChrOpsFine /\ ChrPending' \subseteq ChrPending
    <3>1. PICK n : n = [cmd |-> "gesture", tab |-> t, grant |-> g, at |-> "attach"]
      OBVIOUS
    <3>2. n \in ChrOpType /\ n.at = "attach" /\ n.grant # 0
      BY <2>3, <3>1 DEF ChrOpType
    <3>3. CASE t \in chrAttached
      BY <1>1, <2>1, <3>3, ChrOpsStay
    <3>4. CASE t \notin chrAttached
      <4>1. chrOp' = [chrOp EXCEPT ![o] = n]
        BY <2>1, <3>1, <3>4
      <4> QED BY <1>1, <3>2, <4>1, ChrOpMoves DEF ChrOpsFine
    <3> QED BY <3>3, <3>4
  <2>8. ChrShape'
    <3>1. chrOwner' \in [ChrTabs -> ChrGrantIds \cup {0}] /\ chrArmed' \in [ChrTabs -> ChrGrantIds \cup {0}]
      BY <1>1, <1>2, <2>1
    <3>2. ChrLive' \subseteq ChrUsed'
      BY <1>1, <2>5, <2>6 DEF ChrShape, ChrLive
    <3>3. \A r \in chrRevoking' : r.grant \in ChrUsed'
      BY <1>1, <1>2, <2>6 DEF ChrShape
    <3>4. /\ chrRevoking' \subseteq [grant : ChrGrantIds, done : SUBSET Nat] /\ chrActs' \in Nat
          /\ chrRows' \subseteq [task : ChrTasks \cup {"none"}, tab : ChrTabs \cup {0}, parent : ChrTabs \cup {0}]
      BY <1>1, <1>2 DEF ChrShape
    <3> QED BY <2>5, <2>7, <3>1, <3>2, <3>3, <3>4 DEF ChrShape, ChrOpsFine
  <2>9. ChrCounted' \subseteq ChrCounted
    <3>1. ChrRoots' = ChrRoots \cup {t}
      <4>1. \A h \in ChrUsed : chrGrants'[h] = chrGrants[h]
        BY <2>1, <2>5, <2>6
      <4> QED BY <2>3, <2>5, <2>6, <4>1 DEF ChrRoots
    <3>2. ChrMembers' \subseteq ChrMembers \cup {t}
      <4>1. \A h \in ChrUsed : chrGrants'[h] = chrGrants[h]
        BY <2>1, <2>5, <2>6
      <4> QED BY <2>3, <2>5, <2>6, <4>1 DEF ChrMembers
    <3> QED BY <2>7, <3>1, <3>2 DEF ChrCounted
  <2>10. ChrEachPaidFor'
    BY <1>1, <1>2, <2>9, ChrArmedStay, ChrCounts
  <2>11. ChrAttachedIsGranted'
    <3>1. \A h \in ChrUsed : (chrGrants[h].live => chrGrants'[h].live) /\ chrGrants[h].tabs \subseteq chrGrants'[h].tabs
      BY <2>1, <2>5, <2>6
    <3> QED BY <1>1, <1>2, <3>1, ChrGrantsGrow
  <2> QED BY <2>8, <2>10, <2>11 DEF ChrInv
<1> QED BY <1>3, <1>4

LEMMA ChrQuietSteps ==
    ASSUME ChrInv,
           \/ \E t \in ChrTabs : ChrDetached(t) \/ ChrArmExpires(t)
           \/ \E o \in ChrOps : ChrSendFails(o) \/ ChrCreateFails(o) \/ \E row \in chrRows : ChrDetachAnswered(o, row)
           \/ UNCHANGED chrVars
    PROVE  ChrInv'
<1>1. ChrShape /\ chrArmed \in [ChrTabs -> ChrGrantIds \cup {0}]
  BY ChrShapeFields DEF ChrInv
<1>2. ASSUME NEW t \in ChrTabs, ChrDetached(t) PROVE ChrInv'
  <2>1. /\ UNCHANGED <<chrGrants, chrOwner, chrRevoking, chrActs, chrOrphans>> /\ chrArmed' = chrArmed
        /\ chrOp' = chrOp /\ chrRows' = chrRows /\ chrAttached' \subseteq chrAttached
    BY <1>2 DEF ChrDetached
  <2> QED BY <1>1, <2>1, ChrOpsStay, ChrArmedStay, ChrQuietStep
<1>3. ASSUME NEW t \in ChrTabs, ChrArmExpires(t) PROVE ChrInv'
  <2>1. /\ UNCHANGED <<chrGrants, chrOwner, chrRevoking, chrActs, chrOrphans>>
        /\ chrArmed' = [chrArmed EXCEPT ![t] = 0]
        /\ chrOp' = chrOp /\ chrRows' = chrRows /\ chrAttached' = chrAttached
    BY <1>3 DEF ChrArmExpires
  <2>2. ChrArmedTabs' \subseteq ChrArmedTabs /\ chrArmed' \in [ChrTabs -> ChrGrantIds \cup {0}]
    BY <1>1, <2>1 DEF ChrArmedTabs
  <2> QED BY <1>1, <2>1, <2>2, ChrOpsStay, ChrQuietStep
<1>4. ASSUME NEW o \in ChrOps, ChrSendFails(o) \/ ChrCreateFails(o) \/ \E row \in chrRows : ChrDetachAnswered(o, row)
      PROVE  ChrInv'
  <2>1. /\ UNCHANGED <<chrGrants, chrOwner, chrRevoking, chrActs, chrOrphans>> /\ chrArmed' = chrArmed
        /\ ChrEnds(o) /\ chrRows' \subseteq chrRows /\ chrAttached' \subseteq chrAttached
    BY <1>4 DEF ChrSendFails, ChrCreateFails, ChrDetachAnswered
  <2>2. ChrOpsFine /\ ChrPending' \subseteq ChrPending
    BY <1>1, <2>1, ChrEndsFine
  <2> QED BY <1>1, <2>1, <2>2, ChrArmedStay, ChrQuietStep
<1>5. CASE UNCHANGED chrVars
  <2>1. /\ UNCHANGED <<chrGrants, chrOwner, chrRevoking, chrActs, chrOrphans>> /\ chrArmed' = chrArmed
        /\ chrOp' = chrOp /\ chrRows' = chrRows /\ chrAttached' = chrAttached
    BY <1>5 DEF chrVars
  <2> QED BY <1>1, <2>1, ChrOpsStay, ChrArmedStay, ChrQuietStep
<1> QED BY <1>2, <1>3, <1>4, <1>5

LEMMA ChrInvKept == ChrInv /\ [ChrNext]_chrVars => ChrInv'
<1> SUFFICES ASSUME ChrInv, [ChrNext]_chrVars PROVE ChrInv'
  OBVIOUS
<1>1. CASE ChrNext
  <2>1. CASE \E o \in ChrOps, t \in ChrTabs :
               \/ ChrGesture(o, t)
               \/ \E cmd \in {"look", "click", "openTab"}, task \in ChrTasks : ChrRequest(o, cmd, task, t)
    BY <2>1, ChrGestureStep, ChrRequestStep
  <2>2. CASE \E opener \in ChrTabs \cup {0}, heard \in BOOLEAN : ChrTabOpens(opener, heard)
    BY <2>2, ChrOpensStep
  <2>3. CASE \E t \in ChrTabs : ChrTabCloses(t) \/ ChrDetached(t) \/ ChrArmExpires(t)
    BY <2>3, ChrClosesStep, ChrQuietSteps
  <2>4. CASE \E r \in chrRevoking : ChrRevokeGoesOn(r)
    BY <2>4, ChrGoesOnStep
  <2>5. CASE \E o \in ChrOps, task \in ChrTasks, g \in ChrGrantIds : ChrBind(o, task, g)
    BY <2>5, ChrBindStep
  <2>6. CASE \E o \in ChrOps : ChrAttaches(o) \/ ChrAttachFails(o) \/ ChrSends(o) \/ ChrAdopts(o)
    BY <2>6, ChrAttachesStep, ChrAttachFailsStep, ChrSendsStep, ChrAdoptsStep
  <2>7. CASE \E o \in ChrOps : ChrSendFails(o) \/ ChrCreateFails(o)
    BY <2>7, ChrQuietSteps
  <2>8. CASE \E o \in ChrOps : \E heard \in BOOLEAN : ChrCreates(o, heard)
    BY <2>8, ChrCreatesStep
  <2>9. CASE \E o \in ChrOps, row \in chrRows : ChrDetachArrives(o, row) \/ ChrDetachAnswered(o, row)
    BY <2>9, ChrDetachStep, ChrQuietSteps
  <2> QED BY <1>1, <2>1, <2>2, <2>3, <2>4, <2>5, <2>6, <2>7, <2>8, <2>9 DEF ChrNext
<1>2. CASE UNCHANGED chrVars
  BY <1>2, ChrQuietSteps
<1> QED BY <1>1, <1>2

\* What the invariant says of control and of the number of tabs.
LEMMA ChrInvEnough == ChrInv => ChrTabsControlled
<1> SUFFICES ASSUME ChrInv PROVE ChrTabsControlled
  OBVIOUS
<1>1. ChrOneController
  <2>1. ASSUME NEW t \in ChrTabs, NEW a \in ChrTasks, NEW b \in ChrTasks, ChrControls(a, t), ChrControls(b, t)
        PROVE  a = b
    <3>1. ChrGrantOf(a) # 0 /\ ChrGrantOf(b) # 0 /\ ChrGrantOf(a) = ChrGrantOf(b)
      BY <2>1 DEF ChrControls, ChrOwns
    <3>2. chrGrants[ChrGrantOf(a)].task = a /\ chrGrants[ChrGrantOf(b)].task = b
      BY <3>1, ChrGrantOfTask
    <3> QED BY <3>1, <3>2
  <2> QED BY <2>1 DEF ChrOneController
<1>2. ChrOneTabPerAct
  <2>1. /\ IsFiniteSet(ChrCounted) /\ IsFiniteSet(ChrArmedTabs) /\ chrActs \in Nat
        /\ Cardinality(ChrCounted) + Cardinality(ChrArmedTabs) <= chrActs
    BY DEF ChrInv, ChrEachPaidFor, ChrShape
  <2>2. PICK joined : joined = ChrMembers \ ChrRoots
    OBVIOUS
  <2>3. joined \subseteq ChrCounted
    BY <2>2 DEF ChrCounted
  <2>4. IsFiniteSet(joined) /\ Cardinality(joined) <= Cardinality(ChrCounted)
    BY <2>1, <2>3, FS_Subset
  <2>5. Cardinality(joined) \in Nat /\ Cardinality(ChrCounted) \in Nat /\ Cardinality(ChrArmedTabs) \in Nat
    BY <2>1, <2>4, FS_CardinalityType
  <2>6. Cardinality(joined) <= chrActs
    BY <2>1, <2>4, <2>5
  <2>7. Cardinality(ChrMembers \ ChrRoots) <= chrActs
    BY <2>2, <2>6
  <2> QED BY <2>7, Zenon DEF ChrOneTabPerAct, ChrMembers, ChrRoots
<1> QED BY <1>1, <1>2 DEF ChrTabsControlled, ChrInv

\* Tabs are controlled as the user granted them, by one run each, and no more of them than
\* were clicked or brought about by an act.
THEOREM TabsAreControlled == ChrSpec => []ChrTabsControlled
<1>1. ChrSpec => []ChrInv
  BY ChrInitHolds, ChrInvKept, PTL DEF ChrSpec
<1> QED BY <1>1, ChrInvEnough, PTL

-----------------------------------------------------------------------------
(* RunView: what the window shows *)

\* Messages, and what they are part of.
ViewSaid == ViewSent \cup ViewReplies \cup {ViewOld}
ViewRunsOrNone == ViewRuns \cup {ViewNoRun}
ViewEntryType == [kind : {"said", "typed", "stream", "tool"}, run : ViewRuns, id : ViewSaid \cup {"call"}]
ViewAnswerKinds == {"detail", "error"}
ViewEventKinds == {"stream", "run", "tool"}
ViewDetailType == [kind : {"detail"}, run : ViewRuns, id : ViewSent \cup {ViewNoOne}, said : SUBSET ViewSaid]
ViewErrorType == [kind : {"error"}, run : ViewRuns, id : ViewSent \cup {ViewNoOne}]
ViewEventType == [kind : {"tool"}, run : ViewRuns, id : {"call"}] \cup [kind : {"run"}, run : ViewRuns, id : ViewReplies \cup {ViewNoOne}]
                   \cup [kind : {"stream"}, run : ViewRuns, id : ViewReplies]
ViewPlaces == {"unsent", "sent", "stored", "refused", "returned", "done"}

\* Types.
ViewShape ==
    /\ viewSelected \in ViewRunsOrNone /\ viewShown \in [run : ViewRunsOrNone, entries : SUBSET ViewEntryType]
    /\ viewTimer \in [what : {"off", "all", "run"}, run : ViewRunsOrNone]
    /\ viewAsked \in Seq([run : ViewRuns, for : ViewSent \cup {ViewNoOne}])
    /\ viewWire \in Seq(ViewDetailType \cup ViewErrorType \cup ViewEventType)
    /\ viewLists \subseteq ViewSent \cup {ViewNoOne} /\ viewSends \in [ViewSent -> [at : ViewPlaces, run : ViewRunsOrNone]]
    /\ viewSpeaks \in [ViewReplies -> ViewRunsOrNone] /\ viewStored \in [ViewRuns -> SUBSET ViewSaid]
    /\ viewDeleted \subseteq ViewRuns

\* What is shown is of one run, and of what was typed nothing is stored.
ViewDisplay ==
    /\ viewShown.run = ViewNoRun => viewShown.entries = {}
    /\ ViewNeverTwice /\ ViewIds("typed") \subseteq ViewSent

\* The details of a run come in the order of its growth, and pieces of a reply before every
\* detail that has the reply.
ViewToldAs(run, said, wire, stored) ==
    /\ run # ViewNoRun => said \subseteq stored[run]
    /\ \A i \in 1..Len(wire) : wire[i].kind = "detail" =>
          /\ wire[i].said \subseteq stored[wire[i].run]
          /\ wire[i].run = run => said \subseteq wire[i].said
    /\ \A i \in 1..Len(wire) : \A j \in 1..Len(wire) :
          /\ i < j /\ wire[i].kind = "detail" /\ wire[j].kind = "detail" /\ wire[j].run = wire[i].run
                => wire[i].said \subseteq wire[j].said
          /\ wire[i].kind = "detail" /\ wire[j].kind = "stream" /\ wire[j].id \in wire[i].said => j < i
    /\ \A j \in 1..Len(wire) : wire[j].kind = "stream" => wire[j].id \notin said
ViewTold == ViewToldAs(viewShown.run, ViewIds("said"), viewWire, viewStored)

\* A detail that a sending waits for has its message, unless it was refused.
ViewAt(m) == viewSends[m].at
\* A sending that is over, but for the reload it waits for.
ViewWaits(m, run) == ViewAt(m) \in {"refused", "returned", "done"} /\ run = viewSends[m].run
ViewSending(m) ==
    /\ ViewAt(m) # "unsent" => viewSends[m].run \in ViewRuns
    /\ \A r \in ViewRuns : m \in viewStored[r] => ViewAt(m) # "unsent"
    /\ ViewAt(m) \in {"stored", "returned"} => m \in viewStored[viewSends[m].run]
    /\ m \in viewLists => ViewWaits(m, viewSends[m].run)
    /\ \A i \in 1..Len(viewAsked) : viewAsked[i].for = m => ViewWaits(m, viewAsked[i].run)
    /\ \A i \in 1..Len(viewWire) : viewWire[i].kind \in {"detail", "error"} /\ viewWire[i].id = m =>
          /\ ViewWaits(m, viewWire[i].run)
          /\ viewWire[i].kind = "detail" /\ ViewAt(m) = "returned" => m \in viewWire[i].said
    /\ m \in ViewIds("typed") => viewShown.run = viewSends[m].run /\ ViewAt(m) \notin {"unsent", "done"}
\* Main refuses a detail only of a run that is gone.
ViewErrors == \A i \in 1..Len(viewWire) : viewWire[i].kind = "error" => viewWire[i].run \in viewDeleted

\* The inductive invariant.
ViewInv == ViewShape /\ ViewDisplay /\ ViewTold /\ (\A m \in ViewSent : ViewSending(m)) /\ ViewErrors

-----------------------------------------------------------------------------
(* The timeline, by the ids of each kind of entry. *)

ViewIdsOf(shown, kind) == {e.id : e \in {d \in shown.entries : d.kind = kind}}
ViewShownType == [run : ViewRunsOrNone, entries : SUBSET ViewEntryType]

LEMMA RvIds == ASSUME NEW k PROVE ViewIds(k) = ViewIdsOf(viewShown, k) /\ ViewIds(k)' = ViewIdsOf(viewShown', k)
  BY DEF ViewIds, ViewIdsOf

LEMMA RvEntryIs ==
    ASSUME NEW k \in {"said", "typed", "stream", "tool"}, NEW r \in ViewRuns, NEW i \in ViewSaid \cup {"call"},
           NEW e, e = ViewEntry(k, r, i)
    PROVE  e \in ViewEntryType /\ e.kind = k /\ e.run = r /\ e.id = i
  BY DEF ViewEntry, ViewEntryType

\* An entry is added.
RvAdded(shown, k, i, new) ==
    /\ new \in ViewShownType /\ new.run = shown.run /\ ViewIdsOf(new, k) = ViewIdsOf(shown, k) \cup {i}
    /\ \A q : q # k => ViewIdsOf(new, q) = ViewIdsOf(shown, q)

LEMMA RvIdsAdd ==
    ASSUME NEW shown \in ViewShownType, NEW k \in {"said", "typed", "stream", "tool"}, NEW r \in ViewRuns,
           NEW i \in ViewSaid \cup {"call"},
           NEW new, new = [shown EXCEPT !.entries = @ \cup {ViewEntry(k, r, i)}]
    PROVE  RvAdded(shown, k, i, new)
<1>1. PICK e : e = ViewEntry(k, r, i)
  OBVIOUS
<1>2. e \in ViewEntryType /\ e.kind = k /\ e.id = i
  BY <1>1, RvEntryIs
<1>3. new = [shown EXCEPT !.entries = shown.entries \cup {e}]
  BY <1>1
<1>4. new \in ViewShownType /\ new.run = shown.run /\ new.entries = shown.entries \cup {e}
  BY <1>2, <1>3 DEF ViewShownType
<1>5. ViewIdsOf(new, k) = ViewIdsOf(shown, k) \cup {i}
  BY <1>2, <1>4 DEF ViewIdsOf
<1>6. ASSUME NEW q, q # k PROVE ViewIdsOf(new, q) = ViewIdsOf(shown, q)
  BY <1>2, <1>4, <1>6 DEF ViewIdsOf
<1> QED BY <1>4, <1>5, <1>6 DEF RvAdded

\* The early copy of a message is taken away.
RvTakenAway(shown, run, m, new) ==
    /\ new \in ViewShownType /\ new.run = shown.run
    /\ ViewIdsOf(new, "typed") = IF shown.run = run THEN ViewIdsOf(shown, "typed") \ {m} ELSE ViewIdsOf(shown, "typed")
    /\ \A q : q # "typed" => ViewIdsOf(new, q) = ViewIdsOf(shown, q)
    /\ shown.entries = {} => new.entries = {}

LEMMA RvIdsWithout ==
    ASSUME NEW shown \in ViewShownType, NEW run, NEW m, NEW new, new = ViewWithout(shown, run, m)
    PROVE  RvTakenAway(shown, run, m, new)
<1>1. CASE shown.run # run
  <2>1. new = shown
    BY <1>1 DEF ViewWithout
  <2> QED BY <1>1, <2>1 DEF RvTakenAway
<1>2. CASE shown.run = run
  <2>1. PICK kept : kept = {e \in shown.entries : ~(e.kind = "typed" /\ e.id = m)}
    OBVIOUS
  <2>2. new = [shown EXCEPT !.entries = kept]
    BY <1>2, <2>1 DEF ViewWithout
  <2>3. new \in ViewShownType /\ new.run = shown.run /\ new.entries = kept
    BY <2>1, <2>2 DEF ViewShownType
  <2>4. ViewIdsOf(new, "typed") = ViewIdsOf(shown, "typed") \ {m}
    BY <2>1, <2>3 DEF ViewIdsOf
  <2>5. ASSUME NEW q, q # "typed" PROVE ViewIdsOf(new, q) = ViewIdsOf(shown, q)
    BY <2>1, <2>3, <2>5 DEF ViewIdsOf
  <2> QED BY <1>2, <2>1, <2>3, <2>4, <2>5 DEF RvTakenAway
<1> QED BY <1>1, <1>2

\* A detail takes the place of what was shown.
RvReplaced(answer, new) ==
    /\ new \in ViewShownType /\ new.run = answer.run /\ ViewIdsOf(new, "said") = answer.said
    /\ ViewIdsOf(new, "stream") = {}
    /\ ViewIdsOf(new, "typed") = IF viewShown.run = answer.run
                                 THEN {x \in ViewIdsOf(viewShown, "typed") : ~ViewCovers(answer.said, x)} ELSE {}

LEMMA RvIdsDetail ==
    ASSUME viewShown \in ViewShownType, NEW answer \in ViewDetailType, NEW new, new = ViewDetail(answer)
    PROVE  RvReplaced(answer, new)
<1>1. answer.run \in ViewRuns /\ answer.said \subseteq ViewSaid
  BY DEF ViewDetailType
<1>2. PICK said : said = {ViewEntry("said", answer.run, id) : id \in answer.said}
  OBVIOUS
<1>3. PICK kept : kept = IF viewShown.run = answer.run THEN ViewKeeps(answer.said) ELSE {}
  OBVIOUS
<1>4. new = [run |-> answer.run, entries |-> said \cup kept]
  BY <1>2, <1>3 DEF ViewDetail
<1>5. new.run = answer.run /\ new.entries = said \cup kept
  BY <1>4
<1>6. \A e \in said : e \in ViewEntryType /\ e.kind = "said" /\ e.id \in answer.said
  <2>1. ASSUME NEW id \in answer.said PROVE /\ ViewEntry("said", answer.run, id) \in ViewEntryType
                                            /\ ViewEntry("said", answer.run, id).kind = "said"
                                            /\ ViewEntry("said", answer.run, id).id = id
    BY <1>1, RvEntryIs
  <2> QED BY <1>2, <2>1
<1>7. \A id \in answer.said : \E e \in said : e.id = id
  <2>1. ASSUME NEW id \in answer.said PROVE \E e \in said : e.id = id
    <3>1. ViewEntry("said", answer.run, id) \in said
      BY <1>2
    <3>2. ViewEntry("said", answer.run, id).id = id
      BY <1>1, RvEntryIs
    <3> QED BY <3>1, <3>2
  <2> QED BY <2>1
<1>8. kept \subseteq viewShown.entries /\ \A e \in kept : e \in ViewEntryType /\ e.kind \in {"tool", "typed"}
  BY <1>3 DEF ViewKeeps, ViewShownType
<1>9. new \in ViewShownType
  <2>1. said \cup kept \subseteq ViewEntryType
    BY <1>6, <1>8
  <2> QED BY <1>1, <1>4, <2>1 DEF ViewShownType, ViewRunsOrNone
<1>10. ViewIdsOf(new, "said") = answer.said
  BY <1>5, <1>6, <1>7, <1>8 DEF ViewIdsOf
<1>11. ViewIdsOf(new, "stream") = {}
  BY <1>5, <1>6, <1>8 DEF ViewIdsOf
<1>12. ViewIdsOf(new, "typed") = IF viewShown.run = answer.run
                                 THEN {x \in ViewIdsOf(viewShown, "typed") : ~ViewCovers(answer.said, x)} ELSE {}
  <2>1. ViewIdsOf(new, "typed") = {e.id : e \in {d \in kept : d.kind = "typed"}}
    BY <1>5, <1>6 DEF ViewIdsOf
  <2>2. CASE viewShown.run = answer.run
    <3>1. kept = {e \in viewShown.entries : e.kind = "tool" \/ (e.kind = "typed" /\ ~ViewCovers(answer.said, e.id))}
      BY <1>3, <2>2 DEF ViewKeeps
    <3> QED BY <2>1, <2>2, <3>1 DEF ViewIdsOf
  <2>3. CASE viewShown.run # answer.run
    BY <1>3, <2>1, <2>3
  <2> QED BY <2>2, <2>3
<1> QED BY <1>5, <1>9, <1>10, <1>11, <1>12 DEF RvReplaced

LEMMA RvCovers ==
    ASSUME NEW m \in ViewSent, NEW said PROVE ViewCovers(said, m) <=> m \in said
<1>1. m # ViewOld
  BY ViewAssumption
<1>2. ViewReads(m) = m /\ ViewSince(m) = 1
  BY <1>1 DEF ViewReads, ViewSince
<1>3. \A id : ViewSince(id) >= 1 => id # ViewOld /\ ViewReads(id) = id
  BY DEF ViewReads, ViewSince
<1> QED BY <1>2, <1>3 DEF ViewCovers

-----------------------------------------------------------------------------
(* Queues. *)

\* t is s with x behind it.
RvGrown(s, x, t) ==
    /\ Len(t) = Len(s) + 1 /\ Len(s) \in Nat /\ t[Len(s) + 1] = x
    /\ \A i \in 1..Len(s) : t[i] = s[i]
    /\ \A i \in 1..Len(t) : i \in 1..Len(s) \/ i = Len(s) + 1
LEMMA RvAppended ==
    ASSUME NEW S, NEW s \in Seq(S), NEW x \in S, NEW t, t = Append(s, x) PROVE t \in Seq(S) /\ RvGrown(s, x, t)
  BY DEF RvGrown

\* t is s without its first.
RvShorter(s, t) ==
    /\ Len(t) = Len(s) - 1 /\ Len(s) \in Nat /\ Len(t) \in Nat /\ Head(s) = s[1] /\ 1 \in 1..Len(s)
    /\ \A i \in 1..Len(t) : t[i] = s[i + 1] /\ i + 1 \in 1..Len(s) /\ i + 1 # 1 /\ i \in Nat
LEMMA RvTaken ==
    ASSUME NEW S, NEW s \in Seq(S), s # <<>>, NEW t, t = Tail(s) PROVE t \in Seq(S) /\ RvShorter(s, t) /\ s[1] \in S
  BY DEF RvShorter

LEMMA RvWireTypes ==
    ASSUME ViewShape, NEW i \in 1..Len(viewWire)
    PROVE  /\ viewWire[i] \in ViewDetailType \cup ViewErrorType \cup ViewEventType
           /\ viewWire[i].kind \in ViewAnswerKinds \cup ViewEventKinds /\ viewWire[i].run \in ViewRuns
           /\ viewWire[i].kind = "detail" => viewWire[i] \in ViewDetailType /\ viewWire[i].said \subseteq ViewSaid
           /\ viewWire[i].kind \in ViewAnswerKinds => viewWire[i].id \in ViewSent \cup {ViewNoOne}
           /\ viewWire[i].kind = "stream" => viewWire[i].id \in ViewReplies
           /\ viewWire[i].kind = "tool" => viewWire[i].id = "call"
<1>1. viewWire[i] \in ViewDetailType \cup ViewErrorType \cup ViewEventType
  BY DEF ViewShape
<1>2. PICK x : x = viewWire[i]
  OBVIOUS
<1>3. CASE x \in ViewDetailType
  BY <1>1, <1>2, <1>3 DEF ViewDetailType, ViewAnswerKinds
<1>4. CASE x \in ViewErrorType
  BY <1>1, <1>2, <1>4 DEF ViewErrorType, ViewAnswerKinds
<1>5. CASE x \in ViewEventType
  BY <1>1, <1>2, <1>5 DEF ViewEventType, ViewAnswerKinds, ViewEventKinds
<1> QED BY <1>1, <1>2, <1>3, <1>4, <1>5

-----------------------------------------------------------------------------
(* What Main tells. *)

LEMMA RvToldMore ==
    ASSUME NEW run, NEW said, NEW wire, NEW stored, ViewToldAs(run, said, wire, stored), run \in ViewRunsOrNone,
           \A i \in 1..Len(wire) : wire[i].run \in ViewRuns,
           NEW stored2, \A r \in ViewRuns : stored[r] \subseteq stored2[r],
           NEW run2, NEW said2, (run2 = run /\ said2 = said) \/ (run2 = ViewNoRun /\ said2 = {})
    PROVE  ViewToldAs(run2, said2, wire, stored2)
<1>1. CASE run2 = run /\ said2 = said
  <2>1. run # ViewNoRun => run \in ViewRuns
    BY DEF ViewRunsOrNone
  <2> QED BY <1>1, <2>1 DEF ViewToldAs
<1>2. CASE run2 = ViewNoRun /\ said2 = {}
  BY <1>2 DEF ViewToldAs
<1> QED BY <1>1, <1>2

LEMMA RvToldAppends ==
    ASSUME NEW run, NEW said, NEW wire, NEW stored, ViewToldAs(run, said, wire, stored), run \in ViewRunsOrNone,
           run = ViewNoRun => said = {},
           \A i \in 1..Len(wire) : wire[i].run \in ViewRuns,
           NEW x, x.kind = "detail" => x.said = stored[x.run],
           x.kind = "stream" => \A r \in ViewRuns : x.id \notin stored[r],
           NEW wire2, RvGrown(wire, x, wire2)
    PROVE  ViewToldAs(run, said, wire2, stored)
<1>1. run # ViewNoRun => run \in ViewRuns
  BY DEF ViewRunsOrNone
<1>2. PICK n : n = Len(wire)
  OBVIOUS
<1>3. /\ n \in Nat /\ Len(wire2) = n + 1 /\ wire2[n + 1] = x
      /\ \A i \in 1..n : wire2[i] = wire[i]
      /\ \A i \in 1..(n + 1) : i \in 1..n \/ i = n + 1
  BY <1>2 DEF RvGrown
<1>4. /\ run # ViewNoRun => said \subseteq stored[run]
      /\ \A i \in 1..n : wire[i].kind = "detail" =>
            /\ wire[i].said \subseteq stored[wire[i].run]
            /\ wire[i].run = run => said \subseteq wire[i].said
      /\ \A i \in 1..n : \A j \in 1..n :
            /\ i < j /\ wire[i].kind = "detail" /\ wire[j].kind = "detail" /\ wire[j].run = wire[i].run
                  => wire[i].said \subseteq wire[j].said
            /\ wire[i].kind = "detail" /\ wire[j].kind = "stream" /\ wire[j].id \in wire[i].said => j < i
      /\ \A j \in 1..n : wire[j].kind = "stream" => wire[j].id \notin said
  BY <1>2 DEF ViewToldAs
<1>5. ASSUME NEW i \in 1..(n + 1), wire2[i].kind = "detail"
      PROVE  /\ wire2[i].said \subseteq stored[wire2[i].run]
             /\ wire2[i].run = run => said \subseteq wire2[i].said
  <2>1. CASE i \in 1..n
    BY <1>3, <1>4, <1>5, <2>1
  <2>2. CASE i = n + 1
    BY <1>1, <1>3, <1>4, <1>5, <2>2
  <2> QED BY <1>3, <2>1, <2>2
<1>6. ASSUME NEW i \in 1..(n + 1), NEW j \in 1..(n + 1)
      PROVE  /\ i < j /\ wire2[i].kind = "detail" /\ wire2[j].kind = "detail" /\ wire2[j].run = wire2[i].run
                   => wire2[i].said \subseteq wire2[j].said
             /\ wire2[i].kind = "detail" /\ wire2[j].kind = "stream" /\ wire2[j].id \in wire2[i].said => j < i
  <2>1. CASE i \in 1..n /\ j \in 1..n
    BY <1>3, <1>4, <2>1
  <2>2. CASE i \in 1..n /\ j = n + 1
    <3>1. wire2[i] = wire[i] /\ wire2[j] = x /\ wire[i].run \in ViewRuns
      BY <1>2, <1>3, <2>2
    <3>2. wire[i].kind = "detail" => wire[i].said \subseteq stored[wire[i].run]
      BY <1>4, <2>2
    <3>3. wire[i].kind = "detail" /\ x.kind = "detail" /\ x.run = wire[i].run => wire[i].said \subseteq x.said
      BY <3>2
    <3>4. wire[i].kind = "detail" /\ x.kind = "stream" => x.id \notin wire[i].said
      BY <3>1, <3>2
    <3> QED BY <3>1, <3>3, <3>4
  <2>3. CASE i = n + 1 /\ j \in 1..n
    <3>1. j < i
      BY <1>3, <2>3
    <3>2. ~(i < j)
      BY <1>3, <2>3
    <3> QED BY <3>1, <3>2
  <2>4. CASE i = n + 1 /\ j = n + 1
    <3>1. ~(i < j)
      BY <1>3, <2>4
    <3>2. wire2[i] = wire2[j]
      BY <2>4
    <3> QED BY <3>1, <3>2
  <2> QED BY <1>3, <2>1, <2>2, <2>3, <2>4
<1>7. ASSUME NEW j \in 1..(n + 1), wire2[j].kind = "stream" PROVE wire2[j].id \notin said
  <2>1. CASE j \in 1..n
    BY <1>3, <1>4, <1>7, <2>1
  <2>2. CASE j = n + 1
    <3>1. CASE run = ViewNoRun
      BY <3>1
    <3>2. CASE run # ViewNoRun
      BY <1>1, <1>3, <1>4, <1>7, <2>2, <3>2
    <3> QED BY <3>1, <3>2
  <2> QED BY <1>3, <2>1, <2>2
<1> QED BY <1>3, <1>4, <1>5, <1>6, <1>7 DEF ViewToldAs

LEMMA RvToldTakes ==
    ASSUME NEW run, NEW said, NEW wire, NEW stored, ViewToldAs(run, said, wire, stored),
           NEW wire2, RvShorter(wire, wire2),
           NEW run2, NEW said2,
           \/ run2 = run /\ said2 = said
           \/ wire[1].kind = "detail" /\ run2 = wire[1].run /\ said2 = wire[1].said
    PROVE  ViewToldAs(run2, said2, wire2, stored)
<1>1. PICK n : n = Len(wire2)
  OBVIOUS
<1>2. /\ n \in Nat /\ 1 \in 1..Len(wire) /\ Len(wire) = n + 1
      /\ \A i \in 1..n : wire2[i] = wire[i + 1] /\ i + 1 \in 1..Len(wire) /\ i \in Nat /\ 1 < i + 1
  <2>1. Len(wire2) = Len(wire) - 1 /\ n \in Nat /\ Len(wire) \in Nat /\ 1 \in 1..Len(wire)
    BY <1>1 DEF RvShorter
  <2>2. \A i \in 1..n : wire2[i] = wire[i + 1] /\ i + 1 \in 1..Len(wire) /\ i \in Nat
    BY <1>1 DEF RvShorter
  <2>4. \A i \in 1..n : 1 < i + 1
    BY <2>1
  <2> QED BY <1>1, <2>1, <2>2, <2>4
<1>3. /\ run # ViewNoRun => said \subseteq stored[run]
      /\ \A i \in 1..Len(wire) : wire[i].kind = "detail" =>
            /\ wire[i].said \subseteq stored[wire[i].run]
            /\ wire[i].run = run => said \subseteq wire[i].said
      /\ \A i \in 1..Len(wire) : \A j \in 1..Len(wire) :
            /\ i < j /\ wire[i].kind = "detail" /\ wire[j].kind = "detail" /\ wire[j].run = wire[i].run
                  => wire[i].said \subseteq wire[j].said
            /\ wire[i].kind = "detail" /\ wire[j].kind = "stream" /\ wire[j].id \in wire[i].said => j < i
      /\ \A j \in 1..Len(wire) : wire[j].kind = "stream" => wire[j].id \notin said
  BY DEF ViewToldAs
<1>4. run2 # ViewNoRun => said2 \subseteq stored[run2]
  BY <1>2, <1>3
<1>5. ASSUME NEW i \in 1..n, wire2[i].kind = "detail"
      PROVE  /\ wire2[i].said \subseteq stored[wire2[i].run]
             /\ wire2[i].run = run2 => said2 \subseteq wire2[i].said
  <2>1. PICK k : k = i + 1
    OBVIOUS
  <2>2. wire2[i] = wire[k] /\ k \in 1..Len(wire) /\ 1 < k /\ 1 \in 1..Len(wire)
    BY <1>2, <2>1
  <2>3. wire[k].said \subseteq stored[wire[k].run]
    BY <1>3, <1>5, <2>2
  <2>4. wire[k].run = run2 => said2 \subseteq wire[k].said
    <3>1. CASE run2 = run /\ said2 = said
      BY <1>3, <1>5, <2>2, <3>1
    <3>2. CASE wire[1].kind = "detail" /\ run2 = wire[1].run /\ said2 = wire[1].said
      BY <1>3, <1>5, <2>2, <3>2
    <3> QED BY <3>1, <3>2
  <2> QED BY <2>2, <2>3, <2>4
<1>6. ASSUME NEW i \in 1..n, NEW j \in 1..n
      PROVE  /\ i < j /\ wire2[i].kind = "detail" /\ wire2[j].kind = "detail" /\ wire2[j].run = wire2[i].run
                   => wire2[i].said \subseteq wire2[j].said
             /\ wire2[i].kind = "detail" /\ wire2[j].kind = "stream" /\ wire2[j].id \in wire2[i].said => j < i
  <2>1. PICK k : k = i + 1
    OBVIOUS
  <2>2. PICK l : l = j + 1
    OBVIOUS
  <2>3. wire2[i] = wire[k] /\ k \in 1..Len(wire) /\ wire2[j] = wire[l] /\ l \in 1..Len(wire)
    BY <1>2, <2>1, <2>2
  <2>4. (i < j => k < l) /\ (l < k => j < i)
    BY <1>2, <2>1, <2>2
  <2> QED BY <1>3, <2>3, <2>4
<1>7. ASSUME NEW j \in 1..n, wire2[j].kind = "stream" PROVE wire2[j].id \notin said2
  <2>1. PICK k : k = j + 1
    OBVIOUS
  <2>2. wire2[j] = wire[k] /\ k \in 1..Len(wire) /\ ~(k < 1) /\ 1 \in 1..Len(wire)
    BY <1>2, <2>1
  <2> QED BY <1>3, <1>7, <2>2
<1> QED BY <1>1, <1>4, <1>5, <1>6, <1>7 DEF ViewToldAs

-----------------------------------------------------------------------------
(* How a sending goes on. *)

ViewAskType == [run : ViewRuns, for : ViewSent \cup {ViewNoOne}]
RvSendType == [at : ViewPlaces, run : ViewRunsOrNone]
RvOver == {"refused", "returned", "done"}
\* How a sending moves on.
RvMoves(at, at2) ==
    \/ at2 = at \/ at2 = "done" \/ (at = "unsent" /\ at2 = "sent") \/ (at = "sent" /\ at2 \in {"stored", "refused"})
    \/ at = "stored" /\ at2 = "returned"

\* What a step may do to the sending of m.
RvStepFor(m) ==
    /\ RvMoves(viewSends[m].at, viewSends'[m].at)
    /\ viewSends'[m].run = viewSends[m].run \/ viewSends[m].at = "unsent"
    /\ viewSends[m].at = "unsent" /\ viewSends'[m].at # "unsent" => viewSends'[m].run \in ViewRuns
    /\ \A r \in ViewRuns : m \in viewStored'[r] => m \in viewStored[r] \/ viewSends'[m].at # "unsent"
    /\ \A r \in ViewRuns : m \in viewStored[r] => m \in viewStored'[r]
    /\ viewSends[m].at = "sent" /\ viewSends'[m].at = "stored" => m \in viewStored'[viewSends[m].run]
    /\ m \in viewLists' => m \in viewLists \/ viewSends'[m].at \in RvOver
    /\ \A i \in 1..Len(viewAsked') : viewAsked'[i].for = m =>
          \/ \E k \in 1..Len(viewAsked) : viewAsked'[i] = viewAsked[k]
          \/ viewSends'[m].at \in RvOver /\ viewAsked'[i].run = viewSends'[m].run
    /\ \A i \in 1..Len(viewWire') : viewWire'[i].kind \in ViewAnswerKinds /\ viewWire'[i].id = m =>
          \/ \E k \in 1..Len(viewWire) : viewWire'[i] = viewWire[k]
          \/ /\ viewSends'[m].at \in RvOver /\ viewWire'[i].run = viewSends'[m].run
             /\ viewWire'[i].kind = "detail" /\ viewSends'[m].at = "returned" => m \in viewWire'[i].said
    /\ m \in ViewIdsOf(viewShown', "typed") =>
          /\ viewSends'[m].at \notin {"unsent", "done"}
          /\ \/ viewShown'.run = viewSends'[m].run
             \/ m \in ViewIdsOf(viewShown, "typed") /\ viewShown'.run = viewShown.run

LEMMA RvSendingGoesOn ==
    ASSUME NEW m \in ViewSent, ViewSending(m), RvStepFor(m), viewSends[m].at \in ViewPlaces
    PROVE  ViewSending(m)'
<1>1. PICK at : at = viewSends[m].at
  OBVIOUS
<1>2. PICK at2 : at2 = viewSends'[m].at
  OBVIOUS
<1>3. PICK to : to = viewSends[m].run
  OBVIOUS
<1>4. PICK to2 : to2 = viewSends'[m].run
  OBVIOUS
<1>5. /\ at # "unsent" => to \in ViewRuns
      /\ \A r \in ViewRuns : m \in viewStored[r] => at # "unsent"
      /\ at \in {"stored", "returned"} => m \in viewStored[to]
      /\ m \in viewLists => at \in RvOver
      /\ \A i \in 1..Len(viewAsked) : viewAsked[i].for = m => at \in RvOver /\ viewAsked[i].run = to
      /\ \A i \in 1..Len(viewWire) : viewWire[i].kind \in ViewAnswerKinds /\ viewWire[i].id = m =>
            /\ at \in RvOver /\ viewWire[i].run = to
            /\ viewWire[i].kind = "detail" /\ at = "returned" => m \in viewWire[i].said
      /\ m \in ViewIdsOf(viewShown, "typed") => viewShown.run = to /\ at \notin {"unsent", "done"}
  BY <1>1, <1>3, RvIds DEF ViewSending, ViewWaits, ViewAt, RvOver, ViewAnswerKinds
<1>6. /\ RvMoves(at, at2) /\ (to2 = to \/ at = "unsent") /\ (at = "unsent" /\ at2 # "unsent" => to2 \in ViewRuns)
      /\ at \in ViewPlaces
  BY <1>1, <1>2, <1>3, <1>4 DEF RvStepFor
<1>7. /\ at \in RvOver => at2 \in RvOver /\ to2 = to
      /\ at2 = "returned" => at \in {"returned", "stored"}
      /\ at2 = "stored" => at \in {"stored", "sent"}
      /\ at # "unsent" => at2 # "unsent" /\ to2 = to
      /\ at \in {"stored", "sent"} => at \notin RvOver
  BY <1>6 DEF RvMoves, RvOver
<1>8. at2 # "unsent" => to2 \in ViewRuns
  BY <1>5, <1>6, <1>7
<1>9. \A r \in ViewRuns : m \in viewStored'[r] => at2 # "unsent"
  <2>1. \A r \in ViewRuns : m \in viewStored'[r] => m \in viewStored[r] \/ at2 # "unsent"
    BY <1>2 DEF RvStepFor
  <2> QED BY <1>5, <1>7, <2>1
<1>10. at2 \in {"stored", "returned"} => m \in viewStored'[to2]
  <2>1. \A r \in ViewRuns : m \in viewStored[r] => m \in viewStored'[r]
    BY DEF RvStepFor
  <2>2. at = "sent" /\ at2 = "stored" => m \in viewStored'[to]
    BY <1>1, <1>2, <1>3 DEF RvStepFor
  <2> QED BY <1>5, <1>7, <2>1, <2>2
<1>11. m \in viewLists' => at2 \in RvOver
  <2>1. m \in viewLists' => m \in viewLists \/ at2 \in RvOver
    BY <1>2 DEF RvStepFor
  <2> QED BY <1>5, <1>7, <2>1
<1>12. ASSUME NEW i \in 1..Len(viewAsked'), viewAsked'[i].for = m PROVE at2 \in RvOver /\ viewAsked'[i].run = to2
  <2>1. \/ \E k \in 1..Len(viewAsked) : viewAsked'[i] = viewAsked[k]
        \/ at2 \in RvOver /\ viewAsked'[i].run = to2
    BY <1>2, <1>4, <1>12 DEF RvStepFor
  <2> QED BY <1>5, <1>7, <1>12, <2>1
<1>13. ASSUME NEW i \in 1..Len(viewWire'), viewWire'[i].kind \in ViewAnswerKinds, viewWire'[i].id = m
       PROVE  /\ at2 \in RvOver /\ viewWire'[i].run = to2
              /\ viewWire'[i].kind = "detail" /\ at2 = "returned" => m \in viewWire'[i].said
  <2>1. \/ \E k \in 1..Len(viewWire) : viewWire'[i] = viewWire[k]
        \/ /\ at2 \in RvOver /\ viewWire'[i].run = to2
           /\ viewWire'[i].kind = "detail" /\ at2 = "returned" => m \in viewWire'[i].said
    BY <1>2, <1>4, <1>13 DEF RvStepFor
  <2>2. ASSUME NEW k \in 1..Len(viewWire), viewWire'[i] = viewWire[k]
        PROVE  /\ at2 \in RvOver /\ viewWire'[i].run = to2
               /\ viewWire'[i].kind = "detail" /\ at2 = "returned" => m \in viewWire'[i].said
    <3>1. /\ at \in RvOver /\ viewWire[k].run = to
          /\ viewWire[k].kind = "detail" /\ at = "returned" => m \in viewWire[k].said
      BY <1>5, <1>13, <2>2
    <3> QED BY <1>7, <2>2, <3>1
  <2> QED BY <2>1, <2>2
<1>14. m \in ViewIdsOf(viewShown', "typed") => viewShown'.run = to2 /\ at2 \notin {"unsent", "done"}
  <2>1. m \in ViewIdsOf(viewShown', "typed") =>
          /\ at2 \notin {"unsent", "done"}
          /\ viewShown'.run = to2 \/ (m \in ViewIdsOf(viewShown, "typed") /\ viewShown'.run = viewShown.run)
    BY <1>2, <1>4 DEF RvStepFor
  <2> QED BY <1>5, <1>7, <2>1
<1> QED BY <1>2, <1>4, <1>8, <1>9, <1>10, <1>11, <1>12, <1>13, <1>14, RvIds
        DEF ViewSending, ViewWaits, ViewAt, RvOver, ViewAnswerKinds

-----------------------------------------------------------------------------
(* What the parts of a step come to. *)

\* A detail asked for is for a sending that waits for it, or for none.
RvAskFits(x) == x.for \in ViewSent => viewSends'[x.for].at \in RvOver /\ x.run = viewSends'[x.for].run
RvAsksMore(asked) ==
    /\ asked \in Seq(ViewAskType)
    /\ \A i \in 1..Len(asked) : (\E k \in 1..Len(viewAsked) : asked[i] = viewAsked[k]) \/ RvAskFits(asked[i])

\* An answer that is new on the wire has the message it is for.
RvTellFits(x) ==
    x.kind \in ViewAnswerKinds /\ x.id \in ViewSent =>
      /\ viewSends'[x.id].at \in RvOver /\ x.run = viewSends'[x.id].run
      /\ x.kind = "detail" /\ viewSends'[x.id].at = "returned" => x.id \in x.said
ViewWireType == ViewDetailType \cup ViewErrorType \cup ViewEventType
RvTellsMore(wire) ==
    /\ wire \in Seq(ViewWireType)
    /\ \A i \in 1..Len(wire) : (\E k \in 1..Len(viewWire) : wire[i] = viewWire[k]) \/ RvTellFits(wire[i])

LEMMA RvAskSame == ASSUME ViewShape PROVE RvAsksMore(viewAsked)
  BY DEF RvAsksMore, ViewShape, ViewAskType

LEMMA RvAskOne ==
    ASSUME NEW asked, RvAsksMore(asked), NEW run \in ViewRuns, NEW for \in ViewSent \cup {ViewNoOne},
           for \in ViewSent => viewSends'[for].at \in RvOver /\ run = viewSends'[for].run,
           NEW more, more = ViewAsk(asked, run, for)
    PROVE  RvAsksMore(more)
<1>1. PICK x : x = [run |-> run, for |-> for]
  OBVIOUS
<1>2. x \in ViewAskType /\ x.run = run /\ x.for = for
  BY <1>1 DEF ViewAskType
<1>3. RvAskFits(x)
  BY <1>2 DEF RvAskFits
<1>4. more = Append(asked, x) /\ asked \in Seq(ViewAskType)
  BY <1>1 DEF ViewAsk, RvAsksMore
<1>5. more \in Seq(ViewAskType) /\ RvGrown(asked, x, more)
  BY <1>2, <1>4, RvAppended
<1>6. ASSUME NEW i \in 1..Len(more)
      PROVE  (\E k \in 1..Len(viewAsked) : more[i] = viewAsked[k]) \/ RvAskFits(more[i])
  <2>1. CASE i \in 1..Len(asked)
    <3>1. more[i] = asked[i]
      BY <1>5, <2>1 DEF RvGrown
    <3>2. (\E k \in 1..Len(viewAsked) : asked[i] = viewAsked[k]) \/ RvAskFits(asked[i])
      BY <2>1 DEF RvAsksMore
    <3> QED BY <3>1, <3>2
  <2>2. CASE i = Len(asked) + 1
    <3>1. more[i] = x
      BY <1>5, <2>2 DEF RvGrown
    <3> QED BY <1>3, <3>1
  <2>3. i \in 1..Len(asked) \/ i = Len(asked) + 1
    BY <1>5 DEF RvGrown
  <2> QED BY <2>1, <2>2, <2>3
<1> QED BY <1>5, <1>6 DEF RvAsksMore

LEMMA RvAskTail ==
    ASSUME ViewShape, viewAsked # <<>>, NEW asked, asked = Tail(viewAsked)
    PROVE  RvAsksMore(asked)
<1>1. viewAsked \in Seq(ViewAskType)
  BY DEF ViewShape, ViewAskType
<1>2. asked \in Seq(ViewAskType) /\ RvShorter(viewAsked, asked)
  BY <1>1, RvTaken
<1>3. ASSUME NEW i \in 1..Len(asked) PROVE \E k \in 1..Len(viewAsked) : asked[i] = viewAsked[k]
  <2>1. PICK k : k = i + 1
    OBVIOUS
  <2>2. asked[i] = viewAsked[k] /\ k \in 1..Len(viewAsked)
    BY <1>2, <2>1 DEF RvShorter
  <2> QED BY <2>2
<1> QED BY <1>2, <1>3 DEF RvAsksMore

LEMMA RvTellSame == ASSUME ViewShape PROVE RvTellsMore(viewWire)
  BY DEF RvTellsMore, ViewShape, ViewWireType

LEMMA RvTellOne ==
    ASSUME ViewShape, NEW x \in ViewWireType, RvTellFits(x), NEW wire, wire = Append(viewWire, x)
    PROVE  RvTellsMore(wire) /\ RvGrown(viewWire, x, wire)
<1>1. viewWire \in Seq(ViewWireType)
  BY DEF ViewShape, ViewWireType
<1>2. wire \in Seq(ViewWireType) /\ RvGrown(viewWire, x, wire)
  BY <1>1, RvAppended
<1>3. ASSUME NEW i \in 1..Len(wire)
      PROVE  (\E k \in 1..Len(viewWire) : wire[i] = viewWire[k]) \/ RvTellFits(wire[i])
  <2>1. CASE i \in 1..Len(viewWire)
    <3>1. wire[i] = viewWire[i]
      BY <1>2, <2>1 DEF RvGrown
    <3> QED BY <2>1, <3>1
  <2>2. CASE i = Len(viewWire) + 1
    <3>1. wire[i] = x
      BY <1>2, <2>2 DEF RvGrown
    <3> QED BY <3>1
  <2>3. i \in 1..Len(viewWire) \/ i = Len(viewWire) + 1
    BY <1>2 DEF RvGrown
  <2> QED BY <2>1, <2>2, <2>3
<1> QED BY <1>2, <1>3 DEF RvTellsMore

LEMMA RvTellTail ==
    ASSUME ViewShape, viewWire # <<>>, NEW wire, wire = Tail(viewWire)
    PROVE  RvTellsMore(wire) /\ RvShorter(viewWire, wire)
<1>1. viewWire \in Seq(ViewWireType)
  BY DEF ViewShape, ViewWireType
<1>2. wire \in Seq(ViewWireType) /\ RvShorter(viewWire, wire)
  BY <1>1, RvTaken
<1>3. ASSUME NEW i \in 1..Len(wire) PROVE \E k \in 1..Len(viewWire) : wire[i] = viewWire[k]
  <2>1. PICK k : k = i + 1
    OBVIOUS
  <2>2. wire[i] = viewWire[k] /\ k \in 1..Len(viewWire)
    BY <1>2, <2>1 DEF RvShorter
  <2> QED BY <2>2
<1> QED BY <1>2, <1>3 DEF RvTellsMore

\* The sending itself, and what is stored.
RvSendFor(m) ==
    /\ RvMoves(viewSends[m].at, viewSends'[m].at)
    /\ viewSends'[m].run = viewSends[m].run \/ viewSends[m].at = "unsent"
    /\ viewSends[m].at = "unsent" /\ viewSends'[m].at # "unsent" => viewSends'[m].run \in ViewRuns
    /\ \A r \in ViewRuns : m \in viewStored'[r] => m \in viewStored[r] \/ viewSends'[m].at # "unsent"
    /\ \A r \in ViewRuns : m \in viewStored[r] => m \in viewStored'[r]
    /\ viewSends[m].at = "sent" /\ viewSends'[m].at = "stored" => m \in viewStored'[viewSends[m].run]
    /\ m \in viewLists' => m \in viewLists \/ viewSends'[m].at \in RvOver
RvTypedFor(m) ==
    m \in ViewIdsOf(viewShown', "typed") =>
          /\ viewSends'[m].at \notin {"unsent", "done"}
          /\ \/ viewShown'.run = viewSends'[m].run
             \/ m \in ViewIdsOf(viewShown, "typed") /\ viewShown'.run = viewShown.run

LEMMA RvStepMade ==
    ASSUME NEW m \in ViewSent, RvSendFor(m), RvTypedFor(m), RvAsksMore(viewAsked'), RvTellsMore(viewWire')
    PROVE  RvStepFor(m)
<1>1. \A i \in 1..Len(viewAsked') : viewAsked'[i].for = m =>
          \/ \E k \in 1..Len(viewAsked) : viewAsked'[i] = viewAsked[k]
          \/ viewSends'[m].at \in RvOver /\ viewAsked'[i].run = viewSends'[m].run
  BY DEF RvAsksMore, RvAskFits
<1>2. \A i \in 1..Len(viewWire') : viewWire'[i].kind \in ViewAnswerKinds /\ viewWire'[i].id = m =>
          \/ \E k \in 1..Len(viewWire) : viewWire'[i] = viewWire[k]
          \/ /\ viewSends'[m].at \in RvOver /\ viewWire'[i].run = viewSends'[m].run
             /\ viewWire'[i].kind = "detail" /\ viewSends'[m].at = "returned" => m \in viewWire'[i].said
  BY DEF RvTellsMore, RvTellFits
<1> QED BY <1>1, <1>2 DEF RvSendFor, RvTypedFor, RvStepFor

\* A message on view stays there.
RvSeenStays(m) ==
    /\ m \in ViewIdsOf(viewShown, "said") \cup ViewIdsOf(viewShown, "typed")
    /\ viewShown'.run = viewShown.run /\ viewSends[m].at # "refused" /\ viewSends[m].run \notin viewDeleted
    => m \in ViewIdsOf(viewShown', "said") \cup ViewIdsOf(viewShown', "typed")

\* What each step is shown to do: the invariant, for a sending only what it may, and no message lost from view.
RvStepDone ==
    /\ ViewShape' /\ ViewDisplay' /\ ViewTold' /\ ViewErrors'
    /\ \A m \in ViewSent : RvStepFor(m) /\ RvSeenStays(m)

\* The parts of the invariant, by the ids of the timeline.
LEMMA RvParts ==
    ASSUME ViewInv
    PROVE  /\ ViewShape /\ viewShown \in ViewShownType /\ viewShown.run \in ViewRunsOrNone
           /\ viewShown.run = ViewNoRun => viewShown.entries = {} /\ (\A k : ViewIdsOf(viewShown, k) = {})
           /\ ViewIdsOf(viewShown, "said") \cap (ViewIdsOf(viewShown, "typed") \cup ViewIdsOf(viewShown, "stream")) = {}
           /\ ViewIdsOf(viewShown, "typed") \subseteq ViewSent
           /\ ViewToldAs(viewShown.run, ViewIdsOf(viewShown, "said"), viewWire, viewStored)
           /\ \A m \in ViewSent : ViewSending(m)
           /\ \A m \in ViewSent : viewSends[m].at \in ViewPlaces /\ viewSends[m].run \in ViewRunsOrNone
           /\ ViewErrors
           /\ \A i \in 1..Len(viewWire) : viewWire[i].run \in ViewRuns
<1>1. ViewShape /\ ViewDisplay /\ ViewTold /\ (\A m \in ViewSent : ViewSending(m)) /\ ViewErrors
  BY DEF ViewInv
<1>2. viewShown \in ViewShownType /\ viewShown.run \in ViewRunsOrNone
  BY <1>1 DEF ViewShape, ViewShownType
<1>3. \A m \in ViewSent : viewSends[m].at \in ViewPlaces /\ viewSends[m].run \in ViewRunsOrNone
  BY <1>1 DEF ViewShape
<1>4. viewShown.run = ViewNoRun => viewShown.entries = {} /\ (\A k : ViewIdsOf(viewShown, k) = {})
  BY <1>1 DEF ViewDisplay, ViewIdsOf
<1>5. ViewIdsOf(viewShown, "said") \cap (ViewIdsOf(viewShown, "typed") \cup ViewIdsOf(viewShown, "stream")) = {}
      /\ ViewIdsOf(viewShown, "typed") \subseteq ViewSent
  BY <1>1, RvIds DEF ViewDisplay, ViewNeverTwice
<1>6. ViewToldAs(viewShown.run, ViewIdsOf(viewShown, "said"), viewWire, viewStored)
  BY <1>1, RvIds DEF ViewTold
<1>7. \A i \in 1..Len(viewWire) : viewWire[i].run \in ViewRuns
  BY <1>1, RvWireTypes
<1> QED BY <1>1, <1>2, <1>3, <1>4, <1>5, <1>6, <1>7

\* The display after a step, from the ids of its timeline.
LEMMA RvDisplayIs ==
    ASSUME viewShown' \in ViewShownType, viewShown'.run = ViewNoRun => viewShown'.entries = {},
           ViewIdsOf(viewShown', "said") \cap (ViewIdsOf(viewShown', "typed") \cup ViewIdsOf(viewShown', "stream")) = {},
           ViewIdsOf(viewShown', "typed") \subseteq ViewSent
    PROVE  ViewDisplay'
  BY RvIds DEF ViewDisplay, ViewNeverTwice

LEMMA RvToldIs ==
    ASSUME ViewToldAs(viewShown'.run, ViewIdsOf(viewShown', "said"), viewWire', viewStored')
    PROVE  ViewTold'
  BY RvIds DEF ViewTold

\* What is shown stays, or nothing is shown.
RvQuietShown == viewShown' = viewShown \/ viewShown' = ViewNothing
RvQuiet ==
    /\ RvQuietShown /\ viewWire' = viewWire /\ viewSends' = viewSends /\ viewStored' = viewStored
    /\ \A m \in ViewSent : m \in viewLists' => m \in viewLists
    /\ viewDeleted \subseteq viewDeleted' /\ RvAsksMore(viewAsked') /\ ViewShape'

LEMMA RvNothing ==
    /\ ViewNothing \in ViewShownType /\ ViewNothing.run = ViewNoRun /\ ViewNothing.entries = {}
    /\ \A k : ViewIdsOf(ViewNothing, k) = {}
<1>1. PICK x : x = ViewNothing
  OBVIOUS
<1>2. x = [run |-> ViewNoRun, entries |-> {}]
  BY <1>1 DEF ViewNothing
<1>3. x \in ViewShownType /\ x.run = ViewNoRun /\ x.entries = {}
  BY <1>2 DEF ViewShownType, ViewRunsOrNone
<1>4. \A k : ViewIdsOf(x, k) = {}
  BY <1>3 DEF ViewIdsOf
<1> QED BY <1>1, <1>3, <1>4

LEMMA RvQuietDone == ASSUME ViewInv, RvQuiet PROVE RvStepDone
<1>1. /\ RvQuietShown /\ viewWire' = viewWire /\ viewSends' = viewSends /\ viewStored' = viewStored
      /\ \A m \in ViewSent : m \in viewLists' => m \in viewLists
      /\ viewDeleted \subseteq viewDeleted' /\ RvAsksMore(viewAsked') /\ ViewShape'
  BY DEF RvQuiet
<1>2. ViewDisplay'
  <2>1. CASE viewShown' = viewShown
    BY <2>1, RvParts, RvDisplayIs
  <2>2. CASE viewShown' = ViewNothing
    BY <2>2, RvNothing, RvDisplayIs
  <2> QED BY <1>1, <2>1, <2>2 DEF RvQuietShown
<1>3. ViewTold'
  <2>1. PICK run2 : run2 = viewShown'.run
    OBVIOUS
  <2>2. PICK said2 : said2 = ViewIdsOf(viewShown', "said")
    OBVIOUS
  <2>3. \/ run2 = viewShown.run /\ said2 = ViewIdsOf(viewShown, "said")
        \/ run2 = ViewNoRun /\ said2 = {}
    BY <1>1, <2>1, <2>2, RvNothing DEF RvQuietShown
  <2>4. ViewToldAs(run2, said2, viewWire, viewStored)
    <3>1. \A r \in ViewRuns : viewStored[r] \subseteq viewStored[r]
      OBVIOUS
    <3> QED BY <2>3, <3>1, RvParts, RvToldMore
  <2> QED BY <1>1, <2>1, <2>2, <2>4, RvToldIs
<1>4. ViewErrors'
  BY <1>1, RvParts DEF ViewErrors
<1>5. ASSUME NEW m \in ViewSent PROVE RvStepFor(m)
  <2>1. RvSendFor(m)
    BY <1>1 DEF RvSendFor, RvMoves
  <2>2. RvTypedFor(m)
    <3>1. CASE viewShown' = viewShown
      <4>1. m \in ViewIdsOf(viewShown, "typed") => viewSends[m].at \notin {"unsent", "done"}
        BY RvParts, RvIds DEF ViewSending, ViewAt
      <4> QED BY <1>1, <3>1, <4>1 DEF RvTypedFor
    <3>2. CASE viewShown' = ViewNothing
      BY <3>2, RvNothing DEF RvTypedFor
    <3> QED BY <1>1, <3>1, <3>2 DEF RvQuietShown
  <2>3. RvTellsMore(viewWire')
    BY <1>1, RvParts, RvTellSame
  <2> QED BY <1>1, <2>1, <2>2, <2>3, RvStepMade
<1>6. ASSUME NEW m \in ViewSent PROVE RvSeenStays(m)
  <2>1. CASE viewShown' = viewShown
    BY <2>1 DEF RvSeenStays
  <2>2. CASE viewShown' = ViewNothing
    <3>1. viewShown'.run = viewShown.run => ViewIdsOf(viewShown, "said") = {} /\ ViewIdsOf(viewShown, "typed") = {}
      BY <2>2, RvNothing, RvParts
    <3> QED BY <3>1 DEF RvSeenStays
  <2> QED BY <1>1, <2>1, <2>2 DEF RvQuietShown
<1> QED BY <1>1, <1>2, <1>3, <1>4, <1>5, <1>6 DEF RvStepDone

LEMMA RvFollowed ==
    ASSUME NEW asked, NEW run \in ViewRunsOrNone, RvAsksMore(asked), ViewFollow(asked, run)
    PROVE  RvAsksMore(viewAsked') /\ RvQuietShown
<1>1. CASE run = ViewNoRun
  <2>1. viewAsked' = asked /\ viewShown' = ViewNothing
    BY <1>1 DEF ViewFollow
  <2> QED BY <2>1 DEF RvQuietShown
<1>2. CASE run # ViewNoRun
  <2>1. viewAsked' = ViewAsk(asked, run, ViewNoOne) /\ viewShown' = viewShown
    BY <1>2 DEF ViewFollow
  <2>2. run \in ViewRuns /\ ViewNoOne \notin ViewSent
    BY <1>2, ViewAssumption DEF ViewRunsOrNone
  <2>3. RvAsksMore(viewAsked')
    BY <2>1, <2>2, RvAskOne
  <2> QED BY <2>1, <2>3 DEF RvQuietShown
<1> QED BY <1>1, <1>2

LEMMA RvShapeIs ==
    ASSUME viewSelected' \in ViewRunsOrNone, viewShown' \in ViewShownType,
           viewTimer' \in [what : {"off", "all", "run"}, run : ViewRunsOrNone], RvAsksMore(viewAsked'), RvTellsMore(viewWire'),
           viewLists' \subseteq ViewSent \cup {ViewNoOne}, viewSends' \in [ViewSent -> RvSendType],
           viewSpeaks' \in [ViewReplies -> ViewRunsOrNone], viewStored' \in [ViewRuns -> SUBSET ViewSaid],
           viewDeleted' \subseteq ViewRuns
    PROVE  ViewShape'
<1>1. viewAsked' \in Seq(ViewAskType)
  BY DEF RvAsksMore
<1>2. viewWire' \in Seq(ViewWireType)
  BY DEF RvTellsMore
<1> QED BY <1>1, <1>2 DEF ViewShape, ViewShownType, ViewAskType, ViewWireType, RvSendType

LEMMA RvShapes ==
    ASSUME ViewShape
    PROVE  /\ viewSelected \in ViewRunsOrNone /\ viewShown \in ViewShownType
           /\ viewTimer \in [what : {"off", "all", "run"}, run : ViewRunsOrNone] /\ RvAsksMore(viewAsked) /\ RvTellsMore(viewWire)
           /\ viewLists \subseteq ViewSent \cup {ViewNoOne} /\ viewSends \in [ViewSent -> RvSendType]
           /\ viewSpeaks \in [ViewReplies -> ViewRunsOrNone] /\ viewStored \in [ViewRuns -> SUBSET ViewSaid]
           /\ viewDeleted \subseteq ViewRuns
<1>1. RvAsksMore(viewAsked) /\ RvTellsMore(viewWire)
  BY RvAskSame, RvTellSame
<1> QED BY <1>1 DEF ViewShape, ViewShownType, RvSendType

LEMMA RvQuietTypes == ASSUME ViewShape, RvQuietShown PROVE viewShown' \in ViewShownType
<1>1. viewShown \in ViewShownType
  BY RvShapes
<1> QED BY <1>1, RvNothing DEF RvQuietShown

LEMMA RvSelect ==
    ASSUME ViewInv, NEW r \in (ViewRuns \ viewDeleted) \cup {ViewNoRun}, ViewSelect(r) PROVE RvStepDone
<1>1. /\ viewSelected' = r /\ ViewFollow(viewAsked, r) /\ viewTimer' = viewTimer /\ viewWire' = viewWire
      /\ viewLists' = viewLists /\ viewSends' = viewSends /\ viewSpeaks' = viewSpeaks /\ viewStored' = viewStored
      /\ viewDeleted' = viewDeleted
  BY DEF ViewSelect
<1>2. ViewShape /\ r \in ViewRunsOrNone
  BY RvParts DEF ViewRunsOrNone
<1>3. RvAsksMore(viewAsked') /\ RvQuietShown
  BY <1>1, <1>2, RvFollowed, RvAskSame
<1>4. ViewShape'
  BY <1>1, <1>2, <1>3, RvQuietTypes, RvShapes, RvShapeIs
<1> QED BY <1>1, <1>3, <1>4, RvQuietDone DEF RvQuiet

LEMMA RvListed == ASSUME ViewInv, NEW m \in viewLists, ViewListed(m) PROVE RvStepDone
<1>1. PICK kept : kept = IF viewSelected \in viewDeleted THEN ViewNoRun ELSE viewSelected
  OBVIOUS
<1>2. PICK asked : asked = IF m = ViewNoOne THEN viewAsked ELSE ViewAsk(viewAsked, viewSends[m].run, m)
  OBVIOUS
<1>3. /\ viewLists' = viewLists \ {m} /\ viewSelected' = kept /\ ViewFollow(asked, kept) /\ viewTimer' = viewTimer
      /\ viewWire' = viewWire /\ viewSends' = viewSends /\ viewSpeaks' = viewSpeaks /\ viewStored' = viewStored
      /\ viewDeleted' = viewDeleted
  BY <1>1, <1>2 DEF ViewListed
<1>4. ViewShape /\ RvAsksMore(viewAsked)
  BY RvParts, RvAskSame
<1>5. kept \in ViewRunsOrNone
  BY <1>1, <1>4, RvShapes DEF ViewRunsOrNone
<1>6. RvAsksMore(asked)
  <2>1. CASE m = ViewNoOne
    BY <1>2, <1>4, <2>1
  <2>2. CASE m # ViewNoOne
    <3>1. m \in ViewSent
      BY <1>4, <2>2, RvShapes
    <3>2. ViewAt(m) \in RvOver
      BY <3>1, RvParts DEF ViewSending, ViewWaits, RvOver
    <3>3. viewSends[m].run \in ViewRuns
      BY <3>1, <3>2, RvParts DEF ViewSending, RvOver
    <3>4. PICK run : run = viewSends[m].run
      OBVIOUS
    <3>5. m \in ViewSent => viewSends'[m].at \in RvOver /\ run = viewSends'[m].run
      BY <1>3, <3>2, <3>4 DEF ViewAt
    <3>6. asked = ViewAsk(viewAsked, run, m)
      BY <1>2, <2>2, <3>4
    <3> QED BY <1>4, <3>1, <3>3, <3>4, <3>5, <3>6, RvAskOne
  <2> QED BY <2>1, <2>2
<1>7. RvAsksMore(viewAsked') /\ RvQuietShown
  BY <1>3, <1>5, <1>6, RvFollowed
<1>8. ViewShape'
  <2>1. viewLists' \subseteq ViewSent \cup {ViewNoOne}
    BY <1>3, <1>4, RvShapes
  <2> QED BY <1>3, <1>4, <1>5, <1>7, <2>1, RvQuietTypes, RvShapes, RvShapeIs
<1> QED BY <1>3, <1>7, <1>8, RvQuietDone DEF RvQuiet

LEMMA RvTimerFires == ASSUME ViewInv, ViewTimerFires PROVE RvStepDone
<1>1. /\ viewTimer' = ViewNoTimer /\ viewLists' \in {viewLists, viewLists \cup {ViewNoOne}}
      /\ viewAsked' = (IF viewTimer.run = ViewNoRun THEN viewAsked ELSE ViewAsk(viewAsked, viewTimer.run, ViewNoOne))
      /\ viewSelected' = viewSelected /\ viewShown' = viewShown
      /\ viewWire' = viewWire /\ viewSends' = viewSends /\ viewSpeaks' = viewSpeaks /\ viewStored' = viewStored
      /\ viewDeleted' = viewDeleted
  BY DEF ViewTimerFires
<1>2. ViewShape /\ RvAsksMore(viewAsked)
  BY RvParts, RvAskSame
<1>3. ViewNoOne \notin ViewSent
  BY ViewAssumption
<1>4. RvAsksMore(viewAsked')
  <2>1. CASE viewTimer.run = ViewNoRun
    BY <1>1, <1>2, <2>1
  <2>2. CASE viewTimer.run # ViewNoRun
    <3>1. PICK run : run = viewTimer.run
      OBVIOUS
    <3>2. run \in ViewRuns
      BY <1>2, <2>2, <3>1, RvShapes DEF ViewRunsOrNone
    <3> QED BY <1>1, <1>2, <1>3, <2>2, <3>1, <3>2, RvAskOne
  <2> QED BY <2>1, <2>2
<1>5. viewTimer' \in [what : {"off", "all", "run"}, run : ViewRunsOrNone]
  BY <1>1 DEF ViewNoTimer, ViewRunsOrNone
<1>6. RvQuietShown
  BY <1>1 DEF RvQuietShown
<1>7. viewLists' \subseteq ViewSent \cup {ViewNoOne} /\ \A m \in ViewSent : m \in viewLists' => m \in viewLists
  BY <1>1, <1>2, <1>3, RvShapes
<1>8. ViewShape'
  BY <1>1, <1>2, <1>4, <1>5, <1>7, RvShapes, RvShapeIs
<1> QED BY <1>1, <1>4, <1>6, <1>7, <1>8, RvQuietDone DEF RvQuiet

LEMMA RvDelete == ASSUME ViewInv, NEW r \in ViewRuns, ViewDelete(r) PROVE RvStepDone
<1>1. /\ viewDeleted' = viewDeleted \cup {r} /\ viewLists' = viewLists \cup {ViewNoOne}
      /\ viewTimer' = viewTimer /\ viewAsked' = viewAsked /\ viewSelected' = viewSelected /\ viewShown' = viewShown
      /\ viewWire' = viewWire /\ viewSends' = viewSends /\ viewSpeaks' = viewSpeaks /\ viewStored' = viewStored
  BY DEF ViewDelete
<1>2. ViewShape /\ RvAsksMore(viewAsked)
  BY RvParts, RvAskSame
<1>3. viewLists' \subseteq ViewSent \cup {ViewNoOne} /\ \A m \in ViewSent : m \in viewLists' => m \in viewLists
  BY <1>1, <1>2, ViewAssumption, RvShapes
<1>4. viewDeleted' \subseteq ViewRuns
  BY <1>1, <1>2, RvShapes
<1>5. ViewShape'
  BY <1>1, <1>2, <1>3, <1>4, RvShapes, RvShapeIs
<1> QED BY <1>1, <1>2, <1>3, <1>5, RvQuietDone DEF RvQuiet, RvQuietShown

\* Nothing changes on view.
LEMMA RvSameDisplay == ASSUME ViewInv, viewShown' = viewShown PROVE ViewDisplay' /\ \A m \in ViewSent : RvSeenStays(m)
<1>1. ViewDisplay'
  BY RvParts, RvDisplayIs
<1> QED BY <1>1 DEF RvSeenStays

LEMMA RvSameTyped ==
    ASSUME ViewInv, viewShown' = viewShown, NEW m \in ViewSent,
           viewSends[m].at \notin {"unsent", "done"} => viewSends'[m].at \notin {"unsent", "done"}
    PROVE  RvTypedFor(m)
<1>1. m \in ViewIdsOf(viewShown, "typed") => viewSends[m].at \notin {"unsent", "done"}
  BY RvParts, RvIds DEF ViewSending, ViewAt
<1> QED BY <1>1 DEF RvTypedFor

\* Main tells an event, perhaps of what it has just stored.
LEMMA RvToldEvent ==
    ASSUME ViewInv, NEW x \in ViewEventType, viewWire' = Append(viewWire, x), viewShown' = viewShown,
           \A r \in ViewRuns : viewStored[r] \subseteq viewStored'[r],
           x.kind = "stream" => \A r \in ViewRuns : x.id \notin viewStored'[r],
           viewDeleted' = viewDeleted
    PROVE  RvTellsMore(viewWire') /\ ViewTold' /\ ViewErrors'
<1>1. x.kind \in ViewEventKinds /\ x.kind \notin ViewAnswerKinds /\ x \in ViewWireType
  BY DEF ViewEventType, ViewEventKinds, ViewAnswerKinds, ViewWireType
<1>2. ViewShape
  BY RvParts
<1>3. RvTellFits(x)
  BY <1>1 DEF RvTellFits
<1>4. RvTellsMore(viewWire') /\ RvGrown(viewWire, x, viewWire')
  BY <1>1, <1>2, <1>3, RvTellOne
<1>5. PICK run : run = viewShown.run
  OBVIOUS
<1>6. PICK said : said = ViewIdsOf(viewShown, "said")
  OBVIOUS
<1>7. /\ ViewToldAs(run, said, viewWire, viewStored) /\ run \in ViewRunsOrNone /\ (run = ViewNoRun => said = {})
      /\ \A i \in 1..Len(viewWire) : viewWire[i].run \in ViewRuns
  BY <1>5, <1>6, RvParts
<1>8. ViewToldAs(run, said, viewWire, viewStored')
  BY <1>7, RvToldMore
<1>9. (x.kind = "detail" => x.said = viewStored'[x.run]) /\ (x.kind = "stream" => \A r \in ViewRuns : x.id \notin viewStored'[r])
  BY <1>1 DEF ViewAnswerKinds
<1>10. ViewToldAs(run, said, viewWire', viewStored')
  BY <1>4, <1>7, <1>8, <1>9, RvToldAppends
<1>11. ViewTold'
  BY <1>5, <1>6, <1>10, RvToldIs
<1>12. ViewErrors'
  <2>1. ASSUME NEW i \in 1..Len(viewWire'), viewWire'[i].kind = "error" PROVE viewWire'[i].run \in viewDeleted'
    <3>1. CASE i \in 1..Len(viewWire)
      <4>1. viewWire'[i] = viewWire[i]
        BY <1>4, <3>1 DEF RvGrown
      <4> QED BY <2>1, <3>1, <4>1, RvParts DEF ViewErrors
    <3>2. CASE i = Len(viewWire) + 1
      <4>1. viewWire'[i] = x
        BY <1>4, <3>2 DEF RvGrown
      <4> QED BY <1>1, <2>1, <4>1 DEF ViewAnswerKinds
    <3>3. i \in 1..Len(viewWire) \/ i = Len(viewWire) + 1
      BY <1>4 DEF RvGrown
    <3> QED BY <3>1, <3>2, <3>3
  <2> QED BY <2>1 DEF ViewErrors
<1> QED BY <1>4, <1>11, <1>12

\* Neither the display nor the wire nor what is stored changes.
LEMMA RvToldSame ==
    ASSUME ViewInv, viewShown'.run = viewShown.run, ViewIdsOf(viewShown', "said") = ViewIdsOf(viewShown, "said"),
           viewWire' = viewWire, viewStored' = viewStored, viewDeleted' = viewDeleted
    PROVE  RvTellsMore(viewWire') /\ ViewTold' /\ ViewErrors'
<1>1. RvTellsMore(viewWire')
  BY RvParts, RvTellSame
<1>2. ViewTold'
  BY RvParts, RvToldIs
<1>3. ViewErrors'
  BY RvParts DEF ViewErrors
<1> QED BY <1>1, <1>2, <1>3

LEMMA RvSendChanges ==
    ASSUME ViewShape, NEW m \in ViewSent, NEW s \in RvSendType, viewSends' = [viewSends EXCEPT ![m] = s]
    PROVE  /\ viewSends' \in [ViewSent -> RvSendType] /\ viewSends'[m] = s
           /\ \A n \in ViewSent : n # m => viewSends'[n] = viewSends[n]
  BY DEF ViewShape, RvSendType

LEMMA RvSend == ASSUME ViewInv, NEW m \in ViewSent, ViewSend(m) PROVE RvStepDone
<1>1. /\ viewSends[m].at = "unsent" /\ viewSelected # ViewNoRun /\ viewShown.run # ViewNoRun
      /\ viewSends' = [viewSends EXCEPT ![m] = [at |-> "sent", run |-> viewSelected]]
      /\ viewShown' = IF viewShown.run # viewSelected THEN viewShown
                      ELSE [viewShown EXCEPT !.entries = @ \cup {ViewEntry("typed", viewSelected, m)}]
      /\ viewSelected' = viewSelected /\ viewTimer' = viewTimer /\ viewAsked' = viewAsked /\ viewWire' = viewWire
      /\ viewLists' = viewLists /\ viewSpeaks' = viewSpeaks /\ viewStored' = viewStored /\ viewDeleted' = viewDeleted
  BY DEF ViewSend
<1>2. ViewShape /\ viewShown \in ViewShownType
  BY RvParts
<1>3. PICK to : to = viewSelected
  OBVIOUS
<1>4. to \in ViewRuns
  BY <1>1, <1>2, <1>3, RvShapes DEF ViewRunsOrNone
<1>5. PICK s : s = [at |-> "sent", run |-> to]
  OBVIOUS
<1>6. s \in RvSendType /\ s.at = "sent" /\ s.run = to
  BY <1>4, <1>5 DEF RvSendType, ViewPlaces, ViewRunsOrNone
<1>7. /\ viewSends' \in [ViewSent -> RvSendType] /\ viewSends'[m] = s
      /\ \A n \in ViewSent : n # m => viewSends'[n] = viewSends[n]
  BY <1>1, <1>2, <1>3, <1>5, <1>6, RvSendChanges
<1>8. \/ viewShown' = viewShown
      \/ viewShown.run = to /\ RvAdded(viewShown, "typed", m, viewShown')
  <2>1. CASE viewShown.run # to
    BY <1>1, <1>3, <2>1
  <2>2. CASE viewShown.run = to
    <3>1. viewShown' = [viewShown EXCEPT !.entries = @ \cup {ViewEntry("typed", to, m)}]
      BY <1>1, <1>3, <2>2
    <3>2. m \in ViewSaid \cup {"call"}
      BY DEF ViewSaid
    <3>3. RvAdded(viewShown, "typed", m, viewShown')
      BY <1>2, <1>4, <3>1, <3>2, RvIdsAdd
    <3> QED BY <2>2, <3>3
  <2> QED BY <2>1, <2>2
<1>9. m \notin ViewIdsOf(viewShown, "said") /\ m \notin ViewIdsOf(viewShown, "typed")
  <2>1. \A r \in ViewRuns : m \notin viewStored[r]
    BY <1>1, RvParts DEF ViewSending, ViewAt
  <2>2. ViewIdsOf(viewShown, "said") \subseteq viewStored[viewShown.run] /\ viewShown.run \in ViewRuns
    BY <1>1, RvParts DEF ViewToldAs, ViewRunsOrNone
  <2>3. m \notin ViewIdsOf(viewShown, "typed")
    BY <1>1, RvParts, RvIds DEF ViewSending, ViewAt
  <2> QED BY <2>1, <2>2, <2>3
<1>10. /\ viewShown' \in ViewShownType /\ viewShown'.run = viewShown.run
       /\ ViewIdsOf(viewShown', "said") = ViewIdsOf(viewShown, "said")
       /\ ViewIdsOf(viewShown', "stream") = ViewIdsOf(viewShown, "stream")
       /\ ViewIdsOf(viewShown, "typed") \subseteq ViewIdsOf(viewShown', "typed")
       /\ ViewIdsOf(viewShown', "typed") \subseteq ViewIdsOf(viewShown, "typed") \cup {m}
       /\ m \in ViewIdsOf(viewShown', "typed") => viewShown.run = to
  <2>1. CASE viewShown' = viewShown
    BY <1>2, <1>9, <2>1
  <2>2. CASE viewShown.run = to /\ RvAdded(viewShown, "typed", m, viewShown')
    BY <2>2 DEF RvAdded
  <2> QED BY <1>8, <2>1, <2>2
<1>11. ViewDisplay'
  BY <1>1, <1>9, <1>10, RvParts, RvDisplayIs
<1>12. RvTellsMore(viewWire') /\ ViewTold' /\ ViewErrors'
  BY <1>1, <1>10, RvToldSame
<1>13. RvAsksMore(viewAsked')
  BY <1>1, <1>2, RvAskSame
<1>14. ViewShape'
  BY <1>1, <1>2, <1>7, <1>10, <1>12, <1>13, RvShapes, RvShapeIs
<1>15. ASSUME NEW n \in ViewSent PROVE RvStepFor(n)
  <2>1. RvSendFor(n)
    <3>1. CASE n = m
      <4>1. viewSends'[m].at = "sent" /\ viewSends'[m].run \in ViewRuns /\ viewSends[m].at = "unsent"
        BY <1>1, <1>4, <1>6, <1>7
      <4> QED BY <1>1, <3>1, <4>1 DEF RvSendFor, RvMoves
    <3>2. CASE n # m
      BY <1>1, <1>7, <3>2 DEF RvSendFor, RvMoves
    <3> QED BY <3>1, <3>2
  <2>2. RvTypedFor(n)
    <3>1. CASE n = m
      BY <1>6, <1>7, <1>10, <3>1 DEF RvTypedFor
    <3>2. CASE n # m
      <4>1. n \in ViewIdsOf(viewShown, "typed") => viewSends[n].at \notin {"unsent", "done"}
        BY RvParts, RvIds DEF ViewSending, ViewAt
      <4> QED BY <1>7, <1>10, <3>2, <4>1 DEF RvTypedFor
    <3> QED BY <3>1, <3>2
  <2> QED BY <1>12, <1>13, <2>1, <2>2, RvStepMade
<1>16. ASSUME NEW n \in ViewSent PROVE RvSeenStays(n)
  BY <1>10 DEF RvSeenStays
<1> QED BY <1>11, <1>12, <1>14, <1>15, <1>16 DEF RvStepDone

LEMMA RvSendMoves ==
    ASSUME ViewShape, NEW m \in ViewSent, NEW at \in ViewPlaces, viewSends' = [viewSends EXCEPT ![m].at = at]
    PROVE  /\ viewSends' \in [ViewSent -> RvSendType] /\ viewSends'[m].at = at /\ viewSends'[m].run = viewSends[m].run
           /\ \A n \in ViewSent : n # m => viewSends'[n] = viewSends[n]
<1>1. viewSends \in [ViewSent -> RvSendType]
  BY RvShapes
<1>2. PICK s : s = [viewSends[m] EXCEPT !.at = at]
  OBVIOUS
<1>3. s \in RvSendType /\ s.at = at /\ s.run = viewSends[m].run
  BY <1>1, <1>2 DEF RvSendType
<1>4. viewSends' = [viewSends EXCEPT ![m] = s]
  BY <1>1, <1>2
<1> QED BY <1>1, <1>3, <1>4

\* A sending moves on while nothing changes on view.
LEMMA RvMoved ==
    ASSUME ViewInv, NEW m \in ViewSent, NEW at \in ViewPlaces, viewSends' = [viewSends EXCEPT ![m].at = at],
           RvMoves(viewSends[m].at, at), at \notin {"unsent", "done"}, viewSends[m].at # "unsent",
           \A r \in ViewRuns : viewStored[r] \subseteq viewStored'[r] /\ viewStored'[r] \subseteq viewStored[r] \cup {m},
           at = "stored" => m \in viewStored'[viewSends[m].run],
           \A n \in ViewSent : n \in viewLists' => n \in viewLists \/ (n = m /\ at \in RvOver),
           viewShown' = viewShown, NEW n \in ViewSent
    PROVE  RvSendFor(n) /\ RvTypedFor(n)
<1>1. /\ viewSends'[m].at = at /\ viewSends'[m].run = viewSends[m].run
      /\ \A k \in ViewSent : k # m => viewSends'[k] = viewSends[k]
  BY RvParts, RvSendMoves
<1>2. CASE n = m
  <2>1. RvSendFor(n)
    BY <1>1, <1>2 DEF RvSendFor
  <2>2. RvTypedFor(n)
    BY <1>1, <1>2, RvSameTyped
  <2> QED BY <2>1, <2>2
<1>3. CASE n # m
  <2>1. RvSendFor(n)
    BY <1>1, <1>3 DEF RvSendFor, RvMoves
  <2>2. RvTypedFor(n)
    BY <1>1, <1>3, RvSameTyped
  <2> QED BY <2>1, <2>2
<1> QED BY <1>2, <1>3

LEMMA RvStores == ASSUME ViewInv, NEW m \in ViewSent, ViewStores(m) PROVE RvStepDone
<1>1. PICK to : to = viewSends[m].run
  OBVIOUS
<1>2. PICK x : x = [kind |-> "run", run |-> to, id |-> ViewNoOne]
  OBVIOUS
<1>3. /\ viewSends[m].at = "sent" /\ to \notin viewDeleted
      /\ viewSends' = [viewSends EXCEPT ![m].at = "stored"]
      /\ viewStored' = [viewStored EXCEPT ![to] = @ \cup {m}]
      /\ viewWire' = Append(viewWire, x)
      /\ viewSelected' = viewSelected /\ viewShown' = viewShown /\ viewTimer' = viewTimer /\ viewAsked' = viewAsked
      /\ viewLists' = viewLists /\ viewSpeaks' = viewSpeaks /\ viewDeleted' = viewDeleted
  BY <1>1, <1>2 DEF ViewStores, ViewTell
<1>4. ViewShape /\ ViewSending(m)
  BY RvParts
<1>5. to \in ViewRuns
  BY <1>1, <1>3, <1>4 DEF ViewSending, ViewAt
<1>6. /\ viewStored' \in [ViewRuns -> SUBSET ViewSaid] /\ m \in viewStored'[to]
      /\ \A r \in ViewRuns : viewStored[r] \subseteq viewStored'[r] /\ viewStored'[r] \subseteq viewStored[r] \cup {m}
  <2>1. viewStored \in [ViewRuns -> SUBSET ViewSaid] /\ m \in ViewSaid
    BY <1>4, RvShapes DEF ViewSaid
  <2> QED BY <1>3, <1>5, <2>1
<1>7. x \in ViewEventType /\ x.kind = "run"
  BY <1>2, <1>5 DEF ViewEventType
<1>8. RvTellsMore(viewWire') /\ ViewTold' /\ ViewErrors'
  BY <1>3, <1>6, <1>7, RvToldEvent
<1>9. RvAsksMore(viewAsked')
  BY <1>3, <1>4, RvAskSame
<1>10. viewSends' \in [ViewSent -> RvSendType]
  BY <1>3, <1>4, RvSendMoves DEF ViewPlaces
<1>11. ViewShape'
  BY <1>3, <1>4, <1>6, <1>8, <1>9, <1>10, RvShapes, RvShapeIs
<1>12. ASSUME NEW n \in ViewSent PROVE RvStepFor(n)
  <2>1. PICK at : at = "stored"
    OBVIOUS
  <2>2. at \in ViewPlaces /\ RvMoves(viewSends[m].at, at) /\ at \notin {"unsent", "done"} /\ viewSends[m].at # "unsent"
    BY <1>3, <2>1 DEF ViewPlaces, RvMoves
  <2>3. viewSends' = [viewSends EXCEPT ![m].at = at] /\ viewShown' = viewShown
    BY <1>3, <2>1
  <2>4. at = "stored" => m \in viewStored'[viewSends[m].run]
    BY <1>1, <1>6
  <2>5. \A k \in ViewSent : k \in viewLists' => k \in viewLists \/ (k = m /\ at \in RvOver)
    BY <1>3
  <2>6. RvSendFor(n) /\ RvTypedFor(n)
    BY <1>6, <2>2, <2>3, <2>4, <2>5, RvMoved
  <2> QED BY <1>8, <1>9, <2>6, RvStepMade
<1> QED BY <1>3, <1>8, <1>11, <1>12, RvSameDisplay DEF RvStepDone

LEMMA RvThrows == ASSUME ViewInv, NEW m \in ViewSent, ViewThrows(m) PROVE RvStepDone
<1>1. PICK to : to = viewSends[m].run
  OBVIOUS
<1>2. PICK at : at = IF viewSends[m].at = "sent" THEN "refused" ELSE "returned"
  OBVIOUS
<1>3. /\ viewSends[m].at \in {"sent", "stored"}
      /\ viewSends' = [viewSends EXCEPT ![m].at = IF @ = "sent" THEN "refused" ELSE "returned"]
      /\ viewAsked' = ViewAsk(viewAsked, to, m)
      /\ viewSelected' = viewSelected /\ viewShown' = viewShown /\ viewTimer' = viewTimer /\ viewWire' = viewWire
      /\ viewLists' = viewLists /\ viewSpeaks' = viewSpeaks /\ viewStored' = viewStored /\ viewDeleted' = viewDeleted
  BY <1>1 DEF ViewThrows
<1>4. ViewShape /\ ViewSending(m)
  BY RvParts
<1>5. viewSends' = [viewSends EXCEPT ![m].at = at]
  <2>1. viewSends \in [ViewSent -> RvSendType]
    BY <1>4, RvShapes
  <2> QED BY <1>2, <1>3, <2>1
<1>6. at \in ViewPlaces /\ at \in RvOver /\ at \notin {"unsent", "done"} /\ RvMoves(viewSends[m].at, at)
  BY <1>2, <1>3 DEF ViewPlaces, RvOver, RvMoves
<1>7. /\ viewSends' \in [ViewSent -> RvSendType] /\ viewSends'[m].at = at /\ viewSends'[m].run = to
  BY <1>1, <1>4, <1>5, <1>6, RvSendMoves
<1>8. to \in ViewRuns
  BY <1>1, <1>3, <1>4 DEF ViewSending, ViewAt
<1>9. RvAsksMore(viewAsked')
  BY <1>3, <1>4, <1>6, <1>7, <1>8, RvAskSame, RvAskOne
<1>10. RvTellsMore(viewWire') /\ ViewTold' /\ ViewErrors'
  BY <1>3, RvToldSame
<1>11. ViewShape'
  BY <1>3, <1>4, <1>7, <1>9, <1>10, RvShapes, RvShapeIs
<1>12. ASSUME NEW n \in ViewSent PROVE RvStepFor(n)
  <2>1. \A r \in ViewRuns : viewStored[r] \subseteq viewStored'[r] /\ viewStored'[r] \subseteq viewStored[r] \cup {m}
    BY <1>3
  <2>2. at # "stored" /\ viewSends[m].at # "unsent"
    BY <1>2, <1>3
  <2>3. \A k \in ViewSent : k \in viewLists' => k \in viewLists \/ (k = m /\ at \in RvOver)
    BY <1>3
  <2>4. RvSendFor(n) /\ RvTypedFor(n)
    BY <1>3, <1>5, <1>6, <2>1, <2>2, <2>3, RvMoved
  <2> QED BY <1>9, <1>10, <2>4, RvStepMade
<1> QED BY <1>3, <1>10, <1>11, <1>12, RvSameDisplay DEF RvStepDone

LEMMA RvSendReturns == ASSUME ViewInv, NEW m \in ViewSent, ViewSendReturns(m) PROVE RvStepDone
<1>1. /\ viewSends[m].at = "stored" /\ viewSends' = [viewSends EXCEPT ![m].at = "returned"]
      /\ viewLists' = viewLists \cup {m} /\ viewAsked' = viewAsked
      /\ viewSelected' = viewSelected /\ viewShown' = viewShown /\ viewTimer' = viewTimer /\ viewWire' = viewWire
      /\ viewSpeaks' = viewSpeaks /\ viewStored' = viewStored /\ viewDeleted' = viewDeleted
  BY DEF ViewSendReturns
<1>2. ViewShape
  BY RvParts
<1>3. PICK at : at = "returned"
  OBVIOUS
<1>4. at \in ViewPlaces /\ at \in RvOver /\ at \notin {"unsent", "done"} /\ RvMoves(viewSends[m].at, at)
  BY <1>1, <1>3 DEF ViewPlaces, RvOver, RvMoves
<1>5. viewSends' = [viewSends EXCEPT ![m].at = at]
  BY <1>1, <1>3
<1>6. viewSends' \in [ViewSent -> RvSendType]
  BY <1>2, <1>4, <1>5, RvSendMoves
<1>7. RvAsksMore(viewAsked')
  BY <1>1, <1>2, RvAskSame
<1>8. RvTellsMore(viewWire') /\ ViewTold' /\ ViewErrors'
  BY <1>1, RvToldSame
<1>9. ViewShape'
  <2>1. viewLists' \subseteq ViewSent \cup {ViewNoOne}
    BY <1>1, <1>2, RvShapes
  <2> QED BY <1>1, <1>2, <1>6, <1>7, <1>8, <2>1, RvShapes, RvShapeIs
<1>10. ASSUME NEW n \in ViewSent PROVE RvStepFor(n)
  <2>1. \A r \in ViewRuns : viewStored[r] \subseteq viewStored'[r] /\ viewStored'[r] \subseteq viewStored[r] \cup {m}
    BY <1>1
  <2>2. at # "stored" /\ viewSends[m].at # "unsent"
    BY <1>1, <1>3
  <2>3. \A k \in ViewSent : k \in viewLists' => k \in viewLists \/ (k = m /\ at \in RvOver)
    BY <1>1, <1>4
  <2>4. RvSendFor(n) /\ RvTypedFor(n)
    BY <1>1, <1>4, <1>5, <2>1, <2>2, <2>3, RvMoved
  <2> QED BY <1>7, <1>8, <2>4, RvStepMade
<1> QED BY <1>1, <1>8, <1>9, <1>10, RvSameDisplay DEF RvStepDone

\* The agent says something, or a tool ends: Main tells it and stores it.
RvSays(x) ==
    /\ x \in ViewEventType /\ viewWire' = Append(viewWire, x)
    /\ viewStored' \in [ViewRuns -> SUBSET ViewSaid] /\ viewSpeaks' \in [ViewReplies -> ViewRunsOrNone]
    /\ \A r \in ViewRuns : viewStored[r] \subseteq viewStored'[r] /\ viewStored'[r] \subseteq viewStored[r] \cup ViewReplies
    /\ x.kind = "stream" => \A r \in ViewRuns : x.id \notin viewStored'[r]
    /\ viewSelected' = viewSelected /\ viewShown' = viewShown /\ viewTimer' = viewTimer /\ viewAsked' = viewAsked
    /\ viewLists' = viewLists /\ viewSends' = viewSends /\ viewDeleted' = viewDeleted

LEMMA RvSaysDone == ASSUME ViewInv, NEW x, RvSays(x) PROVE RvStepDone
<1>1. /\ x \in ViewEventType /\ viewWire' = Append(viewWire, x)
      /\ viewStored' \in [ViewRuns -> SUBSET ViewSaid] /\ viewSpeaks' \in [ViewReplies -> ViewRunsOrNone]
      /\ \A r \in ViewRuns : viewStored[r] \subseteq viewStored'[r] /\ viewStored'[r] \subseteq viewStored[r] \cup ViewReplies
      /\ x.kind = "stream" => \A r \in ViewRuns : x.id \notin viewStored'[r]
      /\ viewSelected' = viewSelected /\ viewShown' = viewShown /\ viewTimer' = viewTimer /\ viewAsked' = viewAsked
      /\ viewLists' = viewLists /\ viewSends' = viewSends /\ viewDeleted' = viewDeleted
  BY DEF RvSays
<1>2. ViewShape
  BY RvParts
<1>3. RvTellsMore(viewWire') /\ ViewTold' /\ ViewErrors'
  BY <1>1, RvToldEvent
<1>4. RvAsksMore(viewAsked')
  BY <1>1, <1>2, RvAskSame
<1>5. ViewShape'
  BY <1>1, <1>2, <1>3, <1>4, RvShapes, RvShapeIs
<1>6. ASSUME NEW m \in ViewSent PROVE RvStepFor(m)
  <2>1. m \notin ViewReplies
    BY ViewAssumption
  <2>2. RvSendFor(m)
    BY <1>1, <2>1 DEF RvSendFor, RvMoves
  <2>3. RvTypedFor(m)
    BY <1>1, RvSameTyped
  <2> QED BY <1>3, <1>4, <2>2, <2>3, RvStepMade
<1> QED BY <1>1, <1>3, <1>5, <1>6, RvSameDisplay DEF RvStepDone

LEMMA RvSpeak == ASSUME ViewInv, NEW a \in ViewReplies, NEW r \in ViewRuns, ViewSpeak(a, r) PROVE RvStepDone
<1>1. PICK x : x = [kind |-> "stream", run |-> r, id |-> a]
  OBVIOUS
<1>2. /\ \A s \in ViewRuns : a \notin viewStored[s]
      /\ viewSpeaks' = [viewSpeaks EXCEPT ![a] = r] /\ viewWire' = Append(viewWire, x)
      /\ viewSelected' = viewSelected /\ viewShown' = viewShown /\ viewTimer' = viewTimer /\ viewAsked' = viewAsked
      /\ viewLists' = viewLists /\ viewSends' = viewSends /\ viewStored' = viewStored /\ viewDeleted' = viewDeleted
  BY <1>1 DEF ViewSpeak, ViewTell
<1>3. viewStored \in [ViewRuns -> SUBSET ViewSaid] /\ viewSpeaks \in [ViewReplies -> ViewRunsOrNone]
  BY RvParts, RvShapes
<1>4. x \in ViewEventType /\ x.kind = "stream" /\ x.id = a
  BY <1>1 DEF ViewEventType
<1>5. viewSpeaks' \in [ViewReplies -> ViewRunsOrNone]
  BY <1>2, <1>3 DEF ViewRunsOrNone
<1>6. RvSays(x)
  BY <1>2, <1>3, <1>4, <1>5 DEF RvSays
<1> QED BY <1>6, RvSaysDone

LEMMA RvSpoken == ASSUME ViewInv, NEW a \in ViewReplies, ViewSpoken(a) PROVE RvStepDone
<1>1. PICK to : to = viewSpeaks[a]
  OBVIOUS
<1>2. PICK x : x = [kind |-> "run", run |-> to, id |-> a]
  OBVIOUS
<1>3. /\ to \notin viewDeleted \cup {ViewNoRun}
      /\ viewStored' = [viewStored EXCEPT ![to] = @ \cup {a}]
      /\ viewSpeaks' = [viewSpeaks EXCEPT ![a] = ViewNoRun] /\ viewWire' = Append(viewWire, x)
      /\ viewSelected' = viewSelected /\ viewShown' = viewShown /\ viewTimer' = viewTimer /\ viewAsked' = viewAsked
      /\ viewLists' = viewLists /\ viewSends' = viewSends /\ viewDeleted' = viewDeleted
  BY <1>1, <1>2 DEF ViewSpoken, ViewTell
<1>4. viewStored \in [ViewRuns -> SUBSET ViewSaid] /\ viewSpeaks \in [ViewReplies -> ViewRunsOrNone]
  BY RvParts, RvShapes
<1>5. to \in ViewRuns /\ a \in ViewSaid
  BY <1>1, <1>3, <1>4 DEF ViewRunsOrNone, ViewSaid
<1>6. x \in ViewEventType /\ x.kind = "run"
  BY <1>2, <1>5 DEF ViewEventType
<1>7. viewSpeaks' \in [ViewReplies -> ViewRunsOrNone]
  BY <1>3, <1>4 DEF ViewRunsOrNone
<1>8. /\ viewStored' \in [ViewRuns -> SUBSET ViewSaid]
      /\ \A r \in ViewRuns : viewStored[r] \subseteq viewStored'[r] /\ viewStored'[r] \subseteq viewStored[r] \cup ViewReplies
  BY <1>3, <1>4, <1>5
<1>9. RvSays(x)
  BY <1>3, <1>6, <1>7, <1>8 DEF RvSays
<1> QED BY <1>9, RvSaysDone

LEMMA RvTool == ASSUME ViewInv, NEW r \in ViewRuns, ViewTool(r) PROVE RvStepDone
<1>1. PICK x : x = [kind |-> "tool", run |-> r, id |-> "call"]
  OBVIOUS
<1>2. /\ viewWire' = Append(viewWire, x) /\ viewSpeaks' = viewSpeaks
      /\ viewSelected' = viewSelected /\ viewShown' = viewShown /\ viewTimer' = viewTimer /\ viewAsked' = viewAsked
      /\ viewLists' = viewLists /\ viewSends' = viewSends /\ viewStored' = viewStored /\ viewDeleted' = viewDeleted
  BY <1>1 DEF ViewTool, ViewTell
<1>3. viewStored \in [ViewRuns -> SUBSET ViewSaid] /\ viewSpeaks \in [ViewReplies -> ViewRunsOrNone]
  BY RvParts, RvShapes
<1>4. x \in ViewEventType /\ x.kind = "tool"
  BY <1>1 DEF ViewEventType
<1>5. RvSays(x)
  BY <1>2, <1>3, <1>4 DEF RvSays
<1> QED BY <1>5, RvSaysDone

LEMMA RvMainAnswers == ASSUME ViewInv, ViewMainAnswers PROVE RvStepDone
<1>1. PICK ask : ask = Head(viewAsked)
  OBVIOUS
<1>2. PICK x : x = IF ask.run \in viewDeleted THEN [kind |-> "error", run |-> ask.run, id |-> ask.for]
                   ELSE [kind |-> "detail", run |-> ask.run, id |-> ask.for, said |-> viewStored[ask.run]]
  OBVIOUS
<1>3. /\ viewAsked # <<>> /\ viewAsked' = Tail(viewAsked) /\ viewWire' = Append(viewWire, x)
      /\ viewSelected' = viewSelected /\ viewShown' = viewShown /\ viewTimer' = viewTimer /\ viewSpeaks' = viewSpeaks
      /\ viewLists' = viewLists /\ viewSends' = viewSends /\ viewStored' = viewStored /\ viewDeleted' = viewDeleted
  BY <1>1, <1>2 DEF ViewMainAnswers
<1>4. ViewShape
  BY RvParts
<1>5. RvAsksMore(viewAsked')
  BY <1>3, <1>4, RvAskTail
<1>6. ask \in ViewAskType /\ ask = viewAsked[1] /\ 1 \in 1..Len(viewAsked)
  <2>1. viewAsked \in Seq(ViewAskType)
    BY <1>4 DEF ViewShape, ViewAskType
  <2>2. RvShorter(viewAsked, viewAsked') /\ viewAsked[1] \in ViewAskType
    BY <1>3, <2>1, RvTaken
  <2> QED BY <1>1, <2>2 DEF RvShorter
<1>7. ask.run \in ViewRuns /\ ask.for \in ViewSent \cup {ViewNoOne}
  BY <1>6 DEF ViewAskType
<1>8. viewStored[ask.run] \subseteq ViewSaid
  BY <1>4, <1>7, RvShapes
<1>9. /\ x \in ViewWireType /\ x.run = ask.run /\ x.id = ask.for /\ x.kind \in ViewAnswerKinds
      /\ x.kind = "detail" => x.said = viewStored[ask.run]
      /\ x.kind = "error" => ask.run \in viewDeleted
  <2>1. CASE ask.run \in viewDeleted
    <3>1. x = [kind |-> "error", run |-> ask.run, id |-> ask.for]
      BY <1>2, <2>1
    <3>2. x \in ViewErrorType /\ x.run = ask.run /\ x.id = ask.for /\ x.kind = "error"
      BY <1>7, <3>1 DEF ViewErrorType
    <3> QED BY <2>1, <3>2 DEF ViewWireType, ViewAnswerKinds
  <2>2. CASE ask.run \notin viewDeleted
    <3>1. x = [kind |-> "detail", run |-> ask.run, id |-> ask.for, said |-> viewStored[ask.run]]
      BY <1>2, <2>2
    <3>2. x \in ViewDetailType /\ x.run = ask.run /\ x.id = ask.for /\ x.kind = "detail" /\ x.said = viewStored[ask.run]
      BY <1>7, <1>8, <3>1 DEF ViewDetailType
    <3> QED BY <3>2 DEF ViewWireType, ViewAnswerKinds
  <2> QED BY <2>1, <2>2
<1>10. RvTellFits(x)
  <2>1. ASSUME x.id \in ViewSent
        PROVE  /\ viewSends'[x.id].at \in RvOver /\ x.run = viewSends'[x.id].run
               /\ x.kind = "detail" /\ viewSends'[x.id].at = "returned" => x.id \in x.said
    <3>1. PICK m \in ViewSent : m = x.id
      BY <2>1
    <3>2. ViewSending(m)
      BY RvParts
    <3>3. viewSends[m].at \in RvOver /\ ask.run = viewSends[m].run
      BY <1>6, <1>9, <3>1, <3>2 DEF ViewSending, ViewWaits, ViewAt, RvOver
    <3>4. viewSends[m].at = "returned" => m \in viewStored[ask.run]
      BY <3>2, <3>3 DEF ViewSending, ViewAt
    <3> QED BY <1>3, <1>9, <3>1, <3>3, <3>4
  <2> QED BY <2>1 DEF RvTellFits
<1>11. RvTellsMore(viewWire') /\ RvGrown(viewWire, x, viewWire')
  BY <1>3, <1>4, <1>9, <1>10, RvTellOne
<1>12. ViewTold'
  <2>1. PICK run : run = viewShown.run
    OBVIOUS
  <2>2. PICK said : said = ViewIdsOf(viewShown, "said")
    OBVIOUS
  <2>3. /\ ViewToldAs(run, said, viewWire, viewStored) /\ run \in ViewRunsOrNone /\ (run = ViewNoRun => said = {})
        /\ \A i \in 1..Len(viewWire) : viewWire[i].run \in ViewRuns
    BY <2>1, <2>2, RvParts
  <2>4. (x.kind = "detail" => x.said = viewStored[x.run]) /\ (x.kind = "stream" => \A r \in ViewRuns : x.id \notin viewStored[r])
    BY <1>9 DEF ViewAnswerKinds
  <2>5. ViewToldAs(run, said, viewWire', viewStored)
    BY <1>11, <2>3, <2>4, RvToldAppends
  <2> QED BY <1>3, <2>1, <2>2, <2>5, RvToldIs
<1>13. ViewErrors'
  <2>1. ASSUME NEW i \in 1..Len(viewWire'), viewWire'[i].kind = "error" PROVE viewWire'[i].run \in viewDeleted'
    <3>1. CASE i \in 1..Len(viewWire)
      <4>1. viewWire'[i] = viewWire[i]
        BY <1>11, <3>1 DEF RvGrown
      <4> QED BY <1>3, <2>1, <3>1, <4>1, RvParts DEF ViewErrors
    <3>2. CASE i = Len(viewWire) + 1
      <4>1. viewWire'[i] = x
        BY <1>11, <3>2 DEF RvGrown
      <4> QED BY <1>3, <1>9, <2>1, <4>1
    <3>3. i \in 1..Len(viewWire) \/ i = Len(viewWire) + 1
      BY <1>11 DEF RvGrown
    <3> QED BY <3>1, <3>2, <3>3
  <2> QED BY <2>1 DEF ViewErrors
<1>14. ViewShape'
  BY <1>3, <1>4, <1>5, <1>11, RvShapes, RvShapeIs
<1>15. ASSUME NEW m \in ViewSent PROVE RvStepFor(m)
  <2>1. RvSendFor(m)
    BY <1>3 DEF RvSendFor, RvMoves
  <2>2. RvTypedFor(m)
    BY <1>3, RvSameTyped
  <2> QED BY <1>5, <1>11, <2>1, <2>2, RvStepMade
<1> QED BY <1>3, <1>12, <1>13, <1>14, <1>15, RvSameDisplay DEF RvStepDone

\* The first on the wire is taken; the display becomes that of the run and the ids given.
LEMMA RvTaking ==
    ASSUME ViewInv, viewWire # <<>>, viewWire' = Tail(viewWire), viewStored' = viewStored, viewDeleted' = viewDeleted,
           \/ viewShown'.run = viewShown.run /\ ViewIdsOf(viewShown', "said") = ViewIdsOf(viewShown, "said")
           \/ /\ Head(viewWire).kind = "detail" /\ viewShown'.run = Head(viewWire).run
              /\ ViewIdsOf(viewShown', "said") = Head(viewWire).said
    PROVE  /\ RvTellsMore(viewWire') /\ ViewTold' /\ ViewErrors' /\ Head(viewWire) = viewWire[1] /\ 1 \in 1..Len(viewWire)
           /\ viewWire[1] \in ViewWireType
<1>1. ViewShape
  BY RvParts
<1>2. RvTellsMore(viewWire') /\ RvShorter(viewWire, viewWire')
  BY <1>1, RvTellTail
<1>3. Head(viewWire) = viewWire[1] /\ 1 \in 1..Len(viewWire)
  BY <1>2 DEF RvShorter
<1>4. PICK run : run = viewShown.run
  OBVIOUS
<1>5. PICK said : said = ViewIdsOf(viewShown, "said")
  OBVIOUS
<1>6. PICK run2 : run2 = viewShown'.run
  OBVIOUS
<1>7. PICK said2 : said2 = ViewIdsOf(viewShown', "said")
  OBVIOUS
<1>8. \/ run2 = run /\ said2 = said
      \/ viewWire[1].kind = "detail" /\ run2 = viewWire[1].run /\ said2 = viewWire[1].said
  BY <1>3, <1>4, <1>5, <1>6, <1>7
<1>9. ViewToldAs(run, said, viewWire, viewStored)
  BY <1>4, <1>5, RvParts
<1>10. ViewToldAs(run2, said2, viewWire', viewStored)
  BY <1>2, <1>8, <1>9, RvToldTakes
<1>11. ViewTold'
  BY <1>6, <1>7, <1>10, RvToldIs
<1>12. ViewErrors'
  <2>1. ASSUME NEW i \in 1..Len(viewWire'), viewWire'[i].kind = "error" PROVE viewWire'[i].run \in viewDeleted'
    <3>1. PICK k : k = i + 1
      OBVIOUS
    <3>2. viewWire'[i] = viewWire[k] /\ k \in 1..Len(viewWire)
      BY <1>2, <3>1 DEF RvShorter
    <3> QED BY <2>1, <3>2, RvParts DEF ViewErrors
  <2> QED BY <2>1 DEF ViewErrors
<1>13. viewWire[1] \in ViewWireType
  BY <1>1, <1>3 DEF ViewShape, ViewWireType
<1> QED BY <1>2, <1>3, <1>11, <1>12, <1>13

LEMMA RvEvent == ASSUME ViewInv, ViewEvent PROVE RvStepDone
<1>1. PICK event : event = Head(viewWire)
  OBVIOUS
<1>2. /\ viewWire # <<>> /\ event.kind \notin ViewAnswerKinds /\ viewWire' = Tail(viewWire)
      /\ \/ viewShown' = viewShown
         \/ event.kind \in {"stream", "tool"} /\ event.run = viewSelected /\ ViewAdds(event)
      /\ viewTimer' \in {viewTimer, [what |-> "all", run |-> viewSelected], [what |-> "run", run |-> viewSelected]}
      /\ viewSelected' = viewSelected /\ viewAsked' = viewAsked /\ viewSpeaks' = viewSpeaks
      /\ viewLists' = viewLists /\ viewSends' = viewSends /\ viewStored' = viewStored /\ viewDeleted' = viewDeleted
  BY <1>1 DEF ViewEvent, ViewAnswerKinds
<1>3. ViewShape /\ viewShown \in ViewShownType
  BY RvParts
<1>4. event = viewWire[1] /\ 1 \in 1..Len(viewWire)
  <2>1. RvShorter(viewWire, viewWire')
    BY <1>2, <1>3, RvTellTail
  <2> QED BY <1>1, <2>1 DEF RvShorter
<1>5. /\ event.run \in ViewRuns
      /\ event.kind = "stream" => event.id \in ViewReplies
      /\ event.kind = "tool" => event.id = "call"
  BY <1>3, <1>4, RvWireTypes
<1>6. \/ viewShown' = viewShown
      \/ event.kind \in {"stream", "tool"} /\ RvAdded(viewShown, event.kind, event.id, viewShown')
  <2>1. CASE viewShown' = viewShown
    BY <2>1
  <2>2. CASE event.kind \in {"stream", "tool"} /\ event.run = viewSelected /\ ViewAdds(event)
    <3>1. CASE ~ViewIsShown
      BY <2>2, <3>1 DEF ViewAdds
    <3>2. CASE ViewIsShown
      <4>1. viewShown' = [viewShown EXCEPT !.entries = @ \cup {ViewEntry(event.kind, event.run, event.id)}]
        BY <2>2, <3>2 DEF ViewAdds
      <4>2. event.id \in ViewSaid \cup {"call"} /\ event.kind \in {"said", "typed", "stream", "tool"}
        BY <1>5, <2>2 DEF ViewSaid
      <4>3. RvAdded(viewShown, event.kind, event.id, viewShown')
        BY <1>3, <1>5, <4>1, <4>2, RvIdsAdd
      <4> QED BY <2>2, <4>3
    <3> QED BY <3>1, <3>2
  <2> QED BY <1>2, <2>1, <2>2
<1>7. /\ viewShown' \in ViewShownType /\ viewShown'.run = viewShown.run
      /\ ViewIdsOf(viewShown', "said") = ViewIdsOf(viewShown, "said")
      /\ ViewIdsOf(viewShown', "typed") = ViewIdsOf(viewShown, "typed")
      /\ \/ ViewIdsOf(viewShown', "stream") = ViewIdsOf(viewShown, "stream")
         \/ event.kind = "stream" /\ ViewIdsOf(viewShown', "stream") = ViewIdsOf(viewShown, "stream") \cup {event.id}
  <2>1. CASE viewShown' = viewShown
    BY <1>3, <2>1
  <2>2. CASE event.kind = "stream" /\ RvAdded(viewShown, event.kind, event.id, viewShown')
    BY <2>2 DEF RvAdded
  <2>3. CASE event.kind = "tool" /\ RvAdded(viewShown, event.kind, event.id, viewShown')
    BY <2>3 DEF RvAdded
  <2> QED BY <1>6, <2>1, <2>2, <2>3
<1>8. event.kind = "stream" => event.id \notin ViewIdsOf(viewShown, "said")
  BY <1>4, RvParts DEF ViewToldAs
<1>9. viewShown'.run = ViewNoRun => viewShown'.entries = {}
  <2>1. CASE viewShown' = viewShown
    BY <2>1, RvParts
  <2>2. CASE viewShown' # viewShown
    <3>1. event.run = viewSelected /\ ViewAdds(event)
      BY <1>2, <2>2
    <3>2. ViewIsShown
      BY <2>2, <3>1 DEF ViewAdds
    <3>3. viewShown.run \in ViewRuns
      BY <1>5, <3>1, <3>2 DEF ViewIsShown
    <3> QED BY <1>7, <3>3, ViewAssumption
  <2> QED BY <2>1, <2>2
<1>10. ViewDisplay'
  BY <1>7, <1>8, <1>9, RvParts, RvDisplayIs
<1>11. RvTellsMore(viewWire') /\ ViewTold' /\ ViewErrors'
  BY <1>2, <1>7, RvTaking
<1>12. RvAsksMore(viewAsked')
  BY <1>2, <1>3, RvAskSame
<1>13. viewTimer' \in [what : {"off", "all", "run"}, run : ViewRunsOrNone]
  <2>1. viewSelected \in ViewRunsOrNone /\ viewTimer \in [what : {"off", "all", "run"}, run : ViewRunsOrNone]
    BY <1>3, RvShapes
  <2> QED BY <1>2, <2>1
<1>14. ViewShape'
  BY <1>2, <1>3, <1>7, <1>11, <1>12, <1>13, RvShapes, RvShapeIs
<1>15. ASSUME NEW m \in ViewSent PROVE RvStepFor(m) /\ RvSeenStays(m)
  <2>1. RvSendFor(m)
    BY <1>2 DEF RvSendFor, RvMoves
  <2>2. m \in ViewIdsOf(viewShown, "typed") => viewSends[m].at \notin {"unsent", "done"}
    BY RvParts, RvIds DEF ViewSending, ViewAt
  <2>3. RvTypedFor(m)
    BY <1>2, <1>7, <2>2 DEF RvTypedFor
  <2>4. RvSeenStays(m)
    BY <1>7 DEF RvSeenStays
  <2> QED BY <1>11, <1>12, <2>1, <2>3, <2>4, RvStepMade
<1> QED BY <1>10, <1>11, <1>14, <1>15 DEF RvStepDone

\* What an answer leaves on view.
RvErrorShown(answer, new) ==
    /\ answer.kind = "error" /\ new \in ViewShownType /\ new.run = viewShown.run
    /\ ViewIdsOf(new, "said") = ViewIdsOf(viewShown, "said") /\ ViewIdsOf(new, "stream") = ViewIdsOf(viewShown, "stream")
    /\ ViewIdsOf(new, "typed") = IF viewShown.run = answer.run THEN ViewIdsOf(viewShown, "typed") \ {answer.id}
                                 ELSE ViewIdsOf(viewShown, "typed")
    /\ viewShown.entries = {} => new.entries = {}
RvDetailShown(answer, new) ==
    /\ answer.kind = "detail" /\ new \in ViewShownType /\ new.run = answer.run
    /\ ViewIdsOf(new, "said") = answer.said /\ ViewIdsOf(new, "stream") = {}
    /\ ViewIdsOf(new, "typed") = IF viewShown.run = answer.run
                                 THEN {x \in ViewIdsOf(viewShown, "typed") : ~ViewCovers(answer.said, x)} \ {answer.id} ELSE {}

LEMMA RvAnswerShown ==
    ASSUME viewShown \in ViewShownType, NEW answer, answer.kind \in ViewAnswerKinds,
           answer.kind = "detail" => answer \in ViewDetailType,
           NEW new, new = ViewWithout(IF answer.kind = "error" THEN viewShown ELSE ViewDetail(answer), answer.run, answer.id)
    PROVE  RvErrorShown(answer, new) \/ RvDetailShown(answer, new)
<1>1. CASE answer.kind = "error"
  <2>1. new = ViewWithout(viewShown, answer.run, answer.id)
    BY <1>1
  <2>2. RvTakenAway(viewShown, answer.run, answer.id, new)
    BY <2>1, RvIdsWithout
  <2>3. RvErrorShown(answer, new)
    BY <1>1, <2>2 DEF RvTakenAway, RvErrorShown
  <2> QED BY <2>3
<1>2. CASE answer.kind = "detail"
  <2>1. PICK shown : shown = ViewDetail(answer)
    OBVIOUS
  <2>2. RvReplaced(answer, shown)
    BY <1>2, <2>1, RvIdsDetail
  <2>3. shown \in ViewShownType /\ shown.run = answer.run
    BY <2>2 DEF RvReplaced
  <2>4. new = ViewWithout(shown, answer.run, answer.id)
    BY <1>2, <2>1
  <2>5. RvTakenAway(shown, answer.run, answer.id, new)
    BY <2>3, <2>4, RvIdsWithout
  <2>6. /\ new \in ViewShownType /\ new.run = answer.run
        /\ ViewIdsOf(new, "said") = answer.said /\ ViewIdsOf(new, "stream") = {}
        /\ ViewIdsOf(new, "typed") = ViewIdsOf(shown, "typed") \ {answer.id}
    BY <2>2, <2>3, <2>5 DEF RvTakenAway, RvReplaced
  <2>7. ViewIdsOf(shown, "typed") = IF viewShown.run = answer.run
                                    THEN {x \in ViewIdsOf(viewShown, "typed") : ~ViewCovers(answer.said, x)} ELSE {}
    BY <2>2 DEF RvReplaced
  <2>8. RvDetailShown(answer, new)
    <3>1. CASE viewShown.run = answer.run
      BY <1>2, <2>6, <2>7, <3>1 DEF RvDetailShown
    <3>2. CASE viewShown.run # answer.run
      BY <1>2, <2>6, <2>7, <3>2 DEF RvDetailShown
    <3> QED BY <3>1, <3>2
  <2> QED BY <2>8
<1> QED BY <1>1, <1>2 DEF ViewAnswerKinds

LEMMA RvAnswered == ASSUME ViewInv, ViewAnswered PROVE RvStepDone
<1>1. PICK answer : answer = Head(viewWire)
  OBVIOUS
<1>2. PICK new : new = viewShown'
  OBVIOUS
<1>3. /\ viewWire # <<>> /\ answer.kind \in ViewAnswerKinds /\ viewWire' = Tail(viewWire)
      /\ new = ViewWithout(IF answer.kind = "error" THEN viewShown ELSE ViewDetail(answer), answer.run, answer.id)
      /\ viewSends' = IF answer.id = ViewNoOne THEN viewSends ELSE [viewSends EXCEPT ![answer.id].at = "done"]
      /\ viewSelected' = viewSelected /\ viewTimer' = viewTimer /\ viewAsked' = viewAsked /\ viewSpeaks' = viewSpeaks
      /\ viewLists' = viewLists /\ viewStored' = viewStored /\ viewDeleted' = viewDeleted
  BY <1>1, <1>2 DEF ViewAnswered, ViewAnswerKinds
<1>4. ViewShape /\ viewShown \in ViewShownType
  BY RvParts
<1>5. answer = viewWire[1] /\ 1 \in 1..Len(viewWire)
  <2>1. RvShorter(viewWire, viewWire')
    BY <1>3, <1>4, RvTellTail
  <2> QED BY <1>1, <2>1 DEF RvShorter
<1>6. /\ answer.run \in ViewRuns /\ answer.id \in ViewSent \cup {ViewNoOne}
      /\ answer.kind = "detail" => answer \in ViewDetailType
      /\ answer.kind = "error" => answer.run \in viewDeleted
  BY <1>3, <1>4, <1>5, RvWireTypes, RvParts DEF ViewErrors
<1>7. RvErrorShown(answer, new) \/ RvDetailShown(answer, new)
  BY <1>3, <1>4, <1>6, RvAnswerShown
\* A sending that the answer is for has nothing left on view as it was typed.
<1>8. ASSUME NEW m \in ViewSent
      PROVE  /\ m = answer.id => viewSends[m].at \in RvOver /\ answer.run = viewSends[m].run
             /\ m = answer.id /\ answer.kind = "detail" /\ viewSends[m].at = "returned" => m \in answer.said
             /\ m \in ViewIdsOf(viewShown, "typed") => viewShown.run = viewSends[m].run /\ viewSends[m].at \notin {"unsent", "done"}
  BY <1>3, <1>5, RvParts, RvIds DEF ViewSending, ViewWaits, ViewAt, RvOver, ViewAnswerKinds
<1>9. /\ new \in ViewShownType /\ ViewIdsOf(new, "typed") \subseteq ViewIdsOf(viewShown, "typed")
      /\ \A m \in ViewSent : m \in ViewIdsOf(new, "typed") => m # answer.id /\ new.run = viewShown.run
  <2>1. CASE RvErrorShown(answer, new)
    <3>1. new \in ViewShownType /\ new.run = viewShown.run /\ ViewIdsOf(new, "typed") \subseteq ViewIdsOf(viewShown, "typed")
      BY <2>1 DEF RvErrorShown
    <3>2. ASSUME NEW m \in ViewSent, m \in ViewIdsOf(new, "typed") PROVE m # answer.id
      <4>1. CASE viewShown.run = answer.run
        BY <2>1, <3>2, <4>1 DEF RvErrorShown
      <4>2. CASE viewShown.run # answer.run
        BY <1>8, <3>1, <3>2, <4>2
      <4> QED BY <4>1, <4>2
    <3> QED BY <3>1, <3>2
  <2>2. CASE RvDetailShown(answer, new)
    <3>1. CASE viewShown.run = answer.run
      BY <2>2, <3>1 DEF RvDetailShown
    <3>2. CASE viewShown.run # answer.run
      BY <2>2, <3>2 DEF RvDetailShown
    <3> QED BY <3>1, <3>2
  <2> QED BY <1>7, <2>1, <2>2
<1>10. ViewDisplay'
  <2>1. ViewIdsOf(new, "said") \cap (ViewIdsOf(new, "typed") \cup ViewIdsOf(new, "stream")) = {}
    <3>1. CASE RvErrorShown(answer, new)
      <4>1. ViewIdsOf(new, "said") = ViewIdsOf(viewShown, "said") /\ ViewIdsOf(new, "stream") = ViewIdsOf(viewShown, "stream")
        BY <3>1 DEF RvErrorShown
      <4> QED BY <1>9, <4>1, RvParts
    <3>2. CASE RvDetailShown(answer, new)
      <4>1. ViewIdsOf(new, "said") = answer.said /\ ViewIdsOf(new, "stream") = {}
        BY <3>2 DEF RvDetailShown
      <4>2. ASSUME NEW x \in ViewIdsOf(new, "typed") PROVE x \notin answer.said
        <5>1. x \in ViewSent
          BY <1>9, <4>2, RvParts
        <5>2. ~ViewCovers(answer.said, x)
          <6>1. CASE viewShown.run = answer.run
            BY <3>2, <4>2, <6>1 DEF RvDetailShown
          <6>2. CASE viewShown.run # answer.run
            BY <3>2, <4>2, <6>2 DEF RvDetailShown
          <6> QED BY <6>1, <6>2
        <5> QED BY <5>1, <5>2, RvCovers
      <4> QED BY <4>1, <4>2
    <3> QED BY <1>7, <3>1, <3>2
  <2>2. new.run = ViewNoRun => new.entries = {}
    <3>1. CASE RvErrorShown(answer, new)
      BY <3>1, RvParts DEF RvErrorShown
    <3>2. CASE RvDetailShown(answer, new)
      BY <1>6, <3>2, ViewAssumption DEF RvDetailShown
    <3> QED BY <1>7, <3>1, <3>2
  <2>3. ViewIdsOf(new, "typed") \subseteq ViewSent
    BY <1>9, RvParts
  <2> QED BY <1>2, <1>9, <2>1, <2>2, <2>3, RvDisplayIs
<1>11. RvTellsMore(viewWire') /\ ViewTold' /\ ViewErrors'
  <2>1. \/ new.run = viewShown.run /\ ViewIdsOf(new, "said") = ViewIdsOf(viewShown, "said")
        \/ answer.kind = "detail" /\ new.run = answer.run /\ ViewIdsOf(new, "said") = answer.said
    BY <1>7 DEF RvErrorShown, RvDetailShown
  <2> QED BY <1>1, <1>2, <1>3, <2>1, RvTaking
<1>12. RvAsksMore(viewAsked')
  BY <1>3, <1>4, RvAskSame
<1>13. /\ viewSends' \in [ViewSent -> RvSendType]
       /\ \A m \in ViewSent : /\ m # answer.id => viewSends'[m] = viewSends[m]
                              /\ m = answer.id => viewSends'[m].at = "done" /\ viewSends'[m].run = viewSends[m].run
  <2>1. CASE answer.id = ViewNoOne
    BY <1>3, <1>4, <2>1, ViewAssumption, RvShapes
  <2>2. CASE answer.id # ViewNoOne
    <3>1. PICK m \in ViewSent : m = answer.id
      BY <1>6, <2>2
    <3>2. PICK at : at = "done"
      OBVIOUS
    <3>3. viewSends' = [viewSends EXCEPT ![m].at = at] /\ at \in ViewPlaces
      BY <1>3, <2>2, <3>1, <3>2 DEF ViewPlaces
    <3>4. /\ viewSends' \in [ViewSent -> RvSendType] /\ viewSends'[m].at = at /\ viewSends'[m].run = viewSends[m].run
          /\ \A n \in ViewSent : n # m => viewSends'[n] = viewSends[n]
      BY <1>4, <3>3, RvSendMoves
    <3> QED BY <3>1, <3>2, <3>4
  <2> QED BY <2>1, <2>2
<1>14. ViewShape'
  BY <1>2, <1>3, <1>4, <1>9, <1>11, <1>12, <1>13, RvShapes, RvShapeIs
<1>15. ASSUME NEW m \in ViewSent PROVE RvStepFor(m)
  <2>1. RvSendFor(m)
    <3>1. CASE m = answer.id
      <4>1. viewSends'[m].at = "done" /\ viewSends'[m].run = viewSends[m].run /\ viewSends[m].at \in RvOver
        BY <1>8, <1>13, <3>1
      <4> QED BY <1>3, <4>1 DEF RvSendFor, RvMoves, RvOver
    <3>2. CASE m # answer.id
      <4>1. viewSends'[m] = viewSends[m]
        BY <1>13, <3>2
      <4> QED BY <1>3, <4>1 DEF RvSendFor, RvMoves
    <3> QED BY <3>1, <3>2
  <2>2. RvTypedFor(m)
    BY <1>2, <1>8, <1>9, <1>13 DEF RvTypedFor
  <2> QED BY <1>11, <1>12, <2>1, <2>2, RvStepMade
<1>16. ASSUME NEW m \in ViewSent PROVE RvSeenStays(m)
  <2>1. SUFFICES ASSUME m \in ViewIdsOf(viewShown, "said") \cup ViewIdsOf(viewShown, "typed"),
                        new.run = viewShown.run, viewSends[m].at # "refused", viewSends[m].run \notin viewDeleted
                 PROVE  m \in ViewIdsOf(new, "said") \cup ViewIdsOf(new, "typed")
    BY <1>2 DEF RvSeenStays
  <2>2. CASE RvErrorShown(answer, new)
    <3>1. CASE m = answer.id
      <4>1. answer.run \in viewDeleted /\ answer.run = viewSends[m].run
        BY <1>6, <1>8, <2>2, <3>1 DEF RvErrorShown
      <4> QED BY <2>1, <4>1
    <3>2. CASE m # answer.id
      BY <2>1, <2>2, <3>2 DEF RvErrorShown
    <3> QED BY <3>1, <3>2
  <2>3. CASE RvDetailShown(answer, new)
    <3>1. answer.kind = "detail" /\ viewShown.run = answer.run /\ ViewIdsOf(new, "said") = answer.said
      BY <2>1, <2>3 DEF RvDetailShown
    <3>2. CASE m \in ViewIdsOf(viewShown, "said")
      <4>1. ViewIdsOf(viewShown, "said") \subseteq answer.said
        BY <1>5, <3>1, RvParts DEF ViewToldAs
      <4> QED BY <3>1, <3>2, <4>1
    <3>3. CASE m \in ViewIdsOf(viewShown, "typed")
      <4>1. CASE m \in answer.said
        BY <3>1, <4>1
      <4>2. CASE m \notin answer.said
        <5>1. ~ViewCovers(answer.said, m)
          BY <4>2, RvCovers
        <5>2. m # answer.id
          BY <1>8, <2>1, <3>1, <3>3, <4>2 DEF RvOver
        <5> QED BY <2>3, <3>1, <3>3, <5>1, <5>2 DEF RvDetailShown
      <4> QED BY <4>1, <4>2
    <3> QED BY <2>1, <3>2, <3>3
  <2> QED BY <1>7, <2>2, <2>3
<1> QED BY <1>10, <1>11, <1>14, <1>15, <1>16 DEF RvStepDone

LEMMA RvInit == ViewInit => ViewInv
<1> SUFFICES ASSUME ViewInit PROVE ViewInv
  OBVIOUS
<1>1. PICK first : first = CHOOSE r \in ViewRuns : TRUE
  OBVIOUS
<1>2. first \in ViewRuns
  BY <1>1, ViewAssumption
<1>3. PICK ask : ask = [run |-> first, for |-> ViewNoOne]
  OBVIOUS
<1>4. /\ viewSelected = first /\ viewAsked = Append(<<>>, ask) /\ viewShown = ViewNothing /\ viewTimer = ViewNoTimer
      /\ viewWire = <<>> /\ viewLists = {}
      /\ viewSends = [m \in ViewSent |-> [at |-> "unsent", run |-> ViewNoRun]]
      /\ viewSpeaks = [a \in ViewReplies |-> ViewNoRun] /\ viewStored = [r \in ViewRuns |-> {ViewOld}] /\ viewDeleted = {}
  BY <1>1, <1>3 DEF ViewInit, ViewAsk
<1>5. ask \in ViewAskType /\ ask.for = ViewNoOne
  BY <1>2, <1>3 DEF ViewAskType
<1>6. viewAsked = <<ask>>
  BY <1>4
<1>7. viewAsked \in Seq(ViewAskType) /\ \A i \in 1..Len(viewAsked) : viewAsked[i].for = ViewNoOne
  BY <1>5, <1>6
<1>8. viewWire \in Seq(ViewWireType) /\ Len(viewWire) = 0
  BY <1>4
<1>9. viewTimer \in [what : {"off", "all", "run"}, run : ViewRunsOrNone]
  BY <1>4 DEF ViewNoTimer, ViewRunsOrNone
<1>10. viewSends \in [ViewSent -> RvSendType] /\ \A m \in ViewSent : viewSends[m].at = "unsent"
  <2>1. PICK s : s = [at |-> "unsent", run |-> ViewNoRun]
    OBVIOUS
  <2>2. s \in RvSendType /\ s.at = "unsent"
    BY <2>1 DEF RvSendType, ViewPlaces, ViewRunsOrNone
  <2>3. viewSends = [m \in ViewSent |-> s]
    BY <1>4, <2>1
  <2> QED BY <2>2, <2>3
<1>11. /\ viewSpeaks \in [ViewReplies -> ViewRunsOrNone] /\ viewStored \in [ViewRuns -> SUBSET ViewSaid]
       /\ \A r \in ViewRuns : viewStored[r] = {ViewOld}
  BY <1>4 DEF ViewRunsOrNone, ViewSaid
<1>12. ViewShape
  BY <1>2, <1>4, <1>7, <1>8, <1>9, <1>10, <1>11, RvNothing
     DEF ViewShape, ViewRunsOrNone, ViewShownType, ViewAskType, ViewWireType, RvSendType
<1>13. ViewDisplay
  BY <1>4, RvNothing, RvIds DEF ViewDisplay, ViewNeverTwice
<1>14. ViewTold
  <2>1. \A i : i \notin 1..Len(viewWire)
    BY <1>8
  <2>2. viewShown.run = ViewNoRun /\ ViewIds("said") = {}
    BY <1>4, RvNothing, RvIds
  <2> QED BY <2>1, <2>2 DEF ViewTold, ViewToldAs
<1>15. ASSUME NEW m \in ViewSent PROVE ViewSending(m)
  <2>1. m # ViewOld /\ m # ViewNoOne
    BY ViewAssumption
  <2>2. \A i : i \notin 1..Len(viewWire)
    BY <1>8
  <2>3. ViewIds("typed") = {}
    BY <1>4, RvNothing, RvIds
  <2> QED BY <1>4, <1>7, <1>10, <1>11, <2>1, <2>2, <2>3 DEF ViewSending, ViewAt
<1>16. ViewErrors
  <2>1. \A i : i \notin 1..Len(viewWire)
    BY <1>8
  <2> QED BY <2>1 DEF ViewErrors
<1> QED BY <1>12, <1>13, <1>14, <1>15, <1>16 DEF ViewInv

LEMMA RvDoneHolds == ASSUME ViewInv, RvStepDone PROVE ViewInv'
<1>1. ASSUME NEW m \in ViewSent PROVE ViewSending(m)'
  <2>1. ViewSending(m) /\ viewSends[m].at \in ViewPlaces
    BY RvParts
  <2>2. RvStepFor(m)
    BY DEF RvStepDone
  <2> QED BY <2>1, <2>2, RvSendingGoesOn
<1> QED BY <1>1 DEF RvStepDone, ViewInv

LEMMA RvStepKeeps == ASSUME ViewInv, ViewNext PROVE RvStepDone
<1>1. ASSUME NEW r \in (ViewRuns \ viewDeleted) \cup {ViewNoRun}, ViewSelect(r) PROVE RvStepDone
  BY <1>1, RvSelect
<1>2. ASSUME NEW m \in ViewSent, ViewSend(m) \/ ViewStores(m) \/ ViewThrows(m) \/ ViewSendReturns(m) PROVE RvStepDone
  BY <1>2, RvSend, RvStores, RvThrows, RvSendReturns
<1>3. ASSUME NEW m \in viewLists, ViewListed(m) PROVE RvStepDone
  BY <1>3, RvListed
<1>4. ASSUME ViewMainAnswers \/ ViewAnswered \/ ViewEvent \/ ViewTimerFires PROVE RvStepDone
  BY <1>4, RvMainAnswers, RvAnswered, RvEvent, RvTimerFires
<1>5. ASSUME NEW a \in ViewReplies, NEW r \in ViewRuns, ViewSpeak(a, r) PROVE RvStepDone
  BY <1>5, RvSpeak
<1>6. ASSUME NEW a \in ViewReplies, ViewSpoken(a) PROVE RvStepDone
  BY <1>6, RvSpoken
<1>7. ASSUME NEW r \in ViewRuns, ViewTool(r) \/ ViewDelete(r) PROVE RvStepDone
  BY <1>7, RvTool, RvDelete
<1> QED BY <1>1, <1>2, <1>3, <1>4, <1>5, <1>6, <1>7 DEF ViewNext

LEMMA RvNoStepKeeps == ASSUME ViewInv, UNCHANGED viewVars PROVE ViewInv'
<1>1. /\ viewSelected' = viewSelected /\ viewShown' = viewShown /\ viewTimer' = viewTimer /\ viewAsked' = viewAsked
      /\ viewWire' = viewWire /\ viewLists' = viewLists /\ viewSends' = viewSends /\ viewSpeaks' = viewSpeaks
      /\ viewStored' = viewStored /\ viewDeleted' = viewDeleted
  BY DEF viewVars
<1>2. ViewShape /\ RvAsksMore(viewAsked')
  BY <1>1, RvParts, RvAskSame
<1>3. RvTellsMore(viewWire')
  BY <1>1, <1>2, RvTellSame
<1>4. ViewShape'
  BY <1>1, <1>2, <1>3, RvShapes, RvShapeIs
<1>5. RvStepDone
  BY <1>1, <1>2, <1>4, RvQuietDone DEF RvQuiet, RvQuietShown
<1> QED BY <1>5, RvDoneHolds

LEMMA RvSeen == ASSUME NEW m PROVE /\ ViewSentSeen(m) <=> m \in ViewIdsOf(viewShown, "said") \cup ViewIdsOf(viewShown, "typed")
                                   /\ ViewSentSeen(m)' <=> m \in ViewIdsOf(viewShown', "said") \cup ViewIdsOf(viewShown', "typed")
  BY RvIds DEF ViewSentSeen

\* However a person switches runs and sends messages while details, events and refreshes
\* cross: a message is on view at most once, as it was typed or streamed or as it is stored,
\* and one that is on view stays there until Main refuses it, its run goes or another run is
\* shown (useWorkbench, App.tsx), for any runs, messages and replies.
THEOREM MessagesAreShownOnce == ViewSpec => ViewShowsOnce
<1> DEFINE Stays ==
      \A m \in ViewSent :
         ViewSentSeen(m) /\ viewShown'.run = viewShown.run /\ viewSends[m].at # "refused"
           /\ viewSends[m].run \notin viewDeleted
         => ViewSentSeen(m)'
<1>1. ViewInv /\ [ViewNext]_viewVars => ViewInv'
  <2>1. ASSUME ViewInv, ViewNext PROVE ViewInv'
    BY <2>1, RvStepKeeps, RvDoneHolds
  <2> QED BY <2>1, RvNoStepKeeps
<1>2. ViewInv /\ [ViewNext]_viewVars => [Stays]_viewVars
  <2>1. ASSUME ViewInv, ViewNext PROVE Stays
    <3>1. \A m \in ViewSent : RvSeenStays(m)
      BY <2>1, RvStepKeeps DEF RvStepDone
    <3> QED BY <3>1, RvSeen DEF RvSeenStays
  <2> QED BY <2>1
<1>3. ViewSpec => []ViewInv
  BY <1>1, RvInit, PTL DEF ViewSpec
<1>4. ViewInv => ViewNeverTwice
  BY DEF ViewInv, ViewDisplay
<1>5. ViewSpec => [][Stays]_viewVars
  BY <1>2, <1>3, PTL DEF ViewSpec
<1> QED BY <1>3, <1>4, <1>5, PTL DEF ViewShowsOnce, ViewSentStays

===============================================================================
