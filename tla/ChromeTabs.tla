------------------------------- MODULE ChromeTabs ------------------------------
(***************************************************************************)
(* Which browser tabs a run may control: the grants of the extension       *)
(* (service-worker.ts, tab-authority.ts) and the rows of chrome_grants the *)
(* desktop keeps beside them (chrome-bridge.ts).                           *)
(*                                                                         *)
(* A click of the user on the extension's icon grants a tab; a run is      *)
(* bound to the grant; tabs that an act of the agent opens join it.        *)
(* Everything the extension awaits (attaching the debugger, creating a     *)
(* tab, the loop of revokeGrant) lets other events in.                     *)
(***************************************************************************)
EXTENDS Integers, FiniteSets, FiniteSetsExt

CONSTANTS
    ChrTabs,       \* tab ids, numbers in the order Chrome hands them out
    ChrFirstTabs,  \* those open at the start
    ChrTasks,      \* run ids
    ChrMaxGrants,  \* bound on the user's grants
    ChrMaxActs,    \* bound on the acts that may open a tab
    ChrOps         \* bound: operations of the extension under way at once

ASSUME ChrAssumption ==
    /\ ChrTabs \subseteq Nat \ {0} /\ ChrFirstTabs \subseteq ChrTabs
    /\ ChrMaxGrants \in Nat /\ ChrMaxActs \in Nat /\ "none" \notin ChrTasks

VARIABLES
    chrGrants,    \* grants, by number: live, its root, tabs and task
    chrOwner,     \* tabToGrant
    chrAttached,  \* attachedTabs
    chrLatest,    \* latestGrantId
    chrArmed,     \* pendingChildAuthorizations, by opener
    chrTab,       \* the browser's tabs
    chrOp,        \* operations under way, each at the await it is in
    chrRevoking,  \* runs of revokeGrant: the grant, the tabs dealt with
    chrRows,      \* chrome_grants; parent 0 is a root
    chrActs,      \* ghost: tabs armed for a child, and tabs created by openTab
    chrOrphans    \* ghost: tabs attached after their grant had gone

chrVars == <<chrGrants, chrOwner, chrAttached, chrLatest, chrArmed, chrTab, chrOp, chrRevoking,
             chrRows, chrActs, chrOrphans>>

ChrGrantIds == 1..ChrMaxGrants
ChrNoGrant == [live |-> FALSE, root |-> 0, tabs |-> {}, task |-> "none"]
ChrIdle == [cmd |-> "none", tab |-> 0, grant |-> 0, at |-> "none"]
ChrUsed == {g \in ChrGrantIds : chrGrants[g].root # 0}
ChrLive == {g \in ChrGrantIds : chrGrants[g].live}

ChrTypeOK ==
    /\ chrGrants \in [ChrGrantIds -> [live : BOOLEAN, root : ChrTabs \cup {0}, tabs : SUBSET ChrTabs,
                                      task : ChrTasks \cup {"none"}]]
    /\ chrOwner \in [ChrTabs -> ChrUsed \cup {0}] /\ chrArmed \in [ChrTabs -> ChrUsed \cup {0}]
    /\ chrAttached \subseteq ChrTabs /\ chrOrphans \subseteq ChrTabs /\ chrLatest \in ChrLive \cup {0}
    /\ chrTab \in [ChrTabs -> {"fresh", "open", "closed"}]
    /\ chrOp \in [ChrOps -> [cmd : {"none", "gesture", "bind", "look", "click", "openTab", "detach"},
                             tab : ChrTabs \cup {0}, grant : ChrGrantIds \cup {0},
                             at : {"none", "attach", "send", "create", "adopt", "reply"}]]
    /\ chrRevoking \subseteq [grant : ChrGrantIds, done : SUBSET ChrTabs]
    /\ chrRows \subseteq [task : ChrTasks, tab : ChrTabs, parent : ChrTabs \cup {0}]
    /\ chrActs \in Nat

ChrInit ==
    /\ chrGrants = [g \in ChrGrantIds |-> ChrNoGrant] /\ chrLatest = 0
    /\ chrOwner = [t \in ChrTabs |-> 0] /\ chrArmed = [t \in ChrTabs |-> 0]
    /\ chrTab = [t \in ChrTabs |-> IF t \in ChrFirstTabs THEN "open" ELSE "fresh"]
    /\ chrAttached = {} /\ chrOp = [o \in ChrOps |-> ChrIdle] /\ chrRevoking = {}
    /\ chrRows = {} /\ chrActs = 0 /\ chrOrphans = {}

-----------------------------------------------------------------------------
(* resolveAuthorizedTabTarget *)

\* The first grant that is bound to the task; 0 if there is none.
ChrGrantOf(task) ==
    LET bound == {g \in ChrLive : chrGrants[g].task = task} IN IF bound = {} THEN 0 ELSE Min(bound)

\* Faulty variant: membership in the grant is enough.
ChrOwnsListed(g, t) == t \in chrGrants[g].tabs
ChrOwns(g, t) == t \in chrGrants[g].tabs /\ chrOwner[t] = g
ChrControls(task, t) == ChrGrantOf(task) # 0 /\ ChrOwns(ChrGrantOf(task), t)

-----------------------------------------------------------------------------
(* Revoking *)

\* One round of the loop of revokeGrant on an owner map.
ChrDisowned(t) == [chrOwner EXCEPT ![t] = 0]

ChrRest(r) == chrGrants[r.grant].tabs \ r.done

ChrLatestWithout(g) == IF chrLatest = g THEN 0 ELSE chrLatest

\* revokeGrant to its first await; the grants and owners to start from are given, as
\* revokeTab has changed them.
ChrRevokeFrom(grants, owner, attached, g) ==
    LET tabs == grants[g].tabs
        first == IF tabs = {} THEN {} ELSE {Min(tabs)}
    IN /\ chrGrants' = [grants EXCEPT ![g].live = FALSE]
       /\ chrLatest' = ChrLatestWithout(g)
       /\ chrOwner' = [t \in ChrTabs |-> IF t \in first THEN 0 ELSE owner[t]]
       /\ chrAttached' = attached \ first
       /\ chrRevoking' = IF tabs = first THEN chrRevoking
                         ELSE chrRevoking \cup {[grant |-> g, done |-> first]}

\* The loop goes on, over the tabs the grant has by then.
ChrRevokeGoesOn(r) ==
    /\ r \in chrRevoking
    /\ IF ChrRest(r) = {} THEN chrRevoking' = chrRevoking \ {r} /\ UNCHANGED <<chrOwner, chrAttached>>
       ELSE LET t == Min(ChrRest(r))
            IN /\ chrOwner' = ChrDisowned(t) /\ chrAttached' = chrAttached \ {t}
               /\ chrRevoking' = (chrRevoking \ {r}) \cup {[r EXCEPT !.done = @ \cup {t}]}
    /\ UNCHANGED <<chrGrants, chrLatest, chrArmed, chrTab, chrOp, chrRows, chrActs, chrOrphans>>

\* revokeTab: the tab leaves its grant; with the root or the last tab the grant goes.
ChrRevokeTab(t, attached) ==
    LET g == chrOwner[t]
        grants == [chrGrants EXCEPT ![g].tabs = @ \ {t}]
    IN IF g = 0 \/ ~chrGrants[g].live
       THEN chrOwner' = ChrDisowned(t) /\ chrAttached' = attached
            /\ UNCHANGED <<chrGrants, chrLatest, chrRevoking>>
       ELSE IF t = chrGrants[g].root \/ grants[g].tabs = {}
       THEN ChrRevokeFrom(grants, ChrDisowned(t), attached, g)
       ELSE chrGrants' = grants /\ chrOwner' = ChrDisowned(t) /\ chrAttached' = attached
            /\ UNCHANGED <<chrLatest, chrRevoking>>

-----------------------------------------------------------------------------
(* The browser and the user *)

\* authorizeTabFromUserGesture: a tab of a live grant selects it, another gets a grant.
ChrGesture(o, t) ==
    /\ chrTab[t] = "open" /\ chrOp[o] = ChrIdle
    /\ IF chrOwner[t] \in ChrLive
       THEN chrLatest' = chrOwner[t] /\ UNCHANGED <<chrGrants, chrOwner, chrOp>>
       ELSE \E g \in ChrGrantIds \ ChrUsed :
              /\ g = Min(ChrGrantIds \ ChrUsed) /\ chrLatest' = g
              /\ chrGrants' = [chrGrants EXCEPT ![g] = [live |-> TRUE, root |-> t, tabs |-> {t}, task |-> "none"]]
              /\ chrOwner' = [chrOwner EXCEPT ![t] = g]
              /\ chrOp' = IF t \in chrAttached THEN chrOp
                          ELSE [chrOp EXCEPT ![o] = [cmd |-> "gesture", tab |-> t, grant |-> g, at |-> "attach"]]
    /\ UNCHANGED <<chrAttached, chrArmed, chrTab, chrRevoking, chrRows, chrActs, chrOrphans>>

ChrAdopter(opener) == chrArmed[opener]
ChrDisarmed(opener) == IF opener = 0 THEN chrArmed ELSE [chrArmed EXCEPT ![opener] = 0]

\* tabs.onCreated; the event to the desktop stores a row below the root's, if it gets there.
ChrTabAppears(t, opener, heard) ==
    LET g == IF opener = 0 THEN 0 ELSE ChrAdopter(opener)
        adopted == g \in ChrLive
    IN /\ chrTab' = [chrTab EXCEPT ![t] = "open"] /\ chrArmed' = ChrDisarmed(opener)
       /\ chrGrants' = IF adopted THEN [chrGrants EXCEPT ![g].tabs = @ \cup {t}] ELSE chrGrants
       /\ chrOwner' = IF adopted THEN [chrOwner EXCEPT ![t] = g] ELSE chrOwner
       /\ chrRows' = IF adopted /\ heard
                        /\ \E r \in chrRows : r = [task |-> chrGrants[g].task, tab |-> chrGrants[g].root, parent |-> 0]
                     THEN chrRows \cup {[task |-> chrGrants[g].task, tab |-> t, parent |-> chrGrants[g].root]}
                     ELSE chrRows

ChrFresh == {t \in ChrTabs : chrTab[t] = "fresh"}

\* A page or the user opens a tab.
ChrTabOpens(opener, heard) ==
    /\ ChrFresh # {} /\ (opener # 0 => chrTab[opener] = "open")
    /\ ChrTabAppears(Min(ChrFresh), opener, heard)
    /\ UNCHANGED <<chrAttached, chrLatest, chrOp, chrRevoking, chrActs, chrOrphans>>

\* tabs.onRemoved.
ChrTabCloses(t) ==
    /\ chrTab[t] = "open" /\ chrTab' = [chrTab EXCEPT ![t] = "closed"]
    /\ ChrRevokeTab(t, chrAttached \ {t})
    /\ UNCHANGED <<chrArmed, chrOp, chrRows, chrActs, chrOrphans>>

\* debugger.onDetach: Chrome or the user ended it.
ChrDetached(t) ==
    /\ t \in chrAttached /\ chrAttached' = chrAttached \ {t}
    /\ UNCHANGED <<chrGrants, chrOwner, chrLatest, chrArmed, chrTab, chrOp, chrRevoking, chrRows, chrActs,
                   chrOrphans>>

\* The timer of armChildAuthorization.
ChrArmExpires(t) ==
    /\ chrArmed[t] # 0 /\ chrArmed' = [chrArmed EXCEPT ![t] = 0]
    /\ UNCHANGED <<chrGrants, chrOwner, chrAttached, chrLatest, chrTab, chrOp, chrRevoking, chrRows, chrActs,
                   chrOrphans>>

-----------------------------------------------------------------------------
(* Requests of the desktop *)

\* bind: whatever grant the desktop names, which may be one it heard of long ago.
ChrBind(o, task, g) ==
    /\ chrOp[o] = ChrIdle /\ g \in ChrLive /\ chrGrants[g].task \in {"none", task}
    /\ chrGrants' = [chrGrants EXCEPT ![g].task = task]
    /\ chrOp' = [chrOp EXCEPT ![o] = [cmd |-> "bind", tab |-> chrGrants[g].root, grant |-> g, at |-> "attach"]]
    /\ UNCHANGED <<chrOwner, chrAttached, chrLatest, chrArmed, chrTab, chrRevoking, chrRows, chrActs, chrOrphans>>

\* executeTool lets it through, and so does the extension: a snapshot, dom, ax, screenshot,
\* navigate or type ("look"), a click, or openTab below the root.
ChrRequest(o, cmd, task, t) ==
    /\ chrOp[o] = ChrIdle /\ ChrControls(task, t) /\ (cmd # "look" => chrActs < ChrMaxActs)
    /\ \E r \in chrRows : r.task = task /\ r.parent = 0 /\ (cmd = "openTab" => r.tab = t)
    /\ \E r \in chrRows : r.task = task /\ r.tab = t
    /\ chrOp' = [chrOp EXCEPT ![o] =
          [cmd |-> cmd, tab |-> t, grant |-> ChrGrantOf(task),
           at |-> IF cmd = "openTab" THEN "create" ELSE IF t \in chrAttached THEN "send" ELSE "attach"]]
    /\ chrArmed' = IF cmd = "openTab" THEN [chrArmed EXCEPT ![t] = ChrGrantOf(task)] ELSE chrArmed
    /\ chrActs' = IF cmd = "openTab" THEN chrActs + 1 ELSE chrActs
    /\ UNCHANGED <<chrGrants, chrOwner, chrAttached, chrLatest, chrTab, chrRevoking, chrRows, chrOrphans>>

ChrEnds(o) == chrOp' = [chrOp EXCEPT ![o] = ChrIdle]
ChrMoves(o, at) == chrOp' = [chrOp EXCEPT ![o].at = at]

\* ensureAttached returns; a binding and a tab opened by openTab are then stored.
ChrAttaches(o) ==
    /\ chrOp[o].at = "attach" /\ chrTab[chrOp[o].tab] = "open"
    /\ chrAttached' = chrAttached \cup {chrOp[o].tab}
    /\ chrOrphans' = IF chrGrants[chrOp[o].grant].live /\ ChrOwns(chrOp[o].grant, chrOp[o].tab) THEN chrOrphans
                     ELSE chrOrphans \cup {chrOp[o].tab}
    /\ LET g == chrGrants[chrOp[o].grant]
       IN chrRows' = IF chrOp[o].cmd = "bind" THEN chrRows \cup {[task |-> g.task, tab |-> g.root, parent |-> 0]}
                     ELSE IF chrOp[o].cmd = "openTab"
                     THEN chrRows \cup {[task |-> g.task, tab |-> chrOp[o].tab, parent |-> g.root]}
                     ELSE chrRows
    /\ IF chrOp[o].cmd \in {"look", "click"} THEN ChrMoves(o, "send") ELSE ChrEnds(o)
    /\ UNCHANGED <<chrGrants, chrOwner, chrLatest, chrArmed, chrTab, chrRevoking, chrActs>>

\* It throws; a grant whose first attachment fails is revoked.
ChrAttachFails(o) ==
    /\ chrOp[o].at = "attach" /\ ChrEnds(o)
    /\ IF chrOp[o].cmd = "gesture" /\ chrGrants[chrOp[o].grant].live
       THEN ChrRevokeFrom(chrGrants, chrOwner, chrAttached, chrOp[o].grant)
       ELSE UNCHANGED <<chrGrants, chrOwner, chrAttached, chrLatest, chrRevoking>>
    /\ UNCHANGED <<chrArmed, chrTab, chrRows, chrActs, chrOrphans>>

\* The command reaches the tab; a click arms the tab first.
ChrSends(o) ==
    /\ chrOp[o].at = "send" /\ ChrEnds(o)
    /\ chrArmed' = IF chrOp[o].cmd = "click" THEN [chrArmed EXCEPT ![chrOp[o].tab] = chrOp[o].grant] ELSE chrArmed
    /\ chrActs' = IF chrOp[o].cmd = "click" THEN chrActs + 1 ELSE chrActs
    /\ UNCHANGED <<chrGrants, chrOwner, chrAttached, chrLatest, chrTab, chrRevoking, chrRows, chrOrphans>>

\* Or it does not, and the tab counts as detached.
ChrSendFails(o) ==
    /\ chrOp[o].at = "send" /\ ChrEnds(o) /\ chrAttached' = chrAttached \ {chrOp[o].tab}
    /\ UNCHANGED <<chrGrants, chrOwner, chrLatest, chrArmed, chrTab, chrRevoking, chrRows, chrActs, chrOrphans>>

\* openTab: Chrome creates the tab and says so, then the call returns.
ChrCreates(o, heard) ==
    /\ chrOp[o].at = "create" /\ ChrFresh # {} /\ chrTab[chrOp[o].tab] = "open"
    /\ ChrTabAppears(Min(ChrFresh), chrOp[o].tab, heard)
    /\ chrOp' = [chrOp EXCEPT ![o].tab = Min(ChrFresh), ![o].at = "adopt"] /\ chrActs' = chrActs + 1
    /\ UNCHANGED <<chrAttached, chrLatest, chrRevoking, chrOrphans>>
ChrCreateFails(o) ==
    /\ chrOp[o].at = "create" /\ ChrEnds(o)
    /\ UNCHANGED <<chrGrants, chrOwner, chrAttached, chrLatest, chrArmed, chrTab, chrRevoking, chrRows, chrActs,
                   chrOrphans>>

ChrAdopts(o) ==
    /\ chrOp[o].at = "adopt" /\ ChrMoves(o, "attach")
    /\ chrGrants' = [chrGrants EXCEPT ![chrOp[o].grant].tabs = @ \cup {chrOp[o].tab}]
    /\ chrOwner' = [chrOwner EXCEPT ![chrOp[o].tab] = chrOp[o].grant]
    /\ UNCHANGED <<chrAttached, chrLatest, chrArmed, chrTab, chrRevoking, chrRows, chrActs, chrOrphans>>

\* revokeStoredGrant: detach at the extension, if it can be reached and agrees; the rows
\* go in any case.
ChrDetachArrives(o, row) ==
    /\ chrOp[o] = ChrIdle /\ row \in chrRows
    /\ chrOp' = [chrOp EXCEPT ![o] = [cmd |-> "detach", tab |-> row.tab, grant |-> 0, at |-> "reply"]]
    /\ IF ChrControls(row.task, row.tab)
       THEN LET g == ChrGrantOf(row.task)
            IN IF row.parent = 0 THEN ChrRevokeFrom(chrGrants, chrOwner, chrAttached, g)
               ELSE /\ chrGrants' = [chrGrants EXCEPT ![g].tabs = @ \ {row.tab}]
                    /\ chrOwner' = ChrDisowned(row.tab) /\ chrAttached' = chrAttached \ {row.tab}
                    /\ UNCHANGED <<chrLatest, chrRevoking>>
       ELSE UNCHANGED <<chrGrants, chrOwner, chrAttached, chrLatest, chrRevoking>>
    /\ UNCHANGED <<chrArmed, chrTab, chrRows, chrActs, chrOrphans>>
ChrDetachAnswered(o, row) ==
    /\ chrOp[o].cmd = "detach" /\ row \in chrRows /\ row.tab = chrOp[o].tab /\ ChrEnds(o)
    /\ chrRows' = IF row.parent = 0 THEN {r \in chrRows : r.task # row.task} ELSE chrRows \ {row}
    /\ UNCHANGED <<chrGrants, chrOwner, chrAttached, chrLatest, chrArmed, chrTab, chrRevoking, chrActs, chrOrphans>>

ChrNext ==
    \/ \E o \in ChrOps, t \in ChrTabs :
          \/ ChrGesture(o, t)
          \/ \E cmd \in {"look", "click", "openTab"}, task \in ChrTasks : ChrRequest(o, cmd, task, t)
    \/ \E opener \in ChrTabs \cup {0}, heard \in BOOLEAN : ChrTabOpens(opener, heard)
    \/ \E t \in ChrTabs : ChrTabCloses(t) \/ ChrDetached(t) \/ ChrArmExpires(t)
    \/ \E r \in chrRevoking : ChrRevokeGoesOn(r)
    \/ \E o \in ChrOps, task \in ChrTasks, g \in ChrGrantIds : ChrBind(o, task, g)
    \/ \E o \in ChrOps : \/ ChrAttaches(o) \/ ChrAttachFails(o) \/ ChrSends(o) \/ ChrSendFails(o)
                         \/ ChrCreateFails(o) \/ ChrAdopts(o) \/ \E heard \in BOOLEAN : ChrCreates(o, heard)
    \/ \E o \in ChrOps, row \in chrRows : ChrDetachArrives(o, row) \/ ChrDetachAnswered(o, row)

ChrSpec == ChrInit /\ [][ChrNext]_chrVars

-----------------------------------------------------------------------------
(* Properties *)

\* No tab is ever controlled by two runs, however grants are revoked, renewed and bound
\* while operations are under way.
ChrOneController ==
    \A t \in ChrTabs : \A a, b \in ChrTasks : ChrControls(a, t) /\ ChrControls(b, t) => a = b

\* Every tab of a grant is one the user clicked, or was created by openTab, or is the one
\* tab that an act of the agent (a click, an openTab) may bring about besides: popups do
\* not join a grant on their own.
ChrOneTabPerAct ==
    LET roots == {chrGrants[g].root : g \in ChrUsed}
    IN Cardinality((UNION {chrGrants[g].tabs : g \in ChrUsed}) \ roots) <= chrActs

\* The debugger stays attached to a tab without a live grant only while revokeGrant is
\* still at it, or if the attachment was under way when the grant went.
ChrAttachedIsGranted ==
    \A t \in chrAttached \ chrOrphans :
        \/ \E g \in ChrLive : t \in chrGrants[g].tabs
        \/ \E r \in chrRevoking : t \in ChrRest(r)

\* Tabs are controlled as the user granted: by one run each, no more of them than were
\* clicked or brought about by an act, and with no debugger left behind.
ChrTabsControlled == ChrOneController /\ ChrOneTabPerAct /\ ChrAttachedIsGranted
=============================================================================
