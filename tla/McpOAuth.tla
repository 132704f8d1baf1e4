------------------------------- MODULE McpOAuth -------------------------------
(***************************************************************************)
(* Authorization of an MCP server: McpOAuthService of mcp-oauth.ts, the    *)
(* routing of callbacks in ipc-api.ts, and the encrypted secret of the     *)
(* server's row.  Servers are independent, so one is modelled.  The OAuth  *)
(* SDK (discovery, PKCE, token exchange) is outside the repository: it     *)
(* saves what it learns through HostOAuthProvider and answers or throws.   *)
(*                                                                         *)
(* A flow is named by the number of its start; its state, its verifier and *)
(* the code the authorization server issues for it all carry that number.  *)
(* Refresh tokens are numbered too; 0 is none.                             *)
(***************************************************************************)
EXTENDS Integers, FiniteSets

CONSTANTS
    OAuthMaxFlows,   \* bound on interactive flows
    OAuthMaxTokens   \* bound on refresh tokens issued

ASSUME OAuthAssumption == OAuthMaxFlows \in Nat /\ OAuthMaxTokens \in Nat

VARIABLES
    oauthRow,       \* the server's row: there or not, its refresh token, expiry due
    oauthPending,   \* McpOAuthService.pending: flow, refresh token its provider loaded
    oauthPastTtl,   \* the pending flow is older than flowTtlMs
    oauthStates,    \* oauthServerByState
    oauthOp,        \* the operation that holds `busy`, with its provider
    oauthFlows,     \* flows started so far
    oauthIssued,    \* refresh tokens issued so far
    oauthExchanges  \* ghost: how often a code was exchanged with a verifier

oauthVars == <<oauthRow, oauthPending, oauthPastTtl, oauthStates, oauthOp, oauthFlows,
               oauthIssued, oauthExchanges>>

OAuthNone == [flow |-> 0, refresh |-> 0]
OAuthNoOp == [kind |-> "none", flow |-> 0, refresh |-> 0]
OAuthOp(kind, flow, refresh) == [kind |-> kind, flow |-> flow, refresh |-> refresh]
OAuthFree == oauthOp.kind = "none"

OAuthTypeOK ==
    /\ oauthRow \in [exists : BOOLEAN, refresh : Nat, expired : BOOLEAN]
    /\ oauthPending \in [flow : Nat, refresh : Nat] /\ oauthPastTtl \in BOOLEAN
    /\ oauthStates \subseteq 1..oauthFlows
    /\ oauthOp \in [kind : {"none", "start", "complete", "refresh"}, flow : Nat, refresh : Nat]
    /\ oauthFlows \in Nat /\ oauthIssued \in Nat /\ oauthRow.refresh <= oauthIssued
    /\ oauthExchanges \in [(1..OAuthMaxFlows) \X (1..OAuthMaxFlows) -> Nat]

OAuthInit ==
    /\ oauthRow = [exists |-> TRUE, refresh |-> 0, expired |-> FALSE]
    /\ oauthPending = OAuthNone /\ oauthPastTtl = FALSE /\ oauthStates = {}
    /\ oauthOp = OAuthNoOp /\ oauthFlows = 0 /\ oauthIssued = 0
    /\ oauthExchanges = [p \in (1..OAuthMaxFlows) \X (1..OAuthMaxFlows) |-> 0]

-----------------------------------------------------------------------------
(* Interactive flows *)

\* mcp:start-oauth, startOAuth: refused while another operation runs; the provider
\* starts from the stored secret.
OAuthStart ==
    /\ OAuthFree /\ oauthRow.exists /\ oauthFlows < OAuthMaxFlows
    /\ oauthFlows' = oauthFlows + 1
    /\ oauthOp' = OAuthOp("start", oauthFlows + 1, oauthRow.refresh)
    /\ UNCHANGED <<oauthRow, oauthPending, oauthPastTtl, oauthStates, oauthIssued, oauthExchanges>>

OAuthRouted(f) == oauthStates \cup {f}

\* The SDK asks for the redirect; the new flow replaces one that is still pending.
OAuthRedirected ==
    /\ oauthOp.kind = "start"
    /\ oauthPending' = [flow |-> oauthOp.flow, refresh |-> oauthOp.refresh]
    /\ oauthPastTtl' = FALSE /\ oauthStates' = OAuthRouted(oauthOp.flow)
    /\ oauthOp' = OAuthNoOp
    /\ UNCHANGED <<oauthRow, oauthFlows, oauthIssued, oauthExchanges>>

OAuthTtlPasses ==
    /\ oauthPending.flow # 0 /\ ~oauthPastTtl /\ oauthPastTtl' = TRUE
    /\ UNCHANGED <<oauthRow, oauthPending, oauthStates, oauthOp, oauthFlows, oauthIssued,
                   oauthExchanges>>

\* Faulty variant: any state is taken.
OAuthAnyState(f) == TRUE
OAuthStateMatches(f) == f = oauthPending.flow
OAuthConsumed == OAuthNone

\* A callback for flow f arrives by the deep link, which only knows the states in
\* oauthStates, or by mcp:complete-oauth, which names the server.
OAuthCallbackArrives(f, link) ==
    OAuthFree /\ f \in 1..oauthFlows /\ oauthPending.flow # 0 /\ (link => f \in oauthStates)

\* An expired flow is dropped, and so is one the authorization server refuses.
OAuthCallbackDrops(f, link) ==
    /\ OAuthCallbackArrives(f, link) /\ (oauthPastTtl \/ OAuthStateMatches(f))
    /\ oauthPending' = OAuthNone /\ oauthPastTtl' = FALSE
    /\ UNCHANGED <<oauthRow, oauthStates, oauthOp, oauthFlows, oauthIssued, oauthExchanges>>

\* A valid one is consumed, then its code is exchanged.
OAuthExchange(f, link) ==
    /\ OAuthCallbackArrives(f, link) /\ ~oauthPastTtl /\ OAuthStateMatches(f)
    /\ oauthPending' = OAuthConsumed
    /\ oauthOp' = OAuthOp("complete", f, oauthPending.refresh)
    /\ oauthExchanges' = [oauthExchanges EXCEPT ![<<f, oauthPending.flow>>] = @ + 1]
    /\ UNCHANGED <<oauthRow, oauthPastTtl, oauthStates, oauthFlows, oauthIssued>>

-----------------------------------------------------------------------------
(* Refresh, and what the SDK does with a provider *)

OAuthExpires ==
    /\ oauthRow.refresh # 0 /\ ~oauthRow.expired /\ oauthRow' = [oauthRow EXCEPT !.expired = TRUE]
    /\ UNCHANGED <<oauthPending, oauthPastTtl, oauthStates, oauthOp, oauthFlows, oauthIssued,
                   oauthExchanges>>

\* refreshOAuthIfNeeded before a call of the server's tools; refused while busy.
OAuthRefresh ==
    /\ OAuthFree /\ oauthRow.exists /\ oauthRow.refresh # 0 /\ oauthRow.expired
    /\ oauthOp' = OAuthOp("refresh", 0, oauthRow.refresh)
    /\ UNCHANGED <<oauthRow, oauthPending, oauthPastTtl, oauthStates, oauthFlows, oauthIssued,
                   oauthExchanges>>

\* persist: the provider's snapshot replaces the stored secret; it throws when the row
\* is gone.
OAuthPersisted(refresh, expired) ==
    IF oauthRow.exists THEN [oauthRow EXCEPT !.refresh = refresh, !.expired = expired] ELSE oauthRow

\* saveClientInformation, saveDiscoveryState: the tokens of the snapshot go with them.
OAuthSdkSaves ==
    /\ ~OAuthFree
    /\ oauthRow' = OAuthPersisted(oauthOp.refresh, oauthRow.expired /\ oauthOp.refresh # 0)
    /\ oauthOp' = IF oauthRow.exists THEN oauthOp ELSE OAuthNoOp
    /\ UNCHANGED <<oauthPending, oauthPastTtl, oauthStates, oauthFlows, oauthIssued, oauthExchanges>>

\* saveTokens, then the end of the operation; a response without a refresh token keeps
\* the one of the snapshot.
OAuthAuthorized(rotates) ==
    /\ oauthOp.kind \in {"complete", "refresh"} /\ (rotates => oauthIssued < OAuthMaxTokens)
    /\ oauthIssued' = IF rotates THEN oauthIssued + 1 ELSE oauthIssued
    /\ oauthRow' = OAuthPersisted(IF rotates THEN oauthIssued + 1 ELSE oauthOp.refresh, FALSE)
    /\ oauthStates' = IF oauthOp.kind = "complete" /\ oauthRow.exists
                      THEN oauthStates \ {oauthOp.flow} ELSE oauthStates
    /\ oauthOp' = OAuthNoOp
    /\ UNCHANGED <<oauthPending, oauthPastTtl, oauthFlows, oauthExchanges>>

OAuthReleased == OAuthNoOp

\* The SDK throws, having dropped the tokens the server rejects or not.
OAuthFails(invalid) ==
    /\ ~OAuthFree
    /\ oauthRow' = IF invalid THEN OAuthPersisted(0, FALSE) ELSE oauthRow
    /\ oauthOp' = OAuthReleased
    /\ UNCHANGED <<oauthPending, oauthPastTtl, oauthStates, oauthFlows, oauthIssued, oauthExchanges>>

-----------------------------------------------------------------------------
(* The user and the process *)

\* mcp:upsert with a secret replaces what is stored.
OAuthUpsert ==
    /\ oauthRow.exists /\ oauthRow' = [oauthRow EXCEPT !.refresh = 0, !.expired = FALSE]
    /\ UNCHANGED <<oauthPending, oauthPastTtl, oauthStates, oauthOp, oauthFlows, oauthIssued,
                   oauthExchanges>>

\* mcp:remove forgets the states; a pending flow stays with the service.
OAuthRemove ==
    /\ oauthRow.exists /\ oauthRow' = [exists |-> FALSE, refresh |-> 0, expired |-> FALSE]
    /\ oauthStates' = {}
    /\ UNCHANGED <<oauthPending, oauthPastTtl, oauthOp, oauthFlows, oauthIssued, oauthExchanges>>

\* Flows live in the process only.
OAuthRestart ==
    /\ oauthPending' = OAuthNone /\ oauthPastTtl' = FALSE /\ oauthStates' = {}
    /\ oauthOp' = OAuthNoOp
    /\ UNCHANGED <<oauthRow, oauthFlows, oauthIssued, oauthExchanges>>

OAuthNext ==
    \/ OAuthStart \/ OAuthRedirected \/ OAuthTtlPasses \/ OAuthExpires \/ OAuthRefresh
    \/ \E f \in 1..OAuthMaxFlows, link \in BOOLEAN :
          OAuthCallbackDrops(f, link) \/ OAuthExchange(f, link)
    \/ OAuthSdkSaves \/ \E b \in BOOLEAN : OAuthAuthorized(b) \/ OAuthFails(b)
    \/ OAuthUpsert \/ OAuthRemove \/ OAuthRestart

OAuthSpec == OAuthInit /\ [][OAuthNext]_oauthVars

-----------------------------------------------------------------------------
(* Properties *)

\* A code is exchanged once at most, with the verifier of the flow it was issued for,
\* however callbacks are repeated, delayed past the next start or delivered twice.
OAuthCodeOnce ==
    \A p \in DOMAIN oauthExchanges : oauthExchanges[p] <= IF p[1] = p[2] THEN 1 ELSE 0

\* A flow that still waits for its callback can be found by its state, unless the
\* server was removed.
OAuthPendingRoutes ==
    oauthRow.exists /\ oauthPending.flow # 0 => oauthPending.flow \in oauthStates

\* An operation releases the server in the end if the SDK comes to an end.
OAuthBusyEnds ==
    WF_oauthVars(OAuthRedirected \/ \E b \in BOOLEAN : OAuthAuthorized(b) \/ OAuthFails(b)) =>
        (~OAuthFree ~> OAuthFree)

\* A sign-in can always be finished and only once: its code is exchanged once, with its
\* own verifier, and its callback finds the server as long as it is waited for.
OAuthFlowsHold == OAuthCodeOnce /\ OAuthPendingRoutes
=============================================================================
