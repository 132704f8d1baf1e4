------------------------------- MODULE PublicFetch -----------------------------
(* web_fetch and web_search of workers/runner-security.ts: every URL of a chain of    *)
(* redirects is checked and resolved afresh, the request goes to the address that was *)
(* checked, and the body is read under a limit and a deadline. Names may resolve      *)
(* differently each time, servers answer as they like.                                *)
EXTENDS Naturals, Sequences, FiniteSets

CONSTANTS
    FxHosts,       \* host names
    FxEngine,      \* those of the search service
    FxAddresses,   \* addresses names resolve to
    FxPublic,      \* those outside every blocked range
    FxMaxHops,     \* requests a fetch may make
    FxMaxBytes     \* the largest body

ASSUME FxAssumption ==
    /\ FxEngine \subseteq FxHosts /\ FxPublic \subseteq FxAddresses
    /\ FxMaxHops \in Nat /\ FxMaxBytes \in Nat

FxUrls == [host : FxHosts, scheme : {"https", "http", "other"}, login : BOOLEAN]

VARIABLES
    fxSearch,     \* is this a search, confined to the hosts of the search service?
    fxStage,      \* "check", "connect", "headers", "body", "done"
    fxUrl,        \* the URL being fetched
    fxHops,       \* requests made
    fxAddress,    \* the address the request goes to
    fxRead,       \* bytes of the body read so far
    fxPromise,    \* what the request's promise settled with, "open" before
    fxResult      \* how the fetch ended, "open" before

fxVars == <<fxSearch, fxStage, fxUrl, fxHops, fxAddress, fxRead, fxPromise, fxResult>>

FxNoAddress == "none"

FxEnds(result) ==
    fxStage' = "done" /\ fxResult' = result /\ UNCHANGED <<fxUrl, fxHops, fxAddress, fxRead>>

--------------------------------------------------------------------------------
(* Before a request: fetchPublicDocument and resolvePublicAddress. *)

FxAllowed == ~fxSearch \/ (fxUrl.scheme = "https" /\ fxUrl.host \in FxEngine)
FxMayGo == FxAllowed

FxWellFormed == ~fxUrl.login /\ fxUrl.scheme \in {"http", "https"}

\* Faulty variant: one public address among them is enough.
FxSomePublic(records) == \E i \in DOMAIN records : records[i] \in FxPublic
\* A name resolves to a list; one address that is not public refuses them all.
FxAllPublic(records) == records # <<>> /\ \A i \in DOMAIN records : records[i] \in FxPublic

FxHopsLeft == fxHops < FxMaxHops

FxAnswers == {<<>>} \cup [1 .. 1 -> FxAddresses] \cup [1 .. 2 -> FxAddresses]

FxCheck ==
    /\ fxStage = "check"
    /\ IF ~FxHopsLeft THEN FxEnds("too many redirects")
       ELSE IF ~FxMayGo \/ ~FxWellFormed THEN FxEnds("refused")
       ELSE \E records \in FxAnswers :
              IF ~FxAllPublic(records) THEN FxEnds("refused")
              ELSE /\ fxStage' = "connect" /\ fxAddress' = records[1]
                   /\ UNCHANGED <<fxUrl, fxHops, fxRead, fxResult>>
    /\ UNCHANGED <<fxSearch, fxPromise>>

\* pinnedHttpRequest opens the connection to the address it was given.
FxConnect ==
    /\ fxStage = "connect"
    /\ fxStage' = "headers" /\ fxHops' = fxHops + 1 /\ fxRead' = 0 /\ fxPromise' = "open"
    /\ UNCHANGED <<fxSearch, fxUrl, fxAddress, fxResult>>

--------------------------------------------------------------------------------
(* The answer. *)

\* Only the first settlement of a promise counts.
FxSettles(how) == fxPromise' = IF fxPromise = "open" THEN how ELSE fxPromise

\* Headers that announce too much are not read any further.
FxHeaders(declared) ==
    /\ fxStage = "headers"
    /\ IF declared > FxMaxBytes THEN FxSettles("too large") ELSE UNCHANGED fxPromise
    /\ fxStage' = "body"
    /\ UNCHANGED <<fxSearch, fxUrl, fxHops, fxAddress, fxRead, fxResult>>

\* A chunk that passes the limit destroys the response, whose error settles the promise.
FxOverflow(n) == FxSettles("too large") /\ UNCHANGED fxRead

FxChunk(n) ==
    /\ fxStage = "body" /\ fxPromise = "open"
    /\ IF fxRead + n > FxMaxBytes THEN FxOverflow(n) ELSE fxRead' = fxRead + n /\ UNCHANGED fxPromise
    /\ UNCHANGED <<fxSearch, fxStage, fxUrl, fxHops, fxAddress, fxResult>>

FxEnd ==
    /\ fxStage = "body" /\ FxSettles("answered")
    /\ UNCHANGED <<fxSearch, fxStage, fxUrl, fxHops, fxAddress, fxRead, fxResult>>

\* The connection fails, or the deadline of the request passes at any of its stages.
FxUnderDeadline == fxStage \in {"headers", "body"}

FxFails ==
    /\ FxUnderDeadline /\ fxPromise = "open" /\ FxSettles("failed")
    /\ UNCHANGED <<fxSearch, fxStage, fxUrl, fxHops, fxAddress, fxRead, fxResult>>

\* fetchPublicDocument goes on with the settled request.
FxRedirect(url) ==
    /\ fxPromise = "answered" /\ fxStage = "body"
    /\ fxStage' = "check" /\ fxUrl' = url
    /\ UNCHANGED <<fxSearch, fxHops, fxAddress, fxRead, fxPromise, fxResult>>

FxReturn(result) ==
    /\ fxStage \in {"headers", "body"} /\ fxPromise # "open"
    /\ IF fxPromise = "answered" THEN result \in {"document", "status", "unreadable"}
       ELSE result = fxPromise
    /\ result = "unreadable" => fxSearch
    /\ FxEnds(result)
    /\ UNCHANGED <<fxSearch, fxPromise>>

FxInit ==
    /\ fxSearch \in BOOLEAN /\ fxStage = "check" /\ fxHops = 0
    /\ fxUrl \in FxUrls
    /\ fxSearch => fxUrl.host \in FxEngine /\ fxUrl.scheme = "https" /\ ~fxUrl.login
    /\ fxAddress = FxNoAddress /\ fxRead = 0 /\ fxPromise = "open" /\ fxResult = "open"

FxGoesOn ==
    \/ FxCheck \/ FxConnect
    \/ \E u \in FxUrls : FxRedirect(u)
    \/ \E o \in {"document", "status", "unreadable", "failed", "too large"} : FxReturn(o)
FxNext ==
    \/ FxGoesOn \/ FxFails \/ FxEnd
    \/ \E n \in 0 .. FxMaxBytes + 1 : FxHeaders(n)
    \/ \E n \in 1 .. FxMaxBytes : FxChunk(n)

FxSpec == FxInit /\ [][FxNext]_fxVars

--------------------------------------------------------------------------------
(* Properties. *)

\* What is read never passes the limit, and a fetch makes FxMaxHops requests at most.
FxTypeOK ==
    /\ fxRead <= FxMaxBytes /\ fxHops <= FxMaxHops
    /\ fxAddress \in FxAddresses \cup {FxNoAddress}
    /\ (fxStage = "done") = (fxResult # "open")
    /\ fxResult = "document" => fxPromise = "answered"

\* A request goes only to a public address, at every hop of a chain of redirects and
\* whatever the names resolve to meanwhile (resolvePublicAddress, pinnedHttpRequest).
FxOnlyPublic == fxStage \in {"headers", "body"} => fxAddress \in FxPublic

\* A search never leaves the search service, also when it is redirected (BING_SEARCH_HOSTS).
FxStaysWithEngine ==
    (fxSearch /\ fxStage \in {"connect", "headers", "body"})
    => fxUrl.host \in FxEngine /\ fxUrl.scheme = "https"

\* Every fetch ends: the deadline settles a request that nothing else does, and the
\* redirects are counted.
FxEveryFetchEnds ==
    (WF_fxVars(FxGoesOn) /\ WF_fxVars(FxFails)) => <>(fxStage = "done")

\* At every hop a request goes to a public address, and a search to the search service.
FxGoesWhereAllowed == FxOnlyPublic /\ FxStaysWithEngine
================================================================================
