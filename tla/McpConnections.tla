----------------------------- MODULE McpConnections -----------------------------
(***************************************************************************)
(* The connections of one MCP server: FingerprintedConnectionCache of      *)
(* runner-security.ts, connectMcp and the mcp.* tools of tool-runner.ts,   *)
(* and their callers in Main (mcp_* calls of tool-broker.ts, mcp:upsert    *)
(* and mcp:remove of ipc-api.ts), who read a configuration, await its      *)
(* secret and send it.  Transport and authentication are left out: a       *)
(* configuration is a version of the server's row and secret.              *)
(***************************************************************************)
EXTENDS Naturals, Sequences, FiniteSets

CONSTANTS
    McpUses,       \* calls of tools of the server
    McpDrops,      \* changes of its configuration by the user, each with its mcp.disconnect
    McpNobody,     \* not one of these
    McpMaxConfig,  \* bound: versions of the configuration
    McpMaxConns    \* bound: connections opened

ASSUME McpAssumption ==
    /\ McpUses \cap McpDrops = {} /\ McpNobody \notin McpUses \cup McpDrops
    /\ McpMaxConfig \in Nat \ {0} /\ McpMaxConns \in Nat

McpActors == McpUses \cup McpDrops
McpIds == 1..McpMaxConns

VARIABLES
    mcpConfig,   \* version of the row of the server
    mcpWants,    \* the version a caller has read
    mcpSent,     \* commands on their way to the Tool Runner
    mcpAt,       \* where a command stands
    mcpReady,    \* handlers whose promise has settled, in the order they run
    mcpQueue,    \* handlers that await pending, in the order they came
    mcpPending,  \* FingerprintedConnectionCache.pending: who replaces the connection
    mcpEntry,    \* FingerprintedConnectionCache.entries: a connection, or 0
    mcpConn,     \* connections
    mcpOf,       \* the version a connection was opened with
    mcpHas       \* the connection a handler closes, opens or uses

mcpVars == <<mcpConfig, mcpWants, mcpSent, mcpAt, mcpReady, mcpQueue, mcpPending, mcpEntry, mcpConn, mcpOf, mcpHas>>

McpPlaces == {"new", "reading", "sent", "looking", "waiting", "woken", "closing", "opening", "using", "done", "failed"}

McpTypeOK ==
    /\ mcpConfig \in 1..McpMaxConfig /\ mcpWants \in [McpActors -> 0..McpMaxConfig] /\ mcpSent \in Seq(McpActors)
    /\ mcpAt \in [McpActors -> McpPlaces] /\ mcpReady \in Seq(McpActors) /\ mcpQueue \in Seq(McpActors)
    /\ mcpPending \in McpUses \cup {McpNobody} /\ mcpEntry \in 0..McpMaxConns
    /\ mcpConn \in [McpIds -> {"unused", "opening", "open", "dead", "closing", "closed"}]
    /\ mcpOf \in [McpIds -> 0..McpMaxConfig] /\ mcpHas \in [McpActors -> 0..McpMaxConns]
    \* Whoever waits, waits for a replacement under way.
    /\ mcpPending # McpNobody <=> \E u \in McpUses : mcpAt[u] \in {"closing", "opening"}
    /\ mcpPending = McpNobody => mcpQueue = <<>>

McpInit ==
    /\ mcpConfig = 1 /\ mcpWants = [a \in McpActors |-> 0] /\ mcpSent = <<>> /\ mcpAt = [a \in McpActors |-> "new"]
    /\ mcpReady = <<>> /\ mcpQueue = <<>> /\ mcpPending = McpNobody /\ mcpEntry = 0
    /\ mcpConn = [c \in McpIds |-> "unused"] /\ mcpOf = [c \in McpIds |-> 0] /\ mcpHas = [a \in McpActors |-> 0]

-----------------------------------------------------------------------------
(* Main *)

McpCache == <<mcpReady, mcpQueue, mcpPending, mcpEntry, mcpConn, mcpOf, mcpHas>>
McpGoes(a, at) == mcpAt' = [mcpAt EXCEPT ![a] = at]

\* The row is read; the secret it names is decrypted; the command is posted.
McpRead(u) ==
    /\ mcpAt[u] = "new" /\ McpGoes(u, "reading") /\ mcpWants' = [mcpWants EXCEPT ![u] = mcpConfig]
    /\ UNCHANGED <<mcpConfig, mcpSent, McpCache>>
McpPost(u) ==
    /\ mcpAt[u] = "reading" /\ McpGoes(u, "sent") /\ mcpSent' = Append(mcpSent, u)
    /\ UNCHANGED <<mcpConfig, mcpWants, McpCache>>

\* mcp:upsert and mcp:remove store the row and post mcp.disconnect at once.
McpUpsert(d) ==
    /\ mcpAt[d] = "new" /\ mcpConfig < McpMaxConfig /\ mcpConfig' = mcpConfig + 1
    /\ McpGoes(d, "sent") /\ mcpSent' = Append(mcpSent, d)
    /\ UNCHANGED <<mcpWants, McpCache>>

\* McpOAuth stores new tokens: the secret is part of the fingerprint.
McpTokens ==
    /\ mcpConfig < McpMaxConfig /\ mcpConfig' = mcpConfig + 1
    /\ UNCHANGED <<mcpWants, mcpSent, mcpAt, McpCache>>

-----------------------------------------------------------------------------
(* The Tool Runner *)

\* Between two events nothing is ready to run.
McpQuiet == mcpReady = <<>>
McpRuns(a, at) == mcpReady # <<>> /\ Head(mcpReady) = a /\ mcpAt[a] \in at /\ mcpReady' = Tail(mcpReady)
McpFresh == CHOOSE c \in McpIds : mcpConn[c] = "unused"
McpRoom == \E c \in McpIds : mcpConn[c] = "unused"
McpMain == <<mcpConfig, mcpWants, mcpSent>>

McpArrives ==
    /\ McpQuiet /\ mcpSent # <<>> /\ mcpSent' = Tail(mcpSent)
    /\ mcpReady' = <<Head(mcpSent)>> /\ McpGoes(Head(mcpSent), "looking")
    /\ UNCHANGED <<mcpConfig, mcpWants, mcpQueue, mcpPending, mcpEntry, mcpConn, mcpOf, mcpHas>>

\* Faulty variant: a replacement under way is not waited for.
McpBusyNever(a) == FALSE
McpBusy(a) == mcpPending # McpNobody
McpWaits(a) ==
    /\ McpRuns(a, {"looking"}) /\ McpBusy(a) /\ McpGoes(a, "waiting") /\ mcpQueue' = Append(mcpQueue, a)
    /\ UNCHANGED <<McpMain, mcpPending, mcpEntry, mcpConn, mcpOf, mcpHas>>

McpFits(u) == mcpEntry # 0 /\ mcpOf[mcpEntry] = mcpWants[u]
McpReuses(u) ==
    /\ McpRuns(u, {"looking"}) /\ ~McpBusy(u) /\ McpFits(u)
    /\ McpGoes(u, "using") /\ mcpHas' = [mcpHas EXCEPT ![u] = mcpEntry]
    /\ UNCHANGED <<McpMain, mcpQueue, mcpPending, mcpEntry, mcpConn, mcpOf>>

\* create(): of the connections `conn`, one that was never used is opened for u.
McpOpens(u, conn) ==
    /\ McpRoom /\ McpGoes(u, "opening")
    /\ mcpConn' = [conn EXCEPT ![McpFresh] = "opening"] /\ mcpOf' = [mcpOf EXCEPT ![McpFresh] = mcpWants[u]]
    /\ mcpHas' = [mcpHas EXCEPT ![u] = McpFresh]

McpReplaces(u) ==
    /\ McpRuns(u, {"looking"}) /\ ~McpBusy(u) /\ ~McpFits(u) /\ mcpPending' = u /\ mcpEntry' = 0
    /\ IF mcpEntry = 0 THEN McpOpens(u, mcpConn)
       ELSE /\ McpGoes(u, "closing") /\ mcpConn' = [mcpConn EXCEPT ![mcpEntry] = "closing"]
            /\ mcpHas' = [mcpHas EXCEPT ![u] = mcpEntry] /\ UNCHANGED mcpOf
    /\ UNCHANGED <<McpMain, mcpQueue>>
McpOldClosed(u) ==
    /\ McpQuiet /\ mcpAt[u] = "closing" /\ McpOpens(u, [mcpConn EXCEPT ![mcpHas[u]] = "closed"])
    /\ UNCHANGED <<McpMain, mcpReady, mcpQueue, mcpPending, mcpEntry>>

\* The replacement settles: those who await it run next.  A use looks again, a disconnect
\* goes on.
McpWoken(a, at) ==
    [b \in McpActors |-> IF b = a THEN at ELSE IF mcpAt[b] # "waiting" THEN mcpAt[b]
                         ELSE IF b \in McpDrops THEN "woken" ELSE "looking"]
McpPendingAfter(ok) == McpNobody
McpOpened(u, ok) ==
    /\ McpQuiet /\ mcpAt[u] = "opening" /\ mcpPending' = McpPendingAfter(ok)
    /\ mcpConn' = [mcpConn EXCEPT ![mcpHas[u]] = IF ok THEN "open" ELSE "closed"]
    /\ mcpEntry' = IF ok THEN mcpHas[u] ELSE mcpEntry
    /\ mcpAt' = McpWoken(u, IF ok THEN "using" ELSE "failed") /\ mcpReady' = mcpQueue /\ mcpQueue' = <<>>
    /\ UNCHANGED <<McpMain, mcpOf, mcpHas>>

McpEntryWithout(d) == 0

\* disconnect does not look at pending a second time: a replacement that begins when it
\* wakes goes on.
McpDisconnects(d) ==
    /\ McpRuns(d, {"looking", "woken"}) /\ (mcpAt[d] = "looking" => ~McpBusy(d))
    /\ mcpEntry' = McpEntryWithout(d)
    /\ IF mcpEntry = 0 THEN McpGoes(d, "done") /\ UNCHANGED <<mcpConn, mcpHas>>
       ELSE /\ McpGoes(d, "closing") /\ mcpConn' = [mcpConn EXCEPT ![mcpEntry] = "closing"]
            /\ mcpHas' = [mcpHas EXCEPT ![d] = mcpEntry]
    /\ UNCHANGED <<McpMain, mcpQueue, mcpPending, mcpOf>>
McpDisconnected(d) ==
    /\ McpQuiet /\ mcpAt[d] = "closing" /\ McpGoes(d, "done")
    /\ mcpConn' = [mcpConn EXCEPT ![mcpHas[d]] = "closed"]
    /\ UNCHANGED <<McpMain, mcpReady, mcpQueue, mcpPending, mcpEntry, mcpOf, mcpHas>>

\* The call on the connection ends; it fails if the connection was closed under it.
McpCalled(u) ==
    /\ McpQuiet /\ mcpAt[u] = "using" /\ McpGoes(u, IF mcpConn[mcpHas[u]] = "open" THEN "done" ELSE "failed")
    /\ UNCHANGED <<McpMain, McpCache>>

\* The server goes away; the cache is not told.
McpDies(c) ==
    /\ McpQuiet /\ mcpConn[c] = "open" /\ mcpConn' = [mcpConn EXCEPT ![c] = "dead"]
    /\ UNCHANGED <<McpMain, mcpAt, mcpReady, mcpQueue, mcpPending, mcpEntry, mcpOf, mcpHas>>

McpHandles(a) ==
    \/ McpWaits(a)
    \/ a \in McpUses /\ (McpReuses(a) \/ McpReplaces(a))
    \/ a \in McpDrops /\ McpDisconnects(a)
McpSettles(a) ==
    \/ a \in McpUses /\ (McpOldClosed(a) \/ McpCalled(a) \/ \E ok \in BOOLEAN : McpOpened(a, ok))
    \/ a \in McpDrops /\ McpDisconnected(a)
McpNext ==
    \/ McpTokens \/ McpArrives
    \/ \E u \in McpUses : McpRead(u) \/ McpPost(u)
    \/ \E d \in McpDrops : McpUpsert(d)
    \/ \E a \in McpActors : McpHandles(a) \/ McpSettles(a)
    \/ \E c \in McpIds : McpDies(c)

McpSpec == McpInit /\ [][McpNext]_mcpVars

-----------------------------------------------------------------------------
(* Properties *)

\* "Serializes connection replacement per server and closes stale fingerprints": however
\* uses, disconnects and new configurations cross, at most one connection is open or being
\* opened, and one that is open can be found and closed.
McpOneLive ==
    /\ Cardinality({c \in McpIds : mcpConn[c] \in {"opening", "open"}}) <= 1
    /\ \A c \in McpIds : mcpConn[c] = "open" => mcpEntry = c

\* A connection in the table has not been closed: a use is never handed a closed one.
McpEntryUsable == mcpEntry # 0 => mcpConn[mcpEntry] \in {"open", "dead"}

\* A call goes over a connection that was made with the configuration it was sent with,
\* never with an older address or token.
McpAsAsked == \A u \in McpUses : mcpAt[u] = "using" => mcpOf[mcpHas[u]] = mcpWants[u]

\* If what is awaited settles, every command that reached the Tool Runner ends (while the
\* bound leaves connections to open), although each may be sent back to wait again.
McpEveryUseEnds ==
    (\A a \in McpActors : WF_mcpVars(McpHandles(a)) /\ WF_mcpVars(McpSettles(a))) =>
        \A a \in McpActors : mcpAt[a] \in {"looking", "waiting"} ~> mcpAt[a] \in {"done", "failed"} \/ ~McpRoom

\* A server is reached over one connection that is open and was made with the
\* configuration of the call (getOrConnectMcp).
McpServesAsConfigured == McpOneLive /\ McpEntryUsable /\ McpAsAsked
=============================================================================
