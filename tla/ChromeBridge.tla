------------------------------ MODULE ChromeBridge -----------------------------
(***************************************************************************)
(* The path between the desktop and the browser: requests of               *)
(* chrome-bridge.ts, the native messaging host (native-host/src/main.rs),  *)
(* and the port of the extension with its reconnection                     *)
(* (service-worker.ts).  A connection is one host process with its socket  *)
(* to the desktop and its port to the extension; each end learns of its    *)
(* death on its own time, and a new one may be there before that.          *)
(***************************************************************************)
EXTENDS Integers, Sequences, SequencesExt

CONSTANTS
    BrMaxConns,  \* bound on host processes started
    BrRequests   \* requests the desktop makes

ASSUME BrAssumption == BrMaxConns \in Nat

BrConns == 1..BrMaxConns

VARIABLES
    brUp,       \* the desktop listens
    brSockets,  \* ChromeBridge.sockets, in the order they were attached
    brHost,     \* host processes: unused, starting, connected, gone
    brPort,     \* nativePort, 0 if undefined
    brOpen,     \* ports the extension has not seen disconnect
    brTimer,    \* reconnectTimer is set
    brDown,     \* requests on their way to the extension, by connection
    brBack,     \* responses on their way to the desktop, by connection
    brServing,  \* requests the extension works on, with the port it took
    brPending,  \* ChromeBridge.pending
    brState     \* what the caller of request() has

brVars == <<brUp, brSockets, brHost, brPort, brOpen, brTimer, brDown, brBack, brServing, brPending,
            brState>>

BrTypeOK ==
    /\ brUp \in BOOLEAN /\ brSockets \in Seq(BrConns) /\ brPort \in brOpen \cup {0} /\ brOpen \subseteq BrConns
    /\ brHost \in [BrConns -> {"unused", "starting", "connected", "gone"}] /\ brTimer \in BOOLEAN
    /\ brDown \in [BrConns -> Seq(BrRequests)] /\ brBack \in [BrConns -> Seq([req : BrRequests, ok : BOOLEAN])]
    /\ brServing \subseteq [req : BrRequests, port : BrConns] /\ brPending \subseteq BrRequests
    /\ brState \in [BrRequests -> {"new", "asked", "ok", "error", "timeout", "disconnected"}]

BrInit ==
    /\ brUp = FALSE /\ brSockets = <<>> /\ brHost = [c \in BrConns |-> "unused"] /\ brPort = 0 /\ brOpen = {}
    /\ brTimer = FALSE /\ brDown = [c \in BrConns |-> <<>>] /\ brBack = [c \in BrConns |-> <<>>]
    /\ brServing = {} /\ brPending = {} /\ brState = [r \in BrRequests |-> "new"]

-----------------------------------------------------------------------------
(* The desktop *)

\* request() ends for those of S that are pending.
BrSettled(S, state) == [r \in BrRequests |-> IF r \in S \cap brPending THEN state ELSE brState[r]]

BrStarts ==
    /\ ~brUp /\ brUp' = TRUE
    /\ UNCHANGED <<brSockets, brHost, brPort, brOpen, brTimer, brDown, brBack, brServing, brPending, brState>>

\* stop: the sockets are destroyed and what is pending is rejected.
BrStops ==
    /\ brUp /\ brUp' = FALSE /\ brSockets' = <<>>
    /\ brHost' = [c \in BrConns |-> IF brHost[c] = "connected" THEN "gone" ELSE brHost[c]]
    /\ brPending' = {} /\ brState' = BrSettled(BrRequests, "disconnected")
    /\ UNCHANGED <<brPort, brOpen, brTimer, brDown, brBack, brServing>>

\* request: written to the newest socket, whether or not its other end is still there.
BrAsks(r) ==
    /\ brState[r] = "new" /\ brSockets # <<>>
    /\ brState' = [brState EXCEPT ![r] = "asked"] /\ brPending' = brPending \cup {r}
    /\ brDown' = [brDown EXCEPT ![Last(brSockets)] = Append(@, r)]
    /\ UNCHANGED <<brUp, brSockets, brHost, brPort, brOpen, brTimer, brBack, brServing>>

\* Faulty variant: a response settles the request but leaves its entry.
BrPendingAll(r) == brPending
BrPendingWithout(r) == brPending \ {r}

\* handle: a response to what is not pending any more is dropped.
BrAnswered(c) ==
    /\ Contains(brSockets, c) /\ brBack[c] # <<>> /\ brBack' = [brBack EXCEPT ![c] = Tail(@)]
    /\ LET res == Head(brBack[c])
       IN /\ brState' = BrSettled({res.req}, IF res.ok THEN "ok" ELSE "error")
          /\ brPending' = BrPendingWithout(res.req)
    /\ UNCHANGED <<brUp, brSockets, brHost, brPort, brOpen, brTimer, brDown, brServing>>

BrTimesOut(r) ==
    /\ r \in brPending /\ brPending' = brPending \ {r} /\ brState' = BrSettled({r}, "timeout")
    /\ UNCHANGED <<brUp, brSockets, brHost, brPort, brOpen, brTimer, brDown, brBack, brServing>>

BrDisconnected == BrSettled(BrRequests, "disconnected")
BrLeft(left) == IF left = <<>> THEN {} ELSE brPending

\* close or error of a socket: with the last one everything pending is rejected.
BrSocketCloses(c) ==
    /\ Contains(brSockets, c) /\ brHost[c] = "gone"
    /\ LET left == RemoveAt(brSockets, CHOOSE i \in DOMAIN brSockets : brSockets[i] = c)
       IN /\ brSockets' = left /\ brPending' = BrLeft(left)
          /\ brState' = IF left = <<>> THEN BrDisconnected ELSE brState
    /\ brDown' = [brDown EXCEPT ![c] = <<>>] /\ brBack' = [brBack EXCEPT ![c] = <<>>]
    /\ UNCHANGED <<brUp, brHost, brPort, brOpen, brTimer, brServing>>

-----------------------------------------------------------------------------
(* The native host: it connects or exits, relays, and dies with either of its ends *)

BrHostConnects(c) ==
    /\ brHost[c] = "starting"
    /\ brHost' = [brHost EXCEPT ![c] = IF brUp THEN "connected" ELSE "gone"]
    /\ brSockets' = IF brUp THEN Append(brSockets, c) ELSE brSockets
    /\ UNCHANGED <<brUp, brPort, brOpen, brTimer, brDown, brBack, brServing, brPending, brState>>

\* It is killed, or one side breaks the framing.
BrHostDies(c) ==
    /\ brHost[c] = "connected" /\ brHost' = [brHost EXCEPT ![c] = "gone"]
    /\ UNCHANGED <<brUp, brSockets, brPort, brOpen, brTimer, brDown, brBack, brServing, brPending, brState>>

\* A request larger than Chrome takes: bridge.error goes to the extension, which ignores it.
BrTooLarge(c) ==
    /\ brHost[c] = "connected" /\ brDown[c] # <<>> /\ brDown' = [brDown EXCEPT ![c] = Tail(@)]
    /\ UNCHANGED <<brUp, brSockets, brHost, brPort, brOpen, brTimer, brBack, brServing, brPending, brState>>

-----------------------------------------------------------------------------
(* The extension *)

BrUnused == {c \in BrConns : brHost[c] = "unused"}

BrNoPort == brPort = 0

BrConnects ==
    IF ~BrNoPort THEN UNCHANGED <<brHost, brPort, brOpen>>
    ELSE \E c \in BrUnused : /\ brHost' = [brHost EXCEPT ![c] = "starting"]
                            /\ brPort' = c /\ brOpen' = brOpen \cup {c}

\* ensureNativePort when the reconnect timer fires.
BrReconnects ==
    /\ brTimer /\ brTimer' = FALSE /\ BrConnects
    /\ UNCHANGED <<brUp, brSockets, brDown, brBack, brServing, brPending, brState>>

\* Or when the browser starts, the extension is installed or its icon clicked; a timer
\* that is set goes with a new port.
BrEnsures ==
    /\ BrConnects /\ brTimer' = (brTimer /\ ~BrNoPort)
    /\ UNCHANGED <<brUp, brSockets, brDown, brBack, brServing, brPending, brState>>

\* Faulty variant: the loss of a port is only noted.
BrNotScheduled == brTimer
\* scheduleReconnect: a timer that is set stays.
BrScheduled == TRUE

BrPortWithout(c) == IF brPort = c THEN 0 ELSE brPort

\* onDisconnect of a port.
BrPortCloses(c) ==
    /\ c \in brOpen /\ brHost[c] = "gone"
    /\ brOpen' = brOpen \ {c} /\ brPort' = BrPortWithout(c) /\ brTimer' = BrScheduled
    /\ UNCHANGED <<brUp, brSockets, brHost, brDown, brBack, brServing, brPending, brState>>

\* onNativeMessage: nativePort is read before the request is executed; without one the
\* request is dropped.
BrReceives(c) ==
    /\ c \in brOpen /\ brHost[c] = "connected" /\ brDown[c] # <<>>
    /\ brDown' = [brDown EXCEPT ![c] = Tail(@)]
    /\ brServing' = IF brPort = 0 THEN brServing ELSE brServing \cup {[req |-> Head(brDown[c]), port |-> brPort]}
    /\ UNCHANGED <<brUp, brSockets, brHost, brPort, brOpen, brTimer, brBack, brPending, brState>>

BrPosted(c, r, ok) ==
    IF c = 0 \/ c \notin brOpen THEN brBack ELSE [brBack EXCEPT ![c] = Append(@, [req |-> r, ok |-> ok])]

\* Its result is posted to that port; if it failed, or the port has gone by then, an
\* error to the port of the moment.
BrServed(s, ok) ==
    /\ s \in brServing /\ brServing' = brServing \ {s}
    /\ brBack' = IF ok /\ s.port \in brOpen THEN BrPosted(s.port, s.req, TRUE) ELSE BrPosted(brPort, s.req, FALSE)
    /\ UNCHANGED <<brUp, brSockets, brHost, brPort, brOpen, brTimer, brDown, brPending, brState>>

BrNext ==
    \/ BrStarts \/ BrStops \/ BrReconnects \/ BrEnsures
    \/ \E r \in BrRequests : BrAsks(r) \/ BrTimesOut(r)
    \/ \E c \in BrConns : \/ BrAnswered(c) \/ BrSocketCloses(c) \/ BrHostConnects(c) \/ BrHostDies(c)
                          \/ BrTooLarge(c) \/ BrPortCloses(c) \/ BrReceives(c)
    \/ \E s \in brServing, ok \in BOOLEAN : BrServed(s, ok)

BrSpec == BrInit /\ [][BrNext]_brVars

-----------------------------------------------------------------------------
(* Properties *)

\* Whoever waits for the browser waits for something that can still come: a request is
\* pending exactly while its caller waits, and only while some socket is attached.
BrNoOrphans ==
    /\ \A r \in BrRequests : r \in brPending <=> brState[r] = "asked"
    /\ brPending # {} => brSockets # <<>>

\* The extension never runs two hosts, so the desktop's newest socket is the only one
\* that leads anywhere and no request can be served twice.
BrOneHost ==
    \A c, d \in BrConns : {brHost[c], brHost[d]} \subseteq {"starting", "connected"} => c = d

\* Every request ends for its caller, though hosts die with it on board, drop it or are
\* replaced: its timer sees to it.
BrEveryRequestSettles ==
    (\A r \in BrRequests : WF_brVars(BrTimesOut(r))) =>
        \A r \in BrRequests : brState[r] = "asked" ~> brState[r] # "asked"

\* Once it has had a port the extension always gets another one (while the bound leaves
\* hosts to start), if timers fire and Chrome tells it of ports that have gone.
BrReconnected ==
    (WF_brVars(BrReconnects) /\ \A c \in BrConns : WF_brVars(BrPortCloses(c))) =>
        [](brOpen # {} => []<>(brPort # 0 \/ BrUnused = {}))

\* Requests wait only where an answer can come from, and that is one host (chrome-bridge.ts
\* with the extension's connectNative).
BrLinked == BrNoOrphans /\ BrOneHost
=============================================================================
