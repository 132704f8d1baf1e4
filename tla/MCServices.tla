------------------------------- MODULE MCServices -------------------------------
(* Services that do not touch each other's state: a behaviour exercises the one   *)
(* that `focus` names, so their state spaces add up.                              *)
EXTENDS Automations, McpOAuth, McpConnections, ChromeBridge, ProcessOutput, PublicFetch,
        MCFileLeases, ReadLimiter

VARIABLE focus

MCSchedules == {[type |-> "once", at |-> 2, every |-> 1],
                [type |-> "interval", at |-> 0, every |-> 2],
                [type |-> "cron", at |-> 1, every |-> 3]}

vars == <<focus, autoVars, oauthVars, mcpVars, brVars, outVars, fxVars, leaseVars, limVars>>

\* What is not exercised keeps one of its initial states.
Init ==
    /\ focus \in {"automations", "oauth", "mcp", "bridge", "output", "fetch", "leases", "reads"}
    /\ AutoInit /\ OAuthInit /\ McpInit /\ BrInit /\ OutInit /\ FxInit /\ LeaseInit /\ LimInit
    /\ focus # "output" => outTool = "command"
    /\ focus # "fetch" => fxSearch /\ fxUrl.host \in FxEngine

Next ==
    \/ /\ focus = "automations" /\ AutoNext
       /\ UNCHANGED <<focus, oauthVars, mcpVars, brVars, outVars, fxVars, leaseVars, limVars>>
    \/ /\ focus = "oauth" /\ OAuthNext
       /\ UNCHANGED <<focus, autoVars, mcpVars, brVars, outVars, fxVars, leaseVars, limVars>>
    \/ /\ focus = "mcp" /\ McpNext
       /\ UNCHANGED <<focus, autoVars, oauthVars, brVars, outVars, fxVars, leaseVars, limVars>>
    \/ /\ focus = "bridge" /\ BrNext
       /\ UNCHANGED <<focus, autoVars, oauthVars, mcpVars, outVars, fxVars, leaseVars, limVars>>
    \/ /\ focus = "output" /\ OutNext
       /\ UNCHANGED <<focus, autoVars, oauthVars, mcpVars, brVars, fxVars, leaseVars, limVars>>
    \/ /\ focus = "fetch" /\ FxNext
       /\ UNCHANGED <<focus, autoVars, oauthVars, mcpVars, brVars, outVars, leaseVars, limVars>>
    \/ /\ focus = "leases" /\ LeaseNext
       /\ UNCHANGED <<focus, autoVars, oauthVars, mcpVars, brVars, outVars, fxVars, limVars>>
    \/ /\ focus = "reads" /\ LimNext
       /\ UNCHANGED <<focus, autoVars, oauthVars, mcpVars, brVars, outVars, fxVars, leaseVars>>

FairSpec ==
    /\ Init /\ [][Next]_vars
    /\ WF_autoVars(focus = "automations" /\ AutoTickFires)
    /\ WF_autoVars(focus = "automations" /\ AutoTickEnds)
    /\ \A a \in Autos : WF_autoVars(focus = "automations" /\ AutoMisfire(a))
                        /\ WF_autoVars(focus = "automations" /\ AutoTrigger(a))

\* The shapes of what the services keep.
ServicesTypeOK ==
    /\ AutoTypeOK /\ OAuthTypeOK /\ McpTypeOK /\ BrTypeOK
    /\ OutTypeOK /\ FxTypeOK /\ LeaseTypeOK /\ LimTypeOK

\* Whoever waits for a service is answered in the end, each under the fairness its own
\* premise states: timers fire, what is awaited settles, the application stays up.
EveryWaitEnds ==
    /\ AutoDueIsHandled
    /\ OAuthBusyEnds
    /\ McpEveryUseEnds
    /\ BrEveryRequestSettles /\ BrReconnected
    /\ OutCommandEnds
    /\ FxEveryFetchEnds
    /\ EveryReadEnds /\ AbortEndsReads
=============================================================================
