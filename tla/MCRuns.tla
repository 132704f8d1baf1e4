--------------------------------- MODULE MCRuns ---------------------------------
(* What belongs to runs beside their life cycle; a behaviour exercises the component *)
(* that `focus` names, so their state spaces add up.                                  *)
EXTENDS RunBudget, Delegation, ChromeTabs, Traces, AuditTrail, SearchBudget,
        EventStream, RunView

VARIABLE focus

vars == <<focus, budVars, delVars, chrVars, trVars, audVars, sbVars, strVars, viewVars>>

Init ==
    /\ focus \in {"budget", "delegation", "tabs", "traces", "audit", "searches", "text", "view"}
    /\ BudInit /\ DelInit /\ ChrInit /\ TrInit /\ AudInit /\ SbInit
    /\ StrInit /\ ViewInit

Next ==
    \/ /\ focus = "budget" /\ BudNext
       /\ UNCHANGED <<focus, delVars, chrVars, trVars, audVars, sbVars, strVars, viewVars>>
    \/ /\ focus = "delegation" /\ DelNext
       /\ UNCHANGED <<focus, budVars, chrVars, trVars, audVars, sbVars, strVars, viewVars>>
    \/ /\ focus = "tabs" /\ ChrNext
       /\ UNCHANGED <<focus, budVars, delVars, trVars, audVars, sbVars, strVars, viewVars>>
    \/ /\ focus = "traces" /\ TrNext
       /\ UNCHANGED <<focus, budVars, delVars, chrVars, audVars, sbVars, strVars, viewVars>>
    \/ /\ focus = "audit" /\ AudNext
       /\ UNCHANGED <<focus, budVars, delVars, chrVars, trVars, sbVars, strVars, viewVars>>
    \/ /\ focus = "searches" /\ SbNext
       /\ UNCHANGED <<focus, budVars, delVars, chrVars, trVars, audVars, strVars, viewVars>>
    \/ /\ focus = "text" /\ StrNext
       /\ UNCHANGED <<focus, budVars, delVars, chrVars, trVars, audVars, sbVars, viewVars>>
    \/ /\ focus = "view" /\ ViewNext
       /\ UNCHANGED <<focus, budVars, delVars, chrVars, trVars, audVars, sbVars, strVars>>

Spec == Init /\ [][Next]_vars

\* The shapes of what belongs to runs; what is not exercised keeps its initial shape.
RunsTypeOK ==
    /\ focus = "budget" => BudTypeOK
    /\ focus = "delegation" => DelTypeOK
    /\ focus = "tabs" => ChrTypeOK
    /\ focus = "traces" => TrTypeOK
    /\ focus = "audit" => AudTypeOK
    /\ focus = "searches" => SbTypeOK
    /\ focus = "text" => StrTypeOK
    /\ focus = "view" => ViewTypeOK
==================================================================================
