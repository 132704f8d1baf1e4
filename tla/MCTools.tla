-------------------------------- MODULE MCTools --------------------------------
(* What tools do, what their receipts are worth in the end, and what the requests to   *)
(* the model and their approvals are made of; a behaviour exercises the component that  *)
(* `focus` names, so their state spaces add up.                                         *)
EXTENDS FileChanges, ManagedProcess, Conversation, SkillImport, PackageInstall, RunPreparation,
        CompletionGate, MCAccessPolicy

VARIABLE focus

MCMemory(st, sc, mine, r, z) == [state |-> st, scope |-> sc, own |-> mine, rank |-> r, size |-> z]
MCMems == {MCMemory("confirmed", "user", TRUE, 690, 4), MCMemory("confirmed", "thread", TRUE, 620, 1),
           MCMemory("confirmed", "thread", FALSE, 620, 1), MCMemory("proposed", "user", TRUE, 620, 1)}
MCHist == {<<FALSE, FALSE, TRUE, TRUE>>, <<TRUE, TRUE, TRUE, FALSE>>}

vars == <<focus, filVars, procVars, conVars, skVars, pkgVars, prepVars, gateVars, accVars>>

\* What is not exercised keeps one of its initial states.
Init ==
    /\ focus \in {"files", "processes", "conversation", "skills", "packages", "preparation", "gate", "access"}
    /\ FilInit /\ ProcInit /\ ConInit /\ SkInit /\ PkgInit /\ PrepInit /\ GateInit /\ AccInit
    /\ focus # "files" => filDisk = 0
    /\ focus # "conversation" => conMessages[1].size = 1 /\ conReceipt = "done"
    /\ focus # "skills" => skDir = "none"
    /\ focus # "packages" => \A f \in PkgFiles : pkgDisk[f] = 1
    /\ focus # "preparation" => prepWindow = 14 /\ prepRules = <<0, 0>> /\ prepSkill = 1
                               /\ prepMemory.rank = 690 /\ ~prepReceipts[1]
                               /\ \A i \in 1..2 : prepFiles[i] = [text |-> TRUE, size |-> 1]

Next ==
    \/ /\ focus = "files" /\ FilNext
       /\ UNCHANGED <<focus, procVars, conVars, skVars, pkgVars, prepVars, gateVars, accVars>>
    \/ /\ focus = "processes" /\ ProcNext
       /\ UNCHANGED <<focus, filVars, conVars, skVars, pkgVars, prepVars, gateVars, accVars>>
    \/ /\ focus = "conversation" /\ ConNext
       /\ UNCHANGED <<focus, filVars, procVars, skVars, pkgVars, prepVars, gateVars, accVars>>
    \/ /\ focus = "skills" /\ SkNext
       /\ UNCHANGED <<focus, filVars, procVars, conVars, pkgVars, prepVars, gateVars, accVars>>
    \/ /\ focus = "packages" /\ PkgNext
       /\ UNCHANGED <<focus, filVars, procVars, conVars, skVars, prepVars, gateVars, accVars>>
    \/ /\ focus = "preparation" /\ PrepNext
       /\ UNCHANGED <<focus, filVars, procVars, conVars, skVars, pkgVars, gateVars, accVars>>
    \/ /\ focus = "gate" /\ GateNext
       /\ UNCHANGED <<focus, filVars, procVars, conVars, skVars, pkgVars, prepVars, accVars>>
    \/ /\ focus = "access" /\ AccNext
       /\ UNCHANGED <<focus, filVars, procVars, conVars, skVars, pkgVars, prepVars, gateVars>>

Spec == Init /\ [][Next]_vars

\* The shapes of what tools and requests keep; what is not exercised keeps its initial shape.
ToolsTypeOK ==
    /\ focus = "files" => FilTypeOK
    /\ focus = "processes" => ProcTypeOK
    /\ focus = "conversation" => ConTypeOK
    /\ focus = "skills" => SkTypeOK
    /\ focus = "packages" => PkgTypeOK
    /\ focus = "preparation" => PrepTypeOK
    /\ focus = "gate" => GateTypeOK
    /\ focus = "access" => AccTypeOK

\* TLC's view: what decides the next step.  accLast only records what the last step ran;
\* the action properties that read it are evaluated on every step, known states or not.
Undecorated ==
    <<focus, filVars, procVars, conVars, skVars, pkgVars, prepVars, gateVars,
      accMode, accPending, accGrants, accRules, accClock>>
=================================================================================
