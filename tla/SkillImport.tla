------------------------------- MODULE SkillImport ------------------------------
(***************************************************************************)
(* One skill directory and its row while imports of the same name, scans,  *)
(* a removal and the switch of the settings page overlap: SkillService of  *)
(* skill-service.ts.  Each await is a step; the directory is replaced by   *)
(* way of a hidden copy and a hidden backup.                               *)
(***************************************************************************)
EXTENDS Naturals, FiniteSets

CONSTANTS
    SkImports,     \* imports, each of a version of its own
    SkMaxSwitches  \* bound: uses of the switch

ASSUME SkAssumption ==
    /\ IsFiniteSet(SkImports) /\ SkImports \cap {"installed", "none", "idle"} = {}
    /\ SkMaxSwitches \in Nat

\* 0 is no directory; the first version is there from the beginning or not.
SkContents == SkImports \cup {"installed"}
SkNone == [version |-> "none", enabled |-> FALSE]

VARIABLES
    skDir,       \* the directory of the skill: its version, or "none"
    skRow,       \* its row in the table skills
    skOp,        \* where each import is
    skCopy,      \* hidden copies of imports: none, partial or whole
    skBackup,    \* hidden backups of imports
    skBefore,    \* ghost: directory and row when an import began, and if it has been alone
    skScan,      \* the scan: idle, or the version that it parsed
    skRemoving,  \* where the removal is
    skCount      \* uses of the switch

skVars == <<skDir, skRow, skOp, skCopy, skBackup, skBefore, skScan, skRemoving, skCount>>

SkPhases == {"new", "copying", "copied", "moving", "placing", "placed", "clearing", "undoing", "restoring", "done", "failed"}
SkActive == {i \in SkImports : skOp[i] \notin {"new", "done", "failed"}}

SkTypeOK ==
    /\ skDir \in SkContents \cup {"none"}
    /\ skRow \in [version : SkContents, enabled : BOOLEAN] \cup {SkNone}
    /\ skOp \in [SkImports -> SkPhases] /\ skCopy \in [SkImports -> {"none", "partial", "whole"}]
    /\ skBackup \in [SkImports -> SkContents \cup {"none"}]
    /\ skBefore \in [SkImports -> [dir : SkContents \cup {"none"}, row : [version : SkContents \cup {"none"}, enabled : BOOLEAN],
                                   alone : BOOLEAN]]
    /\ skScan \in SkContents \cup {"idle"} /\ skRemoving \in {"no", "deleting", "unlisting", "done"}
    /\ skCount \in 0..SkMaxSwitches
    \* What an import had hidden is gone when it is over.
    /\ \A i \in SkImports : skOp[i] = "failed" => skCopy[i] = "none"

SkInit ==
    /\ \E v \in {"none", "installed"} :
          /\ skDir = v /\ skRow = IF v = "none" THEN SkNone ELSE [version |-> v, enabled |-> TRUE]
    /\ skOp = [i \in SkImports |-> "new"] /\ skCopy = [i \in SkImports |-> "none"]
    /\ skBackup = [i \in SkImports |-> "none"]
    /\ skBefore = [i \in SkImports |-> [dir |-> "none", row |-> SkNone, alone |-> TRUE]]
    /\ skScan = "idle" /\ skRemoving = "no" /\ skCount = 0

-----------------------------------------------------------------------------
(* Import *)

SkGoes(i, at) == skOp' = [skOp EXCEPT ![i] = at]
\* Whoever else is at work has company now.
SkCompany == [i \in SkImports |-> IF i \in SkActive THEN [skBefore[i] EXCEPT !.alone = FALSE] ELSE skBefore[i]]
SkRest == UNCHANGED <<skScan, skRemoving, skCount>>

\* The source has been parsed.
SkBegin(i) ==
    /\ skOp[i] = "new" /\ SkGoes(i, "copying") /\ skCopy' = [skCopy EXCEPT ![i] = "partial"]
    /\ skBefore' = [SkCompany EXCEPT ![i] = [dir |-> skDir, row |-> skRow,
                                             alone |-> SkActive = {} /\ skRemoving \in {"no", "done"}]]
    /\ UNCHANGED <<skDir, skRow, skBackup>> /\ SkRest

\* copyTree, and the copy parsed again; it may run into a link or a limit.
SkCopies(i, ok) ==
    /\ skOp[i] = "copying" /\ SkGoes(i, IF ok THEN "copied" ELSE "undoing")
    /\ skCopy' = [skCopy EXCEPT ![i] = IF ok THEN "whole" ELSE @]
    /\ UNCHANGED <<skDir, skRow, skBackup, skBefore>> /\ SkRest

\* rename(destination, backup), if there is one.
SkMovesAside(i) ==
    /\ skOp[i] = "copied" /\ SkGoes(i, "placing")
    /\ skBackup' = [skBackup EXCEPT ![i] = skDir] /\ skDir' = "none"
    /\ UNCHANGED <<skRow, skCopy, skBefore>> /\ SkRest

\* rename(temporary, destination) fails on a directory with files in it.
SkPlaces(i) ==
    /\ skOp[i] = "placing"
    /\ IF skDir = "none"
       THEN skDir' = i /\ skCopy' = [skCopy EXCEPT ![i] = "none"] /\ SkGoes(i, "placed")
       ELSE SkGoes(i, "undoing") /\ UNCHANGED <<skDir, skCopy>>
    /\ UNCHANGED <<skRow, skBackup, skBefore>> /\ SkRest

\* The row that is there as the new one is written decides.
SkEnabled == IF skRow = SkNone THEN TRUE ELSE skRow.enabled
SkUpsert(version) == skRow' = [version |-> version, enabled |-> SkEnabled]

\* assertManagedDirectory, then the row; the database may fail.
SkRecords(i, ok) ==
    /\ skOp[i] = "placed"
    /\ IF ok /\ skDir # "none" THEN SkUpsert(i) /\ SkGoes(i, "clearing") ELSE SkGoes(i, "restoring") /\ UNCHANGED skRow
    /\ UNCHANGED <<skDir, skCopy, skBackup, skBefore>> /\ SkRest
SkClears(i) ==
    /\ skOp[i] = "clearing" /\ SkGoes(i, "done") /\ skBackup' = [skBackup EXCEPT ![i] = "none"]
    /\ UNCHANGED <<skDir, skRow, skCopy, skBefore>> /\ SkRest

\* Faulty variants: the copy stays; the backup stays where it is.
SkCopiesKept(i) == skCopy
SkCopiesWithout(i) == [skCopy EXCEPT ![i] = "none"]
SkBackupLeft(i, dir) == dir
SkBackupMoved(i, dir) == IF dir = "none" THEN skBackup[i] ELSE dir

\* The way back: the copy goes, what was placed goes, the backup returns if nothing is there.
SkUndoes(i) ==
    /\ skOp[i] \in {"undoing", "restoring"} /\ SkGoes(i, "failed")
    /\ LET dir == IF skOp[i] = "restoring" THEN "none" ELSE skDir
       IN /\ skDir' = SkBackupMoved(i, dir)
          /\ skBackup' = IF dir = "none" THEN [skBackup EXCEPT ![i] = "none"] ELSE skBackup
    /\ skCopy' = SkCopiesWithout(i)
    /\ UNCHANGED <<skRow, skBefore>> /\ SkRest

-----------------------------------------------------------------------------
(* Scan, removal, switch *)

SkScanParses ==
    /\ skScan = "idle" /\ skDir # "none" /\ skScan' = skDir
    /\ UNCHANGED <<skDir, skRow, skOp, skCopy, skBackup, skBefore, skRemoving, skCount>>
\* The directory is resolved and the row written with what was parsed.
SkScanRecords ==
    /\ skScan # "idle" /\ skScan' = "idle"
    /\ IF skDir = "none" THEN UNCHANGED skRow ELSE SkUpsert(skScan)
    /\ skBefore' = SkCompany
    /\ UNCHANGED <<skDir, skOp, skCopy, skBackup, skRemoving, skCount>>

SkRemoveBegins ==
    /\ skRemoving = "no" /\ skRow # SkNone /\ skRemoving' = "deleting" /\ skBefore' = SkCompany
    /\ UNCHANGED <<skDir, skRow, skOp, skCopy, skBackup, skScan, skCount>>
SkRemoveDeletes ==
    /\ skRemoving = "deleting" /\ skRemoving' = "unlisting" /\ skDir' = "none" /\ skBefore' = SkCompany
    /\ UNCHANGED <<skRow, skOp, skCopy, skBackup, skScan, skCount>>
SkRemoveUnlists ==
    /\ skRemoving = "unlisting" /\ skRemoving' = "done" /\ skRow' = SkNone /\ skBefore' = SkCompany
    /\ UNCHANGED <<skDir, skOp, skCopy, skBackup, skScan, skCount>>

SkSetEnabled(on) ==
    /\ skRow # SkNone /\ skRow.enabled # on /\ skCount < SkMaxSwitches /\ skCount' = skCount + 1
    /\ skRow' = [skRow EXCEPT !.enabled = on] /\ skBefore' = SkCompany
    /\ UNCHANGED <<skDir, skOp, skCopy, skBackup, skScan, skRemoving>>

SkNext ==
    \/ \E i \in SkImports : \/ SkBegin(i) \/ SkMovesAside(i) \/ SkPlaces(i) \/ SkClears(i) \/ SkUndoes(i)
                            \/ \E ok \in BOOLEAN : SkCopies(i, ok) \/ SkRecords(i, ok)
    \/ SkScanParses \/ SkScanRecords \/ SkRemoveBegins \/ SkRemoveDeletes \/ SkRemoveUnlists
    \/ \E on \in BOOLEAN : SkSetEnabled(on)

SkSpec == SkInit /\ [][SkNext]_skVars

-----------------------------------------------------------------------------
(* Properties *)

\* An import that fails leaves the skill and its row as they were, unless others worked on
\* them at the same time.
SkFailureRestores ==
    [][\A i \in SkImports : skOp[i] # "failed" /\ skOp'[i] = "failed" /\ skBefore[i].alone =>
          skDir' = skBefore[i].dir /\ skRow' = skBefore[i].row]_skVars

\* What the user has switched off no import and no scan switches on again, as long as it is
\* there.
SkSwitchKept ==
    [][skRow # SkNone /\ skRow' # SkNone /\ skCount' = skCount => skRow'.enabled = skRow.enabled]_skVars

\* Imports that overlap never lose the skill that was installed: as long as nobody removes
\* it, some version is in its place when they are over, or it is still in a hidden backup
\* (when two crossed and the database failed as well).
SkNoneLost ==
    SkActive = {} /\ skRemoving = "no" /\ (\E i \in SkImports : skBefore[i].dir = "installed") =>
        skDir # "none" \/ \E i \in SkImports : skBackup[i] # "none"

\* Whatever imports, scans and removals cross or fail, the user keeps the skill and its
\* switch (importSkill, scan); each step leads to a state in which nothing is lost.
SkKept == [][SkNoneLost']_skVars /\ SkFailureRestores /\ SkSwitchKept
=============================================================================
