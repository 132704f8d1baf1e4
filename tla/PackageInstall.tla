------------------------------ MODULE PackageInstall ----------------------------
(***************************************************************************)
(* A capability package from its choice to its installation:               *)
(* CapabilityPackageService.inspect (capability-package-service.ts) and    *)
(* capability-packages:choose and :install of ipc-api.ts, while the        *)
(* directory and the rules of the workspace are edited.  Each await is a   *)
(* step.  Paths, sizes and file types, which the inspection also refuses,  *)
(* are left out: a package here is one that has passed those.              *)
(***************************************************************************)
EXTENDS Naturals, Sequences

CONSTANTS
    PkgChoices,     \* selections the user makes
    PkgContents,    \* contents of a file
    PkgMaxChanges   \* bound: changes of the directory and of the rules

ASSUME PkgAssumption == PkgMaxChanges \in Nat /\ PkgContents \subseteq Nat \ {0}

\* A declared file is used at the inspection (an MCP configuration or a rule), read again at
\* the installation (a template) or copied by the import of the skill it belongs to.
PkgFiles == {"part", "template", "skill"}
PkgNone == 0
PkgUnread == [f \in PkgFiles |-> PkgNone]

VARIABLES
    pkgDisk,       \* the directory
    pkgSelected,   \* capabilitySelections: fingerprint by selection
    pkgShown,      \* ghost: what the preview showed of a selection
    pkgAt,         \* where the handler of a selection is
    pkgHashes,     \* what its inspection has hashed so far
    pkgTaken,      \* contents that its installation has in hand
    pkgRules,      \* rules of the workspace: who has added to them
    pkgRulesRead,  \* the rules as an installation read them
    pkgListed,     \* installedCapabilityPackages: selections
    pkgListRead,   \* the list as an installation read it
    pkgInstalled,  \* contents installed by selection
    pkgSlip,       \* ghost: the skill was changed after the installation had hashed it
    pkgCount       \* changes so far

pkgVars == <<pkgDisk, pkgSelected, pkgShown, pkgAt, pkgHashes, pkgTaken, pkgRules, pkgRulesRead, pkgListed,
             pkgListRead, pkgInstalled, pkgSlip, pkgCount>>

PkgRead == PkgContents \cup {PkgNone}
PkgPlaces == {"idle", "choosing", "chosen", "inspecting", "template", "skill", "writing", "done", "failed"}

PkgTypeOK ==
    /\ pkgDisk \in [PkgFiles -> PkgContents] /\ pkgSelected \in [PkgChoices -> [PkgFiles -> PkgRead]]
    /\ pkgShown \in [PkgChoices -> [PkgFiles -> PkgRead]] /\ pkgAt \in [PkgChoices -> PkgPlaces]
    /\ pkgHashes \in [PkgChoices -> [PkgFiles -> PkgRead]] /\ pkgTaken \in [PkgChoices -> [PkgFiles -> PkgRead]]
    /\ pkgRules \subseteq PkgChoices \cup {"user"} /\ pkgListed \subseteq PkgChoices
    /\ pkgRulesRead \in [PkgChoices -> SUBSET (PkgChoices \cup {"user"})]
    /\ pkgListRead \in [PkgChoices -> SUBSET PkgChoices]
    /\ pkgInstalled \in [PkgChoices -> [PkgFiles -> PkgRead]] /\ pkgSlip \subseteq PkgChoices
    /\ pkgCount \in 0..PkgMaxChanges
    \* Only a selection that waits to be confirmed is in the table.
    /\ \A s \in PkgChoices : pkgSelected[s] # PkgUnread <=> pkgAt[s] = "chosen"

PkgInit ==
    /\ \E c \in PkgContents : pkgDisk = [f \in PkgFiles |-> c]
    /\ pkgAt = [s \in PkgChoices |-> "idle"] /\ pkgRules = {} /\ pkgListed = {} /\ pkgSlip = {} /\ pkgCount = 0
    /\ pkgSelected = [s \in PkgChoices |-> PkgUnread] /\ pkgShown = [s \in PkgChoices |-> PkgUnread]
    /\ pkgHashes = [s \in PkgChoices |-> PkgUnread] /\ pkgTaken = [s \in PkgChoices |-> PkgUnread]
    /\ pkgInstalled = [s \in PkgChoices |-> PkgUnread]
    /\ pkgRulesRead = [s \in PkgChoices |-> {}] /\ pkgListRead = [s \in PkgChoices |-> {}]

-----------------------------------------------------------------------------
(* Inspection *)

PkgGoes(s, at) == pkgAt' = [pkgAt EXCEPT ![s] = at]
PkgFails(s) == PkgGoes(s, "failed")
PkgScanned(s) == \A f \in PkgFiles : pkgHashes[s][f] # PkgNone
PkgWorkspace == <<pkgRules, pkgRulesRead, pkgListed, pkgListRead>>

PkgChoose(s) ==
    /\ pkgAt[s] = "idle" /\ PkgGoes(s, "choosing")
    /\ UNCHANGED <<pkgDisk, pkgSelected, pkgShown, pkgHashes, pkgTaken, PkgWorkspace, pkgInstalled, pkgSlip, pkgCount>>

\* scanTree: readRegularFile hashes one file after the other, in the order of their names.
PkgScan(s, f) ==
    /\ pkgAt[s] \in {"choosing", "inspecting"} /\ pkgHashes[s][f] = PkgNone
    /\ f = "skill" => pkgHashes[s]["part"] # PkgNone
    /\ f = "template" => pkgHashes[s]["skill"] # PkgNone
    /\ pkgHashes' = [pkgHashes EXCEPT ![s][f] = pkgDisk[f]]
    /\ UNCHANGED <<pkgDisk, pkgSelected, pkgShown, pkgAt, pkgTaken, PkgWorkspace, pkgInstalled, pkgSlip, pkgCount>>

PkgUnchanged(s, f) == pkgDisk[f] = pkgHashes[s][f]

\* The declared parts are read for use; their hashes must be those of the scan.
PkgPartRead(s) ==
    /\ pkgAt[s] \in {"choosing", "inspecting"} /\ PkgScanned(s) /\ pkgTaken[s]["part"] = PkgNone
    /\ IF PkgUnchanged(s, "part")
       THEN pkgTaken' = [pkgTaken EXCEPT ![s]["part"] = pkgDisk["part"]] /\ UNCHANGED pkgAt
       ELSE PkgFails(s) /\ UNCHANGED pkgTaken
    /\ UNCHANGED <<pkgDisk, pkgSelected, pkgShown, pkgHashes, PkgWorkspace, pkgInstalled, pkgSlip, pkgCount>>
PkgInspected(s) == PkgScanned(s) /\ pkgTaken[s]["part"] # PkgNone

\* choose ends: the selection is kept with its fingerprint, the preview goes to the user.
PkgPreview(s) ==
    /\ pkgAt[s] = "choosing" /\ PkgInspected(s) /\ PkgGoes(s, "chosen")
    /\ pkgSelected' = [pkgSelected EXCEPT ![s] = pkgHashes[s]]
    /\ pkgShown' = [pkgShown EXCEPT ![s] = [pkgHashes[s] EXCEPT !["part"] = pkgTaken[s]["part"]]]
    /\ pkgHashes' = [pkgHashes EXCEPT ![s] = PkgUnread] /\ pkgTaken' = [pkgTaken EXCEPT ![s] = PkgUnread]
    /\ UNCHANGED <<pkgDisk, PkgWorkspace, pkgInstalled, pkgSlip, pkgCount>>

-----------------------------------------------------------------------------
(* Installation *)

PkgSelectedWithout(s) == [pkgSelected EXCEPT ![s] = PkgUnread]

\* The selection goes with the confirmation, before anything is awaited; after ten minutes
\* it is void.
PkgConfirm(s, inTime) ==
    /\ pkgAt[s] = "chosen" /\ pkgSelected' = PkgSelectedWithout(s)
    /\ PkgGoes(s, IF inTime THEN "inspecting" ELSE "failed")
    /\ UNCHANGED <<pkgDisk, pkgShown, pkgHashes, pkgTaken, PkgWorkspace, pkgInstalled, pkgSlip, pkgCount>>

\* Faulty variant: the package is inspected again, but not compared with the preview.
PkgSameAnyway(s) == TRUE
PkgSame(s) == pkgHashes[s] = pkgShown[s]

\* The fingerprint, the list of installed packages and the rules of the workspace, without
\* an await between them.  All choices here are of the same name and version.
PkgChecks(s) ==
    /\ pkgAt[s] = "inspecting" /\ PkgInspected(s)
    /\ IF PkgSame(s) /\ pkgListed = {}
       THEN /\ PkgGoes(s, "template")
            /\ pkgRulesRead' = [pkgRulesRead EXCEPT ![s] = pkgRules] /\ pkgListRead' = [pkgListRead EXCEPT ![s] = pkgListed]
       ELSE PkgFails(s) /\ UNCHANGED <<pkgRulesRead, pkgListRead>>
    /\ UNCHANGED <<pkgDisk, pkgSelected, pkgShown, pkgHashes, pkgTaken, pkgRules, pkgListed, pkgInstalled, pkgSlip, pkgCount>>

\* Templates are read again.
PkgTemplateRead(s) ==
    /\ pkgAt[s] = "template"
    /\ IF PkgUnchanged(s, "template")
       THEN pkgTaken' = [pkgTaken EXCEPT ![s]["template"] = pkgDisk["template"]] /\ PkgGoes(s, "skill")
       ELSE PkgFails(s) /\ UNCHANGED pkgTaken
    /\ UNCHANGED <<pkgDisk, pkgSelected, pkgShown, pkgHashes, PkgWorkspace, pkgInstalled, pkgSlip, pkgCount>>

\* SkillService.import copies what it finds (SkillImport); MCP servers and rules follow
\* without an await, from what was read before.
PkgSkillImported(s, ok) ==
    /\ pkgAt[s] = "skill"
    /\ IF ok
       THEN /\ pkgInstalled' = [pkgInstalled EXCEPT ![s]["skill"] = pkgDisk["skill"], ![s]["part"] = pkgTaken[s]["part"]]
            /\ pkgRules' = pkgRulesRead[s] \cup {s} /\ PkgGoes(s, "writing")
       ELSE PkgFails(s) /\ UNCHANGED <<pkgInstalled, pkgRules>>
    /\ UNCHANGED <<pkgDisk, pkgSelected, pkgShown, pkgHashes, pkgTaken, pkgRulesRead, pkgListed, pkgListRead, pkgSlip, pkgCount>>

\* Templates are written, then the package is listed.
PkgListedNow(s) ==
    /\ pkgAt[s] = "writing" /\ PkgGoes(s, "done")
    /\ pkgInstalled' = [pkgInstalled EXCEPT ![s]["template"] = pkgTaken[s]["template"]]
    /\ pkgListed' = pkgListRead[s] \cup {s}
    /\ UNCHANGED <<pkgDisk, pkgSelected, pkgShown, pkgHashes, pkgTaken, pkgRules, pkgRulesRead, pkgListRead, pkgSlip, pkgCount>>

-----------------------------------------------------------------------------
(* Others *)

PkgCounted == pkgCount < PkgMaxChanges /\ pkgCount' = pkgCount + 1

PkgChanges(f, c) ==
    /\ c # pkgDisk[f] /\ PkgCounted /\ pkgDisk' = [pkgDisk EXCEPT ![f] = c]
    /\ pkgSlip' = IF f = "skill" THEN pkgSlip \cup {s \in PkgChoices : pkgAt[s] \in {"inspecting", "template", "skill"}
                                                                     /\ pkgHashes[s]["skill"] # PkgNone} ELSE pkgSlip
    /\ UNCHANGED <<pkgSelected, pkgShown, pkgAt, pkgHashes, pkgTaken, PkgWorkspace, pkgInstalled>>
PkgUserRules ==
    /\ PkgCounted /\ pkgRules' = pkgRules \cup {"user"}
    /\ UNCHANGED <<pkgDisk, pkgSelected, pkgShown, pkgAt, pkgHashes, pkgTaken, pkgRulesRead, pkgListed, pkgListRead,
                   pkgInstalled, pkgSlip>>

PkgNext ==
    \/ \E s \in PkgChoices : \/ PkgChoose(s) \/ PkgPartRead(s) \/ PkgPreview(s) \/ PkgChecks(s) \/ PkgTemplateRead(s)
                             \/ PkgListedNow(s)
                             \/ \E f \in PkgFiles : PkgScan(s, f)
                             \/ \E ok \in BOOLEAN : PkgConfirm(s, ok) \/ PkgSkillImported(s, ok)
    \/ \E f \in PkgFiles, c \in PkgContents : PkgChanges(f, c)
    \/ PkgUserRules

PkgSpec == PkgInit /\ [][PkgNext]_pkgVars

-----------------------------------------------------------------------------
(* Properties *)

\* What is installed is what the user was shown, however the directory is edited between
\* the preview and the last copy.  The skill is the exception: its import copies what it
\* finds, so an edit after the second inspection slips in.
PkgAsConfirmed ==
    \A s \in PkgChoices, f \in PkgFiles :
        pkgInstalled[s][f] \notin {PkgNone, pkgShown[s][f]} => f = "skill" /\ s \in pkgSlip

\* The preview is of one package: the configuration that it shows is the one that its
\* fingerprint covers.
PkgPreviewHonest == \A s \in PkgChoices : pkgSelected[s] # PkgUnread => pkgSelected[s] = pkgShown[s]

\* What is installed is what the preview showed and the user confirmed.
PkgInstalledAsShown == PkgAsConfirmed /\ PkgPreviewHonest
=============================================================================
