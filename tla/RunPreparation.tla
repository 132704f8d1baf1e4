----------------------------- MODULE RunPreparation -----------------------------
(***************************************************************************)
(* What of a run goes into the prompt of its agent:                        *)
(* RunPreparationPipeline (run-preparation-pipeline.ts), compileContext    *)
(* and compressContext (core/context.ts), selectMemoriesForRun             *)
(* (memory-selection.ts) and persistContextCheckpoint                      *)
(* (run-coordinator.ts).  An item has a kind, a size in one unit for       *)
(* bytes, characters and tokens, a rank, its priority, and a place that    *)
(* decides among equals; no text is modelled.  A prompt is a set of items. *)
(***************************************************************************)
EXTENDS Integers, Sequences, FiniteSets, SequencesExt, FiniteSetsExt, Functions

CONSTANTS
    PrepWindows,     \* context windows of models
    PrepRuleSizes,   \* sizes of a rule file, 0 for one that is missing
    PrepRuleLimit,   \* largest rule file
    PrepRulesTotal,  \* all rules together
    PrepFileSizes,   \* sizes of an attachment
    PrepInline,      \* largest attachment taken into the prompt
    PrepInlineTotal, \* all of them together
    PrepSkillSizes,  \* sizes of the catalogue of skills
    PrepMemories,    \* memories
    PrepHistories,   \* tool calls of a run, newest first: is it risky or uncertain?
    PrepSummary,     \* largest text of a checkpoint
    PrepFetched,     \* receipts read
    PrepShown,       \* receipts shown
    PrepMaxRuns      \* bound: preparations and checkpoints of the host

ASSUME PrepAssumption ==
    /\ PrepWindows \cup PrepRuleSizes \cup PrepFileSizes \cup PrepSkillSizes \subseteq Nat
    /\ {PrepRuleLimit, PrepRulesTotal, PrepInline, PrepInlineTotal, PrepSummary, PrepFetched, PrepShown,
        PrepMaxRuns} \subseteq Nat

Attachments == [text : BOOLEAN, size : PrepFileSizes]
PrepMemoryType == [state : {"confirmed", "proposed"}, scope : {"user", "workspace", "thread", "organization"},
                   own : BOOLEAN, rank : 600..700, size : Nat]
ASSUME PrepMemoryAssumption == PrepMemories \subseteq PrepMemoryType
ASSUME PrepHistoryAssumption == \A h \in PrepHistories : h \in Seq(BOOLEAN) /\ Len(h) >= PrepFetched

VARIABLES
    prepWindow,    \* contextWindow of the model
    prepRules,     \* rule files of the workspace, in the order they are read
    prepFiles,     \* attachments of the run
    prepMemory,    \* a memory
    prepSkill,     \* size of the catalogue of skills
    prepReceipts,  \* its tool calls
    prepStored,    \* the latest stored checkpoint: size and the items it names
    prepOut,       \* what the last preparation made
    prepCount      \* preparations so far

prepVars == <<prepWindow, prepRules, prepFiles, prepMemory, prepSkill, prepReceipts, prepStored, prepOut, prepCount>>
PrepInput == <<prepWindow, prepRules, prepFiles, prepMemory, prepSkill, prepReceipts>>

PrepNames == {<<"contract", 0>>, <<"task", 0>>, <<"environment", 0>>, <<"skill", 0>>, <<"memory", 0>>, <<"checkpoint", 0>>}
             \cup ({"rule", "manifest", "inline", "meta"} \X {1, 2})
PrepItems == [name : PrepNames, place : Nat, size : Nat, rank : Nat]
PrepNoCheckpoint == [size |-> 0, names |-> {}]
PrepNothing == [all |-> {}, items |-> {}, summary |-> 0, compressed |-> FALSE, shown |-> {}]

PrepTypeOK ==
    /\ prepWindow \in PrepWindows /\ prepRules \in [1..2 -> PrepRuleSizes] /\ prepFiles \in [1..2 -> Attachments]
    /\ prepMemory \in PrepMemories /\ prepSkill \in PrepSkillSizes /\ prepReceipts \in PrepHistories
    /\ prepStored.size \in Nat /\ prepStored.names \subseteq PrepNames /\ prepCount \in 0..PrepMaxRuns
    /\ prepOut.all \subseteq PrepItems /\ prepOut.items \subseteq prepOut.all
    /\ prepOut.summary \in 0..PrepSummary /\ prepOut.shown \subseteq 1..Len(prepReceipts)

PrepInit ==
    /\ prepWindow \in PrepWindows /\ prepRules \in [1..2 -> PrepRuleSizes] /\ prepFiles \in [1..2 -> Attachments]
    /\ prepMemory \in PrepMemories /\ prepSkill \in PrepSkillSizes /\ prepReceipts \in PrepHistories
    /\ prepStored = PrepNoCheckpoint /\ prepOut = PrepNothing /\ prepCount = 0

-----------------------------------------------------------------------------
(* Stages *)

PrepItem(kind, n, place, size, rank) == [name |-> <<kind, n>>, place |-> place, size |-> size, rank |-> rank]
PrepTotal(items) == SumFunction([it \in items |-> it.size])

\* Items by priority; among equals those with a date, then as they were compiled.
PrepBefore(a, b) == a.rank > b.rank \/ (a.rank = b.rank /\ a.place < b.place)
PrepAhead(items, it) == {a \in items : PrepBefore(a, it)}

\* Of the items, one after the other, what fits beside those taken before it.
PrepGreedy(items, room) ==
    CHOOSE taken \in SUBSET items :
        \A it \in items : it \in taken <=> it.size + PrepTotal(taken \cap PrepAhead(items, it)) <= room

\* loadWorkspaceRules: a file that is missing, too large or one too many is left out.
PrepRuleItems ==
    PrepGreedy({PrepItem("rule", i, 10 + i, prepRules[i], 850) :
                   i \in {j \in 1..2 : prepRules[j] > 0 /\ prepRules[j] <= PrepRuleLimit}}, PrepRulesTotal)

\* attachmentContextItems: a manifest for each, and its text where that is small enough.
PrepInlined ==
    PrepGreedy({PrepItem("inline", i, 30 + i, prepFiles[i].size, 650) :
                   i \in {j \in 1..2 : prepFiles[j].text /\ prepFiles[j].size <= PrepInline}}, PrepInlineTotal)
PrepAttachmentItems ==
    {PrepItem("manifest", i, 40 + i, 1, 910) : i \in 1..2} \cup PrepInlined
    \cup {PrepItem("meta", i, 50 + i, 1, 500) : i \in {j \in 1..2 : \A it \in PrepInlined : it.name # <<"inline", j>>}}

\* selectMemoriesForRun: the scope is an authority, an organization has none.
PrepMemorySelected ==
    /\ prepMemory.state = "confirmed"
    /\ prepMemory.scope = "user" \/ (prepMemory.scope \in {"workspace", "thread"} /\ prepMemory.own)
PrepMemoryItems == IF PrepMemorySelected THEN {PrepItem("memory", 0, 20, prepMemory.size, prepMemory.rank)} ELSE {}

\* loadPreviousCheckpoint.
PrepCheckpointItems == IF prepStored = PrepNoCheckpoint THEN {} ELSE {PrepItem("checkpoint", 0, 24, prepStored.size, 980)}

\* compileContext: what is stable, and the rest.
PrepStable == {PrepItem("contract", 0, 1, 1, 1000)} \cup PrepRuleItems
PrepDynamic ==
    {PrepItem("skill", 0, 21, prepSkill, 550), PrepItem("task", 0, 22, 1, 1000), PrepItem("environment", 0, 23, 1, 700)}
    \cup PrepMemoryItems \cup PrepCheckpointItems \cup PrepAttachmentItems
PrepCompiled == PrepStable \cup PrepDynamic

\* renderReceiptSection: of those that were read the risky and uncertain ones come first.
PrepReceiptBefore(i, j) == (prepReceipts[i] /\ ~prepReceipts[j]) \/ (prepReceipts[i] = prepReceipts[j] /\ i < j)
PrepReceiptsShown ==
    {i \in 1..PrepFetched : Cardinality({j \in 1..PrepFetched : PrepReceiptBefore(j, i)}) < PrepShown}

-----------------------------------------------------------------------------
(* compressContext *)

PrepTarget == LET most == (prepWindow * 6) \div 10 IN IF most > 1 THEN most ELSE 1
PrepThreshold == (prepWindow * 7) \div 10
PrepRequired(it) == it.name[1] \in {"contract", "rule", "task", "checkpoint"}
PrepNamesOf(items) == {it.name : it \in items}

\* buildCheckpoint: a line for each dropped item, cut at the largest size.
PrepSummaryOf(n) == IF 1 + n < PrepSummary THEN 1 + n ELSE PrepSummary

\* The largest of some finite sets.
PrepLargest(sets) == CHOOSE s \in sets : \A t \in sets : Cardinality(t) <= Cardinality(s)

\* First what fits; then the last of these give way until the checkpoint fits as well.
\* Without room for it even then there is none.
PrepCompress(items) ==
    LET required == {it \in items : PrepRequired(it)}
        candidates == items \ required
        first == PrepGreedy(candidates, PrepTarget - PrepTotal(required))
        summary(s) == PrepSummaryOf(Cardinality(candidates \ s))
        room(s) == PrepTotal(required) + PrepTotal(s) + summary(s) <= PrepTarget
        upTo(it) == {it} \cup PrepAhead(first, it)
        kept == IF first = candidates THEN first ELSE PrepLargest({s \in {upTo(it) : it \in first} : room(s)} \cup {{}})
    IN [items |-> required \cup kept,
        summary |-> IF first # candidates /\ room(kept) THEN summary(kept) ELSE 0,
        firstDropped |-> PrepNamesOf(candidates \ first)]

\* Faulty variant: what gave way to the checkpoint is not among what it names.
PrepDroppedAtFirst(items, result) == result.firstDropped
PrepDropped(items, result) == PrepNamesOf(items) \ PrepNamesOf(result.items)

\* persistContextCheckpoint: the same again is not stored twice; what the run's objective
\* and steps add has the size of the names.
PrepPersisted(size, names) ==
    IF prepStored.names = names /\ prepStored # PrepNoCheckpoint THEN prepStored
    ELSE [size |-> size + Cardinality(names), names |-> names]

PrepPrepare ==
    LET items == PrepCompiled
        result == PrepCompress(items)
        dropped == PrepDropped(items, result)
    IN /\ prepCount < PrepMaxRuns /\ prepCount' = prepCount + 1 /\ UNCHANGED PrepInput
       /\ IF PrepTotal(items) < PrepThreshold
          THEN /\ prepOut' = [all |-> items, items |-> items, summary |-> 0, compressed |-> FALSE, shown |-> PrepReceiptsShown]
               /\ UNCHANGED prepStored
          ELSE /\ prepOut' = [all |-> items, items |-> result.items, summary |-> result.summary, compressed |-> TRUE,
                              shown |-> PrepReceiptsShown]
               /\ prepStored' = PrepPersisted(IF result.summary > 0 THEN result.summary ELSE Cardinality(dropped), dropped)

\* A checkpoint of the conversation (Conversation) takes the place of the latest.
PrepHostCheckpoint ==
    /\ prepCount < PrepMaxRuns /\ prepCount' = prepCount + 1
    /\ prepStored' = PrepPersisted(PrepSummary, {}) /\ prepOut' = PrepNothing /\ UNCHANGED PrepInput

PrepNext == PrepPrepare \/ PrepHostCheckpoint

PrepSpec == PrepInit /\ [][PrepNext]_prepVars

-----------------------------------------------------------------------------
(* Properties *)

\* compressContext "retains the platform contract, current task, stable prefix and recent
\* checkpoint", and beyond these never exceeds its target, whatever is dropped or gives
\* way to the checkpoint.
PrepWithinTarget ==
    /\ \A it \in prepOut.all : PrepRequired(it) => it \in prepOut.items
    /\ prepOut.compressed =>
          PrepTotal(prepOut.items) + prepOut.summary <= PrepTarget \/ \A it \in prepOut.items : PrepRequired(it)

\* An item is dropped in favour of one of lower rank only if it did not fit itself.
PrepBestFirst ==
    \A d \in prepOut.all \ prepOut.items, k \in prepOut.items :
        LET above == {it \in prepOut.items : PrepRequired(it) \/ it.rank >= d.rank}
        IN ~PrepRequired(k) /\ k.rank < d.rank => PrepTotal(above) + d.size > PrepTarget

\* Nothing goes missing: an item that is not in the prompt is named by the checkpoint that
\* was stored before the prompt was made.
PrepNothingLost ==
    prepOut.all # {} /\ prepOut.compressed =>
        PrepNamesOf(prepOut.all) \ PrepNamesOf(prepOut.items) \subseteq prepStored.names

\* The rules of a workspace take no more of the prompt than they may, however many files
\* carry them.
PrepRulesBounded == PrepTotal({it \in prepOut.items : it.name[1] = "rule"}) <= PrepRulesTotal

\* A risky or uncertain call that was read is shown, so that it is not repeated blindly,
\* unless others of its kind fill the section.
PrepRiskShown ==
    prepOut.all # {} =>
        \/ {i \in 1..PrepFetched : prepReceipts[i]} \subseteq prepOut.shown
        \/ Cardinality({i \in prepOut.shown : prepReceipts[i]}) = PrepShown

\* A compressed prompt stays within its target, drops the least first, and names or shows
\* all that matters of what it leaves out (compressContext, compileContext).
PrepPromptHolds ==
    /\ PrepWithinTarget
    /\ PrepBestFirst
    /\ PrepNothingLost
    /\ PrepRulesBounded
    /\ PrepRiskShown
=============================================================================
