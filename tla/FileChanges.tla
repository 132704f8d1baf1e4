------------------------------- MODULE FileChanges ------------------------------
(***************************************************************************)
(* What happens to one file when an agent writes, edits or deletes it and  *)
(* the user takes a change back, while other programs write it too: the    *)
(* snapshots of tool-broker.ts, the checked writes of runner-security.ts,  *)
(* the content-addressed files of artifact-store.ts and undo-change of     *)
(* ipc-api.ts.  The lease of the file leaves one call of an agent at a     *)
(* time (FileLeases); undo takes no lease.                                 *)
(*                                                                         *)
(* A content stands for its hash as well; 0 is no file, or no hash given;  *)
(* FilTorn(c) is what is left of c when it was written halfway.            *)
(***************************************************************************)
EXTENDS Integers, Sequences

CONSTANTS
    FilContents,    \* contents, positive
    FilMaxCalls,    \* bound: calls of agents
    FilMaxUndos,    \* bound: changes taken back
    FilMaxOutside,  \* bound: writes by other programs
    FilMaxCrashes   \* bound: ends of the application in the middle of its work

ASSUME FilAssumption ==
    /\ FilContents \subseteq Nat \ {0}
    /\ {FilMaxCalls, FilMaxUndos, FilMaxOutside, FilMaxCrashes} \subseteq Nat

FilTorn(c) == 0 - c
FilAnything == FilContents \cup {FilTorn(c) : c \in FilContents} \cup {0}
FilWho == {"agent", "undo"}
FilIdle == [kind |-> "none", at |-> "idle", expected |-> 0, content |-> 0, snap |-> 0, was |-> 0,
            created |-> FALSE, slip |-> FALSE, diff |-> 0]

VARIABLES
    filDisk,    \* the file
    filTrash,   \* contents in .on-my-workbuddy-trash
    filStore,   \* files of the artifact store
    filOp,      \* the call of the agent and the undo under way
    filDiffs,   \* diff artifacts; ghosts: was and slip
    filGone,    \* ghost: contents that a last step removed as it had checked
    filUndone,  \* ghost: what the undo that just ended left, and of which diff
    filTornAt,  \* ghost: contents whose storing a crash cut off
    filCount    \* calls, undos, outside writes and crashes so far

filVars == <<filDisk, filTrash, filStore, filOp, filDiffs, filGone, filUndone, filTornAt, filCount>>

FilOps ==
    [kind : {"none", "write", "commit", "replace", "delete", "restore"},
     at : {"idle", "snapshot", "store", "storing", "target", "recheck", "rename", "link", "capture", "look",
           "move", "copied", "unlink"},
     expected : FilAnything, content : FilAnything, snap : FilAnything, was : FilAnything,
     created : BOOLEAN, slip : BOOLEAN, diff : Nat]

FilTypeOK ==
    /\ filDisk \in FilAnything /\ filTrash \subseteq FilAnything
    /\ filStore \in [FilAnything -> {"none", "partial", "whole"}] /\ filOp \in [FilWho -> FilOps]
    /\ \A w \in FilWho : filOp[w].at = "idle" => filOp[w] = FilIdle
    /\ filDiffs \in Seq([snap : FilAnything, after : FilAnything, created : BOOLEAN, was : FilAnything, slip : BOOLEAN])
    /\ filGone \subseteq FilAnything /\ filUndone \in [diff : 0..Len(filDiffs), now : FilAnything, slip : BOOLEAN]
    /\ filTornAt \subseteq FilAnything
    /\ filCount \in [{"call", "undo", "outside", "crash"} -> Nat]

FilInit ==
    /\ filDisk \in FilContents \cup {0} /\ filTrash = {} /\ filStore = [c \in FilAnything |-> "none"]
    /\ filOp = [w \in FilWho |-> FilIdle] /\ filDiffs = <<>> /\ filGone = {} /\ filTornAt = {}
    /\ filUndone = [diff |-> 0, now |-> 0, slip |-> FALSE]
    /\ filCount = [k \in {"call", "undo", "outside", "crash"} |-> 0]

-----------------------------------------------------------------------------
(* Steps of a call *)

FilCounted(k, bound) == filCount[k] < bound /\ filCount' = [filCount EXCEPT ![k] = @ + 1]
FilGoes(w, at) == filOp' = [filOp EXCEPT ![w].at = at]
FilFails(w) == filOp' = [filOp EXCEPT ![w] = FilIdle]
FilNoted == UNCHANGED <<filDiffs, filGone, filUndone, filTornAt>>
FilLooks == UNCHANGED <<filDisk, filTrash, filStore, filDiffs, filGone, filUndone, filTornAt, filCount>>

\* file_write, file_draft_commit, file_replace, file_delete; only an edit must name a hash.
FilCall(kind, expected, content) ==
    /\ filOp["agent"] = FilIdle /\ FilCounted("call", FilMaxCalls)
    /\ kind = "replace" => expected # 0
    /\ kind = "delete" => expected = 0 /\ content = CHOOSE c \in FilContents : TRUE
    /\ filOp' = [filOp EXCEPT !["agent"] = [FilIdle EXCEPT
          !.kind = kind, !.expected = expected, !.content = content,
          !.at = IF kind = "delete" THEN "look" ELSE "snapshot"]]
    /\ UNCHANGED <<filDisk, filTrash, filStore, filDiffs, filGone, filUndone, filTornAt>>

\* prepareFileSnapshot reads the file; a file that is not there is no obstacle to a write.
FilSnapshot ==
    LET op == filOp["agent"]
    IN /\ op.at = "snapshot" /\ FilLooks
       /\ IF filDisk = 0
          THEN IF op.kind = "replace" THEN FilFails("agent") ELSE FilGoes("agent", "target")
          ELSE IF op.expected \notin {0, filDisk} THEN FilFails("agent")
          ELSE filOp' = [filOp EXCEPT !["agent"].snap = filDisk, !["agent"].at = "store"]

\* putBuffer: a file that can be read under the hash is taken for stored.
FilStore ==
    LET op == filOp["agent"]
    IN /\ op.at = "store"
       /\ IF filStore[op.snap] = "none"
          THEN filStore' = [filStore EXCEPT ![op.snap] = "partial"] /\ FilGoes("agent", "storing")
          ELSE UNCHANGED filStore /\ FilGoes("agent", "target")
       /\ UNCHANGED <<filDisk, filTrash, filCount>> /\ FilNoted
FilStored ==
    /\ filOp["agent"].at = "storing"
    /\ filStore' = [filStore EXCEPT ![filOp["agent"].snap] = "whole"] /\ FilGoes("agent", "target")
    /\ UNCHANGED <<filDisk, filTrash, filCount>> /\ FilNoted

\* Faulty variant: the hash of the file is not compared again before the rename.
FilSameAnyway(op) == TRUE
\* currentRegularFile.
FilSame(op) == filDisk = op.expected

\* The file was missing when the snapshot was taken, and is back as it was expected: the
\* write goes on with an empty snapshot.
FilCameBack(op) == op.kind \in {"write", "commit"} /\ op.snap = 0

\* writeFileSafely, replaceFileTextSafely and restoreFileSafely look at the target.
FilTarget(w) ==
    LET op == filOp[w]
    IN /\ op.at = "target" /\ FilLooks
       /\ IF filDisk = 0
          THEN IF op.expected # 0 THEN FilFails(w) ELSE FilGoes(w, "link")
          ELSE IF op.expected = 0 \/ op.expected # filDisk THEN FilFails(w)
          ELSE filOp' = [filOp EXCEPT ![w].at = IF op.kind = "restore" /\ op.created THEN "move" ELSE "recheck",
                                      ![w].slip = FilCameBack(op)]

\* replaceExistingAtomically: the temporary file is there, the target is compared again.
FilRecheck(w) ==
    /\ filOp[w].at = "recheck" /\ FilLooks
    /\ IF FilSame(filOp[w]) THEN FilGoes(w, "rename") ELSE FilFails(w)

\* Somebody writes the file: who is past the last comparison does not notice.
FilPast == {"rename", "unlink"}
FilSlips(w) ==
    [v \in FilWho |-> IF v # w /\ filOp[v].at \in FilPast THEN [filOp[v] EXCEPT !.slip = TRUE] ELSE filOp[v]]
FilRemoved(op) == IF op.slip THEN filGone ELSE filGone \cup {filDisk}

\* The end of an undo.
FilRestored(op, now) ==
    filUndone' = [diff |-> op.diff, now |-> now, slip |-> op.slip \/ filDiffs[op.diff].slip]

\* rename(temp, target); what an undo replaces is what the user wanted gone.
FilRename(w) ==
    LET op == filOp[w]
    IN /\ op.at = "rename" /\ filDisk' = op.content
       /\ IF w = "undo"
          THEN /\ filOp' = [FilSlips(w) EXCEPT ![w] = FilIdle]
               /\ FilRestored(op, op.content) /\ UNCHANGED filGone
          ELSE /\ filOp' = [FilSlips(w) EXCEPT ![w].at = "capture", ![w].was = filDisk]
               /\ filGone' = FilRemoved(op) /\ UNCHANGED filUndone
       /\ UNCHANGED <<filTrash, filStore, filDiffs, filTornAt, filCount>>

\* link fails if the file exists.
FilLinks == filDisk = 0

FilLink ==
    LET op == filOp["agent"]
    IN /\ op.at = "link"
       /\ IF FilLinks
          THEN /\ filDisk' = op.content
               /\ filOp' = [FilSlips("agent") EXCEPT !["agent"].at = "capture", !["agent"].was = filDisk,
                                                     !["agent"].created = TRUE]
               /\ filGone' = filGone \cup ({filDisk} \ {0})
          ELSE FilFails("agent") /\ UNCHANGED <<filDisk, filGone>>
       /\ UNCHANGED <<filTrash, filStore, filDiffs, filUndone, filTornAt, filCount>>

FilCreated(op) == op.created

\* captureArtifacts.
FilCapture ==
    LET op == filOp["agent"]
    IN /\ op.at = "capture" /\ FilFails("agent")
       /\ filDiffs' = Append(filDiffs, [snap |-> op.snap, after |-> op.content, created |-> FilCreated(op),
                                        was |-> op.was, slip |-> op.slip])
       /\ UNCHANGED <<filDisk, filTrash, filStore, filGone, filUndone, filTornAt, filCount>>

\* undo-change: the snapshot is read from the artifact store as it is there.
FilUndo(d) ==
    /\ filOp["undo"] = FilIdle /\ d \in 1..Len(filDiffs) /\ FilCounted("undo", FilMaxUndos)
    /\ LET diff == filDiffs[d]
           stored == IF diff.created THEN 0 ELSE IF filStore[diff.snap] = "whole" THEN diff.snap ELSE FilTorn(diff.snap)
       IN filOp' = [filOp EXCEPT !["undo"] = [FilIdle EXCEPT
             !.kind = "restore", !.at = "target", !.expected = diff.after, !.content = stored,
             !.created = diff.created, !.diff = d]]
    /\ UNCHANGED <<filDisk, filTrash, filStore, filDiffs, filGone, filUndone, filTornAt>>

-----------------------------------------------------------------------------
(* The trash *)

\* trashFileSafely takes the hash of what it finds.
FilLook ==
    /\ filOp["agent"].at = "look" /\ FilLooks
    /\ IF filDisk = 0 THEN FilFails("agent")
       ELSE filOp' = [filOp EXCEPT !["agent"].expected = filDisk, !["agent"].at = "move"]

FilEnds(w, now) ==
    /\ filOp' = [FilSlips(w) EXCEPT ![w] = FilIdle]
    /\ IF w = "undo" THEN FilRestored(filOp[w], now) ELSE UNCHANGED filUndone

\* moveCurrentFileToTrash: the file is compared and renamed, or copied to another volume
\* and the copy compared.
FilMove(w, sameVolume) ==
    LET op == filOp[w]
    IN /\ op.at = "move"
       /\ IF ~FilSame(op) THEN FilFails(w) /\ UNCHANGED <<filDisk, filTrash, filGone, filUndone>>
          ELSE IF sameVolume
          THEN filDisk' = 0 /\ filTrash' = filTrash \cup {filDisk} /\ filGone' = FilRemoved(op) /\ FilEnds(w, 0)
          ELSE filTrash' = filTrash \cup {filDisk} /\ FilGoes(w, "copied") /\ UNCHANGED <<filDisk, filGone, filUndone>>
       /\ UNCHANGED <<filStore, filDiffs, filTornAt, filCount>>

\* The original is compared once more and removed.
FilCopied(w) ==
    /\ filOp[w].at = "copied" /\ FilLooks
    /\ IF FilSame(filOp[w]) THEN FilGoes(w, "unlink") ELSE FilFails(w)
FilUnlink(w) ==
    /\ filOp[w].at = "unlink"
    /\ IF filDisk = 0 THEN FilFails(w) /\ UNCHANGED <<filDisk, filGone, filUndone>>
       ELSE filDisk' = 0 /\ filGone' = FilRemoved(filOp[w]) /\ FilEnds(w, 0)
    /\ UNCHANGED <<filTrash, filStore, filDiffs, filTornAt, filCount>>

-----------------------------------------------------------------------------
(* Others, and crashes *)

FilOutside(c) ==
    /\ c # filDisk /\ FilCounted("outside", FilMaxOutside) /\ filDisk' = c /\ filOp' = FilSlips("outside")
    /\ UNCHANGED <<filTrash, filStore, filDiffs, filGone, filUndone, filTornAt>>

\* The application ends; what it had on disk stays as it is.
FilCrash ==
    /\ \E w \in FilWho : filOp[w] # FilIdle
    /\ FilCounted("crash", FilMaxCrashes) /\ filOp' = [w \in FilWho |-> FilIdle]
    /\ filTornAt' = filTornAt \cup {filOp[w].snap : w \in {v \in FilWho : filOp[v].at = "storing"}}
    /\ UNCHANGED <<filDisk, filTrash, filStore, filDiffs, filGone, filUndone>>

FilNext ==
    \/ \E kind \in {"write", "commit", "replace", "delete"}, e \in FilContents \cup {0}, c \in FilContents : FilCall(kind, e, c)
    \/ FilSnapshot \/ FilStore \/ FilStored \/ FilLink \/ FilCapture \/ FilLook \/ FilCrash
    \/ \E w \in FilWho : \/ FilTarget(w) \/ FilRecheck(w) \/ FilRename(w) \/ FilCopied(w) \/ FilUnlink(w)
                         \/ \E sameVolume \in BOOLEAN : FilMove(w, sameVolume)
    \/ \E d \in 1..Len(filDiffs) : FilUndo(d)
    \/ \E c \in FilContents \cup {0} : FilOutside(c)

FilSpec == FilInit /\ [][FilNext]_filVars

-----------------------------------------------------------------------------
(* Properties *)

FilWhole == {c \in FilAnything : filStore[c] = "whole"}

\* What an agent replaces or deletes can be got back: it is in the trash or the snapshot
\* of it is whole.  Left out are writes of others between the last comparison and the
\* rename, which no file system call here can see, a file that was missing just for the
\* snapshot, and snapshots cut off by a crash.
FilNothingLost == filGone \ filTornAt \subseteq filTrash \cup FilWhole

\* The same without the last exception.
FilSnapshotsWhole == filGone \subseteq filTrash \cup FilWhole

\* Taking a change back leaves the file as the change had found it, a file that the
\* change had created is gone again.
FilUndoExact ==
    filUndone.diff # 0 /\ ~filUndone.slip =>
        LET diff == filDiffs[filUndone.diff] IN diff.was \notin filTornAt => filUndone.now = diff.was

\* What an agent did to files can be taken back, exactly (FileChangeStore, restoreVersion).
FilRecoverable == FilNothingLost /\ FilUndoExact
=============================================================================
