------------------------------- MODULE AuditTrail ------------------------------
(* The chained audit log and the pruning of detailed logs (database.ts): audit links *)
(* every entry to the last one that has a hash, the start of the application removes *)
(* what is too old or too much, verifyAuditChain is read with every diagnostic       *)
(* bundle. Somebody outside may change or remove rows of the file.                   *)
EXTENDS Naturals, FiniteSets, FiniteSetsExt, Sequences

CONSTANTS
    AudBodies,     \* what entries say
    AudSizes,      \* sizes of rows
    AudRetention,  \* how long a row is kept
    AudLimit,      \* the bytes the logs may take
    AudHorizon,    \* bound on the clock
    AudMaxRows,    \* bound on the rows ever written
    AudMaxOutside  \* bound on the changes made outside

ASSUME AudAssumption == AudRetention \in Nat /\ AudLimit \in Nat

VARIABLES
    audRows,      \* rows: id, kind, body, size, time, and prev and hash of audit entries
    audClock,
    audWritten,   \* the ids given so far
    audEdited,    \* ids of audit entries whose body was changed outside
    audRemoved,   \* ids of audit entries removed outside
    audPruned     \* what the last start removed for size, and the rows before it

audVars == <<audRows, audClock, audWritten, audEdited, audRemoved, audPruned>>

AudTotal(rows) == FoldSet(LAMBDA r, n : n + r.size, 0, rows)
AudEntries == {r \in audRows : r.kind = "audit"}
AudHashed == {r \in AudEntries : r.hash # <<>>}
AudNothing == [removed |-> {}, kept |-> {}]

\* Faulty variant: the text of the entry is not hashed.
AudDigestOfLink(prev, body) == Append(prev, "")
\* A digest is as good as what went into it; the first entry starts from the last row
\* that had none.
AudDigest(prev, body) == Append(prev, body)

AudLastHashed == CHOOSE r \in AudHashed : \A s \in AudHashed : s.id <= r.id
AudLastEntry == IF AudEntries = {} THEN 0 ELSE Max({r.id : r \in AudEntries})
AudPrev == IF AudHashed # {} THEN AudLastHashed.hash ELSE <<AudLastEntry>>

AudAppend(body, size) ==
    /\ audWritten < AudMaxRows
    /\ audRows' = audRows \cup {[id |-> audWritten + 1, kind |-> "audit", body |-> body,
          size |-> size, at |-> audClock, prev |-> AudPrev,
          hash |-> AudDigest(AudPrev, body)]}
    /\ audWritten' = audWritten + 1 /\ audPruned' = AudNothing
    /\ UNCHANGED <<audClock, audEdited, audRemoved>>

\* A run event or the receipt of a finished call: no part of the chain.
AudLog(body, size) ==
    /\ audWritten < AudMaxRows
    /\ audRows' = audRows \cup {[id |-> audWritten + 1, kind |-> "log", body |-> body,
          size |-> size, at |-> audClock, prev |-> <<>>, hash |-> <<>>]}
    /\ audWritten' = audWritten + 1 /\ audPruned' = AudNothing
    /\ UNCHANGED <<audClock, audEdited, audRemoved>>

AudTick ==
    /\ audClock < AudHorizon /\ audClock' = audClock + 1 /\ audPruned' = AudNothing
    /\ UNCHANGED <<audRows, audWritten, audEdited, audRemoved>>

--------------------------------------------------------------------------------
(* Pruning: too old first, then the oldest until the rest fits. *)

AudYoung == {r \in audRows : r.at + AudRetention >= audClock}
AudOldest(d, rows) == \A r \in d, s \in rows \ d : r.at <= s.at

\* The rows removed for size: the loop stops as soon as the rest fits.
AudForSize(d, rows) ==
    /\ AudOldest(d, rows)
    /\ AudTotal(rows \ d) <= AudLimit
    /\ d # {} => \E last \in d : /\ AudOldest(d \ {last}, rows)
                                 /\ AudTotal(rows \ d) + last.size > AudLimit

AudStart ==
    \E d \in SUBSET AudYoung :
        /\ AudForSize(d, AudYoung)
        /\ audRows' = AudYoung \ d
        /\ audPruned' = [removed |-> d, kept |-> AudYoung \ d]
        /\ UNCHANGED <<audClock, audWritten, audEdited, audRemoved>>

--------------------------------------------------------------------------------
(* Changes made outside. *)

AudOutside == Cardinality(audEdited) + Cardinality(audRemoved) < AudMaxOutside

AudEdit(r, body) ==
    /\ AudOutside /\ r.kind = "audit" /\ r.id \notin audEdited /\ r.body # body
    /\ audRows' = (audRows \ {r}) \cup {[r EXCEPT !.body = body]}
    /\ audEdited' = audEdited \cup {r.id} /\ audPruned' = AudNothing
    /\ UNCHANGED <<audClock, audWritten, audRemoved>>

AudRemove(r) ==
    /\ AudOutside /\ r.kind = "audit"
    /\ audRows' = audRows \ {r} /\ audRemoved' = audRemoved \cup {r.id}
    /\ audPruned' = AudNothing
    /\ UNCHANGED <<audClock, audWritten, audEdited>>

\* verifyAuditChain recomputes each entry from its own row.
AudBroken == {r.id : r \in {e \in AudHashed : e.hash # AudDigest(e.prev, e.body)}}

AudInit ==
    /\ audRows = {} /\ audClock = 0 /\ audWritten = 0
    /\ audEdited = {} /\ audRemoved = {} /\ audPruned = AudNothing

AudNext ==
    \/ \E b \in AudBodies, z \in AudSizes : AudAppend(b, z) \/ AudLog(b, z)
    \/ AudTick \/ AudStart
    \/ \E r \in audRows : AudRemove(r) \/ \E b \in AudBodies : AudEdit(r, b)

AudSpec == AudInit /\ [][AudNext]_audVars

--------------------------------------------------------------------------------
(* Properties. *)

\* Rows are numbered once, and every entry the program wrote has a hash.
AudTypeOK ==
    /\ \A r \in audRows : r.id \in 1 .. audWritten /\ r.at <= audClock
    /\ \A r, s \in audRows : r.id = s.id => r = s
    /\ AudHashed = AudEntries
    /\ \A r, s \in AudEntries : r.prev = s.prev => r = s \/ audRemoved # {}

\* The chain reports every entry whose text was changed outside and no other: not one
\* that pruning cut off from its predecessor (verifyAuditChain).
AudReportsEdits == AudBroken = {r.id : r \in {e \in AudEntries : e.id \in audEdited}}

\* Pruning for size removes a row only when all that stay are at least as young
\* (pruneDetailedLogs), and leaves no more than the limit.
AudYoungestStay ==
    /\ AudTotal(audPruned.kept) <= AudLimit
    /\ \A r \in audPruned.removed, s \in audPruned.kept : r.at <= s.at

\* The log of decisions reports what was changed outside, all of it and nothing else, and
\* pruning takes the oldest rows only.
AudHistoryHolds == AudReportsEdits /\ AudYoungestStay
================================================================================
