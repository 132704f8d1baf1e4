----------------------------- MODULE RunContract ------------------------------
(***************************************************************************)
(* What a run promises its user, without workers, queues or approvals: it  *)
(* is being worked on, parked until the user returns, or ended.  A verdict *)
(* belongs to the work it judged: it is given only while the run is worked *)
(* on or as it ends, and is gone once the run is parked or taken up again. *)
(* RunLifecycle implements this contract.                                  *)
(***************************************************************************)
\* phase is "working", "parked" or "ended".
VARIABLES phase, verdict

Init == phase = "working" /\ verdict = FALSE

\* A verdict is given, or withdrawn because work goes on.
Judge == phase = "working" /\ phase' = phase /\ verdict' \in BOOLEAN

\* The user, an exhausted budget, a lost browser or a dead worker parks the run.
Park == phase = "working" /\ phase' = "parked" /\ verdict' = FALSE

Resume == phase = "parked" /\ phase' = "working" /\ verdict' = FALSE

Finish == phase = "working" /\ phase' = "ended" /\ verdict' \in BOOLEAN

\* A parked run can only be abandoned: it ends without a verdict.
Abandon == phase = "parked" /\ phase' = "ended" /\ verdict' = FALSE

\* A new message reopens an ended run, which is parked when its budget is spent.
Reopen == phase = "ended" /\ phase' \in {"working", "parked"} /\ verdict' = FALSE

Next == Judge \/ Park \/ Resume \/ Finish \/ Abandon \/ Reopen

Spec == Init /\ [][Next]_<<phase, verdict>>
=============================================================================
