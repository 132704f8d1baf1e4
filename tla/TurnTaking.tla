------------------------------ MODULE TurnTaking ------------------------------
(***************************************************************************)
(* What a queue of tool calls promises, without promises, counters or      *)
(* workers: each call stands in one line, the lines do not touch each      *)
(* other, no more than Capacity calls of a line are inside, and who waits  *)
(* enters in the order of arrival.  A place that is left is free, or goes  *)
(* to the next in line at once.                                            *)
(* FileLeases and ReadLimiter implement it.                                *)
(***************************************************************************)
EXTENDS Naturals, FiniteSets

CONSTANTS
    Callers,  \* calls of tools
    LineOf,   \* the line a call stands in
    Capacity  \* places behind a line

VARIABLES
    stage,    \* "away", "waiting", "inside" or "gone"
    arrival,  \* when a call arrived
    arrivals  \* the next arrival

Waiting(line) == {c \in Callers : stage[c] = "waiting" /\ LineOf[c] = line}
Inside(line) == {c \in Callers : stage[c] = "inside" /\ LineOf[c] = line}

Init ==
    /\ stage = [c \in Callers |-> "away"]
    /\ arrival = [c \in Callers |-> 0] /\ arrivals = 0

IsFree(line) == Cardinality(Inside(line)) < Capacity

\* A call queues, is refused, or finds a free place and nobody before it.
Arrive(c) ==
    /\ stage[c] = "away" /\ arrival' = [arrival EXCEPT ![c] = arrivals] /\ arrivals' = arrivals + 1
    /\ \E s \in {"waiting", "gone", "inside"} :
          /\ s = "inside" => IsFree(LineOf[c]) /\ Waiting(LineOf[c]) = {}
          /\ stage' = [stage EXCEPT ![c] = s]

IsNext(c) == stage[c] = "waiting" /\ \A d \in Waiting(LineOf[c]) : arrival[c] <= arrival[d]

Enter(c) ==
    /\ IsNext(c) /\ IsFree(LineOf[c]) /\ stage' = [stage EXCEPT ![c] = "inside"]
    /\ UNCHANGED <<arrival, arrivals>>

Leave(c) ==
    /\ stage[c] = "inside" /\ stage' = [stage EXCEPT ![c] = "gone"]
    /\ UNCHANGED <<arrival, arrivals>>

HandOver(c, d) ==
    /\ stage[c] = "inside" /\ IsNext(d) /\ LineOf[c] = LineOf[d]
    /\ stage' = [stage EXCEPT ![c] = "gone", ![d] = "inside"]
    /\ UNCHANGED <<arrival, arrivals>>

\* All that wait in a line give up together.
Disperse(line) ==
    /\ stage' = [c \in Callers |-> IF c \in Waiting(line) THEN "gone" ELSE stage[c]]
    /\ UNCHANGED <<arrival, arrivals>>

Next ==
    \E c \in Callers :
        \/ Arrive(c) \/ Enter(c) \/ Leave(c) \/ Disperse(LineOf[c])
        \/ \E d \in Callers : HandOver(c, d)

Spec == Init /\ [][Next]_<<stage, arrival, arrivals>>
=============================================================================
