---------------------------- MODULE JobLifecycle ----------------------------
(***************************************************************************)
(* What every durable job of the application promises                      *)
(* (docs/ARCHITECTURE.md, "Cancellation is cooperative and job-scoped"): a *)
(* job that was accepted gets one verdict, which never changes, and nobody *)
(* is told that a job was cancelled unless that is its verdict.            *)
(***************************************************************************)
CONSTANTS Jobs

VARIABLES status,  \* "none", "open", a verdict, or "deleted"
          told     \* the jobs somebody was told were cancelled

vars == <<status, told>>

Verdicts == {"completed", "failed", "cancelled", "interrupted"}

Init ==
    /\ status = [j \in Jobs |-> "none"]
    /\ told = {}

Move(j, from, to) ==
    /\ status[j] \in from
    /\ status' = [status EXCEPT ![j] = to]
    /\ UNCHANGED told

Accept(j) == Move(j, {"none"}, "open")

\* What was asked for is there already.
AcceptDone(j) == Move(j, {"none"}, "completed")

Close(j) == \E verdict \in Verdicts : Move(j, {"open"}, verdict)

\* What jobs belong to may be deleted at any time, and their rows with it.
Delete(gone) ==
    /\ \A j \in gone : status[j] # "none"
    /\ status' = [j \in Jobs |-> IF j \in gone THEN "deleted" ELSE status[j]]
    /\ UNCHANGED told

Tell(j) ==
    /\ status[j] = "cancelled"
    /\ told' = told \cup {j}
    /\ UNCHANGED status

\* A restart closes every job that was left open, at once.
CloseAll ==
    /\ status' = [j \in Jobs |-> IF status[j] = "open" THEN "interrupted" ELSE status[j]]
    /\ UNCHANGED told

Next ==
    \/ \E j \in Jobs : Accept(j) \/ AcceptDone(j) \/ Close(j) \/ Tell(j)
    \/ \E gone \in SUBSET Jobs : Delete(gone)
    \/ CloseAll

Spec == Init /\ [][Next]_vars
============================================================================
