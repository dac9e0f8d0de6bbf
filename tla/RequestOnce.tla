----------------------------- MODULE RequestOnce -----------------------------
(***************************************************************************)
(* What the page's fetch promises of each request, whichever way it is     *)
(* carried: its route is run at most once and only after it was asked, the *)
(* asker is told one outcome and keeps it, and an answer is told only of a *)
(* request that was run.  A failure says nothing of whether it was run.    *)
(***************************************************************************)
EXTENDS Naturals

CONSTANT Requests

VARIABLES told,  \* what the asker has of each request
          runs   \* how often its route was started

Init == /\ told = [r \in Requests |-> "unasked"]
        /\ runs = [r \in Requests |-> 0]

Ask(r) == /\ told[r] = "unasked"
          /\ told' = [told EXCEPT ![r] = "asked"]
          /\ UNCHANGED runs

\* The route may still be started after its asker has given up or failed.
Run(r) == /\ told[r] # "unasked" /\ runs[r] = 0
          /\ runs' = [runs EXCEPT ![r] = 1]
          /\ UNCHANGED told

\* One event may answer some requests and fail others.
Tell ==
  /\ told' \in [Requests -> {"unasked", "asked", "answered", "failed", "aborted"}]
  /\ \A r \in Requests :
       \/ told'[r] = told[r]
       \/ told[r] = "asked" /\ told'[r] = "answered" /\ runs[r] = 1
       \/ told[r] = "asked" /\ told'[r] = "failed"
  /\ UNCHANGED runs

GiveUp(r) == /\ told[r] = "asked"
             /\ told' = [told EXCEPT ![r] = "aborted"]
             /\ UNCHANGED runs

Next == \/ \E r \in Requests : Ask(r) \/ Run(r) \/ GiveUp(r)
        \/ Tell

Spec == Init /\ [][Next]_<<told, runs>>
=============================================================================
