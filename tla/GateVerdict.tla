----------------------------- MODULE GateVerdict -----------------------------
(***************************************************************************)
(* What a run of the gates promises, with nothing said of how: each gate   *)
(* is judged once, and the run may end OK only if every gate held, or is   *)
(* dark with leave to be.                                                  *)
(***************************************************************************)
CONSTANTS Gates

VARIABLES
    verdict,   \* for each gate "pending", "held", "refused" or "dark"
    leave,     \* the gates allowed to go dark in this run
    overall    \* "running", then "OK" or "FAILED"

vars == <<verdict, leave, overall>>

Init ==
    /\ verdict = [g \in Gates |-> "pending"]
    /\ leave \subseteq Gates
    /\ overall = "running"

Judge(g) ==
    /\ overall = "running"
    /\ verdict[g] = "pending"
    /\ \E v \in {"held", "refused", "dark"} :
          verdict' = [verdict EXCEPT ![g] = v]
    /\ UNCHANGED <<leave, overall>>

Acceptable(g) == verdict[g] = "held" \/ (verdict[g] = "dark" /\ g \in leave)

Conclude ==
    /\ overall = "running"
    /\ \A g \in Gates : verdict[g] # "pending"
    /\ overall' = IF \A g \in Gates : Acceptable(g) THEN "OK" ELSE "FAILED"
    /\ UNCHANGED <<verdict, leave>>

\* A run that cannot tell what it would measure stops before judging anything.
Refuse ==
    /\ overall = "running"
    /\ \A g \in Gates : verdict[g] = "pending"
    /\ overall' = "FAILED"
    /\ UNCHANGED <<verdict, leave>>

Next == Conclude \/ Refuse \/ \E g \in Gates : Judge(g)

Spec == Init /\ [][Next]_vars
=============================================================================
