----------------------------- MODULE MCLearning -----------------------------
(***************************************************************************)
(* LearningLifecycle on a heap of a few objects.  MaxEvents bounds the pairs *)
(* typed, the fields entered and the disturbances all together, on top of   *)
(* their own bounds; a second field, with the jobs it launches, counts       *)
(* twice.                                                                  *)
(***************************************************************************)
EXTENDS LearningLifecycle

CONSTANT MaxEvents

MCObject == 1 .. 4

Events == used + disturbances + (fields * (fields + 1)) \div 2
BoundedUser == User /\ Events' <= MaxEvents
BoundedDisturbance == (Crash \/ Destroy) /\ Events' <= MaxEvents

MCNext == Coroutines \/ BoundedUser \/ BoundedDisturbance
MCSpec == Init /\ [][MCNext]_vars /\ WF_vars(Coroutines)
=============================================================================
