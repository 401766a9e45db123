----------------------------- MODULE AtomicStore -----------------------------
(***************************************************************************)
(* What a store of one value promises its reader, with nothing said of      *)
(* files and keys: it holds what some save was given, or nothing; a save    *)
(* takes effect at once or not at all; what is stored is lost only to a      *)
(* forget; and a forget, when it is over, leaves nothing to read, not even  *)
(* of the save that was under way.                                         *)
(* A set of at most one element stands for a value that may be missing.    *)
(***************************************************************************)
CONSTANT Value

VARIABLES
    stored,      \* what a reader would read now
    saving,      \* what the save under way was given
    forgetting   \* a forget has been asked for and is not over

storeVars == <<stored, saving, forgetting>>

Init ==
    /\ \/ stored = {}
       \/ \E v \in Value : stored = {v}
    /\ saving = {} /\ forgetting = FALSE

BeginSave ==
    /\ saving = {}
    /\ \E v \in Value : saving' = {v}
    /\ UNCHANGED <<stored, forgetting>>

EndSave ==
    /\ saving # {}
    /\ stored' = saving /\ saving' = {}
    /\ UNCHANGED forgetting

BeginForget ==
    /\ ~forgetting /\ forgetting' = TRUE
    /\ UNCHANGED <<stored, saving>>

Forget ==
    /\ forgetting
    /\ stored' = {}
    /\ UNCHANGED <<saving, forgetting>>

EndForget ==
    /\ forgetting /\ forgetting' = FALSE
    /\ stored' = {} /\ saving' = {}

\* The save under way and the forget are gone; what is stored is not.
Die ==
    /\ saving' = {} /\ forgetting' = FALSE
    /\ UNCHANGED stored

Next == BeginSave \/ EndSave \/ BeginForget \/ Forget \/ EndForget \/ Die

Spec == Init /\ [][Next]_storeVars
=============================================================================
