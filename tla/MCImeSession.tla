---------------------------- MODULE MCImeSession ----------------------------
(***************************************************************************)
(* ImeSession with short texts and few fields.  MaxSessions bounds the      *)
(* number of fields entered, the only counter that grows.                   *)
(***************************************************************************)
EXTENDS ImeSession

CONSTANT MaxSessions

MCKeyClasses == {"letter", "gap", "stop"}
MCInitials ==
    {[given |-> FALSE, text |-> <<>>], [given |-> TRUE, text |-> <<>>],
     [given |-> TRUE, text |-> <<"letter", "gap">>]}

EnterField ==
    /\ sess.no < MaxSessions
    /\ \E kind \in Kinds, initial \in Initials : StartInput(kind, initial)

MCNext ==
    \/ EnterField
    \/ FinishInput
    \/ \E cls \in KeyClasses : TypeKey(cls)
    \/ Backspace
    \/ OtherKey
    \/ LongPress
    \/ Desync
    \/ Tap
    \/ Deliver
    \/ WarmedUp
    \/ CreateInputView
    \/ Recreate

MCSpec == Init /\ [][MCNext]_vars
=============================================================================
