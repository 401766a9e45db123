---------------------------- MODULE MCEditorSync ----------------------------
(***************************************************************************)
(* EditorSync with short texts: MaxText bounds the text with what is on its *)
(* way to it, MaxKeys the batches under way and MaxUpdates the reports.  A   *)
(* run is not followed past a dropped batch.                               *)
(***************************************************************************)
EXTENDS EditorSync

CONSTANTS MaxText, MaxKeys, MaxUpdates

MCKeyClasses == {"letter", "gap"}
Letter == Whole("letter")
MCFields ==
    {f \in [given : BOOLEAN,
            text : {<<>>, <<Letter, Whole("mark")>>, <<Letter>> \o Wide},
            sel : {At(0), At(2), At(3)}] :
        f.sel.from \in {0, Len(f.text)}}

Deliverable == ~dropped /\ Len(updates) < MaxUpdates
Sendable == ~dropped /\ Len(commands) < MaxKeys
Room == Len(text) + Len(commands) < MaxText /\ expected < MaxText

MCNext ==
    \/ Deliverable /\ (Apply \/ Drop \/ MoveCursor \/ TakeText)
    \/ Sendable /\ Room /\ (LongPress \/ Tap \/ \E cls \in KeyClasses : TypeKey(cls))
    \/ Sendable /\ Backspace
    \/ Receive

MCSpec == SyncInit /\ [][MCNext]_syncVars
=============================================================================
