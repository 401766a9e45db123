----------------------------- MODULE EditorSync -----------------------------
(***************************************************************************)
(* The text an editor holds and what InputContextBuffer.kt believes of it,  *)
(* in one field.  The keyboard's commands travel one way and are applied    *)
(* later, a batch at a time, or dropped; the editor reports its selection   *)
(* whenever it changes, and a report arrives later still.  Text is a        *)
(* sequence of UTF-16 units, so that a character outside the BMP is two.    *)
(* What the service does besides, it does in ImeSession.                   *)
(***************************************************************************)
EXTENDS InputBuffer, SequencesExt

CONSTANTS Fields,         \* what a field may hold when it is entered
          KeyClasses,     \* the classes of character the keys commit
          MaxContext,     \* characters of preceding text that are retained
          MaxPrediction   \* characters in the longest predicted word

\* The units of a text: a character of the BMP, a direction mark, and the halves
\* of a surrogate pair, which is a character outside the BMP.
Whole(cls) == [cls |-> cls, unit |-> "whole"]
Pin == [cls |-> "gap", unit |-> "pin"]
High == [cls |-> "gap", unit |-> "high"]
Low == [cls |-> "gap", unit |-> "low"]
Wide == <<High, Low>>
Unit == {Whole(cls) : cls \in CharClasses} \cup {Pin, High, Low}

\* UTF-16: the halves of surrogate pairs come in pairs.
WellFormed(t) ==
    \A i \in DOMAIN t :
        /\ t[i] = High => i < Len(t) /\ t[i + 1] = Low
        /\ t[i] = Low => i > 1 /\ t[i - 1] = High

\* Does position i of t begin a code point?
Begins(t, i) == ~(t[i] = Low /\ i > 1 /\ t[i - 1] = High)
CodePoints(t) == Cardinality({i \in DOMAIN t : Begins(t, i)})
\* The positions of t a cursor may be at.
Positions(t) == {p \in 0 .. Len(t) : p = Len(t) \/ Begins(t, p + 1)}

ASSUME FieldsAssumption ==
    \A f \in Fields :
        /\ f.text \in Seq(Unit) /\ WellFormed(f.text)
        /\ f.sel \in [from : Positions(f.text), to : Positions(f.text)]
        /\ f.sel.from <= f.sel.to
        /\ f.given \in BOOLEAN
ASSUME KeyClassesAssumption == KeyClasses \subseteq CharClasses
ASSUME MaxContextAssumption == MaxContext \in Nat \ {0}
ASSUME MaxPredictionAssumption == MaxPrediction \in Nat \ {0}

VARIABLES
    text, sel,      \* the editor's: its text, its selection [from, to]
    commands,       \* batches of edits sent and not yet applied
    updates,        \* selections reported and not yet received
    before,         \* InputContextBuffer.before
    known,          \* precedingContextKnown
    expected,       \* expectedCursor
    pinned,         \* directionPinned
    \* History: the cursor was moved, or a command dropped, by someone else.
    moved, dropped

editor  == <<text, sel, moved, dropped>>
belief  == <<before, known, expected, pinned>>
syncVars == <<editor, belief, commands, updates>>

-----------------------------------------------------------------------------
(* The editor.                                                             *)

At(pos) == [from |-> pos, to |-> pos]
Doc(t, s) == [text |-> t, sel |-> s]

\* What stands before the cursor of doc, and after its selection.
Left(doc) == SubSeq(doc.text, 1, doc.sel.from)
Right(doc) == SubSeq(doc.text, doc.sel.to + 1, Len(doc.text))

\* Where the code point that ends at position p of t begins.
Previous(t, p) ==
    IF p = 0 THEN 0 ELSE IF p > 1 /\ ~Begins(t, p) THEN p - 2 ELSE p - 1
\* The position n code points before the end of t, or the start of t.
Back(t, n) ==
    LET at[i \in 0 .. n] == IF i = 0 THEN Len(t) ELSE Previous(t, at[i - 1])
    IN  at[n]

\* commitText: the selection gives way to new, the cursor after it or before it.
CommitText(new, cursor) == [op |-> "commit", new |-> new, cursor |-> cursor]
\* deleteSurroundingTextInCodePoints(count, 0), which leaves the selection alone.
DeleteBefore(count) == [op |-> "delete", count |-> count]

Inserted(doc, new, cursor) ==
    Doc(Left(doc) \o new \o Right(doc),
        At(doc.sel.from + IF cursor = 1 THEN Len(new) ELSE 0))
Erased(doc, count) ==
    LET start == Back(Left(doc), count)
    IN  Doc(SubSeq(doc.text, 1, start)
                \o SubSeq(doc.text, doc.sel.from + 1, Len(doc.text)),
            [from |-> start, to |-> doc.sel.to - (doc.sel.from - start)])
Edited(doc, e) ==
    IF e.op = "commit" THEN Inserted(doc, e.new, e.cursor) ELSE Erased(doc, e.count)

\* A batch is one edit, or two.
Applied(doc, batch) ==
    IF Len(batch) = 1 THEN Edited(doc, batch[1])
    ELSE Edited(Edited(doc, batch[1]), batch[2])

\* The editor is left with doc, and says so if its selection changed.
Becomes(doc) ==
    /\ text' = doc.text /\ sel' = doc.sel
    /\ updates' = IF doc.sel = sel THEN updates ELSE Append(updates, doc.sel)

\* One batch is one change of the editor.
Apply ==
    /\ commands # <<>>
    /\ Becomes(Applied(Doc(text, sel), Head(commands)))
    /\ commands' = Tail(commands)
    /\ UNCHANGED <<belief, moved, dropped>>

\* A command of a session the editor no longer recognises.
Drop ==
    /\ commands # <<>>
    /\ commands' = Tail(commands)
    /\ dropped' = TRUE
    /\ UNCHANGED <<text, sel, moved, belief, updates>>

\* The user touches the text, or selects some of it.
MoveCursor ==
    \E from, to \in Positions(text) :
        /\ from <= to /\ [from |-> from, to |-> to] # sel
        /\ Becomes(Doc(text, [from |-> from, to |-> to]))
        /\ moved' = TRUE
        /\ UNCHANGED <<dropped, belief, commands>>

\* The application takes the text away, as when a message is sent.
TakeText ==
    /\ text # <<>>
    /\ Becomes(Doc(<<>>, At(0)))
    /\ moved' = TRUE
    /\ UNCHANGED <<dropped, belief, commands>>

-----------------------------------------------------------------------------
(* The keyboard.                                                           *)

\* reset: the text the editor gives, when it gives any, and its cursor.
SyncInit ==
    \E f \in Fields :
        /\ text = f.text /\ sel = f.sel
        /\ before = IF f.given
                    THEN Committed(<<>>, SubSeq(f.text, 1, f.sel.from), MaxContext)
                    ELSE <<>>
        /\ known = f.given
        /\ expected = f.sel.from
        /\ pinned = FALSE
        /\ commands = <<>> /\ updates = <<>>
        /\ moved = FALSE /\ dropped = FALSE

Send(batch) == commands' = Append(commands, batch)

\* onCharsDeleted(count) and then onTextCommitted(new), either of them nothing.
Believe(count, new) ==
    /\ before' = Committed(Deleted(before, count), new, MaxContext)
    /\ known' = (known /\ Covers(before, count))
    /\ expected' = (IF count < expected THEN expected - count ELSE 0) + Len(new)

\* BidiPin.shouldPin: the first letter of a field known to be empty so far.
Pins(cls) == cls = "letter" /\ known /\ before = <<>> /\ ~pinned

\* A key that commits a character; the first letter goes between two marks.
TypeKey(cls) ==
    LET new == IF Pins(cls) THEN <<Pin, Whole(cls)>> ELSE <<Whole(cls)>>
    IN  /\ Send(IF Pins(cls) THEN <<CommitText(new, 1), CommitText(<<Pin>>, 0)>>
                ELSE <<CommitText(new, 1)>>)
        /\ Believe(0, new)
        /\ pinned' = (pinned \/ Pins(cls))
        /\ UNCHANGED <<editor, updates>>

\* The code points of the last cluster: a character with the marks on it, where
\* a direction mark takes none.
ClusterWidth(t) ==
    LET ends == {p \in Positions(t) :
                    /\ \A i \in p + 2 .. Len(t) : t[i].cls = "mark" \/ ~Begins(t, i)
                    /\ p + 1 < Len(t) => t[p + 1] # Pin}
        start == CHOOSE p \in ends : \A q \in ends : p <= q
    IN  CodePoints(SubSeq(t, start + 1, Len(t)))

\* backspaceWidth, sent as code points and believed as units.
Backspace ==
    LET visible == IF known THEN before ELSE CurrentWord(before)
        width == IF visible = <<>> THEN 1 ELSE ClusterWidth(visible)
    IN  /\ Send(<<DeleteBefore(width)>>)
        /\ Believe(width, <<>>)
        /\ UNCHANGED <<editor, updates, pinned>>

\* replaceWithAlternate: one character gives way to another.
LongPress ==
    /\ Send(<<DeleteBefore(1), CommitText(<<Whole("mark")>>, 1)>>)
    /\ Believe(1, <<Whole("mark")>>)
    /\ UNCHANGED <<editor, updates, pinned>>

\* applySuggestion: a predicted word takes the place of the current one.
Tap ==
    \E n \in 1 .. MaxPrediction :
        LET current == CurrentWord(before)
            word == [i \in 1 .. n |-> Whole("letter")]
        IN  /\ Send(IF current = <<>> THEN <<CommitText(word, 1)>>
                    ELSE <<DeleteBefore(CodePoints(current)), CommitText(word, 1)>>)
            /\ Believe(Len(current), word)
            /\ UNCHANGED <<editor, updates, pinned>>

\* Slip: the cursor is corrected and the text kept.
ReceiveUnforgetting ==
    /\ updates # <<>>
    /\ updates' = Tail(updates)
    /\ expected' = Head(updates).from
    /\ known' = (known /\ Head(updates) = At(expected))
    /\ UNCHANGED <<editor, commands, pinned, before>>

\* onSelectionUpdated: anything but a cursor where it is expected is a desync.
Receive ==
    /\ updates # <<>>
    /\ updates' = Tail(updates)
    /\ \/ /\ Head(updates) = At(expected)
          /\ UNCHANGED <<before, known, expected>>
       \/ /\ Head(updates) # At(expected)
          /\ before' = <<>> /\ known' = FALSE
          /\ expected' = Head(updates).from
    /\ UNCHANGED <<editor, commands, pinned>>

SyncNext ==
    \/ Apply \/ Drop \/ MoveCursor \/ TakeText
    \/ \E cls \in KeyClasses : TypeKey(cls)
    \/ Backspace
    \/ LongPress
    \/ Tap
    \/ Receive

SyncSpec == SyncInit /\ [][SyncNext]_syncVars

-----------------------------------------------------------------------------

Settled == commands = <<>> /\ updates = <<>>

\* InputContextBuffer.kt:19-27: once every command is applied and every report
\* received, and none was dropped, the buffer's cursor is the editor's and the
\* text it holds is what stands before it, however the user moved the cursor
\* while keys were on their way.
InStep ==
    Settled /\ ~dropped =>
        /\ expected = sel.from
        /\ IsSuffix(before, SubSeq(text, 1, sel.from))

\* InputContextBuffer.kt:150: context is lost because "something moved the
\* cursor that this IME did not do, or a command was dropped".
DesyncMeansMoved ==
    [][Receive /\ known /\ ~known' => moved \/ dropped]_syncVars

\* BidiPin.kt:27: "Each half alone is worse than doing nothing": the field never
\* holds one direction mark without the other.
MarksStayPaired ==
    Settled /\ ~moved => Cardinality({i \in DOMAIN text : text[i] = Pin}) # 1
=============================================================================
