---------------------------- MODULE InputBuffer ----------------------------
(***************************************************************************)
(* What InputContextBuffer.kt reads out of the text it holds before the     *)
(* cursor, and how its edits change that text.  A character is a record     *)
(* whose field cls is all these readings look at:                          *)
(*   "letter"  a Hebrew letter                                             *)
(*   "mark"    a combining mark or an abbreviation mark                     *)
(*   "stop"    a sentence boundary character                                *)
(*   "hyphen"  '-', a boundary only when doubled                            *)
(*   "gap"     anything else: a space, a digit, a Latin letter, a bidi mark *)
(***************************************************************************)
EXTENDS Integers, Sequences, FiniteSets

CharClasses == {"letter", "mark", "stop", "hyphen", "gap"}

IsWordChar(ch) == ch.cls \in {"letter", "mark"}

\* How many characters precede the word the cursor is in: recomputeWordStart.
WordStart(s) ==
    Cardinality({i \in 1 .. Len(s) : \E j \in i .. Len(s) : ~IsWordChar(s[j])})

CurrentWord(s) == SubSeq(s, WordStart(s) + 1, Len(s))

\* A boundary the scan over the gap meets at position i.
IsBoundary(s, i) ==
    \/ s[i].cls = "stop"
    \/ s[i].cls = "hyphen" /\ i > 1 /\ s[i - 1].cls = "hyphen"

\* The completed words of s, as <<first, last>> positions: maximal runs of
\* word characters before the current word, with no boundary after them.
CompletedRuns(s) ==
    {r \in (1 .. Len(s)) \X (1 .. WordStart(s)) :
        /\ r[1] <= r[2]
        /\ \A i \in r[1] .. r[2] : IsWordChar(s[i])
        /\ r[1] > 1 => ~IsWordChar(s[r[1] - 1])
        /\ ~IsWordChar(s[r[2] + 1])
        /\ \A i \in r[2] + 1 .. WordStart(s) : ~IsBoundary(s, i)}

\* The word at run r of s; no run, no word.
WordAt(s, r) == IF r \in CompletedRuns(s) THEN SubSeq(s, r[1], r[2]) ELSE <<>>

\* The nth most recent completed word, as a run.
NthCompleted(s, n) ==
    CHOOSE r \in CompletedRuns(s) :
        Cardinality({q \in CompletedRuns(s) : q[2] > r[2]}) = n - 1

\* completedWords(n): most recent first, none when the context is unknown.
CompletedWords(s, known, n) ==
    LET found == IF known THEN Cardinality(CompletedRuns(s)) ELSE 0
        size  == IF found < n THEN found ELSE n
    IN  [k \in 1 .. size |-> WordAt(s, NthCompleted(s, k))]

\* Slip: the text is never trimmed.
CommittedUntrimmed(s, text, max) == s \o text

\* onTextCommitted: append, then trim to the last max characters.
Committed(s, text, max) ==
    LET t == s \o text
    IN  IF Len(t) > max THEN SubSeq(t, Len(t) - max + 1, Len(t)) ELSE t

\* onCharsDeleted: what is left of s, and whether the deletion stayed inside it.
Deleted(s, n) == SubSeq(s, 1, IF n < Len(s) THEN Len(s) - n ELSE 0)
Covers(s, n) == n <= Len(s)
=============================================================================
