----------------------------- MODULE ImeSession -----------------------------
(***************************************************************************)
(* One keyboard service on its main thread: HebrewImeService.kt with the    *)
(* field policy, the text buffer, the key planner, the candidate strip and  *)
(* the request/cancel half of CorrectionController.kt.                      *)
(*                                                                         *)
(* Prediction runs on a coroutine: a request is answered at any later time, *)
(* or never, and a cancelled one is never answered (its withContext(Main)   *)
(* checks the job again on the main thread).  Sets of at most one element   *)
(* stand for a nullable reference.                                         *)
(***************************************************************************)
EXTENDS InputBuffer

CONSTANTS KeyClasses,     \* the classes of character the keys commit
          Initials,       \* what an editor may give as its initial text
          MaxContext,     \* characters of preceding text that are retained
          ContextWords,   \* completed words handed to the engine
          MaxCluster,     \* code points in the longest grapheme cluster
          MaxPrediction   \* characters in the longest predicted word

ASSUME KeyClassesAssumption == KeyClasses \subseteq CharClasses
ASSUME InitialsAssumption ==
    Initials \subseteq [given : BOOLEAN, text : Seq(CharClasses)]
ASSUME MaxContextAssumption == MaxContext \in Nat \ {0}
ASSUME ContextWordsAssumption == ContextWords \in Nat
ASSUME MaxClusterAssumption == MaxCluster \in Nat \ {0}
ASSUME MaxPredictionAssumption == MaxPrediction \in Nat \ {0}

\* What the policy makes of a field: an ordinary one, one that may be suggested
\* into but not learned from (a name, an address), and a restricted one.
Kinds == {"open", "private", "secret"}

Session == [no : Nat, kind : Kinds]

\* Slip: whatever may be suggested into may be learned from.
MaySuggestToo(s) == s.kind # "secret"

MaySuggest(s) == s.kind # "secret"
MayLearn(s)   == s.kind = "open"

\* A character of the text before the cursor, with the session it comes from.
Char == [cls : CharClasses, from : Session]
Text == Seq(Char)
TypingContext == [current : Text, completed : Seq(Text)]
Offer == [kind : {"next", "replace"}, for : TypingContext]

VARIABLES
    sess,       \* the session in progress; restricted when no field is open
    before,     \* InputContextBuffer.before
    known,      \* precedingContextKnown
    pinned,     \* directionPinned: this field got its pair of direction marks
    ready,      \* the engine is loaded
    loading,    \* loadJob is active
    inFlight,   \* the context of the request being computed
    strip,      \* the candidates on screen
    lesson      \* the pair of words this very step handed to learn()

buffer == <<before, known, pinned>>
engine == <<ready, loading>>
vars == <<sess, buffer, engine, inFlight, strip, lesson>>

-----------------------------------------------------------------------------
Chars(w) == {w[i] : i \in DOMAIN w}
NewText(classes, s) == [i \in DOMAIN classes |-> [cls |-> classes[i], from |-> s]]

Init ==
    /\ sess = [no |-> 0, kind |-> "secret"]
    /\ before = <<>> /\ known = FALSE /\ pinned = FALSE
    /\ ready = FALSE /\ loading = TRUE
    /\ inFlight = {} /\ strip = {} /\ lesson = {}

\* cancelOutstanding and setCandidates(emptyList()).
Silence == inFlight' = {} /\ strip' = {}

\* Slip: the request of the field being left is not cancelled.
StartInputUncancelled(kind, initial) ==
    LET s == [no |-> sess.no + 1, kind |-> kind]
        readable == MaySuggest(s) /\ initial.given
    IN  /\ sess' = s
        /\ before' = IF readable
                     THEN Committed(<<>>, NewText(initial.text, s), MaxContext)
                     ELSE <<>>
        /\ known' = readable
        /\ pinned' = FALSE
        /\ strip' = {}
        /\ lesson' = {}
        /\ UNCHANGED <<engine, inFlight>>

\* onStartInput: the field's initial text reaches the buffer only when the
\* policy lets it be read and the editor gives any.
StartInput(kind, initial) ==
    LET s == [no |-> sess.no + 1, kind |-> kind]
        readable == MaySuggest(s) /\ initial.given
    IN  /\ sess' = s
        /\ before' = IF readable
                     THEN Committed(<<>>, NewText(initial.text, s), MaxContext)
                     ELSE <<>>
        /\ known' = readable
        /\ pinned' = FALSE
        /\ Silence
        /\ lesson' = {}
        /\ UNCHANGED engine

\* onFinishInput: keys may still arrive, into a restricted session.
FinishInput ==
    /\ sess' = [sess EXCEPT !.kind = "secret"]
    /\ before' = <<>> /\ known' = FALSE /\ pinned' = FALSE
    /\ Silence
    /\ lesson' = {}
    /\ UNCHANGED engine

-----------------------------------------------------------------------------
ContextOf(text, k) ==
    [current |-> CurrentWord(text), completed |-> CompletedWords(text, k, ContextWords)]

\* refreshSuggestions over the text and knowledge the step leaves behind.  The
\* strip keeps what it shows until the new request is answered.
Refresh(text, k) ==
    LET c == ContextOf(text, k)
        unasked == ~MaySuggest(sess) \/ (c.current = <<>> /\ c.completed = <<>>)
    IN  \/ /\ unasked
           /\ Silence /\ UNCHANGED engine
        \/ /\ ~unasked /\ ready
           /\ inFlight' = {c} /\ UNCHANGED <<strip, engine>>
        \/ /\ ~unasked /\ ~ready
           /\ Silence /\ loading' = TRUE /\ UNCHANGED ready

\* learnCompletedWord: a word was in progress and none is any more.
Learn(text, k) ==
    LET c == CompletedWords(text, k, 2)
        completes == /\ MayLearn(sess)
                     /\ CurrentWord(before) # <<>> /\ CurrentWord(text) = <<>>
                     /\ Len(c) = 2
    IN  lesson' = IF completes THEN {<<c[2], c[1]>>} ELSE {}

\* BidiPin.shouldPin: the first letter of a field known to be empty.
Pins(cls) == cls = "letter" /\ known /\ before = <<>> /\ ~pinned

\* A key that commits a character, after the direction mark where one is due.
TypeKey(cls) ==
    LET classes == IF Pins(cls) THEN <<"gap", cls>> ELSE <<cls>>
        text == Committed(before, NewText(classes, sess), MaxContext)
    IN  /\ before' = text
        /\ pinned' = (pinned \/ Pins(cls))
        /\ Learn(text, known)
        /\ Refresh(text, known)
        /\ UNCHANGED <<sess, known>>

\* backspaceWidth: the last cluster of the text that is known, else one.
Widths ==
    LET visible == IF known THEN before ELSE CurrentWord(before)
    IN  {w \in 1 .. MaxCluster : w = 1 \/ w <= Len(visible)}

Backspace ==
    \E w \in Widths :
        LET text == Deleted(before, w)
            k    == known /\ Covers(before, w)
        IN  /\ before' = text
            /\ known' = k
            /\ Learn(text, k)
            /\ Refresh(text, k)
            /\ UNCHANGED <<sess, pinned>>

\* A key that leaves the text alone: shift, a layout, an editor action.
OtherKey ==
    /\ Refresh(before, known)
    /\ lesson' = {}
    /\ UNCHANGED <<sess, buffer>>

\* replaceWithAlternate: the held key's character gives way to its alternate.
\* The hold may outlast the field or the text it began in.
LongPress ==
    LET k    == known /\ Covers(before, 1)
        text == Committed(Deleted(before, 1), NewText(<<"mark">>, sess), MaxContext)
    IN  /\ before' = text
        /\ known' = k
        /\ Refresh(text, k)
        /\ lesson' = {}
        /\ UNCHANGED <<sess, pinned>>

\* Slip: the engine goes on computing for the text that is no longer there.
DesyncUncancelled ==
    /\ before' = <<>> /\ known' = FALSE
    /\ strip' = {}
    /\ lesson' = {}
    /\ UNCHANGED <<sess, pinned, engine, inFlight>>

\* onUpdateSelection disagreed with the buffer's idea of the cursor.
Desync ==
    /\ before' = <<>> /\ known' = FALSE
    /\ Silence
    /\ lesson' = {}
    /\ UNCHANGED <<sess, pinned, engine>>

-----------------------------------------------------------------------------
\* applySuggestion.  Neither edit cancels the request in flight or asks again.
Tap ==
    \E offer \in strip, n \in 1 .. MaxPrediction :
        LET current == CurrentWord(before)
            word == NewText([i \in 1 .. n |-> "letter"], sess)
        IN  /\ \/ /\ offer.kind = "next" /\ current # <<>>
                  /\ UNCHANGED before
               \/ /\ offer.kind = "next" /\ current = <<>>
                  /\ before' = Committed(before, word, MaxContext)
               \/ /\ offer.kind = "replace" /\ current # <<>>
                  /\ before' = Committed(Deleted(before, Len(current)), word, MaxContext)
            /\ strip' = {}
            /\ lesson' = {}
            /\ UNCHANGED <<sess, known, pinned, engine, inFlight>>

\* PredictiveEngine.predict: a word in progress may be replaced; what follows
\* the previous word is offered after it, and after a known abbreviation, which
\* is letters with a mark.  (A word of combining marks alone, which no key
\* types, is answered as an empty one.)
Offerable(o) ==
    \/ o.kind = "replace" /\ o.for.current # <<>>
    \/ /\ o.kind = "next" /\ o.for.completed # <<>>
       /\ {ch.cls : ch \in Chars(o.for.current)} \in {{}, {"letter", "mark"}}

\* It may always answer nothing.
Answers(c) ==
    {{}} \cup {{o} : o \in {x \in [kind : {"next", "replace"}, for : {c}] : Offerable(x)}}

\* onResult on the main thread, for the one request that was not cancelled.
Deliver ==
    \E c \in inFlight :
        /\ strip' \in Answers(c)
        /\ inFlight' = {}
        /\ lesson' = {}
        /\ UNCHANGED <<sess, buffer, engine>>

\* warmUp's coroutine ends: with an engine, or without one when an asset or the
\* memory for it was missing.
WarmedUp ==
    /\ loading
    /\ loading' = FALSE
    /\ ready' \in BOOLEAN
    /\ lesson' = {}
    /\ UNCHANGED <<sess, buffer, inFlight, strip>>

\* onCreateInputView, as after a rotation: a new strip, showing nothing; what is
\* in flight will be delivered to it.
CreateInputView ==
    /\ strip' = {}
    /\ lesson' = {}
    /\ UNCHANGED <<sess, buffer, engine, inFlight>>

\* onDestroy, then onCreate: shutdown cancels the scope and drops the engine.
Recreate ==
    /\ sess' = [sess EXCEPT !.kind = "secret"]
    /\ before' = <<>> /\ known' = FALSE /\ pinned' = FALSE
    /\ ready' = FALSE /\ loading' = TRUE
    /\ Silence
    /\ lesson' = {}

Next ==
    \/ \E kind \in Kinds, initial \in Initials : StartInput(kind, initial)
    \/ FinishInput
    \/ \E cls \in KeyClasses : TypeKey(cls)
    \/ Backspace
    \/ OtherKey
    \/ LongPress
    \/ Desync
    \/ Tap
    \/ Deliver
    \/ WarmedUp
    \/ CreateInputView
    \/ Recreate

Spec == Init /\ [][Next]_vars

-----------------------------------------------------------------------------
ContextChars(c) ==
    Chars(c.current) \cup UNION {Chars(c.completed[k]) : k \in DOMAIN c.completed}

\* Every character the engine computes from, or that what is on screen answers.
Handed == UNION {ContextChars(c) : c \in inFlight \cup {o.for : o \in strip}}
\* Every character this step gave to the adaptive layer.
Taught == UNION {Chars(l[1]) \cup Chars(l[2]) : l \in lesson}

\* The types of the service's state, the buffer within its cap.
TypeOK ==
    /\ sess \in Session
    /\ before \in Text /\ Len(before) <= MaxContext
    /\ known \in BOOLEAN /\ pinned \in BOOLEAN
    /\ ready \in BOOLEAN /\ loading \in BOOLEAN
    /\ inFlight \in SUBSET TypingContext
    /\ strip \in SUBSET Offer
    /\ lesson \in SUBSET (Text \X Text)

\* HebrewImeService.kt:161-164 and CorrectionController.kt:44-46: neither the
\* text nor the results of a previous field ever surface in a new one, however
\* late a coroutine ends, a selection update comes or a held key is released.
NothingCrossesFields ==
    \A ch \in Chars(before) \cup Handed \cup Taught : ch.from = sess

\* HebrewImeService.kt:297-310: text of a restricted field never reaches the
\* engine or the strip, and only text of an ordinary field is ever learned.
SecretsStayPut ==
    /\ sess.kind = "secret" => inFlight = {} /\ strip = {}
    /\ \A ch \in Handed : ch.from.kind # "secret"
    /\ \A ch \in Taught : ch.from.kind = "open"

\* InputContextBuffer.kt:27-28: nothing computed from preceding words is in
\* flight or on screen once those words are no longer known.
NoOfferWithoutContext ==
    ~known => /\ \A c \in inFlight : c.completed = <<>>
              /\ \A o \in strip : o.for.completed = <<>>

\* HebrewImeService.kt:312-314: "a word abandoned by backspacing teaches
\* nothing either".
AbandonedWordTeachesNothing == [][Backspace => lesson' = {}]_vars

\* CorrectionController.kt:41-43: a suggestion for a word the user has already
\* finished never arrives: the word under the cursor is still the one it is for.
SuggestionsArriveInTime ==
    [][Deliver => \A o \in strip' : o.for.current = CurrentWord(before)]_vars

\* HebrewImeService.kt:469: a next word is "offered only when the current word
\* is empty".
NextWordOfferedBetweenWords ==
    \A o \in strip : o.kind = "next" => o.for.current = <<>>
=============================================================================
