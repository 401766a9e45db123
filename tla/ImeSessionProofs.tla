-------------------------- MODULE ImeSessionProofs --------------------------
(***************************************************************************)
(* Proofs about ImeSession for every field, every text and every bound.  The *)
(* argument is one of typing: what is read out of a sequence over a set S of *)
(* characters is over S again, and the characters of the field in focus are  *)
(* such a set.                                                             *)
(***************************************************************************)
EXTENDS ImeSession, SequenceTheorems, FiniteSetTheorems, TLAPS

-----------------------------------------------------------------------------
(* InputBuffer.                                                            *)

\* The word in progress starts inside the text.
LEMMA WordStartInside ==
  ASSUME NEW S, NEW s \in Seq(S)
  PROVE  WordStart(s) \in 0 .. Len(s)
<1> DEFINE gap == {i \in 1 .. Len(s) : \E j \in i .. Len(s) : ~IsWordChar(s[j])}
<1>1. Len(s) \in Nat
  BY LenProperties
<1>2. IsFiniteSet(1 .. Len(s)) /\ Cardinality(1 .. Len(s)) = Len(s)
  BY <1>1, FS_Interval
<1>3. gap \in SUBSET (1 .. Len(s))
  OBVIOUS
<1> HIDE DEF gap
<1>4. IsFiniteSet(gap) /\ Cardinality(gap) <= Len(s)
  BY <1>2, <1>3, FS_Subset
<1>5. Cardinality(gap) \in Nat
  BY <1>4, FS_CardinalityType
<1>6. QED
  BY <1>1, <1>4, <1>5 DEF WordStart, gap

\* The word in progress is made of the characters of the text.
LEMMA CurrentWordOver ==
  ASSUME NEW S, NEW s \in Seq(S)
  PROVE  CurrentWord(s) \in Seq(S)
<1>1. Len(s) \in Nat /\ WordStart(s) \in 0 .. Len(s)
  BY LenProperties, WordStartInside
<1>2. \A i \in WordStart(s) + 1 .. Len(s) : s[i] \in S
  BY <1>1, ElementOfSeq
<1>3. QED
  BY <1>1, <1>2, SubSeqProperties DEF CurrentWord

\* So is every completed word.
LEMMA WordAtOver ==
  ASSUME NEW S, NEW s \in Seq(S), NEW r
  PROVE  WordAt(s, r) \in Seq(S)
<1>1. CASE r \in CompletedRuns(s)
  <2>1. Len(s) \in Nat /\ WordStart(s) \in 0 .. Len(s)
    BY LenProperties, WordStartInside
  <2>2. r[1] \in 1 .. Len(s) /\ r[2] \in 1 .. Len(s)
    BY <1>1, <2>1 DEF CompletedRuns
  <2>3. \A i \in r[1] .. r[2] : s[i] \in S
    BY <2>1, <2>2, ElementOfSeq
  <2>4. QED
    BY <1>1, <2>2, <2>3, SubSeqProperties DEF WordAt
<1>2. CASE r \notin CompletedRuns(s)
  BY <1>2, EmptySeq DEF WordAt
<1>3. QED
  BY <1>1, <1>2

LEMMA CompletedRunsFinite ==
  ASSUME NEW S, NEW s \in Seq(S)
  PROVE  IsFiniteSet(CompletedRuns(s)) /\ Cardinality(CompletedRuns(s)) \in Nat
<1>1. Len(s) \in Nat /\ WordStart(s) \in Nat
  BY LenProperties, WordStartInside
<1>2. IsFiniteSet((1 .. Len(s)) \X (1 .. WordStart(s)))
  <2>1. IsFiniteSet(1 .. Len(s)) /\ IsFiniteSet(1 .. WordStart(s))
    BY <1>1, FS_Interval
  <2>2. QED
    BY <2>1, FS_Product
<1>3. CompletedRuns(s) \in SUBSET ((1 .. Len(s)) \X (1 .. WordStart(s)))
  BY DEF CompletedRuns
<1>4. QED
  BY <1>2, <1>3, FS_Subset, FS_CardinalityType

\* completedWords gives words of the text, and none in an unknown context.
LEMMA CompletedWordsOver ==
  ASSUME NEW S, NEW s \in Seq(S), NEW k, NEW n \in Nat
  PROVE  /\ CompletedWords(s, k, n) \in Seq(Seq(S))
         /\ ~k => CompletedWords(s, k, n) = <<>>
<1> DEFINE found == IF k THEN Cardinality(CompletedRuns(s)) ELSE 0
           size == IF found < n THEN found ELSE n
<1>1. size \in Nat /\ (~k => size = 0)
  BY CompletedRunsFinite
<1>2. CompletedWords(s, k, n) = [i \in 1 .. size |-> WordAt(s, NthCompleted(s, i))]
  BY DEF CompletedWords
<1>3. \A i \in 1 .. size : WordAt(s, NthCompleted(s, i)) \in Seq(S)
  BY WordAtOver
<1> HIDE DEF size
<1>4. CompletedWords(s, k, n) \in Seq(Seq(S))
  BY <1>1, <1>2, <1>3
<1>5. ~k => CompletedWords(s, k, n) = <<>>
  BY <1>1, <1>2
<1>6. QED
  BY <1>4, <1>5

\* onTextCommitted keeps to the cap, and leaves a text that is not empty
\* unless there was nothing to commit to nothing.
LEMMA CommittedOver ==
  ASSUME NEW S, NEW s \in Seq(S), NEW t \in Seq(S), NEW max \in Nat \ {0}
  PROVE  /\ Committed(s, t, max) \in Seq(S)
         /\ Len(Committed(s, t, max)) <= max
         /\ s # <<>> \/ t # <<>> => Committed(s, t, max) # <<>>
<1> DEFINE u == s \o t
<1>1. u \in Seq(S) /\ Len(u) \in Nat
  BY ConcatProperties, LenProperties
<1>2. CASE Len(u) > max
  <2>1. \A i \in Len(u) - max + 1 .. Len(u) : u[i] \in S
    BY <1>1, <1>2, ElementOfSeq
  <2>2. /\ SubSeq(u, Len(u) - max + 1, Len(u)) \in Seq(S)
        /\ Len(SubSeq(u, Len(u) - max + 1, Len(u))) = max
    <3> HIDE DEF u
    <3>1. QED
      BY <1>1, <1>2, <2>1, SubSeqProperties
  <2>3. Committed(s, t, max) = SubSeq(u, Len(u) - max + 1, Len(u))
    BY <1>2 DEF Committed
  <2>4. Committed(s, t, max) # <<>>
    <3>1. Len(Committed(s, t, max)) = max
      BY <2>2, <2>3
    <3>2. Len(<<>>) = 0
      BY EmptySeq
    <3>3. Len(Committed(s, t, max)) # Len(<<>>)
      BY <3>1, <3>2
    <3>4. QED
      BY <3>3
  <2>5. Committed(s, t, max) \in Seq(S) /\ Len(Committed(s, t, max)) <= max
    <3> HIDE DEF u
    <3>1. QED
      BY <2>2, <2>3
  <2>6. QED
    BY <2>4, <2>5
<1>3. CASE ~(Len(u) > max)
  <2>1. Committed(s, t, max) = u
    BY <1>3 DEF Committed
  <2>2. s # <<>> \/ t # <<>> => u # <<>>
    BY ConcatEqualIffEmpty
  <2>3. QED
    BY <1>1, <1>3, <2>1, <2>2
<1>4. QED
  BY <1>2, <1>3

\* onCharsDeleted leaves a prefix.
LEMMA DeletedOver ==
  ASSUME NEW S, NEW s \in Seq(S), NEW n \in Nat
  PROVE  /\ Deleted(s, n) \in Seq(S)
         /\ Len(Deleted(s, n)) <= Len(s)
<1> DEFINE left == IF n < Len(s) THEN Len(s) - n ELSE 0
<1>1. Len(s) \in Nat /\ left \in 0 .. Len(s)
  BY LenProperties
<1>2. \A i \in 1 .. left : s[i] \in S
  BY <1>1, ElementOfSeq
<1>3. QED
  BY <1>1, <1>2, SubSeqProperties DEF Deleted

\* Nothing is read out of an empty text.
LEMMA NothingInNothing ==
  ASSUME NEW k, NEW n \in Nat
  PROVE  CurrentWord(<<>>) = <<>> /\ CompletedWords(<<>>, k, n) = <<>>
<1>1. <<>> \in Seq({}) /\ Len(<<>>) = 0
  BY EmptySeq
<1>2. WordStart(<<>>) = 0
  <2>1. WordStart(<<>>) \in 0 .. Len(<<>>)
    BY <1>1, WordStartInside
  <2>2. QED
    BY <1>1, <2>1
<1>3. CurrentWord(<<>>) = <<>>
  BY <1>1, <1>2, SubSeqEmpty DEF CurrentWord
<1>4. CompletedRuns(<<>>) = {}
  BY <1>1, <1>2 DEF CompletedRuns
<1>5. CompletedWords(<<>>, k, n) = <<>>
  <2> DEFINE found == IF k THEN Cardinality(CompletedRuns(<<>>)) ELSE 0
             size == IF found < n THEN found ELSE n
  <2>1. size = 0
    BY <1>4, FS_EmptySet
  <2>2. CompletedWords(<<>>, k, n) =
            [i \in 1 .. size |-> WordAt(<<>>, NthCompleted(<<>>, i))]
    BY DEF CompletedWords
  <2> HIDE DEF size
  <2>3. QED
    BY <2>1, <2>2
<1>6. QED
  BY <1>3, <1>5

-----------------------------------------------------------------------------
(***************************************************************************)
(* The session.                                                            *)
(***************************************************************************)

\* The characters of session s, and what can be made of characters in S.
Own(s) == {ch \in Char : ch.from = s}
ContextOver(S) == [current : Seq(S), completed : Seq(Seq(S))]
OfferOver(S) == [kind : {"next", "replace"}, for : ContextOver(S)]

Flags ==
    /\ known \in BOOLEAN /\ pinned \in BOOLEAN
    /\ ready \in BOOLEAN /\ loading \in BOOLEAN

\* The inductive invariant: all text the service holds, hands out or shows is
\* the field's own; a restricted field has nothing handed out; a lesson is of
\* an ordinary field; nothing is handed out over an empty text, nor over
\* preceding words that are not known.
OwnTextOnly ==
    /\ sess \in Session /\ Flags
    /\ before \in Seq(Own(sess)) /\ Len(before) <= MaxContext
    /\ inFlight \subseteq ContextOver(Own(sess))
    /\ strip \subseteq OfferOver(Own(sess))
    /\ lesson \subseteq Seq(Own(sess)) \X Seq(Own(sess))
Quiet ==
    /\ sess.kind = "secret" => inFlight = {} /\ strip = {}
    /\ before = <<>> => inFlight = {} /\ strip = {}
    /\ lesson # {} => sess.kind = "open"
IInv == OwnTextOnly /\ Quiet /\ NoOfferWithoutContext

\* Characters typed, and an editor's initial text, belong to the session.
LEMMA NewTextOwn ==
  ASSUME NEW s \in Session, NEW classes \in Seq(CharClasses)
  PROVE  NewText(classes, s) \in Seq(Own(s))
<1>1. Len(classes) \in Nat /\ DOMAIN classes = 1 .. Len(classes)
  BY LenProperties
<1>2. \A i \in 1 .. Len(classes) : [cls |-> classes[i], from |-> s] \in Own(s)
  BY ElementOfSeq DEF Own, Char
<1>3. QED
  BY <1>1, <1>2 DEF NewText

\* The context read out of a text, and what it must leave out.
LEMMA ContextOfOver ==
  ASSUME NEW S, NEW s \in Seq(S), NEW k
  PROVE  /\ ContextOf(s, k) \in ContextOver(S)
         /\ ~k => ContextOf(s, k).completed = <<>>
  BY CurrentWordOver, CompletedWordsOver, ContextWordsAssumption
  DEF ContextOf, ContextOver

\* What the text reads becomes of the request and of the strip.
LEMMA RefreshKeeps ==
  ASSUME IInv, NEW text \in Seq(Own(sess)), NEW k \in BOOLEAN,
         ~k => (~known \/ before = <<>>),
         Refresh(text, k),
         before' = text, known' = k, sess' = sess
  PROVE  /\ inFlight' \subseteq ContextOver(Own(sess))
         /\ strip' \subseteq OfferOver(Own(sess))
         /\ sess.kind = "secret" => inFlight' = {} /\ strip' = {}
         /\ before' = <<>> => inFlight' = {} /\ strip' = {}
         /\ NoOfferWithoutContext'
         /\ ready' \in BOOLEAN /\ loading' \in BOOLEAN
<1> DEFINE c == ContextOf(text, k)
           unasked == ~MaySuggest(sess) \/ (c.current = <<>> /\ c.completed = <<>>)
<1>1. c \in ContextOver(Own(sess)) /\ (~k => c.completed = <<>>)
  BY ContextOfOver
<1>2. text = <<>> => unasked
  BY NothingInNothing, ContextWordsAssumption DEF ContextOf
<1>3. sess.kind = "secret" => unasked
  BY DEF MaySuggest
<1>4. CASE inFlight' = {} /\ strip' = {} /\ ready' = ready /\ loading' \in BOOLEAN
  BY <1>4 DEF IInv, OwnTextOnly, Flags, NoOfferWithoutContext
<1>5. CASE ~unasked /\ inFlight' = {c} /\ UNCHANGED <<strip, engine>>
  <2>1. NoOfferWithoutContext'
    <3>1. ASSUME ~k
          PROVE  \A o \in strip : o.for.completed = <<>>
      BY <3>1 DEF IInv, Quiet, NoOfferWithoutContext
    <3>2. QED
      BY <1>1, <1>5, <3>1 DEF NoOfferWithoutContext
  <2>2. QED
    BY <1>1, <1>2, <1>3, <1>5, <2>1 DEF IInv, OwnTextOnly, Flags, engine
<1>6. QED
  <2>1. \/ unasked /\ Silence /\ UNCHANGED engine
        \/ ~unasked /\ inFlight' = {c} /\ UNCHANGED <<strip, engine>>
        \/ Silence /\ loading' = TRUE /\ UNCHANGED ready
    BY DEF Refresh
  <2>2. loading \in BOOLEAN
    BY DEF IInv, OwnTextOnly, Flags
  <2>3. QED
    BY <1>4, <1>5, <2>1, <2>2 DEF Silence, engine

\* A lesson is made of the field's own words, and only in an ordinary field.
LEMMA LearnKeeps ==
  ASSUME IInv, NEW text \in Seq(Own(sess)), NEW k, Learn(text, k), sess' = sess
  PROVE  /\ lesson' \subseteq Seq(Own(sess)) \X Seq(Own(sess))
         /\ lesson' # {} => sess.kind = "open"
<1> DEFINE c == CompletedWords(text, k, 2)
<1>1. c \in Seq(Seq(Own(sess)))
  BY CompletedWordsOver
<1> HIDE DEF c
<1>2. CASE lesson' = {}
  BY <1>2
<1>3. CASE lesson' = {<<c[2], c[1]>>} /\ MayLearn(sess) /\ Len(c) = 2
  <2>1. c[1] \in Seq(Own(sess)) /\ c[2] \in Seq(Own(sess))
    <3>1. 1 \in 1 .. Len(c) /\ 2 \in 1 .. Len(c)
      BY <1>3
    <3>2. QED
      BY <1>1, <3>1, ElementOfSeq
  <2>2. QED
    BY <1>3, <2>1 DEF MayLearn
<1>4. QED
  BY <1>2, <1>3 DEF Learn, c

-----------------------------------------------------------------------------
(* One lemma per group of actions.                                         *)

LEMMA InitOwn == Init => IInv
<1> SUFFICES ASSUME Init
             PROVE  IInv
  OBVIOUS
<1>1. before \in Seq(Own(sess)) /\ Len(before) <= MaxContext
  BY EmptySeq, MaxContextAssumption DEF Init
<1>2. QED
  BY <1>1 DEF Init, IInv, OwnTextOnly, Flags, Quiet, NoOfferWithoutContext, Session, Kinds

\* A field entered, left or lost: nothing of it is left behind.
LEMMA FieldChangeOwn ==
  ASSUME IInv, sess' \in Session, before' \in Seq(Own(sess')), Len(before') <= MaxContext,
         Flags', inFlight' = {}, strip' = {}, lesson' = {}
  PROVE  IInv'
  BY DEF IInv, OwnTextOnly, Quiet, NoOfferWithoutContext

LEMMA StartInputOwn ==
  ASSUME IInv, NEW kind \in Kinds, NEW initial \in Initials, StartInput(kind, initial)
  PROVE  IInv'
<1> DEFINE s == [no |-> sess.no + 1, kind |-> kind]
           readable == MaySuggest(s) /\ initial.given
<1>1. s \in Session
  BY DEF IInv, OwnTextOnly, Session
<1>2. NewText(initial.text, s) \in Seq(Own(s)) /\ <<>> \in Seq(Own(s))
  BY <1>1, NewTextOwn, InitialsAssumption, EmptySeq
<1>3. /\ Committed(<<>>, NewText(initial.text, s), MaxContext) \in Seq(Own(s))
      /\ Len(Committed(<<>>, NewText(initial.text, s), MaxContext)) <= MaxContext
  BY <1>2, CommittedOver, MaxContextAssumption
<1>4. readable \in BOOLEAN
  BY InitialsAssumption
<1>5. sess' = s /\ before' = IF readable
                             THEN Committed(<<>>, NewText(initial.text, s), MaxContext)
                             ELSE <<>>
  BY DEF StartInput
<1>6. known' = readable /\ pinned' = FALSE /\ UNCHANGED <<ready, loading>>
      /\ inFlight' = {} /\ strip' = {} /\ lesson' = {}
  BY DEF StartInput, Silence, engine
<1> HIDE DEF readable, s
<1>7. before' \in Seq(Own(sess')) /\ Len(before') <= MaxContext
  BY <1>2, <1>3, <1>5, EmptySeq, MaxContextAssumption
<1>8. Flags'
  BY <1>4, <1>6 DEF IInv, OwnTextOnly, Flags
<1>9. QED
  BY <1>1, <1>5, <1>6, <1>7, <1>8, FieldChangeOwn

LEMMA ClosingOwn ==
  ASSUME IInv, FinishInput \/ Desync \/ Recreate
  PROVE  IInv'
<1>1. sess' \in Session
  BY DEF FinishInput, Desync, Recreate, IInv, OwnTextOnly, Session, Kinds
<1>2. before' \in Seq(Own(sess')) /\ Len(before') <= MaxContext
  <2>1. before' = <<>>
    BY DEF FinishInput, Desync, Recreate
  <2>2. <<>> \in Seq(Own(sess')) /\ Len(<<>>) = 0
    BY EmptySeq
  <2>3. QED
    BY <2>1, <2>2, MaxContextAssumption
<1>3. Flags'
  BY DEF FinishInput, Desync, Recreate, IInv, OwnTextOnly, Flags, engine
<1>4. inFlight' = {} /\ strip' = {} /\ lesson' = {}
  BY DEF FinishInput, Desync, Recreate, Silence
<1>5. QED
  BY <1>1, <1>2, <1>3, <1>4, FieldChangeOwn

\* An edit of the field in focus, with what the session asks after it.
LEMMA EditOwn ==
  ASSUME IInv, NEW text \in Seq(Own(sess)), Len(text) <= MaxContext, NEW k \in BOOLEAN,
         ~k => (~known \/ before = <<>>),
         Refresh(text, k), Learn(text, k) \/ lesson' = {},
         before' = text, known' = k, sess' = sess, pinned' \in BOOLEAN
  PROVE  IInv'
<1>1. /\ inFlight' \subseteq ContextOver(Own(sess))
      /\ strip' \subseteq OfferOver(Own(sess))
      /\ sess.kind = "secret" => inFlight' = {} /\ strip' = {}
      /\ before' = <<>> => inFlight' = {} /\ strip' = {}
      /\ NoOfferWithoutContext'
      /\ ready' \in BOOLEAN /\ loading' \in BOOLEAN
  BY RefreshKeeps
<1>2. /\ lesson' \subseteq Seq(Own(sess)) \X Seq(Own(sess))
      /\ lesson' # {} => sess.kind = "open"
  BY LearnKeeps
<1>3. OwnTextOnly'
  BY <1>1, <1>2 DEF IInv, OwnTextOnly, Flags
<1>4. Quiet'
  BY <1>1, <1>2 DEF Quiet
<1>5. QED
  BY <1>1, <1>3, <1>4 DEF IInv

\* The characters a key commits are the field's own.
LEMMA TypedOwn ==
  ASSUME IInv, NEW classes \in Seq(CharClasses), NEW s \in Seq(Own(sess))
  PROVE  /\ Committed(s, NewText(classes, sess), MaxContext) \in Seq(Own(sess))
         /\ Len(Committed(s, NewText(classes, sess), MaxContext)) <= MaxContext
<1>1. NewText(classes, sess) \in Seq(Own(sess))
  BY NewTextOwn DEF IInv, OwnTextOnly
<1>2. QED
  BY <1>1, CommittedOver, MaxContextAssumption

LEMMA TypeKeyOwn ==
  ASSUME IInv, NEW cls \in KeyClasses, TypeKey(cls)
  PROVE  IInv'
<1> DEFINE classes == IF Pins(cls) THEN <<"gap", cls>> ELSE <<cls>>
           text == Committed(before, NewText(classes, sess), MaxContext)
<1>1. classes \in Seq(CharClasses)
  <2>1. cls \in CharClasses /\ "gap" \in CharClasses
    BY KeyClassesAssumption DEF CharClasses
  <2>2. <<"gap", cls>> \in Seq(CharClasses) /\ <<cls>> \in Seq(CharClasses)
    BY <2>1
  <2>3. QED
    BY <2>2
<1>2. text \in Seq(Own(sess)) /\ Len(text) <= MaxContext
  BY <1>1, TypedOwn DEF IInv, OwnTextOnly
<1>3. /\ before' = text /\ pinned' = (pinned \/ Pins(cls))
      /\ Learn(text, known) /\ Refresh(text, known)
      /\ UNCHANGED <<sess, known>>
  BY DEF TypeKey
<1>4. known \in BOOLEAN
  BY DEF IInv, OwnTextOnly, Flags
<1>5. pinned' \in BOOLEAN
  BY <1>3
<1> HIDE DEF text
<1>6. QED
  BY <1>2, <1>3, <1>4, <1>5, EditOwn

\* A deletion that leaves the known text was asked of an empty text.
LEMMA BackspaceOwn ==
  ASSUME IInv, Backspace
  PROVE  IInv'
<1>1. PICK w \in Widths :
         /\ before' = Deleted(before, w)
         /\ known' = (known /\ Covers(before, w))
         /\ Learn(Deleted(before, w), known /\ Covers(before, w))
         /\ Refresh(Deleted(before, w), known /\ Covers(before, w))
         /\ UNCHANGED <<sess, pinned>>
  BY DEF Backspace
<1> DEFINE text == Deleted(before, w)
           k == known /\ Covers(before, w)
<1>2. before \in Seq(Own(sess)) /\ Len(before) \in Nat /\ Len(before) <= MaxContext
  BY LenProperties DEF IInv, OwnTextOnly
<1>3. w \in Nat
  BY MaxClusterAssumption DEF Widths
<1>4. text \in Seq(Own(sess)) /\ Len(text) <= Len(before)
  BY <1>2, <1>3, DeletedOver
<1>5. Len(text) <= MaxContext
  BY <1>2, <1>4, LenProperties, MaxContextAssumption
<1>6. ~k => (~known \/ before = <<>>)
  <2>1. ASSUME known, ~Covers(before, w)
        PROVE  before = <<>>
    <3>1. w = 1
      BY <2>1 DEF Widths, Covers
    <3>2. Len(before) = 0
      BY <1>2, <2>1, <3>1 DEF Covers
    <3>3. QED
      BY <1>2, <3>2, EmptySeq
  <2>2. QED
    BY <2>1
<1>7. k \in BOOLEAN /\ pinned' \in BOOLEAN
  BY <1>1 DEF IInv, OwnTextOnly, Flags
<1> HIDE DEF text, k
<1>8. QED
  <2>1. before' = text /\ known' = k /\ Learn(text, k) /\ Refresh(text, k)
        /\ UNCHANGED <<sess, pinned>>
    BY <1>1 DEF text, k
  <2>2. QED
    BY <1>4, <1>5, <1>6, <1>7, <2>1, EditOwn

LEMMA OtherKeyOwn ==
  ASSUME IInv, OtherKey
  PROVE  IInv'
<1>1. /\ Refresh(before, known) /\ lesson' = {}
      /\ before' = before /\ known' = known /\ pinned' = pinned /\ sess' = sess
  BY DEF OtherKey, buffer
<1>2. /\ before \in Seq(Own(sess)) /\ Len(before) <= MaxContext
      /\ known \in BOOLEAN /\ pinned \in BOOLEAN
  BY DEF IInv, OwnTextOnly, Flags
<1>3. pinned' \in BOOLEAN
  BY <1>1, <1>2
<1>4. QED
  BY <1>1, <1>2, <1>3, EditOwn

LEMMA LongPressOwn ==
  ASSUME IInv, LongPress
  PROVE  IInv'
<1> DEFINE k    == known /\ Covers(before, 1)
           text == Committed(Deleted(before, 1), NewText(<<"mark">>, sess), MaxContext)
<1>1. /\ before' = text /\ known' = k /\ Refresh(text, k) /\ lesson' = {}
      /\ sess' = sess /\ pinned' = pinned
  BY DEF LongPress
<1>2. before \in Seq(Own(sess)) /\ Len(before) \in Nat
  BY LenProperties DEF IInv, OwnTextOnly
<1>3. Deleted(before, 1) \in Seq(Own(sess))
  BY <1>2, DeletedOver
<1>4. <<"mark">> \in Seq(CharClasses)
  BY DEF CharClasses
<1>5. text \in Seq(Own(sess)) /\ Len(text) <= MaxContext
  BY <1>3, <1>4, TypedOwn
<1>6. ~k => (~known \/ before = <<>>)
  <2>1. ~Covers(before, 1) => Len(before) = 0
    BY <1>2 DEF Covers
  <2>2. QED
    BY <1>2, <2>1, EmptySeq
<1>7. k \in BOOLEAN /\ pinned' \in BOOLEAN
  BY <1>1 DEF IInv, OwnTextOnly, Flags
<1> HIDE DEF text, k
<1>8. QED
  BY <1>1, <1>5, <1>6, <1>7, EditOwn

\* A tap leaves a text that is not empty: what it replaces or follows is there,
\* or is put there.
LEMMA TapOwn ==
  ASSUME IInv, Tap
  PROVE  IInv'
<1>1. PICK n \in 1 .. MaxPrediction :
         LET current == CurrentWord(before)
             word == NewText([i \in 1 .. n |-> "letter"], sess)
         IN  \/ current # <<>> /\ before' = before
             \/ before' = Committed(before, word, MaxContext)
             \/ before' = Committed(Deleted(before, Len(current)), word, MaxContext)
  BY DEF Tap
<1> DEFINE classes == [i \in 1 .. n |-> "letter"]
           word == NewText(classes, sess)
<1>2. classes \in Seq(CharClasses) /\ Len(classes) = n /\ n \in Nat \ {0}
  BY MaxPredictionAssumption DEF CharClasses
<1>3. before \in Seq(Own(sess)) /\ Len(before) <= MaxContext
  BY DEF IInv, OwnTextOnly
<1>4. Len(CurrentWord(before)) \in Nat
  BY <1>3, CurrentWordOver, LenProperties
<1>5. Deleted(before, Len(CurrentWord(before))) \in Seq(Own(sess))
  BY <1>3, <1>4, DeletedOver
<1>6. word \in Seq(Own(sess))
  BY <1>2, NewTextOwn DEF IInv, OwnTextOnly
<1>7. word # <<>>
  <2>1. Len(word) = n
    BY <1>2 DEF NewText
  <2>2. QED
    BY <1>2, <2>1, EmptySeq
<1>8. before' \in Seq(Own(sess)) /\ Len(before') <= MaxContext
  BY <1>1, <1>2, <1>3, <1>5, TypedOwn
<1>9. before' # <<>>
  <2>1. CurrentWord(before) # <<>> => before # <<>>
    BY NothingInNothing
  <2>2. /\ Committed(before, word, MaxContext) # <<>>
        /\ Committed(Deleted(before, Len(CurrentWord(before))), word, MaxContext) # <<>>
    BY <1>3, <1>5, <1>6, <1>7, CommittedOver, MaxContextAssumption
  <2>3. QED
    BY <1>1, <2>1, <2>2
<1>10. strip' = {} /\ lesson' = {} /\ UNCHANGED <<sess, known, pinned, engine, inFlight>>
  BY DEF Tap
<1>11. OwnTextOnly'
  BY <1>8, <1>10 DEF IInv, OwnTextOnly, Flags, engine
<1>12. Quiet' /\ NoOfferWithoutContext'
  BY <1>9, <1>10 DEF IInv, Quiet, NoOfferWithoutContext
<1>13. QED
  BY <1>11, <1>12 DEF IInv

\* An answer is about the context it was asked for.
LEMMA DeliverOwn ==
  ASSUME IInv, Deliver
  PROVE  IInv'
<1>1. PICK c \in inFlight : strip' \in Answers(c) /\ inFlight' = {} /\ lesson' = {}
                            /\ UNCHANGED <<sess, buffer, engine>>
  BY DEF Deliver
<1>2. \A o \in strip' : o.for = c /\ o \in [kind : {"next", "replace"}, for : {c}]
  BY <1>1 DEF Answers
<1>3. c \in ContextOver(Own(sess))
  BY <1>1 DEF IInv, OwnTextOnly
<1>4. strip' \subseteq OfferOver(Own(sess))
  BY <1>2, <1>3 DEF OfferOver
<1>5. OwnTextOnly'
  BY <1>1, <1>4 DEF IInv, OwnTextOnly, Flags, buffer, engine
<1>6. Quiet'
  BY <1>1 DEF IInv, Quiet, buffer
<1>7. NoOfferWithoutContext'
  BY <1>1, <1>2 DEF IInv, NoOfferWithoutContext, buffer
<1>8. QED
  BY <1>5, <1>6, <1>7 DEF IInv

LEMMA WarmedUpOwn ==
  ASSUME IInv, WarmedUp
  PROVE  IInv'
<1>1. Flags'
  BY DEF WarmedUp, IInv, OwnTextOnly, Flags, buffer
<1>2. QED
  BY <1>1 DEF WarmedUp, IInv, OwnTextOnly, Quiet, NoOfferWithoutContext, buffer

LEMMA ViewOwn ==
  ASSUME IInv, CreateInputView
  PROVE  IInv'
<1>1. Flags'
  BY DEF CreateInputView, IInv, OwnTextOnly, Flags, buffer, engine
<1>2. QED
  BY <1>1 DEF CreateInputView, IInv, OwnTextOnly, Quiet, NoOfferWithoutContext, buffer

LEMMA IInvStep == IInv /\ [Next]_vars => IInv'
<1> SUFFICES ASSUME IInv, [Next]_vars
             PROVE  IInv'
  OBVIOUS
<1>1. CASE UNCHANGED vars
  BY <1>1 DEF vars, buffer, engine, IInv, OwnTextOnly, Flags, Quiet, NoOfferWithoutContext
<1>2. CASE Next
  BY <1>2, StartInputOwn, ClosingOwn, TypeKeyOwn, BackspaceOwn, OtherKeyOwn,
     LongPressOwn, TapOwn, DeliverOwn, WarmedUpOwn, ViewOwn
  DEF Next
<1>3. QED
  BY <1>1, <1>2

\* The inductive invariant holds.
THEOREM Inductive == Spec => []IInv
<1>1. QED
  BY InitOwn, IInvStep, PTL DEF Spec

-----------------------------------------------------------------------------
(* What follows from it.                                                   *)

\* Whatever is over the field's own characters is over characters.
LEMMA OwnSeq ==
  ASSUME NEW S, NEW s \in Seq(S), NEW ch \in Chars(s)
  PROVE  ch \in S
  BY LenProperties, ElementOfSeq DEF Chars

\* Everything handed to the engine, shown or taught is the field's own.
LEMMA HandedOwn ==
  ASSUME IInv
  PROVE  \A ch \in Chars(before) \cup Handed \cup Taught : ch.from = sess
<1>1. \A c \in ContextOver(Own(sess)) : \A ch \in ContextChars(c) : ch \in Own(sess)
  <2> SUFFICES ASSUME NEW c \in ContextOver(Own(sess)), NEW ch \in ContextChars(c)
               PROVE  ch \in Own(sess)
    OBVIOUS
  <2>1. c.current \in Seq(Own(sess)) /\ c.completed \in Seq(Seq(Own(sess)))
    BY DEF ContextOver
  <2>2. CASE ch \in Chars(c.current)
    BY <2>1, <2>2, OwnSeq
  <2>3. ASSUME NEW i \in DOMAIN c.completed, ch \in Chars(c.completed[i])
        PROVE  ch \in Own(sess)
    <3>1. c.completed[i] \in Seq(Own(sess))
      BY <2>1, <2>3, LenProperties, ElementOfSeq
    <3>2. QED
      BY <2>3, <3>1, OwnSeq
  <2>4. QED
    BY <2>2, <2>3 DEF ContextChars
<1>2. \A ch \in Handed : ch \in Own(sess)
  <2>1. \A c \in inFlight : c \in ContextOver(Own(sess))
    BY DEF IInv, OwnTextOnly
  <2>2. \A o \in strip : o.for \in ContextOver(Own(sess))
    BY DEF IInv, OwnTextOnly, OfferOver
  <2>3. ASSUME NEW ch \in Handed
        PROVE  \/ \E c \in inFlight : ch \in ContextChars(c)
               \/ \E o \in strip : ch \in ContextChars(o.for)
    BY DEF Handed
  <2>4. QED
    BY <1>1, <2>1, <2>2, <2>3
<1>3. \A ch \in Taught : ch \in Own(sess)
  BY OwnSeq DEF Taught, IInv, OwnTextOnly
<1>4. \A ch \in Chars(before) : ch \in Own(sess)
  BY OwnSeq DEF IInv, OwnTextOnly
<1>5. QED
  BY <1>2, <1>3, <1>4 DEF Own

\* Neither the text nor the results of a field surface in another one.
THEOREM FieldsAreSeparate == Spec => []NothingCrossesFields
<1>1. IInv => NothingCrossesFields
  BY HandedOwn DEF NothingCrossesFields
<1>2. QED
  BY <1>1, Inductive, PTL

\* The privacy boundary: nothing of a restricted field is handed to the engine
\* or shown, and only an ordinary field teaches.
THEOREM SecretsAreKept == Spec => []SecretsStayPut
<1>1. ASSUME IInv
      PROVE  SecretsStayPut
  <2>1. \A ch \in Handed : ch.from = sess /\ sess.kind # "secret"
    BY <1>1, HandedOwn DEF IInv, Quiet, Handed
  <2>2. \A ch \in Taught : ch.from = sess /\ sess.kind = "open"
    BY <1>1, HandedOwn DEF IInv, Quiet, Taught
  <2>3. QED
    BY <1>1, <2>1, <2>2 DEF SecretsStayPut, IInv, Quiet
<1>2. QED
  BY <1>1, Inductive, PTL

\* Nothing computed from preceding words outlives the knowledge of them.
THEOREM ContextIsKnown == Spec => []NoOfferWithoutContext
<1>1. IInv => NoOfferWithoutContext
  BY DEF IInv
<1>2. QED
  BY <1>1, Inductive, PTL

\* The types, with the cap on the text retained.
THEOREM SessionTypeCorrect == Spec => []TypeOK
<1>1. ASSUME NEW S \in SUBSET Char
      PROVE  Seq(S) \subseteq Text /\ Seq(Seq(S)) \subseteq Seq(Text)
  BY DEF Text
<1>2. Own(sess) \in SUBSET Char
  BY DEF Own
<1>3. /\ Seq(Own(sess)) \subseteq Text
      /\ ContextOver(Own(sess)) \subseteq TypingContext
      /\ OfferOver(Own(sess)) \subseteq Offer
  BY <1>1, <1>2 DEF ContextOver, TypingContext, OfferOver, Offer
<1>4. IInv => TypeOK
  BY <1>3 DEF IInv, OwnTextOnly, Flags, TypeOK
<1>5. QED
  BY <1>4, Inductive, PTL
=============================================================================
