----------------------------- MODULE CorporaProofs -----------------------------
(***************************************************************************)
(* Proofs about Corpora, for every dump, every way of cutting it into      *)
(* blocks and ranges, every subtitle stream and every order of the tools.  *)
(***************************************************************************)
EXTENDS Corpora, FiniteSetTheorems, WellFoundedInduction, TLAPS

-----------------------------------------------------------------------------
(* Minima and maxima of bounded sets of numbers.                             *)

LEMMA MinExists ==
  ASSUME NEW S \in SUBSET Nat, S # {}
  PROVE  Min(S) \in S /\ \A y \in S : Min(S) <= y
<1> DEFINE R == OpToRel(<, Nat)
<1>0. \A x, y \in Nat : x < y => <<x, y>> \in R
  BY DEF OpToRel
<1>1. PICK x \in S : \A y \in S : ~ (<<y, x>> \in R)
  <2>1. IsWellFoundedOn(R, Nat)
    BY NatLessThanWellFounded
  <2> HIDE DEF R
  <2>2. QED
    BY <2>1, WFMin
<1>2. \A y \in S : x <= y
  <2> SUFFICES ASSUME NEW y \in S
               PROVE  x <= y
    OBVIOUS
  <2>1. x \in Nat /\ y \in Nat /\ (y < x => <<y, x>> \in R)
    BY <1>0
  <2> HIDE DEF R
  <2>2. ~ (y < x)
    BY <1>1, <2>1
  <2>3. QED
    BY <2>1, <2>2
<1>3. QED
  BY <1>2 DEF Min

LEMMA MaxExists ==
  ASSUME NEW N \in Nat, NEW S \in SUBSET (0 .. N), S # {}
  PROVE  Max(S) \in S /\ \A y \in S : y <= Max(S)
<1> DEFINE T == {N - y : y \in S}
<1>1. T \in SUBSET Nat /\ T # {}
  <2>1. \A y \in S : N - y \in Nat
    OBVIOUS
  <2>2. QED
    BY <2>1
<1>2. Min(T) \in T /\ \A t \in T : Min(T) <= t
  BY <1>1, MinExists
<1>3. PICK x \in S : Min(T) = N - x
  BY <1>2
<1>4. \A y \in S : x >= y
  <2> SUFFICES ASSUME NEW y \in S
               PROVE  x >= y
    OBVIOUS
  <2>1. N - x <= N - y
    BY <1>2, <1>3
  <2>2. x \in Int /\ y \in Int /\ N \in Int
    OBVIOUS
  <2>3. QED
    BY <2>1, <2>2
<1>5. Max(S) \in S /\ \A y \in S : Max(S) >= y
  BY <1>4 DEF Max
<1>6. QED
  BY <1>5

-----------------------------------------------------------------------------
(***************************************************************************)
(* Byte ranges and the blocks in them.  Ranges that share no byte share no   *)
(* block, because a block's first byte is in every range that yields it.    *)
(***************************************************************************)
LEMMA DumpFacts ==
  /\ Offsets \in SUBSET Nat /\ Offsets # {}
  /\ DataBytes - 1 \in Nat /\ Offsets \in SUBSET (0 .. DataBytes - 1)
<1>1. DataBytes \in Nat /\ Offsets \subseteq 0 .. DataBytes - 1 /\ Offsets # {}
  BY CorporaAssumption
<1>2. PICK o \in Offsets : TRUE
  BY <1>1
<1>3. o \in Int /\ 0 <= o /\ o <= DataBytes - 1
  BY <1>1
<1>4. QED
  BY <1>1, <1>3

LEMMA StartsAreBlocks ==
  ASSUME NEW chunks, NEW half
  PROVE  ChunkStarts(chunks, half) \subseteq Offsets
<1> DEFINE below(i) == {o \in Offsets : o <= (DataBytes * (2 * i + half)) \div (2 * chunks)}
<1>2. Min(Offsets) \in Offsets
  BY DumpFacts, MinExists
<1>3. ASSUME NEW i, below(i) # {}
      PROVE  Max(below(i)) \in Offsets
  <2>1. below(i) \in SUBSET (0 .. DataBytes - 1)
    BY DumpFacts
  <2> HIDE DEF below
  <2>2. Max(below(i)) \in below(i)
    BY DumpFacts, <1>3, <2>1, MaxExists
  <2>3. QED
    BY <2>2 DEF below
<1>4. QED
  BY <1>2, <1>3 DEF ChunkStarts

LEMMA RangeShape ==
  ASSUME NEW plan \in Plans, NEW half \in {0, 1}, NEW r \in Ranges[plan][half]
  PROVE  r[1] \in Int /\ r[2] \in Int
<1>1. PICK s \in ChunkStarts(plan.chunks, half) :
        r = <<s, Min({s + plan.size, DataBytes - 1})>>
  BY DEF Ranges
<1>2. s \in Nat /\ DataBytes - 1 \in Nat
  BY StartsAreBlocks, DumpFacts
<1>6. plan.size \in Nat
  <2>1. plan \in [chunks : Nat \ {0}, size : Nat \ {0}]
    BY CorporaAssumption
  <2>2. QED
    BY <2>1
<1>3. {s + plan.size, DataBytes - 1} \in SUBSET Nat
  BY <1>2, <1>6
<1>4. Min({s + plan.size, DataBytes - 1}) \in Nat
  BY <1>3, MinExists
<1>5. QED
  BY <1>1, <1>2, <1>4

LEMMA ApartBlocks ==
  ASSUME NEW plan \in Plans, NEW other \in Plans,
         Overlapping(Ranges[plan][0], Ranges[other][1]) = {},
         NEW got \in SUBSET Ranges[plan][0]
  PROVE  (UNION {Blocks(r) : r \in got}) \cap (UNION {Blocks(r) : r \in Ranges[other][1]}) = {}
<1> SUFFICES ASSUME NEW a \in Ranges[plan][0], NEW b \in Ranges[other][1],
                    NEW o \in Blocks(a), o \in Blocks(b)
             PROVE  FALSE
  OBVIOUS
<1>1. o \in Int /\ a[1] <= o /\ o < a[2] /\ b[1] <= o /\ o < b[2]
  BY DumpFacts DEF Blocks
<1>2. a[1] \in Int /\ a[2] \in Int /\ b[1] \in Int /\ b[2] \in Int
  BY RangeShape
<1>3. a[1] <= b[2] /\ b[1] <= a[2]
  BY <1>1, <1>2
<1>4. <<a, b>> \in Overlapping(Ranges[plan][0], Ranges[other][1])
  BY <1>3 DEF Overlapping
<1>5. QED
  BY <1>4

-----------------------------------------------------------------------------
(***************************************************************************)
(* Training and evaluation.  The disjointness is a fact about the plan the  *)
(* manifest names, whatever table was trained since: stated so it survives   *)
(* retraining, and the property is the case where nothing was.              *)
(***************************************************************************)
TrainedBy(plan) == UNION {Blocks(r) : r \in Ranges[plan][1]}

ManifestApart ==
    /\ training \in Plans
    /\ manifest # None => manifest.corpus \cap TrainedBy(manifest.training) = {}

LEMMA ManifestApartStep == ManifestApart /\ [Next]_vars => ManifestApart'
<1> SUFFICES ASSUME ManifestApart, [Next]_vars
             PROVE  ManifestApart'
  OBVIOUS
<1>1. ASSUME NEW plan \in Plans, Retrain(plan)
      PROVE  ManifestApart'
  BY <1>1 DEF Retrain, ManifestApart
<1>2. ASSUME NEW plan \in Plans, NEW k \in BOOLEAN, NEW got \in SUBSET Ranges[plan][0],
             BuildEval(plan, got, k)
      PROVE  ManifestApart'
  <2>1. CASE k
    BY <1>2, <2>1 DEF BuildEval, ManifestApart
  <2>2. CASE ~k
    <3>1. /\ eval' = UNION {Blocks(r) : r \in got}
          /\ manifest' = [corpus |-> eval', training |-> training, is |-> "corpus"]
          /\ training' = training
      BY <1>2, <2>2 DEF BuildEval
    <3>2. Overlapping(Ranges[plan][0], Ranges[training][1]) = {}
      BY <1>2 DEF BuildEval
    <3>3. (UNION {Blocks(r) : r \in got}) \cap TrainedBy(training) = {}
      BY <3>2, ApartBlocks DEF TrainedBy, ManifestApart
    <3>4. manifest'.corpus = eval' /\ manifest'.training = training
      BY <3>1
    <3>5. eval' \cap TrainedBy(training) = {}
      BY <3>1, <3>3
    <3> HIDE DEF TrainedBy
    <3>6. QED
      BY <3>1, <3>4, <3>5 DEF ManifestApart
  <2>3. QED
    BY <2>1, <2>2
<1>3. ASSUME UNCHANGED <<training, manifest>>
      PROVE  ManifestApart'
  BY <1>3 DEF ManifestApart
<1>4. CASE \E k \in BOOLEAN : SliceEval(k)
  BY <1>3, <1>4 DEF SliceEval, evalVars
<1>5. CASE \/ \E l \in Lexicons : RebuildLexicon(l)
           \/ \E k \in BOOLEAN : BuildSubtitles(k)
  BY <1>3, <1>5 DEF RebuildLexicon, BuildSubtitles, evalVars
<1>6. CASE \E kept \in SUBSET Comments, skip \in BOOLEAN, cap \in {0, 1}, k \in BOOLEAN :
             BuildTyped(kept, skip, cap, k)
  BY <1>3, <1>6 DEF BuildTyped, evalVars
<1>7. CASE RewriteDeclarations \/ \E c \in Classes : WriteReason(c)
  BY <1>3, <1>7 DEF RewriteDeclarations, WriteReason, evalVars
<1>8. CASE UNCHANGED vars
  BY <1>3, <1>8 DEF vars, evalVars
<1>9. QED
  BY <1>1, <1>2, <1>4, <1>5, <1>6, <1>7, <1>8 DEF Next

\* What the evaluation corpus was read from was never read for the training of
\* the table it is measured against, for every dump and every pair of plans.
THEOREM NeverTrained == Spec => []EvalWasNeverTrained
<1>1. Init => ManifestApart
  BY DEF Init, ManifestApart
<1>2. ManifestApart => EvalWasNeverTrained
  BY DEF ManifestApart, EvalWasNeverTrained, Trained, TrainedBy
<1>3. QED
  BY <1>1, <1>2, ManifestApartStep, PTL DEF Spec

-----------------------------------------------------------------------------
(***************************************************************************)
(* The slices.  Without a death the manifest's corpus is the one on disk, so *)
(* the parent written beside new slices is the manifest's too.              *)
(***************************************************************************)
SlicesTraced ==
    /\ ~torn /\ manifest # None => manifest.corpus = eval
    /\ ~torn /\ listed # None =>
          /\ manifest # None /\ eval = listed.parent
          /\ slices # None /\ slices.parent = listed.parent

LEMMA SlicesTracedStep == SlicesTraced /\ [Next]_vars => SlicesTraced'
<1> SUFFICES ASSUME SlicesTraced, [Next]_vars
             PROVE  SlicesTraced'
  OBVIOUS
<1>2. ASSUME NEW plan \in Plans, NEW k \in BOOLEAN, NEW got \in SUBSET Ranges[plan][0],
             BuildEval(plan, got, k)
      PROVE  SlicesTraced'
  <2>1. CASE k
    BY <1>2, <2>1 DEF BuildEval, Run, SlicesTraced
  <2>2. CASE ~k
    BY <1>2, <2>2 DEF BuildEval, SlicesTraced
  <2>3. QED
    BY <2>1, <2>2
<1>3. ASSUME NEW k \in BOOLEAN, SliceEval(k)
      PROVE  SlicesTraced'
  <2>1. CASE k
    BY <1>3, <2>1 DEF SliceEval, Run, SlicesTraced
  <2>2. CASE ~k
    <3>1. /\ slices' = [parent |-> eval, picked |-> Picked[Eligible], is |-> "slices"]
          /\ listed' = [parent |-> eval, is |-> "parent"]
          /\ manifest # None /\ UNCHANGED <<manifest, eval>> /\ (~torn' => ~torn)
      BY <1>3, <2>2 DEF SliceEval, Run, evalVars, SlicesTraced
    <3>2. slices'.parent = eval /\ listed'.parent = eval /\ slices'.is = "slices"
      BY <3>1
    <3>3. slices' # None
      BY <3>2 DEF None
    <3>4. QED
      BY <3>1, <3>2, <3>3 DEF SlicesTraced
  <2>3. QED
    BY <2>1, <2>2
<1>4. CASE \/ \E plan \in Plans : Retrain(plan)
           \/ \E l \in Lexicons : RebuildLexicon(l)
           \/ \E k \in BOOLEAN : BuildSubtitles(k)
  BY <1>4 DEF Retrain, RebuildLexicon, BuildSubtitles, evalVars, sliceVars, Run, SlicesTraced
<1>5. CASE \E kept \in SUBSET Comments, skip \in BOOLEAN, cap \in {0, 1}, k \in BOOLEAN :
             BuildTyped(kept, skip, cap, k)
  BY <1>5 DEF BuildTyped, evalVars, sliceVars, Run, SlicesTraced
<1>6. CASE RewriteDeclarations \/ \E c \in Classes : WriteReason(c)
  BY <1>6 DEF RewriteDeclarations, WriteReason, evalVars, sliceVars, Run, SlicesTraced
<1>7. CASE UNCHANGED vars
  BY <1>7 DEF vars, evalVars, sliceVars, SlicesTraced
<1>8. QED
  BY <1>2, <1>3, <1>4, <1>5, <1>6, <1>7 DEF Next

\* A slice the manifest lists can be traced to the corpus it came from, after
\* any number of rebuilds, unless a tool was killed.
THEOREM SlicesAreThere == Spec => []ListedSlicesAreThere
<1>1. Init => SlicesTraced
  BY DEF Init, SlicesTraced
<1>2. SlicesTraced => ListedSlicesAreThere
  BY DEF SlicesTraced, ListedSlicesAreThere
<1>3. QED
  BY <1>1, <1>2, SlicesTracedStep, PTL DEF Spec

-----------------------------------------------------------------------------
(***************************************************************************)
(* The typed slice.  Whatever the lexicon, the subtitle files hold lines of  *)
(* the stream, and a claim of wholeness is about all of the stream.         *)
(***************************************************************************)
Heard == {Stream[i] : i \in DOMAIN Stream}

TypedApart ==
    /\ subtitles.train \cup subtitles.held \subseteq DOMAIN Stream
    /\ ~torn /\ claim # None /\ claim.whole => typed.lines \cap Heard = {}

LEMMA AllCollide == Collisions(Len(Stream)) = Heard
<1>1. DOMAIN Stream = 1 .. Len(Stream)
  BY CorporaAssumption
<1>2. \A j \in DOMAIN Stream : j <= Len(Stream)
  BY <1>1
<1>3. QED
  BY <1>2 DEF Collisions, Heard

LEMMA TypedApartStep == TypedApart /\ [Next]_vars => TypedApart'
<1> SUFFICES ASSUME TypedApart, [Next]_vars
             PROVE  TypedApart'
  OBVIOUS
<1>1. ASSUME NEW plan \in Plans, NEW k \in BOOLEAN, NEW got \in SUBSET Ranges[plan][0],
             BuildEval(plan, got, k)
      PROVE  TypedApart'
  <2>1. UNCHANGED <<subtitles, typed>> /\ (claim' = claim \/ claim' = None) /\ (~torn' => ~torn)
    BY <1>1 DEF BuildEval, Run, streamVars
  <2>2. QED
    BY <2>1 DEF TypedApart
<1>2. ASSUME NEW k \in BOOLEAN, BuildSubtitles(k)
      PROVE  TypedApart'
  <2>1. Train \subseteq DOMAIN Stream /\ Held \subseteq DOMAIN Stream
    BY DEF Train, Held, Kept
  <2>2. /\ subtitles' = [train |-> Train, held |-> IF k THEN subtitles.held ELSE Held]
        /\ UNCHANGED <<typed, claim>> /\ (~torn' => ~torn)
    BY <1>2 DEF BuildSubtitles, Run, typedVars
  <2>3. subtitles'.train = Train /\ (subtitles'.held = subtitles.held \/ subtitles'.held = Held)
    BY <2>2
  <2>4. QED
    BY <2>1, <2>2, <2>3 DEF TypedApart
<1>3. ASSUME NEW kept \in SUBSET Comments, NEW skip \in BOOLEAN, NEW cap \in {0, 1},
             NEW k \in BOOLEAN, BuildTyped(kept, skip, cap, k)
      PROVE  TypedApart'
  <2>1. UNCHANGED subtitles /\ (torn' <=> torn \/ k)
    BY <1>3 DEF BuildTyped, Run, streamVars
  <2>2. CASE k
    BY <2>1, <2>2 DEF TypedApart
  <2>3. CASE ~k
    <3>1. claim' = [whole |-> ~skip /\ cap = 0, is |-> "claim"]
      BY <1>3, <2>3 DEF BuildTyped
    <3>2. ASSUME claim'.whole
          PROVE  typed'.lines \cap Heard = {}
      <4>1. ~skip /\ cap = 0
        BY <3>1, <3>2
      <4>2. typed' = [lines |-> kept \ Collisions(Len(Stream)), is |-> "typed"]
        BY <1>3, <4>1 DEF BuildTyped
      <4>3. QED
        BY <4>2, AllCollide
    <3>3. QED
      BY <2>1, <3>2 DEF TypedApart, Heard
  <2>4. QED
    BY <2>2, <2>3
<1>4. ASSUME UNCHANGED <<subtitles, typed, claim>>, ~torn' => ~torn
      PROVE  TypedApart'
  BY <1>4 DEF TypedApart
<1>5. CASE \/ \E plan \in Plans : Retrain(plan)
           \/ \E k \in BOOLEAN : SliceEval(k)
           \/ \E l \in Lexicons : RebuildLexicon(l)
  BY <1>4, <1>5 DEF Retrain, SliceEval, RebuildLexicon, streamVars, typedVars, Run
<1>6. CASE RewriteDeclarations \/ \E c \in Classes : WriteReason(c)
  BY <1>4, <1>6 DEF RewriteDeclarations, WriteReason, streamVars, Run
<1>7. CASE UNCHANGED vars
  BY <1>4, <1>7 DEF vars, streamVars, typedVars
<1>8. QED
  BY <1>1, <1>2, <1>3, <1>5, <1>6, <1>7 DEF Next

\* A typed slice that claims the whole subtitle source was read holds nothing the
\* table was trained or measured on, whichever was built first and with whichever
\* lexicon, for every stream.
THEOREM TypedIsNew == Spec => []TypedWasNeverHeard
<1>1. Init => TypedApart
  BY DEF Init, TypedApart
<1>2. TypedApart => TypedWasNeverHeard
  BY DEF TypedApart, TypedWasNeverHeard, Heard
<1>3. QED
  BY <1>1, <1>2, TypedApartStep, PTL DEF Spec

-----------------------------------------------------------------------------
(***************************************************************************)
(* The alphabet.  Every reason in the manifest was written by a person and   *)
(* its class has not been seen in the slice since.                          *)
(***************************************************************************)
ReasonsWritten == alphabet # None => alphabet.reasons \subseteq written

LEMMA ReasonsWrittenStep == ReasonsWritten /\ [Next]_vars => ReasonsWritten'
<1> SUFFICES ASSUME ReasonsWritten, [Next]_vars
             PROVE  ReasonsWritten'
  OBVIOUS
<1>1. ASSUME UNCHANGED <<alphabet, written>>
      PROVE  ReasonsWritten'
  BY <1>1 DEF ReasonsWritten
<1>2. ASSUME NEW plan \in Plans, NEW k \in BOOLEAN, NEW got \in SUBSET Ranges[plan][0],
             BuildEval(plan, got, k)
      PROVE  ReasonsWritten'
  BY <1>2 DEF BuildEval, ReasonsWritten
<1>3. CASE RewriteDeclarations
  BY <1>3 DEF RewriteDeclarations, ReasonsWritten
<1>4. ASSUME NEW c \in Classes, WriteReason(c)
      PROVE  ReasonsWritten'
  <2>1. /\ alphabet # None /\ written' = written \cup {c}
        /\ alphabet' = [alphabet EXCEPT !.reasons = @ \cup {c}]
    BY <1>4 DEF WriteReason
  <2>2. alphabet'.reasons \subseteq alphabet.reasons \cup {c}
    BY <2>1
  <2>3. QED
    BY <2>1, <2>2 DEF ReasonsWritten
<1>5. CASE \/ \E plan \in Plans : Retrain(plan)
           \/ \E k \in BOOLEAN : SliceEval(k)
           \/ \E l \in Lexicons : RebuildLexicon(l)
           \/ \E k \in BOOLEAN : BuildSubtitles(k)
           \/ \E kept \in SUBSET Comments, skip \in BOOLEAN, cap \in {0, 1}, k \in BOOLEAN :
                 BuildTyped(kept, skip, cap, k)
           \/ UNCHANGED vars
  BY <1>1, <1>5 DEF Retrain, SliceEval, RebuildLexicon, BuildSubtitles, BuildTyped, vars, typedVars
<1>6. QED
  BY <1>2, <1>3, <1>4, <1>5 DEF Next

\* A strict gate that is green made its comparison and found nothing.
LEMMA GreenFoundNothing ==
  ASSUME NEW dets, NEW name \in DOMAIN dets, ExitCode(dets, TRUE) = ExitPass
  PROVE  DetectorStatus(dets[name]) \notin {Fail, NotMeasured}
  BY DEF ExitCode, GateStatus, ExitPass, ExitFail, Fail, NotMeasured, Pass, PassPartial

\* A green alphabet gate means that a person explained every class the typed slice
\* lacks, through every rebuild and every rewritten declaration.
THEOREM DropsExplained == Spec => []DropsAreExplained
<1>1. Init => ReasonsWritten
  BY DEF Init, ReasonsWritten
<1>2. ReasonsWritten => DropsAreExplained
  <2> SUFFICES ASSUME ReasonsWritten, ExitCode(Alphabet("none"), TRUE) = ExitPass
               PROVE  Classes \ Present \subseteq written
    BY DEF DropsAreExplained
  <2>1. /\ "reasons" \in DOMAIN Alphabet("none")
        /\ Alphabet("none")["reasons"] = ScanReasons(FALSE)
    BY DEF Alphabet
  <2>2. DetectorStatus(ScanReasons(FALSE)) \notin {Fail, NotMeasured}
    BY <2>1, GreenFoundNothing
  <2>3. typed # None /\ alphabet # None
    BY <2>2 DEF ScanReasons, DetectorStatus, Det, NotMeasured, Fail
  <2> DEFINE unexplained == (Classes \ Present) \ alphabet.reasons
  <2>4. ScanReasons(FALSE) = Det(Cardinality(unexplained), Cardinality(Classes \ Present))
    <3>1. alphabet.reasons \ {} = alphabet.reasons
      OBVIOUS
    <3>2. QED
      BY <2>3, <3>1 DEF ScanReasons
  <2>5. ~ (Cardinality(unexplained) > 0)
    <3> HIDE DEF unexplained
    <3>1. DetectorStatus(Det(Cardinality(unexplained), Cardinality(Classes \ Present))) # Fail
      BY <2>2, <2>4
    <3>2. ASSUME Cardinality(unexplained) > 0
          PROVE  DetectorStatus(Det(Cardinality(unexplained), Cardinality(Classes \ Present))) = Fail
      BY <3>2 DEF DetectorStatus, Det
    <3>3. QED
      BY <3>1, <3>2
  <2>6. IsFiniteSet(unexplained)
    BY FS_Subset, CorporaAssumption
  <2>7. Cardinality(unexplained) \in Nat /\ (Cardinality(unexplained) = 0 <=> unexplained = {})
    BY <2>6, FS_CardinalityType, FS_EmptySet
  <2>8. unexplained = {}
    BY <2>5, <2>7
  <2>9. QED
    BY <2>3, <2>8 DEF ReasonsWritten
<1>3. QED
  BY <1>1, <1>2, ReasonsWrittenStep, PTL DEF Spec
================================================================================
