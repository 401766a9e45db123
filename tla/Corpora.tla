-------------------------------- MODULE Corpora --------------------------------
(***************************************************************************)
(* The corpora the measurements stand on, and what keeps training and      *)
(* evaluation apart: build_eval_corpus.py (byte ranges of the dump),       *)
(* slice_eval_corpus.py (index sets), build_subtitle_corpus.py (every nth  *)
(* line), build_typed_corpus.py (sentence keys), and the gate that every   *)
(* corpus declares its alphabet (check_corpus_alphabet.py).  The tools     *)
(* share lexicon/eval/MANIFEST.json, which one of them writes from nothing *)
(* and the others amend, and each may be killed between its files.         *)
(***************************************************************************)
EXTENDS GateLib, Integers, Sequences, FiniteSets, FiniteSetsExt

CONSTANTS
    DataBytes,     \* size of the dump
    Offsets,       \* where its blocks begin
    Plans,         \* [chunks, size]: command lines of the two range readers
    PerBlock,      \* eligible sentences in a block
    Stride, Count, Users, PerUser,   \* the slicing rule
    Stream,        \* the subtitle file: a sequence of sentences
    Clean,         \* lexicon -> the sentences clean() keeps under it
    HeldOutEvery, TrainLines,        \* every nth is held out; the training budget
    Comments,      \* the typed comments; key(c) is c itself
    Classes,       \* character classes
    ClassesOf,     \* comment -> the classes it contains
    MaxSteps       \* bound: how many tools are run

Lexicons == DOMAIN Clean

ASSUME CorporaAssumption ==
    /\ DataBytes \in Nat /\ Offsets \subseteq 0 .. DataBytes - 1 /\ Offsets # {}
    /\ Plans \subseteq [chunks : Nat \ {0}, size : Nat \ {0}]
    /\ {Stride, Count, Users, PerUser, HeldOutEvery, TrainLines, PerBlock} \subseteq Nat \ {0}
    /\ Stream \in Seq({Stream[i] : i \in DOMAIN Stream})
    /\ IsFiniteSet(Classes) /\ ClassesOf \in [Comments -> SUBSET Classes]

None == [is |-> "none"]

VARIABLES
    training,   \* BIGRAM_MANIFEST's provenance: a plan
    eval,       \* the blocks in the evaluation corpus
    manifest,   \* the manifest's corpus entry, or None
    slices,     \* the slice files: their parent and index sets, or None
    listed,     \* the manifest's slices entry: the parent it names, or None
    lexicon,    \* the lexicon on disk
    subtitles,  \* the two subtitle files, as positions of the stream
    spoken,     \* the conversational slice, as positions of the stream
    typed,      \* the two renderings of the typed slice: the comments, or None
    claim,      \* what the manifest says of its disjointness, or None
    alphabet,   \* the manifest's declaration for the typed slice, or None
    written,    \* classes whose absence a person has explained there
    torn,       \* some tool was killed between two of its files
    steps

evalVars == <<training, eval, manifest>>
sliceVars == <<slices, listed, spoken>>
streamVars == <<lexicon, subtitles>>
typedVars == <<typed, claim, alphabet, written>>
vars == <<evalVars, sliceVars, streamVars, typedVars, torn, steps>>

-----------------------------------------------------------------------------
(* Byte ranges (build_bigrams.py and build_eval_corpus.py).                  *)

\* Chunk starts snap down to a block; half shifts the grid by half a cell.
ChunkStarts(chunks, half) ==
    {LET target == (DataBytes * (2 * i + half)) \div (2 * chunks)
         below  == {o \in Offsets : o <= target}
     IN  IF below = {} THEN Min(Offsets) ELSE Max(below) : i \in 0 .. chunks - 1}

Ranges == [plan \in Plans |-> [half \in {0, 1} |->
    {<<s, Min({s + plan.size, DataBytes - 1})>> : s \in ChunkStarts(plan.chunks, half)}]]

\* Two ranges that share a beginning or an end.
OverlappingEnds(a, b) == {xy \in a \X b : xy[1][1] = xy[2][1] \/ xy[1][2] = xy[2][2]}

Overlapping(a, b) ==
    {xy \in a \X b : xy[1][1] <= xy[2][2] /\ xy[2][1] <= xy[1][2]}

\* The blocks a range yields: those that begin in it and, cut off, still decode.
Next1(o) == Min({DataBytes} \cup {p \in Offsets : p > o})

Blocks(range) ==
    {o \in Offsets : range[1] <= o /\ o < range[2] /\ Next1(o) <= range[2] + 1}

Trained == UNION {Blocks(r) : r \in Ranges[training][1]}

Run(killed) ==
    /\ steps < MaxSteps /\ steps' = steps + 1
    /\ torn' = (torn \/ killed)

\* build_bigrams.py with other chunks: a new table, and nothing else.
Retrain(plan) ==
    /\ Run(FALSE)
    /\ plan # training
    /\ training' = plan
    /\ UNCHANGED <<eval, manifest, sliceVars, streamVars, typedVars>>

\* The corpus entry is amended, what the other tools said stays.
BuildEvalAmending(plan, got, killed) ==
    /\ Run(killed)
    /\ Overlapping(Ranges[plan][0], Ranges[training][1]) = {}
    /\ got \subseteq Ranges[plan][0]
    /\ UNION {Blocks(r) : r \in got} # {}
    /\ eval' = UNION {Blocks(r) : r \in got}
    /\ manifest' = IF killed THEN manifest
                    ELSE [corpus |-> eval', training |-> training, is |-> "corpus"]
    /\ UNCHANGED <<training, sliceVars, streamVars, typedVars>>

\* build_eval_corpus.py: refuse when a range meets a training range; a chunk
\* that cannot be fetched is skipped; then the corpus, then a manifest that holds
\* nothing else, unless it is killed between the two.
BuildEval(plan, got, killed) ==
    /\ Run(killed)
    /\ Overlapping(Ranges[plan][0], Ranges[training][1]) = {}
    /\ got \subseteq Ranges[plan][0]
    /\ UNION {Blocks(r) : r \in got} # {}
    /\ eval' = UNION {Blocks(r) : r \in got}
    /\ IF killed THEN UNCHANGED <<manifest, listed, claim, alphabet, written>>
       ELSE /\ manifest' = [corpus |-> eval', training |-> training, is |-> "corpus"]
            /\ listed' = None
            /\ claim' = None
            /\ alphabet' = None
            /\ written' = {}
    /\ UNCHANGED <<training, slices, spoken, streamVars, typed>>

-----------------------------------------------------------------------------
(* slice_eval_corpus.py                                                      *)

Strided == {"sample", "confusion_dev", "confusion_test"}
Blocked == {"learning_dev", "learning_test"}

Offset(name) ==
    CASE name \in {"sample", "learning_dev"}         -> 0
      [] name \in {"confusion_dev", "learning_test"} -> 1
      [] name = "confusion_test"                     -> 2

\* The first Count of every Stride-th index of n, from an offset.
Strides(offset, n) ==
    {i \in 0 .. n - 1 : \E k \in 0 .. Count - 1 : i = offset + k * Stride}

Residual(n) == (0 .. n - 1) \ UNION {Strides(Offset(s), n) : s \in Strided}

\* The k-th index of the residual pool, from 0.
ResidualAt(n, k) ==
    CHOOSE i \in Residual(n) : Cardinality({j \in Residual(n) : j < i}) = k

BetweenBlocks(n) == Cardinality(Residual(n)) \div (Users * Cardinality(Blocked))

\* Contiguous blocks, one per pseudo-user, dev and test interleaved.
UserBlocks(order, n) ==
    {ResidualAt(n, k) : k \in
        {j \in 0 .. Cardinality(Residual(n)) - 1 :
            \E u \in 0 .. Users - 1 :
                LET start == (2 * u + order) * BetweenBlocks(n)
                IN  start <= j /\ j < start + PerUser}}

Sizes == {PerBlock * k : k \in 0 .. Cardinality(Offsets)}

Picked == [n \in Sizes |->
    [s \in Strided \cup Blocked |->
        IF s \in Strided THEN Strides(Offset(s), n) ELSE UserBlocks(Offset(s), n)]]

\* Every refusal: a short slice, a short residual, blocks that would overlap, and
\* the comparison of the index sets themselves.
Sliceable == [n \in Sizes |->
    /\ \A s \in Strided : Cardinality(Strides(Offset(s), n)) = Count
    /\ Cardinality(Residual(n)) >= 2 * Users * PerUser
    /\ BetweenBlocks(n) >= PerUser
    /\ \A s, t \in Strided \cup Blocked :
          s # t => Picked[n][s] \cap Picked[n][t] = {}]

Eligible == PerBlock * Cardinality(eval)

\* cut_conversational: every Stride-th held-out line; the old slice stays when
\* there is no held-out file or too little of it.
CutConversational ==
    LET held == subtitles.held
        idx  == Strides(0, Cardinality(held))
    IN  IF Cardinality(idx) < Count THEN spoken
        ELSE {i \in held : Cardinality({j \in held : j < i}) \in idx}

\* The slice files, then the manifest's account of them.
SliceEval(killed) ==
    /\ Run(killed)
    /\ eval # {} /\ manifest # None
    /\ Sliceable[Eligible]
    /\ slices' = [parent |-> eval, picked |-> Picked[Eligible], is |-> "slices"]
    /\ listed' = IF killed THEN listed ELSE [parent |-> eval, is |-> "parent"]
    /\ spoken' = CutConversational
    /\ UNCHANGED <<evalVars, streamVars, typedVars>>

-----------------------------------------------------------------------------
(* build_subtitle_corpus.py                                                  *)

Kept == {i \in DOMAIN Stream : Stream[i] \in Clean[lexicon]}

Held == {i \in Kept : Cardinality({j \in Kept : j <= i}) % HeldOutEvery = 0}

Train == {i \in Kept \ Held : Cardinality({j \in Kept \ Held : j < i}) < TrainLines}

RebuildLexicon(l) ==
    /\ Run(FALSE)
    /\ l # lexicon
    /\ lexicon' = l
    /\ UNCHANGED <<evalVars, sliceVars, subtitles, typedVars>>

BuildSubtitles(killed) ==
    /\ Run(killed)
    /\ Train # {}
    /\ subtitles' = [train |-> Train,
                     held  |-> IF killed THEN subtitles.held ELSE Held]
    /\ UNCHANGED <<evalVars, sliceVars, lexicon, typedVars>>

-----------------------------------------------------------------------------
(* build_typed_corpus.py                                                     *)

\* Only the held-out half of the subtitles is looked at.
CollisionsHeld(upTo) == {Stream[i] : i \in {j \in Held : j <= upTo}}

Collisions(upTo) == {Stream[i] : i \in {j \in DOMAIN Stream : j <= upTo}}

\* The selected comments that collide with no subtitle line read (a cap of 0
\* reads them all); then the manifest says what was read, or that nothing was.
BuildTyped(kept, skip, cap, killed) ==
    /\ Run(killed)
    /\ manifest # None
    /\ kept # {}
    /\ LET hit == IF skip THEN {} ELSE Collisions(IF cap = 0 THEN Len(Stream) ELSE cap)
       IN  typed' = [lines |-> kept \ hit, is |-> "typed"]
    /\ claim' = IF killed THEN claim
                ELSE [whole |-> ~skip /\ cap = 0, is |-> "claim"]
    /\ UNCHANGED <<evalVars, sliceVars, streamVars, alphabet, written>>

-----------------------------------------------------------------------------
(* check_corpus_alphabet.py, over the typed slice.                           *)

Present == UNION {ClassesOf[c] : c \in typed.lines}

ScanKept(inject) ==
    IF typed = None THEN Det(0, 0)
    ELSE IF alphabet = None THEN Det(1, 1)
    ELSE LET flip == IF inject THEN {"digit"} ELSE {}
             kept == (alphabet.kept \ flip) \cup (flip \ alphabet.kept)
         IN  Det(IF kept # Present THEN 1 ELSE 0, 1)

ScanReasons(inject) ==
    IF typed = None \/ alphabet = None THEN Det(0, 0)
    ELSE LET absent == Classes \ Present
             blank  == IF inject /\ absent # {}
                       THEN {CHOOSE c \in absent : TRUE} ELSE {}
         IN  Det(Cardinality(absent \ (alphabet.reasons \ blank)), Cardinality(absent))

Alphabet(defect) ==
    [kept |-> ScanKept(defect = "kept"), reasons |-> ScanReasons(defect = "reason")]

\* Whatever is absent gets a reason.
RewriteDeclarationsFully ==
    /\ Run(FALSE)
    /\ typed # None /\ manifest # None
    /\ alphabet' = [kept |-> Present, is |-> "declared", reasons |-> Classes \ Present]
    /\ written' = written \ Present
    /\ UNCHANGED <<evalVars, sliceVars, streamVars, typed, claim>>

\* --fix-declarations: kept from the bytes; a reason goes when its class is
\* there after all, and is never made up.
RewriteDeclarations ==
    /\ Run(FALSE)
    /\ typed # None /\ manifest # None
    /\ alphabet' = [kept |-> Present, is |-> "declared",
                    reasons |-> (IF alphabet = None THEN {} ELSE alphabet.reasons)
                                    \ Present]
    /\ written' = written \ Present
    /\ UNCHANGED <<evalVars, sliceVars, streamVars, typed, claim>>

\* A person explains the absence of a class, in the manifest.
WriteReason(c) ==
    /\ Run(FALSE)
    /\ alphabet # None
    /\ alphabet' = [alphabet EXCEPT !.reasons = @ \cup {c}]
    /\ written' = written \cup {c}
    /\ UNCHANGED <<evalVars, sliceVars, streamVars, typed, claim>>

-----------------------------------------------------------------------------
Init ==
    /\ training \in Plans
    /\ eval = {} /\ manifest = None
    /\ slices = None /\ listed = None /\ spoken = {}
    /\ lexicon \in Lexicons
    /\ subtitles = [train |-> {}, held |-> {}]
    /\ typed = None /\ claim = None /\ alphabet = None /\ written = {}
    /\ torn = FALSE /\ steps = 0

Next ==
    \/ \E p \in Plans : Retrain(p)
    \/ \E p \in Plans, k \in BOOLEAN : \E got \in SUBSET Ranges[p][0] :
          BuildEval(p, got, k)
    \/ \E k \in BOOLEAN : SliceEval(k)
    \/ \E l \in Lexicons : RebuildLexicon(l)
    \/ \E k \in BOOLEAN : BuildSubtitles(k)
    \/ \E kept \in SUBSET Comments, skip \in BOOLEAN, cap \in {0, 1}, k \in BOOLEAN :
          BuildTyped(kept, skip, cap, k)
    \/ RewriteDeclarations
    \/ \E c \in Classes : WriteReason(c)

Spec == Init /\ [][Next]_vars

-----------------------------------------------------------------------------

\* No block the evaluation corpus was read from was also read for the training
\* of the table its manifest names, as long as that table and that corpus are
\* the ones on disk; a block is what the two readers decode, a range only what
\* they ask for (build_eval_corpus.py, "refuses to write").
EvalWasNeverTrained ==
    manifest # None /\ manifest.corpus = eval /\ manifest.training = training =>
        eval \cap Trained = {}

\* Unless a tool was killed between two of its files, a slices entry in the
\* shared manifest describes the slice files on disk, the corpus entry beside it
\* and the corpus on disk, also after the corpus was rebuilt: the entry goes with
\* the manifest that build_eval_corpus.py replaces (slice_eval_corpus.py,
\* "a slice can always be traced to the corpus it came from").
ListedSlicesAreThere ==
    ~torn /\ listed # None =>
        /\ slices # None /\ slices.parent = listed.parent
        /\ manifest.corpus = listed.parent /\ eval = listed.parent

\* Unless a tool was killed, a typed slice whose manifest says the whole source
\* was read holds no sentence of the subtitle files, neither the ones the table is
\* trained on nor the ones it is measured on, whichever lexicon cleaned them and
\* whichever of the two corpora was built first (build_typed_corpus.main).
TypedWasNeverHeard ==
    ~torn /\ claim # None /\ claim.whole =>
        typed.lines \cap {Stream[i] : i \in subtitles.train \cup subtitles.held} = {}

\* When the alphabet gate is green, every character class the slice lacks has an
\* explanation a person wrote; no tool run makes one up, and none survives from a
\* manifest that was replaced (check_corpus_alphabet.py:192, "Refuses to invent
\* a reason").
DropsAreExplained ==
    ExitCode(Alphabet("none"), TRUE) = ExitPass => Classes \ Present \subseteq written
=============================================================================
