----------------------------- MODULE LabelBatches -----------------------------
(***************************************************************************)
(* The labelling rounds: scripts/build_label_batch.py cuts a batch from    *)
(* the harvested candidates, the labelling screen collects the answers,    *)
(* scripts/score_labels.py --emit-buckets writes what each fresh item fell *)
(* into, and a later batch repeats some of those items.                    *)
(* scripts/export_label_dataset.py reads all of it back.                   *)
(***************************************************************************)
EXTENDS LabelScore, Sequences, FiniteSetsExt

CONSTANTS
    Batches,            \* batch numbers
    Firing, Clean, Injected,  \* the harvested candidates, by kind
    Shapes,             \* the command lines in use: the sizes of the draws,
                        \* and how the repeats are drawn
    Sample(_, _, _),    \* Sample(b, S, n): the n elements of S that batch b's
                        \* seed picks
    Arrange(_, _),      \* Arrange(b, S): the candidates of S in the order that
                        \* seed gives, each with the option its other word has
    Replies(_),         \* the answer lists in use for a batch of n items
    MaxCuts,            \* bound: how often a batch is cut or cut again
    MaxSittings         \* bound: how often the labeller sits down

Pool == Firing \cup Clean \cup Injected

ASSUME BatchesAssumption ==
    Batches \subseteq Nat /\ MaxCuts \in Nat /\ MaxSittings \in Nat
ASSUME PoolAssumption ==
    /\ IsFiniteSet(Pool)
    /\ Firing \cap Clean = {} /\ Injected \cap (Firing \cup Clean) = {}
ASSUME SampleAssumption ==
    \A b \in Batches, S \in SUBSET Pool : \A n \in 0 .. Cardinality(S) :
        Sample(b, S, n) \in kSubset(n, S)
ASSUME ArrangeAssumption ==
    \A b \in Batches, S \in SUBSET Pool :
        LET order == Arrange(b, S)
        IN  /\ order \in Seq([source : S, other : {1, 2}])
            /\ \A i, j \in DOMAIN order :
                  order[i].source = order[j].source => i = j
ASSUME ShapesAssumption ==
    \A shape \in Shapes :
        /\ {shape.real, shape.clean, shape.injected} \subseteq Nat
        /\ shape.draw \in {"none", "plain", "stratified"}
        /\ {shape.decided, shape.abstained} \subseteq Nat
ASSUME RepliesAssumption ==
    \A n \in 0 .. Cardinality(Pool) : \A given \in Replies(n) :
        given \in Seq(1 .. 4) /\ Len(given) <= n

VARIABLES
    key,      \* batch -> its answer key, or NoKey
    labels,   \* batch -> the answers saved for it, or NoLabels
    buckets,  \* batch -> its emitted buckets file, or NoBuckets
    cuts, sittings  \* what the bounds count

vars == <<key, labels, buckets, cuts, sittings>>

NoKey == <<>>
NoLabels == <<>>
NoBuckets == <<>>

Cut == {b \in Batches : key[b] # NoKey}

\* What --repeat-from is for: the keys of earlier batches.
Earlier(b) == {o \in Cut : o < b}

Init ==
    /\ key = [b \in Batches |-> NoKey]
    /\ labels = [b \in Batches |-> NoLabels]
    /\ buckets = [b \in Batches |-> NoBuckets]
    /\ cuts = 0
    /\ sittings = 0

Sources(k, strata) == {k[i].source : i \in {j \in DOMAIN k : k[j].stratum \in strata}}

Strata == {"real", "clean", "injected", "repeat"}

\* Only the batches with a smaller number.
UsedEarlier(b) == UNION {Sources(key[o], Strata) : o \in {x \in Batches : x < b}}

\* previously_used: every source id in the key of any other batch.
Used(b) == UNION {Sources(key[o], Strata) : o \in Batches \ {b}}

Unused(b, kind) == kind \ Used(b)

\* The pool of the repeats: real items of the keys named by --repeat-from that
\* those same keys do not already repeat.
Candidates(from) ==
    (UNION {Sources(key[o], {"real"}) : o \in from})
        \ (UNION {Sources(key[o], {"repeat"}) : o \in from})

\* The buckets files beside the keys named by --repeat-from, the last one winning.
Recorded(from, s) == {o \in from : s \in DOMAIN buckets[o]}

CandidatesOnce(from, outcomes) ==
    {s \in Candidates(from) :
        Recorded(from, s) # {} /\ buckets[Max(Recorded(from, s))][s] \in outcomes}

\* Unstratified, 15% of the last batch that has candidates, and at least one.
Share(from) ==
    LET own(o) == Candidates(from) \cap Sources(key[o], {"real"})
        last   == Max({o \in from : own(o) # {}})
    IN  Max({1, (15 * Cardinality(own(last)) + 50) \div 100})

Stratum(s, again) ==
    IF s \in again THEN "repeat"
    ELSE IF s \in Firing THEN "real"
    ELSE IF s \in Clean THEN "clean" ELSE "injected"

\* The key of a batch that shows the candidates of drawn and again.
KeyOf(b, drawn, again) ==
    LET order == Arrange(b, drawn \cup again)
    IN  [i \in DOMAIN order |-> [source  |-> order[i].source,
                                stratum |-> Stratum(order[i].source, again),
                                other   |-> order[i].other]]

\* The items the batch shows again, as its shape asks for them; {} when the draw
\* cannot be filled.
Repeats(b, shape, from) ==
    CASE shape.draw = "none" -> {{}}
      [] shape.draw = "plain" ->
            IF Candidates(from) = {} THEN {}
            ELSE {Sample(b, Candidates(from), Share(from))}
      [] shape.draw = "stratified" ->
            IF \/ Cardinality(CandidatesOnce(from, Decided)) < shape.decided
               \/ Cardinality(CandidatesOnce(from, Abstained)) < shape.abstained
            THEN {}
            ELSE {Sample(b, CandidatesOnce(from, Decided), shape.decided)
                  \cup Sample(b, CandidatesOnce(from, Abstained), shape.abstained)}

\* main: refuse unless every draw can be filled, then write the presented
\* file, the key and the screen.  A key that exists is rewritten.
Build(b, shape, from) ==
    /\ cuts < MaxCuts
    /\ cuts' = cuts + 1
    /\ Cardinality(Unused(b, Firing)) >= shape.real
    /\ Cardinality(Unused(b, Clean)) >= shape.clean
    /\ Cardinality(Unused(b, Injected)) >= shape.injected
    /\ \E again \in Repeats(b, shape, from) :
          key' = [key EXCEPT ![b] =
            KeyOf(b, Sample(b, Unused(b, Firing), shape.real)
                       \cup Sample(b, Unused(b, Clean), shape.clean)
                       \cup Sample(b, Unused(b, Injected), shape.injected), again)]
    /\ UNCHANGED <<labels, buckets, sittings>>

\* A sitting of the labeller: the screen of the batch as it is now, its answers
\* saved under results/.
Label(b) ==
    /\ key[b] # NoKey
    /\ sittings < MaxSittings
    /\ sittings' = sittings + 1
    /\ \E given \in Replies(Len(key[b])) : labels' = [labels EXCEPT ![b] = given]
    /\ UNCHANGED <<key, buckets, cuts>>

\* score_labels.py --emit-buckets.
Emit(b) ==
    /\ labels[b] # NoLabels
    /\ buckets' = [buckets EXCEPT ![b] = Buckets(key[b], labels[b])]
    /\ UNCHANGED <<key, labels, cuts, sittings>>

Next ==
    \E b \in Batches :
        \/ \E shape \in Shapes, from \in SUBSET Earlier(b) : Build(b, shape, from)
        \/ Label(b)
        \/ Emit(b)

Spec == Init /\ [][Next]_vars

-----------------------------------------------------------------------------
Done == {b \in Cut : labels[b] # NoLabels}

\* export_label_dataset.load: one flat row for every answered item of every
\* batch that has a labels file.
Answer(b, i) ==
    LET c == labels[b][i]
    IN  CASE c = key[b][i].other     -> "suggested"
          [] c = 3 - key[b][i].other -> "in-text"
          [] c = 3                   -> "both-fine"
          [] OTHER                   -> "unclear"

Exported(b, i) == [batch |-> b, source |-> key[b][i].source,
                   stratum |-> key[b][i].stratum, answer |-> Answer(b, i)]

ExportRows ==
    UNION {{Exported(b, i) : i \in DOMAIN key[b] \cap DOMAIN labels[b]} : b \in Done}

\* "Both fine" is a miss on every control.
ControlPassedBluntly(r) ==
    \/ r.stratum = "injected" /\ r.answer = "suggested"
    \/ r.stratum = "clean" /\ r.answer = "in-text"

\* load(): "other" means something else in each stratum, so the outcome does.
ControlPassed(r) ==
    \/ r.stratum = "injected" /\ r.answer = "suggested"
    \/ r.stratum = "clean" /\ r.answer \in {"in-text", "both-fine"}

\* summarise(): one batch's counts.
Summary(b) ==
    LET rows(strata, answers) ==
            Cardinality({r \in ExportRows : /\ r.batch = b
                                            /\ r.stratum \in strata
                                            /\ r.answer \in answers})
        all == {"suggested", "in-text", "both-fine", "unclear"}
    IN  [controls    |-> rows({"clean", "injected"}, all),
         controls_ok |-> Cardinality({r \in ExportRows :
                                        r.batch = b /\ ControlPassed(r)}),
         agreed      |-> rows({"real"}, {"suggested"}),
         overruled   |-> rows({"real"}, {"in-text"}),
         abstain     |-> rows({"real"}, {"both-fine", "unclear"})]

\* main(), self-agreement: each repeated row against the fresh row of its
\* source, the last batch's if there are two.
EarlierRow(r) ==
    LET fresh == {f \in ExportRows : f.stratum = "real" /\ f.source = r.source}
    IN  {f \in fresh : \A g \in fresh : g.batch <= f.batch}

RepeatFlags(b) ==
    LET said    == {"suggested", "in-text"}
        again   == {r \in ExportRows : r.batch = b /\ r.stratum = "repeat"}
        known   == {r \in again : EarlierRow(r) # {}}
        same    == {r \in known : \E f \in EarlierRow(r) : f.answer = r.answer}
        reverse == {r \in known \ same :
                      r.answer \in said /\ \E f \in EarlierRow(r) : f.answer \in said}
    IN  [pairs |-> Cardinality(known), same |-> Cardinality(same),
         reversals |-> Cardinality(reverse)]

\* The file --prior names: the emitted buckets of some batches in one.
Prior(from) ==
    [s \in {x \in Pool : Recorded(from, x) # {}} |->
        buckets[Max(Recorded(from, s))][s]]

Report(b, from) == Tally(key[b], labels[b], Prior(from))

\* An item is put to the labeller as a fresh one in one batch at most, whatever
\* is cut again and in whatever order (build_label_batch.py draw: an item seen
\* twice as fresh would be two first observations of one firing).
FreshOnce ==
    \A b, o \in Batches :
        b # o => Sources(key[b], Strata \ {"repeat"})
                   \cap Sources(key[o], Strata \ {"repeat"}) = {}

\* The verdict that ships the detector is earned by all of the answers: six
\* decided items at the least, and then unanimous; nine answered controls in
\* ten; at most three abstentions in ten; nine identical repeats in ten; no
\* answer to an item of another key (score_labels.report: the bands come after
\* six early returns, and wilson is all that keeps a lucky handful out).
ShipIsEarned ==
    \A b \in Done, from \in SUBSET Cut :
        LET t == Report(b, from)
        IN  Verdict(t) = "OK" /\ Band(t) = "SHIP" =>
              /\ DecidedCount(t) >= 6
              /\ DecidedCount(t) = 6 => t.overruled = 0
              /\ 10 * t.right >= 9 * t.controls
              /\ 10 * t.abstained <= 3 * Total(t)
              /\ 10 * t.same >= 9 * t.pairs
              /\ t.unknown = 0

\* Scorer and data set tell the same story of every batch whenever the buckets
\* files are those of the labels on disk (score_labels.report reads the labels
\* and a buckets file, export_label_dataset the labels of every batch).
DatasetAgrees ==
    (\A o \in Cut : buckets[o] = IF labels[o] = NoLabels THEN NoBuckets
                                 ELSE Buckets(key[o], labels[o])) =>
        \A b \in Done :
            LET t == Report(b, Cut)
            IN  /\ Summary(b) = [controls |-> t.controls, controls_ok |-> t.right,
                                 agreed |-> t.agreed, overruled |-> t.overruled,
                                 abstain |-> t.abstained]
                /\ RepeatFlags(b) = [pairs |-> t.pairs, same |-> t.same,
                                     reversals |-> t.reversals]
=============================================================================
