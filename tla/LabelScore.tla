------------------------------ MODULE LabelScore ------------------------------
(***************************************************************************)
(* scripts/score_labels.py: what one labelled batch is worth.  A key is a  *)
(* function from item ids to rows [source, stratum, other]; answers are a  *)
(* partial function from item ids to the option chosen; prior maps a       *)
(* source to the bucket it fell in before.  Rates are compared by cross    *)
(* multiplication, in tenths.                                              *)
(***************************************************************************)
EXTENDS Integers, FiniteSets

\* What option c says on a row: 1 and 2 are the two words, in the order the key
\* remembers; 3 is "both fine", 4 "neither / unclear".
Bucket(row, c) ==
    CASE c = row.other     -> "suggestion"
      [] c = 3 - row.other -> "text"
      [] c = 3             -> "both"
      [] OTHER             -> "unclear"

Decided   == {"suggestion", "text"}
Abstained == {"both", "unclear"}

\* Answers to items the key does not hold are counted as unknown and skipped.
Known(key, answers) == DOMAIN answers \cap DOMAIN key

In(key, answers, strata) ==
    {i \in Known(key, answers) : key[i].stratum \in strata}

Fell(key, answers, strata, buckets) ==
    {i \in In(key, answers, strata) : Bucket(key[i], answers[i]) \in buckets}

\* The injected error makes one reading better; on a clean sentence "both fine"
\* is an answer too.
ControlsRight(key, answers) ==
    Fell(key, answers, {"injected"}, {"suggestion"})
        \cup Fell(key, answers, {"clean"}, {"text", "both"})

\* The repeated items whose earlier bucket is known, and how they moved.
Repeated(key, answers, prior) ==
    {i \in In(key, answers, {"repeat"}) : key[i].source \in DOMAIN prior}

Moved(key, answers, prior, from, to) ==
    {i \in Repeated(key, answers, prior) :
        /\ prior[key[i].source] \in from
        /\ Bucket(key[i], answers[i]) \in to
        /\ prior[key[i].source] # Bucket(key[i], answers[i])}

Reversals(key, answers, prior) == Moved(key, answers, prior, Decided, Decided)

DecidedTwice(key, answers, prior) ==
    {i \in Repeated(key, answers, prior) :
        /\ prior[key[i].source] \in Decided
        /\ Bucket(key[i], answers[i]) \in Decided}

\* score() and the first half of report(), as counts.
Tally(key, answers, prior) ==
    LET real(b) == Cardinality(Fell(key, answers, {"real"}, {b}))
        pairs   == Repeated(key, answers, prior)
    IN  [unknown   |-> Cardinality(DOMAIN answers \ DOMAIN key),
         controls  |-> Cardinality(In(key, answers, {"clean", "injected"})),
         right     |-> Cardinality(ControlsRight(key, answers)),
         agreed    |-> real("suggestion"),
         overruled |-> real("text"),
         abstained |-> real("both") + real("unclear"),
         pairs     |-> Cardinality(pairs),
         same      |-> Cardinality({i \in pairs :
                          prior[key[i].source] = Bucket(key[i], answers[i])}),
         twice     |-> Cardinality(DecidedTwice(key, answers, prior)),
         reversals |-> Cardinality(Reversals(key, answers, prior))]

DecidedCount(t) == t.agreed + t.overruled
Total(t)        == DecidedCount(t) + t.abstained

AtLeast(k, n, tenths) == 10 * k >= tenths * n

\* CONTROL_RATE: correct answers below ceil(0.9 * answered controls).
BelowControlBar(t) == ~AtLeast(t.right, t.controls, 9)

TooManyAbstentions(t) == 10 * t.abstained > 3 * Total(t)

Steady(t)   == t.pairs > 0 /\ AtLeast(t.same, t.pairs, 9)
Measured(t) == t.twice > 0
Stable(t)   == Measured(t) /\ AtLeast(t.twice - t.reversals, t.twice, 9)

\* The rate itself, without its interval.
RateAtLeast(k, n, tenths) == AtLeast(k, n, tenths)

\* The lower end of the 95% Wilson interval of k of n is at least tenths/10.
\* With z = 1.96 that is p >= t and (p - t)^2 >= z^2 t (1 - t) / n.
WilsonAtLeast(k, n, tenths) ==
    /\ AtLeast(k, n, tenths)
    /\ LET d == 10 * k - tenths * n
       IN  10000 * d * d >= 38416 * tenths * (10 - tenths) * n

Band(t) ==
    IF WilsonAtLeast(t.agreed, DecidedCount(t), 6) THEN "SHIP"
    ELSE IF WilsonAtLeast(t.agreed, DecidedCount(t), 4) THEN "TIGHTEN"
    ELSE "WITHDRAW"

\* report(): the early returns, in their order.
Verdict(t) ==
    IF BelowControlBar(t) THEN "VOID"
    ELSE IF TooManyAbstentions(t) THEN "NOT-DECIDABLE"
    ELSE IF Total(t) = 0
         THEN IF Steady(t) /\ Stable(t) THEN "STABLE" ELSE "UNSTABLE"
    ELSE IF DecidedCount(t) = 0 THEN "NOT-MEASURED"
    ELSE IF t.pairs > 0 /\ ~Steady(t) THEN "NOISE"
    ELSE IF t.unknown > 0 THEN "VOID" ELSE "OK"

\* --emit-buckets: the outcome of every fresh item answered, whatever the verdict.
Buckets(key, answers) ==
    LET real == In(key, answers, {"real"})
    IN  [s \in {key[i].source : i \in real} |->
            Bucket(key[CHOOSE i \in real : key[i].source = s],
                   answers[CHOOSE i \in real : key[i].source = s])]
=============================================================================
