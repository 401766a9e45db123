---------------------------- MODULE MCLabelBatches ----------------------------
(***************************************************************************)
(* Two batches over a small pool.  Candidates are numbers, and a seed      *)
(* picks from the lowest unused one on: the program tells candidates apart *)
(* only by their ids.  The items of a large batch are interchangeable, so  *)
(* its answers come sorted.                                                *)
(***************************************************************************)
EXTENDS LabelBatches

MCFiring == 1 .. 7
MCClean == {11, 12}
MCInjected == {21}

Shape(real, clean, injected, draw, decided, abstained) ==
    [real |-> real, clean |-> clean, injected |-> injected, draw |-> draw,
     decided |-> decided, abstained |-> abstained]

MCShapes == {Shape(6, 0, 0, "none", 0, 0), Shape(1, 1, 1, "none", 0, 0),
             Shape(0, 1, 0, "stratified", 1, 0), Shape(1, 0, 0, "plain", 0, 0)}

MCSample(b, S, n) == {s \in S : Cardinality({r \in S : r < s}) < n}

Nth(S, i) == CHOOSE s \in S : Cardinality({r \in S : r < s}) = i - 1

MCArrange(b, S) ==
    [i \in 1 .. Cardinality(S) |-> [source |-> Nth(S, i), other |-> 1 + (b % 2)]]

Sorted(seq) == \A i \in 1 .. Len(seq) - 1 : seq[i] <= seq[i + 1]

MCReplies(n) ==
    IF n <= 2 THEN [1 .. n -> 1 .. 4]
    ELSE IF n = 3 THEN [1 .. n -> 1 .. 3]
    ELSE {r \in [1 .. n -> 1 .. 3] : Sorted(r)}
=============================================================================
