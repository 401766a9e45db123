------------------------------ MODULE LabelProofs ------------------------------
(***************************************************************************)
(* The labelling rounds, for every pool, every way of sampling and         *)
(* arranging it, every command line and every answer.  A key names each    *)
(* candidate once and no other key has it as fresh (IInv), because a batch *)
(* draws what no other key holds and repeats what some other key holds.    *)
(* Hence a candidate has one first sight, and the rows of the data set are *)
(* the answered items of the keys, one for one: what the scorer and the    *)
(* export count are images of one another.                                 *)
(***************************************************************************)
EXTENDS LabelBatches, FiniteSetTheorems, TLAPS

KeyRow == [source : Pool, stratum : Strata, other : {1, 2}]

Types ==
    /\ key \in [Batches -> Seq(KeyRow)]
    /\ labels \in [Batches -> Seq(1 .. 4)]
    /\ buckets = [b \in Batches |-> buckets[b]]

\* A candidate stands in a key once.
OnceEach(k) == \A i, j \in DOMAIN k : k[i].source = k[j].source => i = j

NoTwins == \A b \in Batches : OnceEach(key[b])

IInv == Types /\ NoTwins /\ FreshOnce

Fresh == Strata \ {"repeat"}

-----------------------------------------------------------------------------
(* Cutting a batch.                                                          *)

\* What stands in a sequence is one of its elements.
LEMMA ElementOfSeq ==
    ASSUME NEW S, NEW seq \in Seq(S), NEW i \in DOMAIN seq
    PROVE  seq[i] \in S
  <1>1. i \in 1 .. Len(seq) /\ seq \in [1 .. Len(seq) -> S]
    OBVIOUS
  <1> QED
    BY <1>1

\* What a key names comes from the pool.
LEMMA SourcesInPool ==
    ASSUME NEW k \in Seq(KeyRow), NEW S
    PROVE  Sources(k, S) \subseteq Pool
  <1>1. \A i \in DOMAIN k : k[i] \in KeyRow
    BY ElementOfSeq
  <1>2. \A i \in DOMAIN k : k[i].source \in Pool
    BY <1>1 DEF KeyRow
  <1> QED
    BY <1>2 DEF Sources

\* Every earlier draw answers for the candidates of every other key.
LEMMA UsedCovers ==
    ASSUME NEW b \in Batches, NEW o \in Batches, b # o
    PROVE  Sources(key[o], Fresh) \subseteq Used(b)
  <1>1. Sources(key[o], Fresh) \subseteq Sources(key[o], Strata)
    BY DEF Sources, Fresh
  <1>2. o \in Batches \ {b}
    OBVIOUS
  <1> QED
    BY <1>1, <1>2 DEF Used

\* A draw that can be filled takes candidates no other batch has shown.
LEMMA DrawIsUnused ==
    ASSUME NEW b \in Batches, NEW kind \in SUBSET Pool, NEW n \in Nat,
           Cardinality(Unused(b, kind)) >= n
    PROVE  Sample(b, Unused(b, kind), n) \subseteq Unused(b, kind)
  <1>1. Unused(b, kind) \in SUBSET Pool
    BY DEF Unused
  <1>2. Cardinality(Unused(b, kind)) \in Nat
    BY <1>1, PoolAssumption, FS_Subset, FS_CardinalityType
  <1>3. n \in 0 .. Cardinality(Unused(b, kind))
    BY <1>2
  <1> QED
    BY <1>1, <1>3, SampleAssumption DEF kSubset

\* A sample of a set is part of it.
LEMMA SampleIsPart ==
    ASSUME NEW b \in Batches, NEW S \in SUBSET Pool,
           NEW n \in 0 .. Cardinality(S)
    PROVE  Sample(b, S, n) \subseteq S
  BY SampleAssumption DEF kSubset

\* The share of an unstratified draw can be filled.
LEMMA ShareFits ==
    ASSUME NEW from, Candidates(from) \subseteq Pool, Candidates(from) # {}
    PROVE  Share(from) \in 0 .. Cardinality(Candidates(from))
  <1> DEFINE C == Candidates(from)
             own(o) == C \cap Sources(key[o], {"real"})
             last == Max({o \in from : own(o) # {}})
             c == Cardinality(own(last))
             n == (15 * c + 50) \div 100
  <1>1. IsFiniteSet(C) /\ Cardinality(C) \in Nat /\ Cardinality(C) # 0
    BY PoolAssumption, FS_Subset, FS_CardinalityType, FS_EmptySet
  <1>2. own(last) \in SUBSET C
    OBVIOUS
  <1>3. c \in Nat /\ c <= Cardinality(C)
    BY <1>1, <1>2, FS_Subset, FS_CardinalityType
  <1>4. Share(from) = Max({1, n})
    BY DEF Share
  <1> HIDE DEF c
  <1>5. n \in Nat /\ n <= Cardinality(C)
    BY <1>1, <1>3
  <1> HIDE DEF n, C
  <1>6. \E m \in {1, n} : \A y \in {1, n} : m >= y
    BY <1>5
  <1>7. Max({1, n}) \in {1, n}
    BY <1>6 DEF Max
  <1> QED
    BY <1>1, <1>4, <1>5, <1>7 DEF C

\* What a batch shows again comes from the pool.
LEMMA RepeatsInPool ==
    ASSUME Types, NEW b \in Batches, NEW shape \in Shapes,
           NEW from \in SUBSET Batches, NEW again \in Repeats(b, shape, from)
    PROVE  again \subseteq Pool
  <1>1. Candidates(from) \subseteq Pool
    BY SourcesInPool DEF Types, Candidates
  <1>2. CASE shape.draw = "none"
    BY <1>2 DEF Repeats
  <1>3. CASE shape.draw = "plain"
    <2>1. /\ Candidates(from) # {}
          /\ again = Sample(b, Candidates(from), Share(from))
      BY <1>3 DEF Repeats
    <2>2. Share(from) \in 0 .. Cardinality(Candidates(from))
      BY <1>1, <2>1, ShareFits
    <2> QED
      BY <1>1, <2>1, <2>2, SampleIsPart
  <1>4. CASE shape.draw = "stratified"
    <2> DEFINE D == CandidatesOnce(from, Decided)
               A == CandidatesOnce(from, Abstained)
    <2>1. /\ ~(Cardinality(D) < shape.decided)
          /\ ~(Cardinality(A) < shape.abstained)
          /\ again = Sample(b, D, shape.decided) \cup Sample(b, A, shape.abstained)
      BY <1>4 DEF Repeats
    <2>2. D \in SUBSET Pool /\ A \in SUBSET Pool
      BY <1>1 DEF CandidatesOnce
    <2>3. Cardinality(D) \in Nat /\ Cardinality(A) \in Nat
      BY <2>2, PoolAssumption, FS_Subset, FS_CardinalityType
    <2>4. shape.decided \in Nat /\ shape.abstained \in Nat
      BY ShapesAssumption
    <2>5. /\ shape.decided \in 0 .. Cardinality(D)
          /\ shape.abstained \in 0 .. Cardinality(A)
      BY <2>1, <2>3, <2>4
    <2> HIDE DEF D, A
    <2> QED
      BY <2>1, <2>2, <2>5, SampleIsPart
  <1> QED
    BY <1>2, <1>3, <1>4, ShapesAssumption

\* A key is well formed, holds a candidate once, and shows as fresh only what
\* was drawn.
LEMMA KeyIsSound ==
    ASSUME NEW b \in Batches, NEW drawn \in SUBSET Pool, NEW again \in SUBSET Pool
    PROVE  LET k == KeyOf(b, drawn, again)
           IN  /\ k \in Seq(KeyRow)
               /\ OnceEach(k)
               /\ Sources(k, Fresh) \subseteq drawn
  <1> DEFINE k == KeyOf(b, drawn, again)
             order == Arrange(b, drawn \cup again)
  <1>1. /\ order \in Seq([source : drawn \cup again, other : {1, 2}])
        /\ \A i, j \in DOMAIN order : order[i].source = order[j].source => i = j
    <2>1. drawn \cup again \in SUBSET Pool
      OBVIOUS
    <2> QED
      BY <2>1, ArrangeAssumption
  <1>2. k = [i \in DOMAIN order |-> [source  |-> order[i].source,
                                     stratum |-> Stratum(order[i].source, again),
                                     other   |-> order[i].other]]
    BY DEF KeyOf
  <1> HIDE DEF k, order
  <1>3. \A i \in DOMAIN order : /\ order[i].source \in drawn \cup again
                                /\ order[i].other \in {1, 2}
    <2>1. \A i \in DOMAIN order : order[i] \in [source : drawn \cup again, other : {1, 2}]
      BY <1>1, ElementOfSeq
    <2> QED
      BY <2>1
  <1>4. \A s : /\ Stratum(s, again) \in Strata
               /\ Stratum(s, again) \in Fresh => s \notin again
    BY DEF Stratum, Strata, Fresh
  <1>5. /\ DOMAIN k = DOMAIN order
        /\ \A i \in DOMAIN k : /\ k[i].source = order[i].source
                               /\ k[i].stratum = Stratum(order[i].source, again)
                               /\ k[i].other = order[i].other
                               /\ k[i] \in KeyRow
    <2>1. DOMAIN k = DOMAIN order
      BY <1>2
    <2>2. ASSUME NEW i \in DOMAIN k
          PROVE  /\ k[i].source = order[i].source
                 /\ k[i].stratum = Stratum(order[i].source, again)
                 /\ k[i].other = order[i].other
                 /\ k[i] \in KeyRow
      <3>1. k[i] = [source  |-> order[i].source,
                    stratum |-> Stratum(order[i].source, again),
                    other   |-> order[i].other]
        BY <1>2, <2>1
      <3> QED
        BY <3>1, <1>3, <1>4, <2>1 DEF KeyRow
    <2> QED
      BY <2>1, <2>2
  <1>6. k \in Seq(KeyRow)
    <2>1. DOMAIN k = 1 .. Len(order) /\ Len(order) \in Nat
      BY <1>1, <1>5
    <2>2. k = [i \in 1 .. Len(order) |-> k[i]]
      BY <1>2, <2>1, <1>5
    <2>3. \A i \in 1 .. Len(order) : k[i] \in KeyRow
      BY <2>1, <1>5
    <2> QED
      BY <2>1, <2>2, <2>3
  <1>7. OnceEach(k)
    BY <1>1, <1>5 DEF OnceEach
  <1>8. Sources(k, Fresh) \subseteq drawn
    BY <1>3, <1>4, <1>5 DEF Sources
  <1> QED
    BY <1>6, <1>7, <1>8 DEF k
\* A key is no longer than the pool.
LEMMA KeyIsShort ==
    ASSUME NEW k \in Seq(KeyRow), OnceEach(k)
    PROVE  Len(k) \in 0 .. Cardinality(Pool)
  <1> DEFINE f == [i \in 1 .. Len(k) |-> k[i].source]
  <1>0. DOMAIN k = 1 .. Len(k)
    OBVIOUS
  <1>1. \A i \in 1 .. Len(k) : k[i].source \in Pool
    <2>1. \A i \in 1 .. Len(k) : k[i] \in KeyRow
      BY <1>0, ElementOfSeq
    <2> QED
      BY <2>1 DEF KeyRow
  <1>2. f \in Injection(1 .. Len(k), Pool)
    <2>1. f \in [1 .. Len(k) -> Pool]
      BY <1>1
    <2>2. \A i, j \in 1 .. Len(k) : f[i] = f[j] => i = j
      BY <1>0 DEF OnceEach
    <2> HIDE DEF f
    <2> QED
      BY <2>1, <2>2 DEF Injection, IsInjective
  <1> HIDE DEF f
  <1>3. Cardinality(1 .. Len(k)) <= Cardinality(Pool)
    BY <1>2, PoolAssumption, FS_Injection
  <1>4. Cardinality(1 .. Len(k)) = Len(k) /\ Len(k) \in Nat
    BY FS_Interval
  <1>5. Cardinality(Pool) \in Nat
    BY PoolAssumption, FS_CardinalityType
  <1> QED
    BY <1>3, <1>4, <1>5

-----------------------------------------------------------------------------
(* The invariant.                                                            *)

\* What Build draws.
Drawn(b, shape) ==
    Sample(b, Unused(b, Firing), shape.real)
        \cup Sample(b, Unused(b, Clean), shape.clean)
        \cup Sample(b, Unused(b, Injected), shape.injected)

\* A draw that Build does not refuse has no candidate of another batch.
LEMMA DrawnIsUnused ==
    ASSUME NEW b \in Batches, NEW shape \in Shapes,
           Cardinality(Unused(b, Firing)) >= shape.real,
           Cardinality(Unused(b, Clean)) >= shape.clean,
           Cardinality(Unused(b, Injected)) >= shape.injected
    PROVE  Drawn(b, shape) \subseteq Pool \ Used(b)
  <1>1. /\ Firing \in SUBSET Pool /\ Clean \in SUBSET Pool
        /\ Injected \in SUBSET Pool
    BY DEF Pool
  <1>2. shape.real \in Nat /\ shape.clean \in Nat /\ shape.injected \in Nat
    BY ShapesAssumption
  <1>3. Sample(b, Unused(b, Firing), shape.real) \subseteq Unused(b, Firing)
    BY <1>1, <1>2, DrawIsUnused
  <1>4. Sample(b, Unused(b, Clean), shape.clean) \subseteq Unused(b, Clean)
    BY <1>1, <1>2, DrawIsUnused
  <1>5. Sample(b, Unused(b, Injected), shape.injected) \subseteq Unused(b, Injected)
    BY <1>1, <1>2, DrawIsUnused
  <1> QED
    BY <1>1, <1>3, <1>4, <1>5 DEF Drawn, Unused

LEMMA InitHolds == Init => IInv
  <1> SUFFICES ASSUME Init PROVE IInv
    OBVIOUS
  <1>1. Types
    BY DEF Init, Types, NoKey, NoLabels
  <1>2. \A b \in Batches : key[b] = <<>>
    BY DEF Init, NoKey
  <1>3. NoTwins
    BY <1>2 DEF NoTwins, OnceEach
  <1>4. \A b \in Batches : \A S : Sources(key[b], S) = {}
    BY <1>2 DEF Sources
  <1> QED
    BY <1>1, <1>3, <1>4 DEF IInv, FreshOnce

LEMMA BuildKeeps ==
    ASSUME IInv, NEW b \in Batches, NEW shape \in Shapes,
           NEW from \in SUBSET Earlier(b), Build(b, shape, from)
    PROVE  IInv'
  <1>1. PICK again \in Repeats(b, shape, from) :
            key' = [key EXCEPT ![b] = KeyOf(b, Drawn(b, shape), again)]
    BY DEF Build, Drawn
  <1> DEFINE k == KeyOf(b, Drawn(b, shape), again)
  <1>2. Drawn(b, shape) \subseteq Pool \ Used(b)
    BY DrawnIsUnused DEF Build
  <1>3. again \subseteq Pool
    <2>1. from \in SUBSET Batches
      BY DEF Earlier, Cut
    <2> QED
      BY <2>1, RepeatsInPool DEF IInv
  <1>4. /\ k \in Seq(KeyRow)
        /\ OnceEach(k)
        /\ Sources(k, Fresh) \subseteq Drawn(b, shape)
    <2>1. Drawn(b, shape) \in SUBSET Pool /\ again \in SUBSET Pool
      BY <1>2, <1>3
    <2> QED
      BY <2>1, KeyIsSound
  <1> HIDE DEF k
  <1>5. /\ key' \in [Batches -> Seq(KeyRow)]
        /\ key'[b] = k
        /\ \A o \in Batches \ {b} : key'[o] = key[o]
    BY <1>1, <1>4 DEF k, IInv, Types
  <1>6. Types'
    BY <1>5 DEF Types, Build, IInv
  <1>7. NoTwins'
    BY <1>4, <1>5 DEF NoTwins, IInv
  <1>8. ASSUME NEW o \in Batches, o # b
        PROVE  Sources(key'[b], Fresh) \cap Sources(key'[o], Fresh) = {}
    BY <1>2, <1>4, <1>5, <1>8, UsedCovers
  <1>9. ASSUME NEW o \in Batches, NEW p \in Batches, o # p
        PROVE  Sources(key'[o], Fresh) \cap Sources(key'[p], Fresh) = {}
    <2>1. CASE o = b
      BY <2>1, <1>8, <1>9
    <2>2. CASE p = b
      BY <2>2, <1>8, <1>9
    <2>3. CASE o # b /\ p # b
      <3>1. Sources(key[o], Fresh) \cap Sources(key[p], Fresh) = {}
        BY <1>9 DEF IInv, FreshOnce, Fresh
      <3>2. key'[o] = key[o] /\ key'[p] = key[p]
        BY <2>3, <1>5
      <3> QED
        BY <3>1, <3>2
    <2> QED
      BY <2>1, <2>2, <2>3
  <1>10. FreshOnce'
    BY <1>9 DEF FreshOnce, Fresh, Sources
  <1> QED
    BY <1>6, <1>7, <1>10 DEF IInv

\* As long as no key is written, none can go wrong.
LEMMA KeysKept ==
    ASSUME NoTwins, FreshOnce, UNCHANGED key
    PROVE  NoTwins' /\ FreshOnce'
  <1>1. NoTwins'
    BY DEF NoTwins, OnceEach
  <1>2. \A b, S : Sources(key'[b], S) = Sources(key[b], S)
    OBVIOUS
  <1>3. ASSUME NEW b \in Batches, NEW o \in Batches, b # o
        PROVE  Sources(key'[b], Fresh) \cap Sources(key'[o], Fresh) = {}
    BY <1>2, <1>3 DEF FreshOnce, Fresh
  <1>4. FreshOnce'
    BY <1>3 DEF FreshOnce, Fresh, Sources
  <1> QED
    BY <1>1, <1>4

LEMMA LabelKeeps ==
    ASSUME IInv, NEW b \in Batches, Label(b)
    PROVE  IInv'
  <1>1. PICK given \in Replies(Len(key[b])) :
            labels' = [labels EXCEPT ![b] = given]
    BY DEF Label
  <1>2. Len(key[b]) \in 0 .. Cardinality(Pool)
    <2>1. key[b] \in Seq(KeyRow) /\ OnceEach(key[b])
      BY DEF IInv, Types, NoTwins
    <2> QED
      BY <2>1, KeyIsShort
  <1>3. given \in Seq(1 .. 4)
    BY <1>1, <1>2, RepliesAssumption
  <1>4. Types'
    BY <1>1, <1>3 DEF IInv, Types, Label
  <1> QED
    BY <1>4, KeysKept DEF IInv, Label

LEMMA StepKeeps ==
    ASSUME IInv, [Next]_vars
    PROVE  IInv'
  <1>1. ASSUME NEW b \in Batches, NEW shape \in Shapes,
               NEW from \in SUBSET Earlier(b), Build(b, shape, from)
        PROVE  IInv'
    BY <1>1, BuildKeeps
  <1>2. ASSUME NEW b \in Batches, Label(b)
        PROVE  IInv'
    BY <1>2, LabelKeeps
  <1>3. ASSUME NEW b \in Batches, Emit(b)
        PROVE  IInv'
    <2>1. Types'
      BY <1>3 DEF Emit, IInv, Types
    <2> QED
      BY <1>3, <2>1, KeysKept DEF IInv, Emit
  <1>4. CASE UNCHANGED vars
    <2>1. Types'
      BY <1>4 DEF vars, IInv, Types
    <2> QED
      BY <1>4, <2>1, KeysKept DEF IInv, vars
  <1> QED
    BY <1>1, <1>2, <1>3, <1>4 DEF Next

LEMMA Always == Spec => []IInv
  <1>1. IInv /\ [Next]_vars => IInv'
    BY StepKeeps
  <1> QED
    BY <1>1, InitHolds, PTL DEF Spec

\* However batches are cut, cut again, labelled and emitted, and in whatever
\* order, a candidate is put to the labeller as a fresh item in one batch at
\* most (build_label_batch.py, previously_used and draw).
THEOREM FreshItemsAreFresh == Spec => []FreshOnce
  <1>1. IInv => FreshOnce
    BY DEF IInv
  <1> QED
    BY <1>1, Always, PTL
-----------------------------------------------------------------------------
(* The verdict that ships the detector.                                      *)

\* The lower end of the interval is out of a handful's reach: six decided items
\* at the least, and six only when all of them agree (score_labels.py, wilson).
LEMMA WilsonNeedsSix ==
    ASSUME NEW a \in Nat, NEW o \in Nat, a + o # 0, WilsonAtLeast(a, a + o, 6)
    PROVE  /\ a + o >= 6
           /\ a + o = 6 => o = 0
  <1> DEFINE n == a + o
             d == 10 * a - 6 * n
  <1>1. 10 * a >= 6 * n /\ 10000 * d * d >= 38416 * 6 * (10 - 6) * n
    BY DEF WilsonAtLeast, AtLeast
  <1>2. ASSUME NEW x \in 0 .. 6, NEW m \in 1 .. 6, x <= m, 10 * x >= 6 * m,
               10000 * (10 * x - 6 * m) * (10 * x - 6 * m) >= 38416 * 6 * (10 - 6) * m
        PROVE  m = 6 /\ x = 6
    <2>1. m \in {1, 2, 3, 4, 5, 6} /\ x \in {0, 1, 2, 3, 4, 5, 6}
      OBVIOUS
    <2> QED
      BY <1>2, <2>1
  <1>3. CASE n <= 6
    <2>1. a \in 0 .. 6 /\ n \in 1 .. 6 /\ a <= n
      BY <1>3
    <2> HIDE DEF n
    <2>2. n = 6 /\ a = 6
      BY <1>1, <1>2, <2>1
    <2> QED
      BY <2>2 DEF n
  <1>4. CASE ~(n <= 6)
    BY <1>4
  <1> QED
    BY <1>3, <1>4

\* Every count of a tally is a natural number.
LEMMA TallyTypes ==
    ASSUME NEW k \in Seq(KeyRow), NEW given \in Seq(1 .. 4), NEW prior
    PROVE  LET t == Tally(k, given, prior)
           IN  {t.unknown, t.controls, t.right, t.agreed, t.overruled,
                t.abstained, t.pairs, t.same} \subseteq Nat
  <1>1. IsFiniteSet(DOMAIN given) /\ IsFiniteSet(Known(k, given))
    <2>1. IsFiniteSet(DOMAIN given)
      BY FS_Interval
    <2> QED
      BY <2>1, FS_Subset DEF Known
  <1>2. \A S : S \subseteq Known(k, given) => Cardinality(S) \in Nat
    BY <1>1, FS_Subset, FS_CardinalityType
  <1>3. Cardinality(DOMAIN given \ DOMAIN k) \in Nat
    BY <1>1, FS_Subset, FS_CardinalityType
  <1>4. \A S, B : Cardinality(Fell(k, given, S, B)) \in Nat
    BY <1>2 DEF Fell, In
  <1>5. Cardinality(In(k, given, {"clean", "injected"})) \in Nat
    BY <1>2 DEF In
  <1>6. Cardinality(ControlsRight(k, given)) \in Nat
    BY <1>2 DEF ControlsRight, Fell, In
  <1>7. Cardinality(Repeated(k, given, prior)) \in Nat
    BY <1>2 DEF Repeated, In
  <1>8. Cardinality({i \in Repeated(k, given, prior) :
                       prior[k[i].source] = Bucket(k[i], given[i])}) \in Nat
    BY <1>2 DEF Repeated, In
  <1> QED
    BY <1>3, <1>4, <1>5, <1>6, <1>7, <1>8 DEF Tally

\* Whatever was labelled, scored and recorded before, the verdict that ships the
\* detector is earned by all of the answers: at least six decided items, at six
\* all for the detector, nine controls in ten, three abstentions in ten at the
\* most, nine identical repeats in ten, no stray answer (score_labels.py, report).
THEOREM ShippingIsEarned == Spec => []ShipIsEarned
  <1>1. ASSUME IInv, NEW b \in Done, NEW from \in SUBSET Cut,
               Verdict(Report(b, from)) = "OK", Band(Report(b, from)) = "SHIP"
        PROVE  LET t == Report(b, from)
               IN  /\ DecidedCount(t) >= 6
                   /\ DecidedCount(t) = 6 => t.overruled = 0
                   /\ 10 * t.right >= 9 * t.controls
                   /\ 10 * t.abstained <= 3 * Total(t)
                   /\ 10 * t.same >= 9 * t.pairs
                   /\ t.unknown = 0
    <2> DEFINE t == Report(b, from)
    <2>1. {t.unknown, t.controls, t.right, t.agreed, t.overruled,
           t.abstained, t.pairs, t.same} \subseteq Nat
      <3>1. key[b] \in Seq(KeyRow) /\ labels[b] \in Seq(1 .. 4)
        BY <1>1 DEF Done, Cut, IInv, Types
      <3> QED
        BY <3>1, TallyTypes DEF Report
    <2>2. Verdict(t) = "OK" /\ Band(t) = "SHIP"
      BY <1>1
    <2> HIDE DEF t
    <2>3. /\ ~BelowControlBar(t) /\ ~TooManyAbstentions(t)
          /\ DecidedCount(t) # 0 /\ ~(t.unknown > 0)
          /\ ~(t.pairs > 0 /\ ~Steady(t))
      BY <2>2 DEF Verdict
    <2>4. WilsonAtLeast(t.agreed, DecidedCount(t), 6)
      BY <2>2 DEF Band
    <2>5. /\ DecidedCount(t) >= 6
          /\ DecidedCount(t) = 6 => t.overruled = 0
      BY <2>1, <2>3, <2>4, WilsonNeedsSix DEF DecidedCount
    <2>6. 10 * t.right >= 9 * t.controls
      BY <2>3 DEF BelowControlBar, AtLeast
    <2>7. 10 * t.abstained <= 3 * Total(t)
      BY <2>1, <2>3 DEF TooManyAbstentions, Total, DecidedCount
    <2>8. 10 * t.same >= 9 * t.pairs
      BY <2>1, <2>3 DEF Steady, AtLeast
    <2>9. t.unknown = 0
      BY <2>1, <2>3
    <2> QED
      BY <2>5, <2>6, <2>7, <2>8, <2>9 DEF t
  <1>2. IInv => ShipIsEarned
    BY <1>1 DEF ShipIsEarned
  <1> QED
    BY <1>2, Always, PTL
-----------------------------------------------------------------------------
(* The scorer and the exported data set.                                     *)

\* What stands in one-to-one correspondence with a finite set counts the same.
LEMMA SameCount ==
    ASSUME NEW S, IsFiniteSet(S), NEW T, NEW f \in [S -> T],
           \A x, y \in S : f[x] = f[y] => x = y,
           \A z \in T : \E x \in S : f[x] = z
    PROVE  Cardinality(T) = Cardinality(S)
  <1>1. f \in Bijection(S, T)
    BY DEF Bijection, Injection, IsInjective, Surjection
  <1> QED
    BY <1>1, FS_Bijection DEF ExistsBijection

\* The items of batch b the labeller answered.
Answered(b) == DOMAIN key[b] \cap DOMAIN labels[b]

\* The facts about one batch the proofs below use.
LEMMA BatchFacts ==
    ASSUME IInv, NEW b \in Done
    PROVE  /\ b \in Batches /\ b \in Nat
           /\ IsFiniteSet(Answered(b))
           /\ Known(key[b], labels[b]) = Answered(b)
           /\ \A i \in Answered(b) :
                 /\ key[b][i].source \in Pool
                 /\ key[b][i].stratum \in Strata
                 /\ key[b][i].other \in {1, 2}
                 /\ labels[b][i] \in 1 .. 4
           /\ \A i, j \in Answered(b) :
                 key[b][i].source = key[b][j].source => i = j
  <1>1. b \in Batches /\ b \in Nat
    BY BatchesAssumption DEF Done, Cut
  <1>2. key[b] \in Seq(KeyRow) /\ labels[b] \in Seq(1 .. 4) /\ OnceEach(key[b])
    BY <1>1 DEF IInv, Types, NoTwins
  <1>3. IsFiniteSet(Answered(b))
    <2>1. IsFiniteSet(DOMAIN labels[b])
      BY <1>2, FS_Interval
    <2> QED
      BY <2>1, FS_Subset DEF Answered
  <1>4. \A i \in Answered(b) : key[b][i] \in KeyRow /\ labels[b][i] \in 1 .. 4
    BY <1>2, ElementOfSeq DEF Answered
  <1>5. Known(key[b], labels[b]) = Answered(b)
    BY DEF Known, Answered
  <1> QED
    BY <1>1, <1>2, <1>3, <1>4, <1>5 DEF KeyRow, OnceEach, Answered

\* The data set's word for an answer and the scorer's say the same.
LEMMA SameStory ==
    ASSUME IInv, NEW b \in Done, NEW i \in Answered(b)
    PROVE  LET said   == Answer(b, i)
               bucket == Bucket(key[b][i], labels[b][i])
           IN  /\ said \in {"suggested", "in-text", "both-fine", "unclear"}
               /\ bucket \in {"suggestion", "text", "both", "unclear"}
               /\ said = "suggested" <=> bucket = "suggestion"
               /\ said = "in-text" <=> bucket = "text"
               /\ said = "both-fine" <=> bucket = "both"
               /\ said = "unclear" <=> bucket = "unclear"
  <1>1. key[b][i].other \in {1, 2} /\ labels[b][i] \in {1, 2, 3, 4}
    <2>1. labels[b][i] \in 1 .. 4 /\ key[b][i].other \in {1, 2}
      BY BatchFacts
    <2> QED
      BY <2>1
  <1> QED
    BY <1>1 DEF Answer, Bucket

\* The rows of a batch are its answered items, each once.
LEMMA RowsOfBatch ==
    ASSUME IInv, NEW b \in Done
    PROVE  /\ \A r \in ExportRows :
                 r.batch = b => \E i \in Answered(b) : r = Exported(b, i)
           /\ \A i \in Answered(b) : Exported(b, i) \in ExportRows
           /\ \A i, j \in Answered(b) : Exported(b, i) = Exported(b, j) => i = j
  <1>1. \A r \in ExportRows : \E o \in Done : \E i \in Answered(o) : r = Exported(o, i)
    BY DEF ExportRows, Answered
  <1>2. \A o, i : Exported(o, i).batch = o
    BY DEF Exported
  <1>3. \A r \in ExportRows : r.batch = b => \E i \in Answered(b) : r = Exported(b, i)
    BY <1>1, <1>2
  <1>4. \A i \in Answered(b) : Exported(b, i) \in ExportRows
    BY DEF ExportRows, Answered
  <1>5. \A i, j \in Answered(b) : Exported(b, i) = Exported(b, j) => i = j
    <2>1. \A i : Exported(b, i).source = key[b][i].source
      BY DEF Exported
    <2> QED
      BY <2>1, BatchFacts
  <1> QED
    BY <1>3, <1>4, <1>5

\* So the rows of a batch picked by what they say are counted by the items that
\* say it.
LEMMA RowsCounted ==
    ASSUME IInv, NEW b \in Done, NEW S \in SUBSET Answered(b),
           NEW T \in SUBSET ExportRows,
           \A r \in T : r.batch = b,
           \A i \in Answered(b) : i \in S <=> Exported(b, i) \in T
    PROVE  Cardinality(T) = Cardinality(S)
  <1> DEFINE f == [i \in S |-> Exported(b, i)]
  <1>1. IsFiniteSet(S)
    BY BatchFacts, FS_Subset
  <1>2. f \in [S -> T]
    OBVIOUS
  <1>3. \A i, j \in S : f[i] = f[j] => i = j
    BY RowsOfBatch
  <1>4. \A r \in T : \E i \in S : f[i] = r
    BY RowsOfBatch
  <1> HIDE DEF f
  <1> QED
    BY <1>1, <1>2, <1>3, <1>4, SameCount

LEMMA SummaryIsTally ==
    ASSUME IInv, NEW b \in Done, NEW prior
    PROVE  LET t == Tally(key[b], labels[b], prior)
           IN  Summary(b) = [controls |-> t.controls, controls_ok |-> t.right,
                             agreed |-> t.agreed, overruled |-> t.overruled,
                             abstain |-> t.abstained]
  <1> DEFINE k == key[b]
             l == labels[b]
             R(strata, answers) == {r \in ExportRows : /\ r.batch = b
                                                       /\ r.stratum \in strata
                                                       /\ r.answer \in answers}
             all == {"suggested", "in-text", "both-fine", "unclear"}
             OK == {r \in ExportRows : r.batch = b /\ ControlPassed(r)}
  <1>1. \A i \in Answered(b) :
           /\ Exported(b, i).batch = b
           /\ Exported(b, i).stratum = k[i].stratum
           /\ Exported(b, i).answer = Answer(b, i)
           /\ Exported(b, i) \in ExportRows
    BY RowsOfBatch DEF Exported
  <1>2. ASSUME NEW strata, NEW answers, NEW found,
               \A i \in Answered(b) :
                  Answer(b, i) \in answers <=> Bucket(k[i], l[i]) \in found
        PROVE  Cardinality(R(strata, answers)) = Cardinality(Fell(k, l, strata, found))
    <2>1. Fell(k, l, strata, found) = {i \in Answered(b) :
             k[i].stratum \in strata /\ Bucket(k[i], l[i]) \in found}
      BY BatchFacts DEF Fell, In
    <2>2. \A i \in Answered(b) : i \in Fell(k, l, strata, found)
                                   <=> Exported(b, i) \in R(strata, answers)
      BY <1>1, <1>2, <2>1
    <2>3. /\ Fell(k, l, strata, found) \in SUBSET Answered(b)
          /\ R(strata, answers) \in SUBSET ExportRows
          /\ \A r \in R(strata, answers) : r.batch = b
      BY <2>1
    <2> HIDE DEF R
    <2> QED
      BY <2>2, <2>3, RowsCounted
  <1>3. Cardinality(R({"clean", "injected"}, all)) = Cardinality(In(k, l, {"clean", "injected"}))
    <2>1. In(k, l, {"clean", "injected"}) =
             {i \in Answered(b) : k[i].stratum \in {"clean", "injected"}}
      BY BatchFacts DEF In
    <2>2. \A i \in Answered(b) : i \in In(k, l, {"clean", "injected"})
                                   <=> Exported(b, i) \in R({"clean", "injected"}, all)
      BY <1>1, <2>1, SameStory
    <2>3. /\ In(k, l, {"clean", "injected"}) \in SUBSET Answered(b)
          /\ R({"clean", "injected"}, all) \in SUBSET ExportRows
          /\ \A r \in R({"clean", "injected"}, all) : r.batch = b
      BY <2>1
    <2> HIDE DEF R
    <2> QED
      BY <2>2, <2>3, RowsCounted
  <1>4. Cardinality(OK) = Cardinality(ControlsRight(k, l))
    <2>1. ControlsRight(k, l) = {i \in Answered(b) :
             \/ k[i].stratum = "injected" /\ Bucket(k[i], l[i]) = "suggestion"
             \/ k[i].stratum = "clean" /\ Bucket(k[i], l[i]) \in {"text", "both"}}
      BY BatchFacts DEF ControlsRight, Fell, In
    <2>2. \A i \in Answered(b) : i \in ControlsRight(k, l) <=> Exported(b, i) \in OK
      BY <1>1, <2>1, SameStory DEF ControlPassed
    <2>3. /\ ControlsRight(k, l) \in SUBSET Answered(b)
          /\ OK \in SUBSET ExportRows
          /\ \A r \in OK : r.batch = b
      BY <2>1
    <2> HIDE DEF OK
    <2> QED
      BY <2>2, <2>3, RowsCounted
  <1>5. Cardinality(R({"real"}, {"suggested"})) = Cardinality(Fell(k, l, {"real"}, {"suggestion"}))
    <2>1. \A i \in Answered(b) :
             Answer(b, i) \in {"suggested"} <=> Bucket(k[i], l[i]) \in {"suggestion"}
      BY SameStory
    <2> HIDE DEF R
    <2> QED
      BY <2>1, <1>2
  <1>6. Cardinality(R({"real"}, {"in-text"})) = Cardinality(Fell(k, l, {"real"}, {"text"}))
    <2>1. \A i \in Answered(b) :
             Answer(b, i) \in {"in-text"} <=> Bucket(k[i], l[i]) \in {"text"}
      BY SameStory
    <2> HIDE DEF R
    <2> QED
      BY <2>1, <1>2
  <1>7. Cardinality(R({"real"}, {"both-fine", "unclear"}))
          = Cardinality(Fell(k, l, {"real"}, {"both"}))
              + Cardinality(Fell(k, l, {"real"}, {"unclear"}))
    <2> DEFINE B == Fell(k, l, {"real"}, {"both"})
               U == Fell(k, l, {"real"}, {"unclear"})
    <2>1. Cardinality(R({"real"}, {"both-fine", "unclear"}))
            = Cardinality(Fell(k, l, {"real"}, {"both", "unclear"}))
      <3>1. \A i \in Answered(b) : Answer(b, i) \in {"both-fine", "unclear"}
                                      <=> Bucket(k[i], l[i]) \in {"both", "unclear"}
        BY SameStory
      <3> HIDE DEF R
      <3> QED
        BY <3>1, <1>2
    <2>2. Fell(k, l, {"real"}, {"both", "unclear"}) = B \cup U /\ B \cap U = {}
      BY DEF Fell
    <2>3. IsFiniteSet(B) /\ IsFiniteSet(U)
      <3>1. B \subseteq Answered(b) /\ U \subseteq Answered(b)
        BY BatchFacts DEF Fell, In
      <3> QED
        BY <3>1, BatchFacts, FS_Subset
    <2> HIDE DEF B, U
    <2>4. /\ Cardinality(B \cup U) = Cardinality(B) + Cardinality(U) - Cardinality({})
          /\ Cardinality(B) \in Nat /\ Cardinality(U) \in Nat
      BY <2>2, <2>3, FS_Union, FS_CardinalityType
    <2>5. Cardinality({}) = 0
      BY FS_EmptySet
    <2>6. Cardinality(B \cup U) = Cardinality(B) + Cardinality(U)
      BY <2>4, <2>5
    <2> QED
      BY <2>1, <2>2, <2>6 DEF B, U
  <1> QED
    BY <1>3, <1>4, <1>5, <1>6, <1>7 DEF Summary, Tally
\* The buckets files are those of the labels on disk.
InSync ==
    \A o \in Cut : buckets[o] = IF labels[o] = NoLabels THEN NoBuckets
                                ELSE Buckets(key[o], labels[o])

\* Item i of batch o was the labeller's first sight of s.
FirstSight(o, i, s) ==
    /\ o \in Done /\ i \in Answered(o)
    /\ key[o][i].stratum = "real" /\ key[o][i].source = s

\* There is one first sight of a candidate.
LEMMA OneFirstSight ==
    ASSUME IInv, NEW s, NEW o, NEW i, FirstSight(o, i, s),
           NEW p, NEW j, FirstSight(p, j, s)
    PROVE  o = p /\ i = j
  <1>1. /\ o \in Done /\ p \in Done /\ o \in Batches /\ p \in Batches
        /\ i \in Answered(o) /\ j \in Answered(p)
    BY DEF FirstSight, Done, Cut
  <1>2. /\ s \in Sources(key[o], Strata \ {"repeat"})
        /\ s \in Sources(key[p], Strata \ {"repeat"})
    BY DEF FirstSight, Sources, Strata, Answered
  <1>3. o = p
    BY <1>1, <1>2 DEF IInv, FreshOnce
  <1>4. i = j
    BY <1>1, <1>3, BatchFacts DEF FirstSight
  <1> QED
    BY <1>3, <1>4

\* What the buckets files of one batch hold.
LEMMA BucketsOfBatch ==
    ASSUME IInv, InSync, NEW o \in Cut
    PROVE  /\ \A s : s \in DOMAIN buckets[o] <=> \E i : FirstSight(o, i, s)
           /\ \A i, s : FirstSight(o, i, s) =>
                 buckets[o][s] = Bucket(key[o][i], labels[o][i])
  <1>1. CASE o \notin Done
    <2>1. buckets[o] = <<>>
      BY <1>1 DEF InSync, Done, NoBuckets
    <2>2. DOMAIN buckets[o] = {}
      BY <2>1
    <2> QED
      BY <1>1, <2>2 DEF FirstSight
  <1>2. CASE o \in Done
    <2> DEFINE real == In(key[o], labels[o], {"real"})
               at(s) == CHOOSE i \in real : key[o][i].source = s
    <2>1. \A i : i \in real <=> i \in Answered(o) /\ key[o][i].stratum = "real"
      BY <1>2, BatchFacts DEF In
    <2>2. \A i, s : FirstSight(o, i, s) <=> i \in real /\ key[o][i].source = s
      BY <1>2, <2>1 DEF FirstSight
    <2> HIDE DEF real
    <2>3. buckets[o] = [s \in {key[o][i].source : i \in real} |->
                          Bucket(key[o][at(s)], labels[o][at(s)])]
      BY <1>2 DEF InSync, Done, Buckets, real
    <2>4. DOMAIN buckets[o] = {key[o][i].source : i \in real}
      BY <2>3
    <2>5. ASSUME NEW i, NEW s, FirstSight(o, i, s)
          PROVE  buckets[o][s] = Bucket(key[o][i], labels[o][i])
      <3>1. i \in real /\ key[o][i].source = s
        BY <2>2, <2>5
      <3>2. at(s) \in real /\ key[o][at(s)].source = s
        BY <3>1
      <3>3. at(s) = i
        <4> HIDE DEF at
        <4> QED
          BY <2>2, <2>5, <3>2, OneFirstSight
      <3> HIDE DEF at
      <3>4. buckets[o][s] = Bucket(key[o][at(s)], labels[o][at(s)])
        BY <2>3, <3>1
      <3> QED
        BY <3>3, <3>4
    <2> QED
      BY <2>2, <2>4, <2>5
  <1> QED
    BY <1>1, <1>2

\* What --prior says of a candidate is what its first sight fell into.
LEMMA PriorIsFirstSight ==
    ASSUME IInv, InSync
    PROVE  /\ \A s : s \in DOMAIN Prior(Cut) <=> \E o, i : FirstSight(o, i, s)
           /\ \A o, i, s : FirstSight(o, i, s) =>
                 Prior(Cut)[s] = Bucket(key[o][i], labels[o][i])
  <1>1. \A o, s : o \in Recorded(Cut, s) <=> \E i : FirstSight(o, i, s)
    <2>1. \A o, i, s : FirstSight(o, i, s) => o \in Cut
      BY DEF FirstSight, Done
    <2> QED
      BY <2>1, BucketsOfBatch DEF Recorded
  <1>2. \A o, i, s : FirstSight(o, i, s) => s \in Pool
    BY BatchFacts DEF FirstSight
  <1>3. DOMAIN Prior(Cut) = {x \in Pool : Recorded(Cut, x) # {}}
    BY DEF Prior
  <1>4. ASSUME NEW s
        PROVE  s \in DOMAIN Prior(Cut) <=> \E o, i : FirstSight(o, i, s)
    <2>1. Recorded(Cut, s) # {} <=> \E o, i : FirstSight(o, i, s)
      BY <1>1
    <2> QED
      BY <1>2, <1>3, <2>1
  <1>5. ASSUME NEW o, NEW i, NEW s, FirstSight(o, i, s)
        PROVE  Prior(Cut)[s] = Bucket(key[o][i], labels[o][i])
    <2>1. Recorded(Cut, s) = {o}
      BY <1>1, <1>5, OneFirstSight
    <2>2. o \in Nat /\ o \in Cut
      BY <1>5, BatchFacts DEF FirstSight, Done
    <2>3. Max({o}) = o
      BY <2>2 DEF Max
    <2>4. s \in {x \in Pool : Recorded(Cut, x) # {}}
      BY <1>2, <1>5, <2>1
    <2>5. Prior(Cut)[s] = buckets[Max(Recorded(Cut, s))][s]
      BY <2>4 DEF Prior
    <2> QED
      BY <1>5, <2>1, <2>2, <2>3, <2>5, BucketsOfBatch
  <1> QED
    BY <1>4, <1>5

\* The row the data set compares a repeat with is that first sight.
LEMMA EarlierIsFirstSight ==
    ASSUME IInv, NEW r
    PROVE  /\ EarlierRow(r) # {} => \E o, i : FirstSight(o, i, r.source)
           /\ \A o, i : FirstSight(o, i, r.source) => EarlierRow(r) = {Exported(o, i)}
  <1> DEFINE s == r.source
             fresh == {f \in ExportRows : f.stratum = "real" /\ f.source = s}
  <1>1. EarlierRow(r) = {f \in fresh : \A g \in fresh : g.batch <= f.batch}
    BY DEF EarlierRow
  <1>2. \A f : f \in fresh <=> \E o, i : FirstSight(o, i, s) /\ f = Exported(o, i)
    BY DEF ExportRows, FirstSight, Answered, Exported
  <1> HIDE DEF fresh
  <1>3. EarlierRow(r) # {} => \E o, i : FirstSight(o, i, s)
    BY <1>1, <1>2
  <1>4. ASSUME NEW o, NEW i, FirstSight(o, i, s)
        PROVE  EarlierRow(r) = {Exported(o, i)}
    <2> DEFINE e == Exported(o, i)
    <2>1. fresh = {e}
      BY <1>2, <1>4, OneFirstSight
    <2>2. e.batch = o /\ o \in Nat
      BY <1>4, BatchFacts DEF Exported, FirstSight
    <2> HIDE DEF e
    <2>3. e.batch <= e.batch
      BY <2>2
    <2>4. EarlierRow(r) = {e}
      BY <1>1, <2>1, <2>3
    <2> QED
      BY <2>4 DEF e
  <1> QED
    BY <1>3, <1>4
\* A repeated item and its row, seen from both sides.
LEMMA RepeatSeen ==
    ASSUME IInv, InSync, NEW b \in Done, NEW i \in Answered(b)
    PROVE  LET s == key[b][i].source
               r == Exported(b, i)
               bucket == Bucket(key[b][i], labels[b][i])
           IN  /\ EarlierRow(r) # {} <=> s \in DOMAIN Prior(Cut)
               /\ s \in DOMAIN Prior(Cut) =>
                     \E f : /\ EarlierRow(r) = {f}
                            /\ f.answer = r.answer <=> Prior(Cut)[s] = bucket
                            /\ f.answer \in {"suggested", "in-text"}
                                  <=> Prior(Cut)[s] \in Decided
               /\ r.answer \in {"suggested", "in-text"} <=> bucket \in Decided
  <1> DEFINE s == key[b][i].source
             r == Exported(b, i)
             bucket == Bucket(key[b][i], labels[b][i])
  <1>1. r.source = s /\ r.answer = Answer(b, i)
    BY DEF Exported
  <1>2. r.answer \in {"suggested", "in-text"} <=> bucket \in Decided
    BY <1>1, SameStory DEF Decided
  <1>3. CASE \E o, j : FirstSight(o, j, s)
    <2>1. PICK o, j : FirstSight(o, j, s)
      BY <1>3
    <2> DEFINE f == Exported(o, j)
    <2>2. EarlierRow(r) = {f}
      BY <1>1, <2>1, EarlierIsFirstSight
    <2>3. s \in DOMAIN Prior(Cut) /\ Prior(Cut)[s] = Bucket(key[o][j], labels[o][j])
      BY <2>1, PriorIsFirstSight
    <2>4. o \in Done /\ j \in Answered(o) /\ f.answer = Answer(o, j)
      BY <2>1 DEF FirstSight, Exported
    <2>5. f.answer = r.answer <=> Prior(Cut)[s] = bucket
      BY <1>1, <2>3, <2>4, SameStory
    <2>6. f.answer \in {"suggested", "in-text"} <=> Prior(Cut)[s] \in Decided
      BY <2>3, <2>4, SameStory DEF Decided
    <2> HIDE DEF f, r, bucket
    <2> QED
      BY <1>2, <2>2, <2>3, <2>5, <2>6 DEF r, bucket
  <1>4. CASE ~ \E o, j : FirstSight(o, j, s)
    <2>1. s \notin DOMAIN Prior(Cut)
      BY <1>4, PriorIsFirstSight
    <2>2. EarlierRow(r) = {}
      BY <1>1, <1>4, EarlierIsFirstSight
    <2> QED
      BY <1>2, <2>1, <2>2
  <1> QED
    BY <1>3, <1>4

LEMMA FlagsAreTally ==
    ASSUME IInv, InSync, NEW b \in Done
    PROVE  LET t == Tally(key[b], labels[b], Prior(Cut))
           IN  RepeatFlags(b) = [pairs |-> t.pairs, same |-> t.same,
                                 reversals |-> t.reversals]
  <1> DEFINE k == key[b]
             l == labels[b]
             p == Prior(Cut)
             said == {"suggested", "in-text"}
             again == {r \in ExportRows : r.batch = b /\ r.stratum = "repeat"}
             known == {r \in again : EarlierRow(r) # {}}
             same == {r \in known : \E f \in EarlierRow(r) : f.answer = r.answer}
             reverse == {r \in known \ same :
                           r.answer \in said /\ \E f \in EarlierRow(r) : f.answer \in said}
             Pairs == Repeated(k, l, p)
             Same == {i \in Pairs : p[k[i].source] = Bucket(k[i], l[i])}
             Reverse == Reversals(k, l, p)
  <1>1. \A i \in Answered(b) :
           /\ Exported(b, i).batch = b
           /\ Exported(b, i).stratum = k[i].stratum
           /\ Exported(b, i) \in ExportRows
    BY RowsOfBatch DEF Exported
  <1>2. Pairs = {i \in Answered(b) :
                   k[i].stratum = "repeat" /\ k[i].source \in DOMAIN p}
    BY BatchFacts DEF Repeated, In
  <1>3. Reverse = {i \in Pairs : /\ p[k[i].source] \in Decided
                                 /\ Bucket(k[i], l[i]) \in Decided
                                 /\ p[k[i].source] # Bucket(k[i], l[i])}
    BY DEF Reversals, Moved
  <1> HIDE DEF Pairs, Reverse
  <1>4. \A i \in Answered(b) : i \in Pairs <=> Exported(b, i) \in known
    BY <1>1, <1>2, RepeatSeen
  <1>5. \A i \in Answered(b) : i \in Same <=> Exported(b, i) \in same
    <2> SUFFICES ASSUME NEW i \in Answered(b)
                 PROVE  i \in Same <=> Exported(b, i) \in same
      OBVIOUS
    <2>1. CASE i \notin Pairs
      BY <1>4, <2>1
    <2>2. CASE i \in Pairs
      <3>1. PICK f : /\ EarlierRow(Exported(b, i)) = {f}
                     /\ f.answer = Exported(b, i).answer
                           <=> p[k[i].source] = Bucket(k[i], l[i])
        BY <1>2, <2>2, RepeatSeen
      <3>2. Exported(b, i) \in same <=> f.answer = Exported(b, i).answer
        <4>1. Exported(b, i) \in known
          BY <1>4, <2>2
        <4> HIDE DEF known
        <4> QED
          BY <3>1, <4>1
      <3> QED
        BY <2>2, <3>1, <3>2
    <2> QED
      BY <2>1, <2>2
  <1>6. \A i \in Answered(b) : i \in Reverse <=> Exported(b, i) \in reverse
    <2> SUFFICES ASSUME NEW i \in Answered(b)
                 PROVE  i \in Reverse <=> Exported(b, i) \in reverse
      OBVIOUS
    <2>1. CASE i \notin Pairs
      BY <1>3, <1>4, <2>1
    <2>2. CASE i \in Pairs
      <3>1. PICK f : /\ EarlierRow(Exported(b, i)) = {f}
                     /\ f.answer \in said <=> p[k[i].source] \in Decided
        BY <1>2, <2>2, RepeatSeen
      <3>2. Exported(b, i).answer \in said <=> Bucket(k[i], l[i]) \in Decided
        BY RepeatSeen
      <3>3. Exported(b, i) \notin same <=> p[k[i].source] # Bucket(k[i], l[i])
        BY <1>5, <2>2
      <3>4. Exported(b, i) \in known
        BY <1>4, <2>2
      <3> HIDE DEF known, same, said
      <3>5. Exported(b, i) \in reverse
              <=> /\ Exported(b, i) \notin same /\ Exported(b, i).answer \in said
                  /\ f.answer \in said
        BY <3>1, <3>4
      <3> QED
        BY <1>3, <2>2, <3>1, <3>2, <3>3, <3>5
    <2> QED
      BY <2>1, <2>2
  <1>7. /\ Pairs \in SUBSET Answered(b) /\ Same \in SUBSET Answered(b)
        /\ Reverse \in SUBSET Answered(b)
    BY <1>2, <1>3
  <1>8. /\ known \in SUBSET ExportRows /\ same \in SUBSET ExportRows
        /\ reverse \in SUBSET ExportRows
        /\ \A r \in known : r.batch = b
        /\ \A r \in same : r.batch = b
        /\ \A r \in reverse : r.batch = b
    OBVIOUS
  <1>9. /\ RepeatFlags(b) = [pairs |-> Cardinality(known), same |-> Cardinality(same),
                             reversals |-> Cardinality(reverse)]
        /\ Tally(k, l, p).pairs = Cardinality(Pairs)
        /\ Tally(k, l, p).same = Cardinality(Same)
        /\ Tally(k, l, p).reversals = Cardinality(Reverse)
    BY DEF RepeatFlags, Tally, Pairs, Reverse
  <1> HIDE DEF known, same, reverse, Same
  <1>10. Cardinality(known) = Cardinality(Pairs)
    BY <1>4, <1>7, <1>8, RowsCounted
  <1>11. Cardinality(same) = Cardinality(Same)
    BY <1>5, <1>7, <1>8, RowsCounted
  <1>12. Cardinality(reverse) = Cardinality(Reverse)
    BY <1>6, <1>7, <1>8, RowsCounted
  <1> QED
    BY <1>9, <1>10, <1>11, <1>12

\* As long as the buckets files are those of the labels on disk, the scorer and
\* the exported data set count the same controls, verdicts, repeats and reversals
\* in every batch (score_labels.py, report; export_label_dataset.py, summarise
\* and main).
THEOREM ScorerAndDatasetAgree == Spec => []DatasetAgrees
  <1>1. ASSUME IInv, InSync, NEW b \in Done
        PROVE  LET t == Report(b, Cut)
               IN  /\ Summary(b) = [controls |-> t.controls, controls_ok |-> t.right,
                                    agreed |-> t.agreed, overruled |-> t.overruled,
                                    abstain |-> t.abstained]
                   /\ RepeatFlags(b) = [pairs |-> t.pairs, same |-> t.same,
                                        reversals |-> t.reversals]
    BY <1>1, SummaryIsTally, FlagsAreTally DEF Report
  <1>2. IInv => DatasetAgrees
    BY <1>1 DEF DatasetAgrees, InSync
  <1> QED
    BY <1>2, Always, PTL
==============================================================================
