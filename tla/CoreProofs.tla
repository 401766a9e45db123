----------------------------- MODULE CoreProofs -----------------------------
(***************************************************************************)
(* Proofs about the models of the core library's two pieces of state.       *)
(*                                                                         *)
(* UserNgram, for every set of words, every cap and number of sessions: the *)
(* counts stay within their cap and agree with the table.                  *)
(*                                                                         *)
(* EditorSync, for every field, every key and every length of context: the  *)
(* buffer is in step with the editor once all has arrived.  InStep is far   *)
(* from inductive: it says nothing while commands or reports are on their   *)
(* way.  The invariant SyncInv is a trail, one stage for each command still *)
(* to be applied, from the document as it is to the buffer as it is.  A     *)
(* stage is the buffer, and how many reports it had received, when a key    *)
(* was pressed, with the document and the reports that applying the         *)
(* commands before that key will make.  Each stage is Good: its document is *)
(* well-formed text, and its buffer knows of that document what it can know *)
(* with none, one or two reports outstanding.                              *)
(***************************************************************************)
EXTENDS UserNgram, EditorSync, FiniteSetTheorems, SequenceTheorems,
        WellFoundedInduction, TLAPS

-----------------------------------------------------------------------------
\* Finiteness: the lexicon is finite, so is every table over it.
LEMMA PairFinite == IsFiniteSet(Pair)
  BY WordFinite, FS_Product DEF Pair

\* The number of stored pairs is a natural number whatever the table holds.
LEMMA StoredPairsFinite ==
  ASSUME NEW c
  PROVE  IsFiniteSet(StoredPairs(c)) /\ Cardinality(StoredPairs(c)) \in Nat
<1>1. StoredPairs(c) \in SUBSET Pair
  BY DEF StoredPairs
<1>2. IsFiniteSet(StoredPairs(c))
  BY <1>1, PairFinite, FS_Subset
<1>3. QED
  BY <1>2, FS_CardinalityType

\* An eviction keeps at least nothing and at most the cap.
LEMMA RetainTargetBounded == RetainTarget \in Nat /\ RetainTarget <= Capacity
  BY CapacityAssumption DEF RetainTarget

\* evictIfNeeded leaves min(n, RetainTarget) pairs by the cached count, so the
\* count it leaves is a natural number within the cap.
LEMMA EvictionCount ==
  ASSUME NEW c, NEW s, NEW n \in Nat, NEW V \in Victims(c, s, n)
  PROVE  /\ n - Cardinality(V) \in Nat
         /\ n - Cardinality(V) <= Capacity
         /\ V \subseteq StoredPairs(c)
<1>1. CASE n <= Capacity
  <2>1. V = {}
    BY <1>1 DEF Victims
  <2>2. QED
    BY <1>1, <2>1, FS_EmptySet
<1>2. CASE ~(n <= Capacity)
  <2>1. V \subseteq StoredPairs(c) /\ Cardinality(V) = n - RetainTarget
    BY <1>2 DEF Victims
  <2>2. QED
    BY <2>1, RetainTargetBounded, CapacityAssumption
<1>3. QED
  BY <1>1, <1>2

\* Adding one to an entry, or crediting it, keeps a counter a counter.
LEMMA CounterTypes ==
  ASSUME NEW S, NEW f \in [S -> Nat], NEW x \in S, NEW already
  PROVE  /\ Increment(f, x) \in [S -> Nat]
         /\ Credit(f, x, already) \in [S -> Nat]
         /\ Observed(f, x, already) \in [S -> Nat]
  BY DEF Increment, Credit, Observed

\* Removing the victims keeps a table of counters a table of counters.
LEMMA WithoutType ==
  ASSUME NEW f \in [Pair -> Nat], NEW V
  PROVE  Without(f, V) \in [Pair -> Nat]
  BY DEF Without

-----------------------------------------------------------------------------
\* Types are preserved by every call of the class, whatever it evicts.
THEOREM TypeCorrect == Spec => []TypeOK
<1>1. Init => TypeOK
  BY DEF Init, TypeOK, File, NoPairs, NoWords, EmptyFile
<1>2. TypeOK /\ [Next]_vars => TypeOK'
  <2> SUFFICES ASSUME TypeOK, [Next]_vars
               PROVE  TypeOK'
    OBVIOUS
  <2> USE DEF TypeOK, File
  <2>1. ASSUME NEW p \in Pair, Record(p)
        PROVE  TypeOK'
    <3> DEFINE c == Increment(count, p)
               s == Credit(sessions, p, credited)
               n == IF count[p] = 0 THEN pairCount + 1 ELSE pairCount
    <3>1. c \in [Pair -> Nat] /\ s \in [Pair -> Nat] /\ n \in Nat
      <4>1. c \in [Pair -> Nat]
        BY CounterTypes
      <4>2. s \in [Pair -> Nat]
        BY CounterTypes
      <4>3. n \in Nat
        OBVIOUS
      <4>4. QED
        BY <4>1, <4>2, <4>3
    <3>2. PICK V \in Victims(c, s, n) : /\ count' = Without(c, V)
                                        /\ sessions' = Without(s, V)
                                        /\ pairCount' = n - Cardinality(V)
      BY <2>1 DEF Record
    <3>3. count' \in [Pair -> Nat] /\ sessions' \in [Pair -> Nat]
      BY <3>1, <3>2, WithoutType
    <3>4. pairCount' \in Nat
      BY <3>1, <3>2, EvictionCount
    <3>5. seen' \in [Pair -> Nat]
      BY <2>1, CounterTypes DEF Record
    <3>6. QED
      BY <2>1, <3>3, <3>4, <3>5 DEF Record, wordVars
  <2>2. ASSUME NEW w \in Word, RecordWord(w)
        PROVE  TypeOK'
    BY <2>2, CounterTypes DEF RecordWord, pairVars
  <2>3. CASE EndSession
    BY <2>3 DEF EndSession
  <2>4. CASE Clear
    BY <2>4 DEF Clear, NoPairs, NoWords, history
  <2>5. CASE Save
    BY <2>5 DEF Save, pairVars, wordVars, history
  <2>6. CASE Load
    BY <2>6, StoredPairsFinite DEF Load
  <2>7. CASE UNCHANGED vars
    BY <2>7 DEF vars, pairVars, wordVars, history
  <2>8. QED
    BY <2>1, <2>2, <2>3, <2>4, <2>5, <2>6, <2>7 DEF Next
<1>3. QED
  BY <1>1, <1>2, PTL DEF Spec

-----------------------------------------------------------------------------
(***************************************************************************)
(* Credit.  The argument is the same for pairs and for words, so the steps  *)
(* are lemmas about CreditIsReal over any set S.                           *)
(***************************************************************************)

\* One sighting of x, then the loss of the entries in V: credit stays real.
LEMMA SightingCredit ==
  ASSUME NEW S, NEW s \in [S -> Nat], NEW now, NEW onDisk \in [S -> Nat],
         NEW h \in [S -> Nat], NEW here, NEW x \in S,
         NEW t \in [S -> Nat],
         \A y \in S : t[y] <= Credit(s, x, now)[y],
         CreditIsReal(S, s, now, onDisk, h, here)
  PROVE  CreditIsReal(S, t, now \cup {x}, onDisk,
                      Observed(h, x, here), here \cup {x})
<1> DEFINE h2 == Observed(h, x, here)
           s2 == Credit(s, x, now)
<1>1. now \subseteq here
  BY DEF CreditIsReal
<1>2. ASSUME NEW y \in S, y # x
      PROVE  s2[y] = s[y] /\ h2[y] = h[y]
  BY <1>2 DEF Credit, Observed, Increment
<1>3. s2[x] <= h2[x] /\ onDisk[x] <= h2[x] /\ h2[x] > 0
  <2>1. CASE x \in now
    BY <2>1, <1>1 DEF Credit, Observed, CreditIsReal
  <2>2. CASE x \notin now /\ x \in here
    BY <2>2 DEF Credit, Observed, Increment, CreditIsReal
  <2>3. CASE x \notin here
    BY <2>3, <1>1 DEF Credit, Observed, Increment, CreditIsReal
  <2>4. QED
    BY <2>1, <2>2, <2>3
<1>4. ASSUME NEW y \in S
      PROVE  /\ t[y] <= h2[y]
             /\ y \in (here \cup {x}) \ (now \cup {x}) => t[y] < h2[y]
             /\ y \in here \cup {x} => h2[y] > 0
             /\ onDisk[y] <= h2[y]
  <2>1. t[y] \in Nat /\ s2[y] \in Nat /\ h2[y] \in Nat /\ t[y] <= s2[y]
    BY CounterTypes
  <2>2. CASE y = x
    BY <2>1, <2>2, <1>3
  <2>3. CASE y # x
    <3>1. s2[y] = s[y] /\ h2[y] = h[y]
      BY <2>3, <1>2
    <3>2. /\ s[y] <= h[y]
          /\ y \in here \ now => s[y] < h[y]
          /\ y \in here => h[y] > 0
          /\ onDisk[y] <= h[y]
      BY DEF CreditIsReal
    <3>3. QED
      BY <2>1, <2>3, <3>1, <3>2
  <2>4. QED
    BY <2>2, <2>3
<1>5. now \cup {x} \subseteq here \cup {x}
  BY <1>1
<1>6. QED
  BY <1>4, <1>5 DEF Credit, CreditIsReal

\* Ending the session, reading the file back, clearing the memory or writing
\* it to disk keeps credit real.
LEMMA QuietCredit ==
  ASSUME NEW S, NEW s \in [S -> Nat], NEW now, NEW onDisk \in [S -> Nat],
         NEW h \in [S -> Nat], NEW here,
         CreditIsReal(S, s, now, onDisk, h, here)
  PROVE  /\ CreditIsReal(S, s, {}, onDisk, h, {})
         /\ CreditIsReal(S, onDisk, {}, onDisk, h, {})
         /\ CreditIsReal(S, [x \in S |-> 0], {}, onDisk, h, here)
         /\ CreditIsReal(S, s, now, s, h, here)
  BY DEF CreditIsReal

-----------------------------------------------------------------------------
\* Removing entries never raises a counter.
LEMMA WithoutLowers ==
  ASSUME NEW f \in [Pair -> Nat], NEW V
  PROVE  \A p \in Pair : Without(f, V)[p] <= f[p]
  BY DEF Without

\* Every session the model has credited, in memory or on disk, took place:
\* the inductive invariant behind both eligibility theorems.
THEOREM CreditCorrect == Spec => []SessionsAreReal
<1>1. Init => SessionsAreReal
  BY DEF Init, SessionsAreReal, CreditIsReal, NoPairs, NoWords, EmptyFile
<1>2. TypeOK /\ SessionsAreReal /\ [Next]_vars => SessionsAreReal'
  <2> SUFFICES ASSUME TypeOK, SessionsAreReal, [Next]_vars
               PROVE  SessionsAreReal'
    OBVIOUS
  <2> DEFINE PairsReal == CreditIsReal(Pair, sessions, credited,
                                       stored.sessions, seen, seenHere)
             WordsReal == CreditIsReal(Word, wordSessions, wordCredited,
                                       stored.wordSessions, wordSeen, wordSeenHere)
  <2>a. PairsReal /\ WordsReal
    BY DEF SessionsAreReal
  <2>b. /\ sessions \in [Pair -> Nat] /\ wordSessions \in [Word -> Nat]
        /\ stored.sessions \in [Pair -> Nat] /\ stored.wordSessions \in [Word -> Nat]
        /\ seen \in [Pair -> Nat] /\ wordSeen \in [Word -> Nat]
    BY DEF TypeOK, File
  <2>1. ASSUME NEW p \in Pair, Record(p)
        PROVE  SessionsAreReal'
    <3>1. PICK V : sessions' = Without(Credit(sessions, p, credited), V)
      BY <2>1 DEF Record
    <3>2. Credit(sessions, p, credited) \in [Pair -> Nat]
      BY <2>b, CounterTypes
    <3>3. /\ sessions' \in [Pair -> Nat]
          /\ \A q \in Pair : sessions'[q] <= Credit(sessions, p, credited)[q]
      BY <3>1, <3>2, WithoutType, WithoutLowers
    <3>4. CreditIsReal(Pair, sessions', credited \cup {p}, stored.sessions,
                       Observed(seen, p, seenHere), seenHere \cup {p})
      BY <2>a, <2>b, <3>3, SightingCredit
    <3>5. /\ credited' = credited \cup {p} /\ stored' = stored
          /\ seen' = Observed(seen, p, seenHere) /\ seenHere' = seenHere \cup {p}
          /\ UNCHANGED <<wordSessions, wordCredited, wordSeen, wordSeenHere>>
      BY <2>1 DEF Record, wordVars
    <3>6. QED
      BY <2>a, <3>4, <3>5 DEF SessionsAreReal
  <2>2. ASSUME NEW w \in Word, RecordWord(w)
        PROVE  SessionsAreReal'
    <3>1. /\ wordSessions' = Credit(wordSessions, w, wordCredited)
          /\ wordCredited' = wordCredited \cup {w} /\ stored' = stored
          /\ wordSeen' = Observed(wordSeen, w, wordSeenHere)
          /\ wordSeenHere' = wordSeenHere \cup {w}
          /\ UNCHANGED <<sessions, credited, seen, seenHere>>
      BY <2>2 DEF RecordWord, pairVars
    <3>2. /\ wordSessions' \in [Word -> Nat]
          /\ \A v \in Word : wordSessions'[v] <= Credit(wordSessions, w, wordCredited)[v]
      BY <2>b, <3>1, CounterTypes
    <3>3. CreditIsReal(Word, wordSessions', wordCredited \cup {w},
                       stored.wordSessions, Observed(wordSeen, w, wordSeenHere),
                       wordSeenHere \cup {w})
      BY <2>a, <2>b, <3>2, SightingCredit
    <3>4. QED
      BY <2>a, <3>1, <3>3 DEF SessionsAreReal
  <2>3. CASE EndSession
    BY <2>a, <2>b, <2>3, QuietCredit DEF EndSession, SessionsAreReal
  <2>4. CASE Clear
    BY <2>a, <2>b, <2>4, QuietCredit DEF Clear, SessionsAreReal, NoPairs, NoWords, history
  <2>5. CASE Save
    <3>1. /\ stored'.sessions = sessions /\ stored'.wordSessions = wordSessions
          /\ UNCHANGED <<sessions, credited, seen, seenHere>>
          /\ UNCHANGED <<wordSessions, wordCredited, wordSeen, wordSeenHere>>
      BY <2>5 DEF Save, pairVars, wordVars, history
    <3>2. QED
      BY <2>a, <2>b, <3>1, QuietCredit DEF SessionsAreReal
  <2>6. CASE Load
    BY <2>a, <2>b, <2>6, QuietCredit DEF Load, SessionsAreReal
  <2>7. CASE UNCHANGED vars
    BY <2>a, <2>7 DEF SessionsAreReal, vars, pairVars, wordVars, history
  <2>8. QED
    BY <2>1, <2>2, <2>3, <2>4, <2>5, <2>6, <2>7 DEF Next
<1>3. QED
  BY <1>1, <1>2, TypeCorrect, PTL DEF Spec

\* A pair that may be offered really came back in MinimumSessions sessions,
\* whatever was evicted, cleared, saved and reloaded in between.
THEOREM OfferedPairs == Spec => []OfferedPairsCameBack
<1>1. TypeOK /\ SessionsAreReal => OfferedPairsCameBack
  BY MinimumSessionsAssumption
  DEF TypeOK, SessionsAreReal, CreditIsReal, OfferedPairsCameBack, Eligible
<1>2. QED
  BY <1>1, TypeCorrect, CreditCorrect, PTL

\* The same for the personal frequency of single words.
THEOREM OfferedWords == Spec => []OfferedWordsCameBack
<1>1. TypeOK /\ SessionsAreReal => OfferedWordsCameBack
  BY MinimumSessionsAssumption
  DEF TypeOK, SessionsAreReal, CreditIsReal, OfferedWordsCameBack, WordEligible
<1>2. QED
  BY <1>1, TypeCorrect, CreditCorrect, PTL

-----------------------------------------------------------------------------
(***************************************************************************)
(* The table.                                                              *)
(***************************************************************************)

\* Removing a set of stored pairs removes exactly that many from the table.
LEMMA WithoutCardinality ==
  ASSUME NEW c \in [Pair -> Nat], NEW V \in SUBSET StoredPairs(c)
  PROVE  Cardinality(StoredPairs(Without(c, V)))
           = Cardinality(StoredPairs(c)) - Cardinality(V)
<1>1. StoredPairs(Without(c, V)) = StoredPairs(c) \ V
  BY DEF StoredPairs, Without
<1>2. StoredPairs(c) \cap V = V
  OBVIOUS
<1>3. QED
  BY <1>1, <1>2, StoredPairsFinite, FS_Difference

\* Counting one more sighting of p adds p to the table, if it was not there.
LEMMA SightingCardinality ==
  ASSUME NEW c \in [Pair -> Nat], NEW p \in Pair
  PROVE  Cardinality(StoredPairs(Increment(c, p)))
           = IF c[p] = 0 THEN Cardinality(StoredPairs(c)) + 1
                         ELSE Cardinality(StoredPairs(c))
<1>1. StoredPairs(Increment(c, p)) = StoredPairs(c) \cup {p}
  BY DEF StoredPairs, Increment
<1>2. p \in StoredPairs(c) <=> c[p] # 0
  BY DEF StoredPairs
<1>3. QED
  BY <1>1, <1>2, StoredPairsFinite, FS_AddElement

\* The cached pair count is exact and neither the table nor the file outgrows
\* the cap, whatever is typed.
THEOREM TableStaysBounded == Spec => []TableBounded
<1>1. Init => TableBounded
  <2>1. StoredPairs(NoPairs) = {}
    BY DEF StoredPairs, NoPairs
  <2>2. QED
    BY <2>1, FS_EmptySet, CapacityAssumption DEF Init, TableBounded, EmptyFile
<1>2. TypeOK /\ TableBounded /\ [Next]_vars => TableBounded'
  <2> SUFFICES ASSUME TypeOK, TableBounded, [Next]_vars
               PROVE  TableBounded'
    OBVIOUS
  <2>1. ASSUME NEW p \in Pair, Record(p)
        PROVE  TableBounded'
    <3> DEFINE c == Increment(count, p)
               s == Credit(sessions, p, credited)
               n == IF count[p] = 0 THEN pairCount + 1 ELSE pairCount
    <3>1. count \in [Pair -> Nat] /\ pairCount \in Nat
      BY DEF TypeOK
    <3>2. c \in [Pair -> Nat]
      BY <3>1, CounterTypes
    <3>3. n \in Nat
      BY <3>1
    <3>4. n = Cardinality(StoredPairs(c))
      BY <3>1, SightingCardinality DEF TableBounded
    <3>5. PICK V \in Victims(c, s, n) : /\ count' = Without(c, V)
                                        /\ pairCount' = n - Cardinality(V)
      BY <2>1 DEF Record
    <3>6. V \in SUBSET StoredPairs(c) /\ n - Cardinality(V) <= Capacity
      BY <3>3, EvictionCount
    <3>7. Cardinality(StoredPairs(count')) = pairCount' /\ pairCount' <= Capacity
      BY <3>2, <3>4, <3>5, <3>6, WithoutCardinality
    <3>8. stored' = stored
      BY <2>1 DEF Record
    <3>9. QED
      BY <3>7, <3>8 DEF TableBounded
  <2>2. ASSUME NEW w \in Word, RecordWord(w)
        PROVE  TableBounded'
    BY <2>2 DEF RecordWord, pairVars, TableBounded
  <2>3. CASE EndSession
    BY <2>3 DEF EndSession, TableBounded
  <2>4. CASE Clear
    <3>1. StoredPairs(NoPairs) = {}
      BY DEF StoredPairs, NoPairs
    <3>2. QED
      BY <2>4, <3>1, FS_EmptySet, CapacityAssumption DEF Clear, TableBounded
  <2>5. CASE Save
    <3>1. stored'.count = count /\ UNCHANGED <<count, pairCount>>
      BY <2>5 DEF Save, pairVars
    <3>2. QED
      BY <3>1 DEF TableBounded
  <2>6. CASE Load
    BY <2>6 DEF Load, TableBounded
  <2>7. CASE UNCHANGED vars
    BY <2>7 DEF vars, pairVars, TableBounded
  <2>8. QED
    BY <2>1, <2>2, <2>3, <2>4, <2>5, <2>6, <2>7 DEF Next
<1>3. QED
  BY <1>1, <1>2, TypeCorrect, PTL DEF Spec

\* Recording a pair never evicts one with more sessions than a pair it keeps.
THEOREM EvictionOrder == Spec => EvictionKeepsWhatCameBack
<1>1. ASSUME TypeOK, NEW p \in Pair, Record(p), NEW v \in Pair, NEW k \in Pair,
             count[v] > 0, count'[v] = 0, count'[k] > 0
      PROVE  sessions[v] <= sessions'[k]
  <2> DEFINE c == Increment(count, p)
             s == Credit(sessions, p, credited)
             n == IF count[p] = 0 THEN pairCount + 1 ELSE pairCount
  <2>1. count \in [Pair -> Nat] /\ sessions \in [Pair -> Nat]
    BY <1>1 DEF TypeOK
  <2>2. c \in [Pair -> Nat] /\ s \in [Pair -> Nat]
    <3>1. c \in [Pair -> Nat]
      BY <2>1, CounterTypes
    <3>2. s \in [Pair -> Nat]
      BY <2>1, CounterTypes
    <3>3. QED
      BY <3>1, <3>2
  <2>3. PICK V \in Victims(c, s, n) : /\ count' = Without(c, V)
                                      /\ sessions' = Without(s, V)
    BY <1>1 DEF Record
  <2>4. c[v] > 0 /\ sessions[v] <= s[v]
    BY <1>1, <2>1 DEF Increment, Credit
  <2>5. v \in V /\ k \notin V /\ k \in StoredPairs(c) /\ sessions'[k] = s[k]
    BY <1>1, <2>2, <2>3, <2>4 DEF Without, StoredPairs
  <2>6. NoMoreValuable(v, k, c, s)
    BY <2>3, <2>5 DEF Victims
  <2>7. s[v] <= s[k]
    BY <2>2, <2>6 DEF NoMoreValuable
  <2>8. QED
    BY <2>1, <2>2, <2>4, <2>5, <2>7
<1>2. TypeOK => [\A p \in Pair : Record(p) =>
                   \A v, k \in Pair :
                      (count[v] > 0 /\ count'[v] = 0 /\ count'[k] > 0)
                          => sessions[v] <= sessions'[k]]_vars
  BY <1>1
<1>3. QED
  BY <1>2, TypeCorrect, PTL DEF EvictionKeepsWhatCameBack

-----------------------------------------------------------------------------
(* Counting.                                                                 *)

\* A set of numbers has a least.
LEMMA Least ==
    ASSUME NEW S \in SUBSET Nat, S # {}
    PROVE  \E m \in S : \A i \in S : m <= i
  <1> DEFINE R == OpToRel(<, Nat)
  <1>1. \A x, y \in Nat : x < y => <<x, y>> \in R
    BY DEF OpToRel
  <1>2. IsWellFoundedOn(R, Nat)
    BY NatLessThanWellFounded
  <1> HIDE DEF R
  <1>3. PICK m \in S : \A y \in S : ~ (<<y, m>> \in R)
    BY <1>2, WFMin
  <1>4. \A i \in S : ~(i < m)
    BY <1>1, <1>3
  <1>5. \A i \in S : i \in Nat /\ m \in Nat
    OBVIOUS
  <1> QED
    BY <1>4, <1>5

\* What holds at 0 and is handed on holds up to n.
LEMMA CountingUp ==
    ASSUME NEW n \in Nat, NEW S, 0 \in S, \A i \in 1 .. n : i - 1 \in S => i \in S
    PROVE  n \in S /\ \A i \in 0 .. n : i \in S
  <1> DEFINE missed == (0 .. n) \ S
  <1>1. ASSUME missed # {} PROVE FALSE
    <2>1. missed \in SUBSET Nat
      OBVIOUS
    <2> HIDE DEF missed
    <2>2. PICK m \in missed : \A i \in missed : m <= i
      BY <1>1, <2>1, Least
    <2>3. m \in 1 .. n /\ m - 1 \in 0 .. n
      BY <2>2 DEF missed
    <2>4. m - 1 \notin missed
      BY <2>2, <2>3
    <2> QED
      BY <2>2, <2>3, <2>4 DEF missed
  <1> QED
    BY <1>1

-----------------------------------------------------------------------------
(* Units.                                                                    *)

\* Word characters are whole, and no mark of direction is one.
LEMMA UnitKinds ==
    /\ High \in Unit /\ Low \in Unit /\ Pin \in Unit /\ High # Low /\ Pin # Low /\ Pin # High
    /\ ~IsWordChar(Pin) /\ ~IsWordChar(High) /\ ~IsWordChar(Low)
    /\ \A cls \in CharClasses : Whole(cls) \in Unit /\ Whole(cls) # Low /\ Whole(cls) # High
    /\ IsWordChar(Whole("letter")) /\ IsWordChar(Whole("mark"))
    /\ "letter" \in CharClasses /\ "mark" \in CharClasses
  BY DEF High, Low, Pin, Whole, Unit, IsWordChar, CharClasses

\* A suffix, unit by unit.
LEMMA Suffixed ==
    ASSUME NEW s \in Seq(Unit), NEW t \in Seq(Unit)
    PROVE  IsSuffix(s, t) <=> /\ Len(s) <= Len(t)
                              /\ \A i \in 1 .. Len(s) : s[i] = t[Len(t) - Len(s) + i]
  <1> DEFINE r == Reverse(s)
             q == Reverse(t)
             m == Len(s)
  <1>1. m \in Nat /\ Len(t) \in Nat
    OBVIOUS
  <1>2. /\ r \in Seq(Unit) /\ Len(r) = m
        /\ \A i \in 1 .. m : r[i] = s[m - i + 1]
    BY DEF Reverse
  <1>3. /\ q \in Seq(Unit) /\ Len(q) = Len(t)
        /\ \A i \in 1 .. Len(t) : q[i] = t[Len(t) - i + 1]
    BY DEF Reverse
  <1>4. IsSuffix(s, t) <=> m <= Len(t) /\ SubSeq(r, 1, m) = SubSeq(q, 1, m)
    BY <1>2, <1>3 DEF IsSuffix, IsPrefix
  <1>5. ASSUME m <= Len(t)
        PROVE  SubSeq(r, 1, m) = SubSeq(q, 1, m) <=> \A i \in 1 .. m : r[i] = q[i]
    <2> HIDE DEF r, q, m
    <2>1. \A i \in 1 .. m : r[i] \in Unit /\ q[i] \in Unit
      BY <1>1, <1>2, <1>3, <1>5, ElementOfSeq
    <2>2. /\ SubSeq(r, 1, m) \in Seq(Unit) /\ Len(SubSeq(r, 1, m)) = m
          /\ \A i \in 1 .. m : SubSeq(r, 1, m)[i] = r[i]
      BY <1>1, <2>1, SubSeqProperties
    <2>3. /\ SubSeq(q, 1, m) \in Seq(Unit) /\ Len(SubSeq(q, 1, m)) = m
          /\ \A i \in 1 .. m : SubSeq(q, 1, m)[i] = q[i]
      BY <1>1, <2>1, SubSeqProperties
    <2> QED
      BY <2>2, <2>3, SeqEqual
  <1>6. ASSUME m <= Len(t)
        PROVE  (\A i \in 1 .. m : r[i] = q[i]) <=> \A i \in 1 .. m : s[i] = t[Len(t) - m + i]
    <2> HIDE DEF r, q, m
    <2>1. ASSUME \A i \in 1 .. m : r[i] = q[i], NEW i \in 1 .. m
          PROVE  s[i] = t[Len(t) - m + i]
      <3>1. m - i + 1 \in 1 .. m /\ m - i + 1 \in 1 .. Len(t)
        BY <1>1, <1>6
      <3>2. r[m - i + 1] = q[m - i + 1]
        BY <2>1, <3>1
      <3>3. m - (m - i + 1) + 1 = i /\ Len(t) - (m - i + 1) + 1 = Len(t) - m + i
        BY <1>1
      <3> QED
        BY <1>2, <1>3, <3>1, <3>2, <3>3
    <2>2. ASSUME \A i \in 1 .. m : s[i] = t[Len(t) - m + i], NEW i \in 1 .. m
          PROVE  r[i] = q[i]
      <3>1. m - i + 1 \in 1 .. m /\ i \in 1 .. Len(t)
        BY <1>1, <1>6
      <3>2. s[m - i + 1] = t[Len(t) - m + (m - i + 1)]
        BY <2>2, <3>1
      <3>3. Len(t) - m + (m - i + 1) = Len(t) - i + 1
        BY <1>1
      <3> QED
        BY <1>2, <1>3, <3>1, <3>2, <3>3
    <2> QED
      BY <2>1, <2>2
  <1> QED
    BY <1>4, <1>5, <1>6

-----------------------------------------------------------------------------
(* Code points.                                                              *)

\* The code point before a position begins inside the text.
LEMMA PreviousInside ==
    ASSUME NEW t \in Seq(Unit), NEW p \in 0 .. Len(t)
    PROVE  /\ Previous(t, p) \in 0 .. Len(t)
           /\ Previous(t, p) <= p /\ p - 2 <= Previous(t, p)
           /\ p > 0 => Previous(t, p) < p
  BY DEF Previous

\* The function in the definition of Back is defined one step at a time.
LEMMA Steps ==
    ASSUME NEW t \in Seq(Unit), NEW n \in Nat
    PROVE  \E f \in [0 .. n -> 0 .. Len(t)] :
              /\ f = [i \in 0 .. n |-> IF i = 0 THEN Len(t) ELSE Previous(t, f[i - 1])]
              /\ Back(t, n) = f[n]
  <1> DEFINE step(f, m) == [i \in 0 .. m |-> IF i = 0 THEN Len(t) ELSE Previous(t, f[i - 1])]
             S == {m \in 0 .. n : \E f \in [0 .. m -> 0 .. Len(t)] : f = step(f, m)}
  <1>1. 0 \in S
    <2> DEFINE f == [i \in 0 .. 0 |-> Len(t)]
    <2>1. f \in [0 .. 0 -> 0 .. Len(t)] /\ f = step(f, 0) /\ 0 \in 0 .. n
      OBVIOUS
    <2> HIDE DEF f
    <2>2. \E e \in [0 .. 0 -> 0 .. Len(t)] : e = step(e, 0)
      BY <2>1
    <2> QED
      BY <2>1, <2>2
  <1>2. ASSUME NEW m \in 1 .. n, m - 1 \in S
        PROVE  m \in S
    <2>1. PICK f \in [0 .. m - 1 -> 0 .. Len(t)] : f = step(f, m - 1)
      BY <1>2
    <2> DEFINE h == [i \in 0 .. m |-> IF i = m THEN Previous(t, f[m - 1]) ELSE f[i]]
    <2>2. \A i \in 0 .. m : i # m => i \in 0 .. m - 1
      OBVIOUS
    <2>3. m - 1 \in 0 .. m - 1
      OBVIOUS
    <2>4. Previous(t, f[m - 1]) \in 0 .. Len(t)
      BY <2>1, <2>3, PreviousInside
    <2>5. h \in [0 .. m -> 0 .. Len(t)]
      BY <2>1, <2>2, <2>4
    <2>6. ASSUME NEW i \in 0 .. m
          PROVE  h[i] = IF i = 0 THEN Len(t) ELSE Previous(t, h[i - 1])
      <3>1. i # 0 => i - 1 \in 0 .. m - 1 /\ i - 1 # m /\ i - 1 \in 0 .. m
        OBVIOUS
      <3>2. i # 0 => h[i - 1] = f[i - 1]
        BY <3>1
      <3>3. i # m => h[i] = f[i] /\ i \in 0 .. m - 1
        BY <2>2
      <3>4. i # m => f[i] = IF i = 0 THEN Len(t) ELSE Previous(t, f[i - 1])
        BY <2>1, <3>3
      <3>5. i = m => h[i] = Previous(t, f[m - 1]) /\ i # 0
        OBVIOUS
      <3> HIDE DEF h
      <3> QED
        BY <3>2, <3>3, <3>4, <3>5
    <2>7. h = step(h, m)
      <3>1. h = [i \in 0 .. m |-> h[i]]
        OBVIOUS
      <3> HIDE DEF h
      <3> QED
        BY <2>6, <3>1
    <2> HIDE DEF h
    <2>8. \E e \in [0 .. m -> 0 .. Len(t)] : e = step(e, m)
      BY <2>5, <2>7
    <2>9. m \in 0 .. n
      OBVIOUS
    <2> HIDE DEF step
    <2> QED
      BY <2>8, <2>9
  <1>3. n \in S
    <2> HIDE DEF S
    <2> QED
      BY <1>1, <1>2, CountingUp
  <1>4. PICK f \in [0 .. n -> 0 .. Len(t)] : f = step(f, n)
    BY <1>3
  <1> DEFINE g == CHOOSE g : g = step(g, n)
  <1>5. g = step(g, n)
    <2> HIDE DEF step
    <2> QED
      BY <1>4
  <1>6. Back(t, n) = g[n]
    BY DEF Back
  <1>7. \A i \in 0 .. n : g[i] \in 0 .. Len(t)
    <2> HIDE DEF g
    <2> DEFINE T == {i \in 0 .. n : g[i] \in 0 .. Len(t)}
    <2>1. 0 \in T
      BY <1>5
    <2>2. ASSUME NEW i \in 1 .. n, i - 1 \in T
          PROVE  i \in T
      <3>1. g[i - 1] \in 0 .. Len(t)
        BY <2>2
      <3>2. g[i] = Previous(t, g[i - 1])
        BY <1>5
      <3>3. g[i] \in 0 .. Len(t)
        BY <3>1, <3>2, PreviousInside
      <3> QED
        BY <3>3
    <2> HIDE DEF T
    <2>3. \A i \in 0 .. n : i \in T
      BY <2>1, <2>2, CountingUp
    <2> QED
      BY <2>3 DEF T
  <1>8. g \in [0 .. n -> 0 .. Len(t)]
    <2> HIDE DEF g
    <2>1. g = [i \in 0 .. n |-> g[i]]
      BY <1>5
    <2> QED
      BY <1>7, <2>1
  <1> HIDE DEF g
  <1> QED
    BY <1>5, <1>6, <1>8

\* One code point further back.
LEMMA BackByOne ==
    ASSUME NEW t \in Seq(Unit)
    PROVE  /\ Back(t, 0) = Len(t)
           /\ \A n \in Nat : /\ Back(t, n) \in 0 .. Len(t)
                            /\ Back(t, n + 1) = Previous(t, Back(t, n))
  <1>1. Back(t, 0) = Len(t)
    <2>1. PICK f \in [0 .. 0 -> 0 .. Len(t)] :
              /\ f = [i \in 0 .. 0 |-> IF i = 0 THEN Len(t) ELSE Previous(t, f[i - 1])]
              /\ Back(t, 0) = f[0]
      <3>1. 0 \in Nat
        OBVIOUS
      <3> QED
        BY <3>1, Steps
    <2> QED
      BY <2>1
  <1>2. ASSUME NEW n \in Nat
        PROVE  /\ Back(t, n) \in 0 .. Len(t)
               /\ Back(t, n + 1) = Previous(t, Back(t, n))
    <2>1. PICK f \in [0 .. n -> 0 .. Len(t)] :
              /\ f = [i \in 0 .. n |-> IF i = 0 THEN Len(t) ELSE Previous(t, f[i - 1])]
              /\ Back(t, n) = f[n]
      BY Steps
    <2>2. PICK g \in [0 .. n + 1 -> 0 .. Len(t)] :
              /\ g = [i \in 0 .. n + 1 |-> IF i = 0 THEN Len(t) ELSE Previous(t, g[i - 1])]
              /\ Back(t, n + 1) = g[n + 1]
      <3>1. n + 1 \in Nat
        OBVIOUS
      <3> QED
        BY <3>1, Steps
    <2> DEFINE S == {i \in 0 .. n : f[i] = g[i]}
    <2>3. 0 \in S
      <3>1. 0 \in 0 .. n /\ 0 \in 0 .. n + 1
        OBVIOUS
      <3> QED
        BY <2>1, <2>2, <3>1
    <2>4. ASSUME NEW i \in 1 .. n, i - 1 \in S
          PROVE  i \in S
      <3>1. i \in 0 .. n /\ i \in 0 .. n + 1 /\ i # 0
        OBVIOUS
      <3>2. f[i] = Previous(t, f[i - 1]) /\ g[i] = Previous(t, g[i - 1])
        BY <2>1, <2>2, <3>1
      <3> QED
        BY <2>4, <3>1, <3>2
    <2>5. n \in S
      <3> HIDE DEF S
      <3> QED
        BY <2>3, <2>4, CountingUp
    <2>6. g[n + 1] = Previous(t, g[n])
      <3>1. n + 1 \in 0 .. n + 1 /\ n + 1 # 0 /\ n + 1 - 1 = n
        OBVIOUS
      <3> QED
        BY <2>2, <3>1
    <2> QED
      BY <2>1, <2>2, <2>5, <2>6
  <1> QED
    BY <1>1, <1>2

\* A deletion stops between two code points, and takes a unit at least for each
\* code point until the text is gone.
LEMMA BackBounds ==
    ASSUME NEW t \in Seq(Unit), NEW n \in Nat
    PROVE  /\ Back(t, n) \in Positions(t)
           /\ Back(t, n) + n <= Len(t) \/ Back(t, n) = 0
  <1> DEFINE S == {i \in 0 .. n : /\ Back(t, i) \in Positions(t)
                                  /\ Back(t, i) + i <= Len(t) \/ Back(t, i) = 0}
  <1>1. 0 \in S
    BY BackByOne DEF Positions
  <1>2. ASSUME NEW i \in 1 .. n, i - 1 \in S
        PROVE  i \in S
    <2> DEFINE p == Back(t, i - 1)
    <2>1. i - 1 \in Nat /\ i - 1 + 1 = i
      OBVIOUS
    <2>2. Back(t, i) = Previous(t, p) /\ p \in 0 .. Len(t)
      BY <2>1, BackByOne
    <2>3. p + i - 1 <= Len(t) \/ p = 0
      BY <1>2
    <2> HIDE DEF p
    <2>4. Previous(t, p) \in Positions(t)
      BY <2>2, UnitKinds DEF Previous, Positions, Begins
    <2>5. Previous(t, p) + i <= Len(t) \/ Previous(t, p) = 0
      BY <2>2, <2>3 DEF Previous
    <2> QED
      BY <2>2, <2>4, <2>5
  <1>3. n \in S
    <2> HIDE DEF S
    <2> QED
      BY <1>1, <1>2, CountingUp
  <1> QED
    BY <1>3

\* One more unit at the end, not the second half of a pair, is one more to delete.
LEMMA BackPastOne ==
    ASSUME NEW t \in Seq(Unit), NEW x \in Unit, x # Low, NEW n \in Nat
    PROVE  Back(t \o <<x>>, n + 1) = Back(t, n)
  <1> DEFINE r == t \o <<x>>
             S == {i \in 0 .. n : Back(r, i + 1) = Back(t, i)}
  <1>1. /\ r \in Seq(Unit) /\ Len(r) = Len(t) + 1 /\ r[Len(t) + 1] = x
        /\ \A i \in 1 .. Len(t) : r[i] = t[i]
    OBVIOUS
  <1> HIDE DEF r
  <1>2. 0 \in S
    <2>1. Back(r, 1) = Previous(r, Len(r))
      BY <1>1, BackByOne
    <2>2. Previous(r, Len(r)) = Len(t)
      BY <1>1 DEF Previous, Begins
    <2> QED
      BY <2>1, <2>2, BackByOne
  <1>3. ASSUME NEW i \in 1 .. n, i - 1 \in S
        PROVE  i \in S
    <2>1. i - 1 \in Nat /\ i - 1 + 1 = i
      OBVIOUS
    <2>2. Back(r, i + 1) = Previous(r, Back(r, i)) /\ Back(t, i) = Previous(t, Back(t, i - 1))
      <3>1. i \in Nat
        OBVIOUS
      <3>2. Back(r, i + 1) = Previous(r, Back(r, i))
        BY <1>1, <3>1, BackByOne
      <3>3. Back(t, i - 1 + 1) = Previous(t, Back(t, i - 1))
        BY <2>1, BackByOne
      <3> QED
        BY <2>1, <3>2, <3>3
    <2>3. Back(r, i) = Back(t, i - 1) /\ Back(t, i - 1) \in 0 .. Len(t)
      BY <1>3, <2>1, BackByOne
    <2>4. \A p \in 0 .. Len(t) : Previous(r, p) = Previous(t, p)
      BY <1>1 DEF Previous, Begins
    <2> QED
      BY <2>2, <2>3, <2>4
  <1>4. n \in S
    <2> HIDE DEF S
    <2> QED
      BY <1>2, <1>3, CountingUp
  <1> QED
    BY <1>4 DEF r

\* Where no pair ends, code points are units.
LEMMA BackByUnits ==
    ASSUME NEW t \in Seq(Unit), NEW n \in 0 .. Len(t),
           \A i \in Len(t) - n + 1 .. Len(t) : t[i] # Low
    PROVE  Back(t, n) = Len(t) - n
  <1> DEFINE S == {i \in 0 .. n : Back(t, i) = Len(t) - i}
  <1>1. 0 \in S
    BY BackByOne
  <1>2. ASSUME NEW i \in 1 .. n, i - 1 \in S
        PROVE  i \in S
    <2>1. i - 1 \in Nat /\ i - 1 + 1 = i
      OBVIOUS
    <2>2. Back(t, i) = Previous(t, Len(t) - i + 1)
      BY <1>2, <2>1, BackByOne
    <2>3. Previous(t, Len(t) - i + 1) = Len(t) - i
      BY DEF Previous, Begins
    <2> QED
      BY <2>2, <2>3
  <1>3. n \in S
    <2> HIDE DEF S
    <2> QED
      BY <1>1, <1>2, CountingUp
  <1> QED
    BY <1>3

-----------------------------------------------------------------------------
(* Texts and positions.                                                      *)

\* Well-formedness, between two neighbours and at the ends.
LEMMA Paired ==
    ASSUME NEW t \in Seq(Unit)
    PROVE  WellFormed(t) <=>
              /\ \A i, j \in 1 .. Len(t) : j = i + 1 => (t[i] = High <=> t[j] = Low)
              /\ \A i \in 1 .. Len(t) : (i = 1 => t[i] # Low) /\ (i = Len(t) => t[i] # High)
  <1>1. DOMAIN t = 1 .. Len(t) /\ Len(t) \in Nat
    OBVIOUS
  <1>2. ASSUME WellFormed(t), NEW i \in 1 .. Len(t), NEW j \in 1 .. Len(t), j = i + 1
        PROVE  t[i] = High <=> t[j] = Low
    <2>1. t[i] = High => t[i + 1] = Low
      BY <1>1, <1>2 DEF WellFormed
    <2>2. t[j] = Low => t[j - 1] = High
      BY <1>1, <1>2 DEF WellFormed
    <2>3. j - 1 = i
      BY <1>1, <1>2
    <2> QED
      BY <1>2, <2>1, <2>2, <2>3
  <1>3. ASSUME WellFormed(t), NEW i \in 1 .. Len(t)
        PROVE  (i = 1 => t[i] # Low) /\ (i = Len(t) => t[i] # High)
    <2>1. /\ t[i] = High => i < Len(t)
          /\ t[i] = Low => i > 1
      BY <1>1, <1>3 DEF WellFormed
    <2>2. ~(1 > 1) /\ ~(Len(t) < Len(t))
      BY <1>1
    <2> QED
      BY <2>1, <2>2
  <1>4. ASSUME \A i, j \in 1 .. Len(t) : j = i + 1 => (t[i] = High <=> t[j] = Low),
               \A i \in 1 .. Len(t) : (i = 1 => t[i] # Low) /\ (i = Len(t) => t[i] # High),
               NEW i \in 1 .. Len(t)
        PROVE  /\ t[i] = High => i < Len(t) /\ t[i + 1] = Low
               /\ t[i] = Low => i > 1 /\ t[i - 1] = High
    <2>1. i < Len(t) => i + 1 \in 1 .. Len(t)
      BY <1>1
    <2>2. i > 1 => i - 1 \in 1 .. Len(t) /\ i = i - 1 + 1
      BY <1>1
    <2> DEFINE n == Len(t)
    <2>3. i \in 1 .. n /\ n \in Nat
      BY <1>1
    <2> HIDE DEF n
    <2>4. (i < n \/ i = n) /\ (i > 1 \/ i = 1)
      BY <2>3
    <2> QED
      BY <1>4, <2>1, <2>2, <2>4 DEF n
  <1> QED
    BY <1>1, <1>2, <1>3, <1>4 DEF WellFormed

\* In a well-formed text a cursor is anywhere but before the second half of a pair.
LEMMA PositionsPlain ==
    ASSUME NEW t \in Seq(Unit), WellFormed(t), NEW p \in 0 .. Len(t)
    PROVE  p \in Positions(t) <=> p = Len(t) \/ t[p + 1] # Low
  <1>1. ASSUME p # Len(t), t[p + 1] = Low
        PROVE  p + 1 > 1 /\ t[p + 1 - 1] = High
    <2>1. p + 1 \in 1 .. Len(t) /\ p + 1 - 1 = p
      BY <1>1
    <2>2. p # 0
      BY <1>1, <2>1, Paired
    <2>3. p \in 1 .. Len(t)
      BY <2>2
    <2> QED
      BY <1>1, <2>1, <2>3, Paired
  <1> QED
    BY <1>1 DEF Positions, Begins

\* A text cut at a position, or two joined, are well formed.
LEMMA CutBefore ==
    ASSUME NEW t \in Seq(Unit), WellFormed(t), NEW p \in Positions(t)
    PROVE  /\ SubSeq(t, 1, p) \in Seq(Unit) /\ Len(SubSeq(t, 1, p)) = p
           /\ \A i \in 1 .. p : SubSeq(t, 1, p)[i] = t[i]
           /\ WellFormed(SubSeq(t, 1, p))
  <1> DEFINE s == SubSeq(t, 1, p)
  <1>1. p \in 0 .. Len(t) /\ Len(t) \in Nat
    BY DEF Positions
  <1>2. s \in Seq(Unit) /\ Len(s) = p /\ \A i \in 1 .. p : s[i] = t[i]
    BY <1>1
  <1>3. p = Len(t) \/ t[p + 1] # Low
    BY <1>1, PositionsPlain
  <1> HIDE DEF s
  <1>4. ASSUME NEW i \in 1 .. p, NEW j \in 1 .. p, j = i + 1
        PROVE  s[i] = High <=> s[j] = Low
    <2>1. i \in 1 .. Len(t) /\ j \in 1 .. Len(t)
      BY <1>1
    <2> QED
      BY <1>2, <1>4, <2>1, Paired
  <1>5. ASSUME NEW i \in 1 .. p
        PROVE  (i = 1 => s[i] # Low) /\ (i = p => s[i] # High)
    <2>1. i \in 1 .. Len(t) /\ (i # Len(t) => i + 1 \in 1 .. Len(t))
      BY <1>1
    <2> QED
      BY <1>2, <1>3, <2>1, Paired
  <1>6. WellFormed(s)
    BY <1>2, <1>4, <1>5, Paired
  <1> QED
    BY <1>2, <1>6 DEF s

\* So does what follows one.
LEMMA CutAfter ==
    ASSUME NEW t \in Seq(Unit), WellFormed(t), NEW p \in Positions(t)
    PROVE  /\ SubSeq(t, p + 1, Len(t)) \in Seq(Unit)
           /\ Len(SubSeq(t, p + 1, Len(t))) = Len(t) - p
           /\ \A i \in 1 .. Len(t) - p : SubSeq(t, p + 1, Len(t))[i] = t[i + p]
           /\ WellFormed(SubSeq(t, p + 1, Len(t)))
  <1> DEFINE s == SubSeq(t, p + 1, Len(t))
             m == Len(t) - p
  <1>1. p \in 0 .. Len(t) /\ Len(t) \in Nat /\ m \in Nat
    BY DEF Positions
  <1>2. s \in Seq(Unit) /\ Len(s) = m /\ \A i \in 1 .. m : s[i] = t[i + p]
    BY <1>1
  <1>3. p = Len(t) \/ t[p + 1] # Low
    BY <1>1, PositionsPlain
  <1>4. \A i \in 1 .. m : i + p \in 1 .. Len(t)
    BY <1>1
  <1>5. \A i \in 1 .. m : i = m => i + p = Len(t)
    BY <1>1
  <1>6. \A i, j \in 1 .. m : j = i + 1 => j + p = i + p + 1
    BY <1>1
  <1>7. 1 \in 1 .. m => 1 + p = p + 1 /\ p # Len(t)
    BY <1>1
  <1> HIDE DEF s, m
  <1>8. ASSUME NEW i \in 1 .. m, NEW j \in 1 .. m, j = i + 1
        PROVE  s[i] = High <=> s[j] = Low
    BY <1>2, <1>4, <1>6, <1>8, Paired
  <1>9. ASSUME NEW i \in 1 .. m
        PROVE  (i = 1 => s[i] # Low) /\ (i = m => s[i] # High)
    BY <1>2, <1>3, <1>4, <1>5, <1>7, Paired
  <1>10. WellFormed(s)
    BY <1>2, <1>8, <1>9, Paired
  <1> QED
    BY <1>2, <1>10 DEF s, m

\* Well-formed texts make a well-formed text.
LEMMA Glue ==
    ASSUME NEW s \in Seq(Unit), NEW t \in Seq(Unit), WellFormed(s), WellFormed(t)
    PROVE  /\ s \o t \in Seq(Unit) /\ Len(s \o t) = Len(s) + Len(t)
           /\ \A i \in 1 .. Len(s) : (s \o t)[i] = s[i]
           /\ \A i \in 1 .. Len(t) : (s \o t)[i + Len(s)] = t[i]
           /\ WellFormed(s \o t)
  <1> DEFINE r == s \o t
             m == Len(s)
  <1>1. /\ r \in Seq(Unit) /\ Len(r) = m + Len(t)
        /\ \A i \in 1 .. m : r[i] = s[i]
        /\ \A i \in 1 .. Len(t) : r[i + m] = t[i]
        /\ m \in Nat /\ Len(t) \in Nat
    OBVIOUS
  <1> HIDE DEF r, m
  <1>2. \A i \in 1 .. Len(r) : i \in 1 .. m \/ i - m \in 1 .. Len(t)
    BY <1>1
  <1>3. \A i \in 1 .. Len(r) : i - m \in 1 .. Len(t) => r[i] = t[i - m]
    <2> TAKE i \in 1 .. Len(r)
    <2> HAVE i - m \in 1 .. Len(t)
    <2>1. i - m + m = i
      BY <1>1
    <2> QED
      BY <1>1, <2>1
  <1>4. ASSUME NEW i \in 1 .. Len(r), NEW j \in 1 .. Len(r), j = i + 1
        PROVE  r[i] = High <=> r[j] = Low
    <2>1. CASE j \in 1 .. m
      <3>1. i \in 1 .. m
        BY <1>1, <1>4, <2>1
      <3> QED
        BY <1>1, <1>4, <2>1, <3>1, Paired DEF m
    <2>2. CASE i - m \in 1 .. Len(t)
      <3>1. j - m \in 1 .. Len(t) /\ j - m = i - m + 1
        BY <1>1, <1>4, <2>2
      <3> QED
        BY <1>3, <2>2, <3>1, Paired
    <2>3. CASE i = m /\ j - m = 1
      <3>1. i \in 1 .. m /\ j - m \in 1 .. Len(t)
        BY <1>1, <1>4, <2>3, SMTT(30)
      <3>2. s[i] # High
        BY <2>3, <3>1, Paired DEF m
      <3>3. t[j - m] # Low
        BY <2>3, <3>1, Paired
      <3>4. r[i] = s[i] /\ r[j] = t[j - m]
        BY <1>1, <1>3, <3>1
      <3> QED
        BY <3>2, <3>3, <3>4
    <2>4. j \in 1 .. m \/ i - m \in 1 .. Len(t) \/ (i = m /\ j - m = 1)
      BY <1>1, <1>4
    <2> QED
      BY <2>1, <2>2, <2>3, <2>4
  <1>5. ASSUME NEW i \in 1 .. Len(r)
        PROVE  (i = 1 => r[i] # Low) /\ (i = Len(r) => r[i] # High)
    <2>1. CASE i \in 1 .. m
      <3>1. i = Len(r) => i = m
        BY <1>1, <2>1
      <3> QED
        BY <1>1, <2>1, <3>1, Paired DEF m
    <2>2. CASE i - m \in 1 .. Len(t)
      <3>1. /\ i = Len(r) => i - m = Len(t)
            /\ i = 1 => i - m = 1
        BY <1>1, <2>2
      <3> QED
        BY <1>3, <2>2, <3>1, Paired
    <2> QED
      BY <1>2, <2>1, <2>2
  <1>6. WellFormed(r)
    BY <1>1, <1>4, <1>5, Paired
  <1> QED
    BY <1>1, <1>6 DEF r, m

\* Two texts joined: the cursor may stand between them, and the first is before it.
LEMMA Joined ==
    ASSUME NEW s \in Seq(Unit), NEW t \in Seq(Unit), WellFormed(s), WellFormed(t)
    PROVE  /\ Len(s) \in Positions(s \o t)
           /\ SubSeq(s \o t, 1, Len(s)) = s
  <1> DEFINE r == s \o t
             m == Len(s)
  <1>1. /\ r \in Seq(Unit) /\ Len(r) = m + Len(t) /\ WellFormed(r)
        /\ \A i \in 1 .. m : r[i] = s[i]
        /\ \A i \in 1 .. Len(t) : r[i + m] = t[i]
    BY Glue
  <1>2. m \in Nat /\ Len(t) \in Nat /\ m \in 0 .. Len(r)
    BY <1>1
  <1> HIDE DEF r
  <1>3. ASSUME m # Len(r) PROVE r[m + 1] # Low
    <2>1. 1 \in 1 .. Len(t) /\ 1 + m = m + 1
      BY <1>1, <1>2, <1>3
    <2>2. t[1] # Low
      BY <2>1, Paired
    <2> QED
      BY <1>1, <2>1, <2>2
  <1>4. m \in Positions(r)
    BY <1>1, <1>2, <1>3, PositionsPlain
  <1>5. SubSeq(r, 1, m) = s
    <2>1. /\ SubSeq(r, 1, m) \in Seq(Unit) /\ Len(SubSeq(r, 1, m)) = m
          /\ \A i \in 1 .. m : SubSeq(r, 1, m)[i] = r[i]
      BY <1>1, <1>4, CutBefore
    <2> QED
      BY <1>1, <2>1, SeqEqual
  <1> QED
    BY <1>4, <1>5 DEF r

-----------------------------------------------------------------------------
(* The editor.                                                               *)

Selection == [from : Nat, to : Nat]

\* A document an editor can hold.
Sound(doc) ==
    /\ doc \in [text : Seq(Unit), sel : Selection]
    /\ WellFormed(doc.text)
    /\ doc.sel.from \in Positions(doc.text) /\ doc.sel.to \in Positions(doc.text)
    /\ doc.sel.from <= doc.sel.to

\* What the keyboard commits: no half of a pair.
Plain == {s \in Seq(Unit) : \A i \in 1 .. Len(s) : s[i] # High /\ s[i] # Low}
Edit == {CommitText(new, cursor) : new \in Plain, cursor \in {0, 1}}
            \cup {DeleteBefore(n) : n \in Nat}
Batches == {<<e>> : e \in Edit} \cup {<<e, d>> : e, d \in Edit}

\* What stands before the cursor of a document is well-formed.
LEMMA LeftOf ==
    ASSUME NEW doc, Sound(doc)
    PROVE  /\ Left(doc) \in Seq(Unit) /\ WellFormed(Left(doc))
           /\ Len(Left(doc)) = doc.sel.from
           /\ \A i \in 1 .. doc.sel.from : Left(doc)[i] = doc.text[i]
           /\ doc.sel.from \in 0 .. Len(doc.text)
           /\ doc.text \in Seq(Unit) /\ doc.sel \in Selection
  <1>1. doc.text \in Seq(Unit) /\ doc.sel \in Selection
    BY DEF Sound
  <1>2. doc.sel.from \in 0 .. Len(doc.text)
    BY DEF Sound, Positions
  <1> QED
    BY <1>1, <1>2, CutBefore DEF Sound, Left

\* An insertion leaves a document, with new before the cursor or after it.
LEMMA Inserting ==
    ASSUME NEW doc, Sound(doc), NEW new \in Plain, NEW cursor \in {0, 1}
    PROVE  /\ Sound(Inserted(doc, new, cursor))
           /\ Left(Inserted(doc, new, cursor)) = IF cursor = 1 THEN Left(doc) \o new ELSE Left(doc)
  <1> DEFINE L == Left(doc)
             R == Right(doc)
             r == L \o new \o R
             p == Len(L) + IF cursor = 1 THEN Len(new) ELSE 0
  <1>1. L \in Seq(Unit) /\ WellFormed(L) /\ Len(L) = doc.sel.from
    BY LeftOf
  <1>2. R \in Seq(Unit) /\ WellFormed(R)
    BY CutAfter DEF Sound, Right
  <1>3. new \in Seq(Unit) /\ WellFormed(new)
    BY DEF Plain, WellFormed
  <1>4. L \o new \in Seq(Unit) /\ Len(L \o new) = Len(L) + Len(new) /\ WellFormed(L \o new)
    BY <1>1, <1>3, Glue
  <1>5. new \o R \in Seq(Unit) /\ WellFormed(new \o R)
    BY <1>2, <1>3, Glue
  <1>6. r \in Seq(Unit) /\ WellFormed(r)
    BY <1>2, <1>4, Glue
  <1>7. r = L \o (new \o R)
    BY <1>1, <1>2, <1>3, ConcatAssociative
  <1>8. ASSUME cursor = 1
        PROVE  p \in Positions(r) /\ SubSeq(r, 1, p) = L \o new
    <2>1. p = Len(L \o new)
      BY <1>4, <1>8
    <2>2. p \in Positions(r) /\ SubSeq(r, 1, p) = L \o new
      BY <1>2, <1>4, <2>1, Joined
    <2> QED
      BY <2>2
  <1>9. ASSUME cursor = 0
        PROVE  p \in Positions(r) /\ SubSeq(r, 1, p) = L
    <2>1. p = Len(L)
      BY <1>1, <1>9
    <2>2. p \in Positions(r) /\ SubSeq(r, 1, p) = L
      BY <1>1, <1>5, <1>7, <2>1, Joined
    <2> QED
      BY <2>2
  <1>10. p \in Positions(r) /\ SubSeq(r, 1, p) = IF cursor = 1 THEN L \o new ELSE L
    BY <1>8, <1>9
  <1>11. p \in Nat
    BY <1>10 DEF Positions
  <1>12. Inserted(doc, new, cursor) = Doc(r, At(p))
    BY <1>1 DEF Inserted
  <1> HIDE DEF r, p, L
  <1>13. Sound(Doc(r, At(p)))
    BY <1>6, <1>10, <1>11 DEF Sound, Doc, At, Selection
  <1>14. Left(Doc(r, At(p))) = SubSeq(r, 1, p)
    BY DEF Left, Doc, At
  <1> QED
    BY <1>10, <1>12, <1>13, <1>14 DEF L

\* A deletion takes n code points from what stands before the cursor.
LEMMA Erasing ==
    ASSUME NEW doc, Sound(doc), NEW n \in Nat
    PROVE  /\ Sound(Erased(doc, n))
           /\ Left(Erased(doc, n)) = SubSeq(Left(doc), 1, Back(Left(doc), n))
  <1> DEFINE L == Left(doc)
             t == doc.text
             from == doc.sel.from
             to == doc.sel.to
             start == Back(L, n)
             A == SubSeq(t, 1, start)
             B == SubSeq(t, from + 1, Len(t))
             r == A \o B
             q == to - (from - start)
  <1>1. /\ L \in Seq(Unit) /\ WellFormed(L) /\ Len(L) = from
        /\ \A i \in 1 .. from : L[i] = t[i]
        /\ from \in 0 .. Len(t) /\ t \in Seq(Unit) /\ Len(t) \in Nat
    BY LeftOf
  <1>2. WellFormed(t) /\ from \in Positions(t) /\ to \in Positions(t) /\ from <= to
    BY DEF Sound
  <1>3. to \in 0 .. Len(t)
    BY <1>2 DEF Positions
  <1>4. start \in Positions(L) /\ start \in 0 .. from
    <2>1. start \in Positions(L)
      BY <1>1, BackBounds
    <2> QED
      BY <1>1, <2>1 DEF Positions
  <1> HIDE DEF L, t, from, to, start
  <1>5. start \in Positions(t)
    <2>1. CASE start = from
      BY <1>2, <2>1
    <2>2. CASE start # from
      <3>1. start + 1 \in 1 .. from /\ start \in 0 .. Len(t)
        BY <1>1, <1>4, <2>2
      <3>2. L[start + 1] # Low
        BY <1>1, <1>4, <2>2, PositionsPlain
      <3> QED
        BY <1>1, <1>2, <3>1, <3>2, PositionsPlain
    <2> QED
      BY <2>1, <2>2
  <1>6. /\ A \in Seq(Unit) /\ Len(A) = start /\ WellFormed(A)
        /\ \A i \in 1 .. start : A[i] = t[i]
    BY <1>1, <1>2, <1>5, CutBefore
  <1>7. /\ B \in Seq(Unit) /\ Len(B) = Len(t) - from /\ WellFormed(B)
        /\ \A i \in 1 .. Len(t) - from : B[i] = t[i + from]
    BY <1>1, <1>2, CutAfter
  <1> HIDE DEF A, B
  <1>8. /\ r \in Seq(Unit) /\ WellFormed(r) /\ Len(r) = Len(A) + Len(B)
        /\ \A i \in 1 .. Len(B) : r[i + Len(A)] = B[i]
    BY <1>6, <1>7, Glue
  <1>9. start \in Positions(r) /\ SubSeq(r, 1, start) = A
    BY <1>6, <1>7, Joined
  <1> HIDE DEF r
  <1>10. q \in Nat /\ start <= q /\ q \in 0 .. Len(r) /\ start \in Nat
    BY <1>1, <1>2, <1>3, <1>4, <1>6, <1>7, <1>8
  <1>11. q \in Positions(r)
    <2>1. ASSUME q # Len(r) PROVE r[q + 1] # Low
      <3> DEFINE i == to - from + 1
      <3>1. i \in 1 .. Len(t) - from /\ i + from = to + 1 /\ i + Len(A) = q + 1 /\ to # Len(t)
        <4>1. Len(A) = start /\ Len(r) = start + (Len(t) - from)
          BY <1>6, <1>7, <1>8
        <4>2. /\ to \in Nat /\ from \in Nat /\ start \in Nat /\ Len(t) \in Nat
              /\ to <= Len(t)
          BY <1>1, <1>3, <1>10
        <4>3. to # Len(t)
          BY <2>1, <4>1, <4>2
        <4> QED
          BY <1>2, <4>1, <4>2, <4>3
      <3> HIDE DEF i
      <3>2. r[q + 1] = t[to + 1]
        BY <1>7, <1>8, <3>1
      <3> QED
        BY <1>1, <1>2, <1>3, <3>1, <3>2, PositionsPlain
    <2> QED
      BY <1>8, <1>10, <2>1, PositionsPlain
  <1>12. Erased(doc, n) = Doc(r, [from |-> start, to |-> q])
    BY DEF Erased, L, t, from, to, start, A, B, r
  <1>13. SubSeq(L, 1, start) = A
    <2>1. /\ SubSeq(L, 1, start) \in Seq(Unit) /\ Len(SubSeq(L, 1, start)) = start
          /\ \A i \in 1 .. start : SubSeq(L, 1, start)[i] = L[i]
      BY <1>1, <1>4, CutBefore
    <2>2. \A i \in 1 .. start : i \in 1 .. from
      BY <1>1, <1>4
    <2> QED
      <3> DEFINE C == SubSeq(L, 1, start)
      <3> HIDE DEF C
      <3>1. C \in Seq(Unit) /\ Len(C) = start /\ \A i \in 1 .. start : C[i] = L[i]
        BY <2>1, Zenon DEF C
      <3>2. \A i \in 1 .. start : C[i] = A[i]
        BY <1>1, <1>6, <2>2, <3>1
      <3>3. C = A
        BY <1>6, <3>1, <3>2, SeqEqual
      <3> QED
        BY <3>3 DEF C
  <1> HIDE DEF q
  <1>14. Sound(Doc(r, [from |-> start, to |-> q]))
    BY <1>8, <1>9, <1>10, <1>11 DEF Sound, Doc, Selection
  <1>15. Left(Doc(r, [from |-> start, to |-> q])) = SubSeq(r, 1, start)
    BY DEF Left, Doc
  <1> QED
    BY <1>9, <1>12, <1>13, <1>14, <1>15 DEF L, start

\* Every edit leaves a document, and so does a batch of them.
LEMMA Editing ==
    ASSUME NEW doc, Sound(doc), NEW e \in Edit
    PROVE  Sound(Edited(doc, e))
  <1>1. CASE \E new \in Plain, cursor \in {0, 1} : e = CommitText(new, cursor)
    <2>1. PICK new \in Plain, cursor \in {0, 1} : e = CommitText(new, cursor)
      BY <1>1
    <2>2. Edited(doc, e) = Inserted(doc, new, cursor)
      BY <2>1 DEF Edited, CommitText
    <2> QED
      BY <2>2, Inserting
  <1>2. CASE \E n \in Nat : e = DeleteBefore(n)
    <2>1. PICK n \in Nat : e = DeleteBefore(n)
      BY <1>2
    <2>2. Edited(doc, e) = Erased(doc, n)
      BY <2>1 DEF Edited, DeleteBefore
    <2> QED
      BY <2>2, Erasing
  <1> QED
    BY <1>1, <1>2 DEF Edit

\* A batch leaves a document.
LEMMA Applying ==
    ASSUME NEW doc, Sound(doc), NEW batch \in Batches
    PROVE  Sound(Applied(doc, batch))
  <1>1. CASE \E e \in Edit : batch = <<e>>
    <2>1. PICK e \in Edit : batch = <<e>>
      BY <1>1
    <2>2. Applied(doc, batch) = Edited(doc, e)
      BY <2>1 DEF Applied
    <2> QED
      BY <2>2, Editing
  <1>2. CASE \E e, d \in Edit : batch = <<e, d>>
    <2>1. PICK e \in Edit, d \in Edit : batch = <<e, d>>
      BY <1>2
    <2>2. Applied(doc, batch) = Edited(Edited(doc, e), d)
      BY <2>1 DEF Applied
    <2> QED
      BY <2>2, Editing
  <1> QED
    BY <1>1, <1>2 DEF Batches

-----------------------------------------------------------------------------
(* Ends of texts.                                                            *)

\* The unit of s that i others follow.
End(s, i) == s[Len(s) - i]

\* A suffix is a text with the same units at its end.
LEMMA SuffixEnds ==
    ASSUME NEW s \in Seq(Unit), NEW t \in Seq(Unit)
    PROVE  IsSuffix(s, t) <=> /\ Len(s) <= Len(t)
                              /\ \A i \in 0 .. Len(s) - 1 : End(s, i) = End(t, i)
  <1> DEFINE m == Len(s)
             n == Len(t)
  <1>1. m \in Nat /\ n \in Nat
    OBVIOUS
  <1>2. IsSuffix(s, t) <=> m <= n /\ \A i \in 1 .. m : s[i] = t[n - m + i]
    BY Suffixed
  <1> HIDE DEF m, n
  <1>3. ASSUME m <= n, \A i \in 1 .. m : s[i] = t[n - m + i], NEW i \in 0 .. m - 1
        PROVE  s[m - i] = t[n - i]
    <2>1. m - i \in 1 .. m /\ n - m + (m - i) = n - i
      BY <1>1
    <2> QED
      BY <1>3, <2>1
  <1>4. ASSUME m <= n, \A i \in 0 .. m - 1 : s[m - i] = t[n - i], NEW i \in 1 .. m
        PROVE  s[i] = t[n - m + i]
    <2>1. m - i \in 0 .. m - 1 /\ m - (m - i) = i /\ n - (m - i) = n - m + i
      BY <1>1
    <2> QED
      BY <1>4, <2>1
  <1> QED
    BY <1>2, <1>3, <1>4 DEF End, m, n

\* A suffix of a suffix is one.
LEMMA SuffixOfSuffix ==
    ASSUME NEW r \in Seq(Unit), NEW s \in Seq(Unit), NEW t \in Seq(Unit),
           IsSuffix(r, s), IsSuffix(s, t)
    PROVE  IsSuffix(r, t)
  <1>1. Len(r) \in Nat /\ Len(s) \in Nat /\ Len(t) \in Nat
    OBVIOUS
  <1>2. /\ Len(r) <= Len(s) /\ \A i \in 0 .. Len(r) - 1 : End(r, i) = End(s, i)
        /\ Len(s) <= Len(t) /\ \A i \in 0 .. Len(s) - 1 : End(s, i) = End(t, i)
    BY SuffixEnds
  <1>3. \A i \in 0 .. Len(r) - 1 : i \in 0 .. Len(s) - 1
    BY <1>1, <1>2
  <1>4. Len(r) <= Len(t)
    BY <1>1, <1>2
  <1> QED
    BY <1>2, <1>3, <1>4, SuffixEnds

\* Nothing is a suffix of any text.
LEMMA EmptySuffix ==
    ASSUME NEW t \in Seq(Unit)
    PROVE  IsSuffix(<<>>, t)
  <1>1. <<>> \in Seq(Unit) /\ Len(<<>>) = 0 /\ Len(t) \in Nat /\ 0 <= Len(t)
    OBVIOUS
  <1>2. \A i \in 0 .. Len(<<>>) - 1 : End(<<>>, i) = End(t, i)
    BY <1>1
  <1> QED
    BY <1>1, <1>2, SuffixEnds

\* The ends of two texts joined.
LEMMA JoinedEnds ==
    ASSUME NEW s \in Seq(Unit), NEW w \in Seq(Unit)
    PROVE  /\ s \o w \in Seq(Unit) /\ Len(s \o w) = Len(s) + Len(w)
           /\ \A i \in 0 .. Len(w) - 1 : End(s \o w, i) = End(w, i)
           /\ \A i \in 0 .. Len(s) - 1 : End(s \o w, i + Len(w)) = End(s, i)
  <1> DEFINE m == Len(s)
             n == Len(w)
             r == s \o w
  <1>1. /\ m \in Nat /\ n \in Nat /\ r \in Seq(Unit) /\ Len(r) = m + n
        /\ \A i \in 1 .. m + n : r[i] = IF i <= m THEN s[i] ELSE w[i - m]
    BY ConcatProperties
  <1> HIDE DEF m, n, r
  <1>2. ASSUME NEW i \in 0 .. n - 1
        PROVE  r[Len(r) - i] = w[n - i]
    <2>1. /\ Len(r) - i \in 1 .. m + n /\ ~(Len(r) - i <= m)
          /\ Len(r) - i - m = n - i
      BY <1>1
    <2> QED
      BY <1>1, <2>1
  <1>3. ASSUME NEW i \in 0 .. m - 1
        PROVE  r[Len(r) - (i + n)] = s[m - i]
    <2>1. /\ Len(r) - (i + n) \in 1 .. m + n /\ Len(r) - (i + n) <= m
          /\ Len(r) - (i + n) = m - i
      BY <1>1
    <2> QED
      BY <1>1, <2>1
  <1> QED
    BY <1>1, <1>2, <1>3 DEF End, m, n, r

\* The ends of a text cut short by k.
LEMMA CutEnds ==
    ASSUME NEW s \in Seq(Unit), NEW k \in 0 .. Len(s)
    PROVE  /\ SubSeq(s, 1, Len(s) - k) \in Seq(Unit)
           /\ Len(SubSeq(s, 1, Len(s) - k)) = Len(s) - k
           /\ \A i \in 0 .. Len(s) - k - 1 : End(SubSeq(s, 1, Len(s) - k), i) = End(s, i + k)
  <1> DEFINE m == Len(s) - k
             r == SubSeq(s, 1, m)
  <1>1. /\ Len(s) \in Nat /\ m \in Nat /\ r \in Seq(Unit) /\ Len(r) = m
        /\ \A i \in 1 .. m : r[i] = s[i]
    OBVIOUS
  <1> HIDE DEF r
  <1>2. ASSUME NEW i \in 0 .. m - 1
        PROVE  r[Len(r) - i] = s[Len(s) - (i + k)]
    <2>1. m - i \in 1 .. m /\ Len(s) - (i + k) = m - i
      BY <1>1
    <2> QED
      BY <1>1, <2>1
  <1> QED
    BY <1>1, <1>2 DEF End, r

\* Two texts cut short alike, or extended alike, end alike.
LEMMA SuffixCut ==
    ASSUME NEW s \in Seq(Unit), NEW t \in Seq(Unit), IsSuffix(s, t), NEW k \in 0 .. Len(s)
    PROVE  IsSuffix(SubSeq(s, 1, Len(s) - k), SubSeq(t, 1, Len(t) - k))
  <1> DEFINE r == SubSeq(s, 1, Len(s) - k)
             q == SubSeq(t, 1, Len(t) - k)
  <1>1. Len(s) <= Len(t) /\ \A i \in 0 .. Len(s) - 1 : End(s, i) = End(t, i)
    BY SuffixEnds
  <1>2. k \in 0 .. Len(t) /\ Len(s) \in Nat /\ Len(t) \in Nat /\ k \in Nat
    BY <1>1
  <1>3. /\ r \in Seq(Unit) /\ Len(r) = Len(s) - k
        /\ \A i \in 0 .. Len(s) - k - 1 : End(r, i) = End(s, i + k)
    BY CutEnds
  <1>4. /\ q \in Seq(Unit) /\ Len(q) = Len(t) - k
        /\ \A i \in 0 .. Len(t) - k - 1 : End(q, i) = End(t, i + k)
    BY <1>2, CutEnds
  <1>5. \A i \in 0 .. Len(s) - k - 1 : i \in 0 .. Len(t) - k - 1 /\ i + k \in 0 .. Len(s) - 1
    BY <1>1, <1>2
  <1> HIDE DEF r, q
  <1>6. Len(r) <= Len(q) /\ \A i \in 0 .. Len(r) - 1 : End(r, i) = End(q, i)
    BY <1>1, <1>2, <1>3, <1>4, <1>5
  <1> QED
    BY <1>3, <1>4, <1>6, SuffixEnds DEF r, q

\* What is appended to a text is appended to its suffixes.
LEMMA SuffixJoined ==
    ASSUME NEW s \in Seq(Unit), NEW t \in Seq(Unit), IsSuffix(s, t), NEW w \in Seq(Unit)
    PROVE  IsSuffix(s \o w, t \o w)
  <1> DEFINE r == s \o w
             q == t \o w
             n == Len(w)
  <1>1. Len(s) <= Len(t) /\ \A i \in 0 .. Len(s) - 1 : End(s, i) = End(t, i)
    BY SuffixEnds
  <1>2. /\ r \in Seq(Unit) /\ Len(r) = Len(s) + n
        /\ \A i \in 0 .. n - 1 : End(r, i) = End(w, i)
        /\ \A i \in 0 .. Len(s) - 1 : End(r, i + n) = End(s, i)
    BY JoinedEnds
  <1>3. /\ q \in Seq(Unit) /\ Len(q) = Len(t) + n
        /\ \A i \in 0 .. n - 1 : End(q, i) = End(w, i)
        /\ \A i \in 0 .. Len(t) - 1 : End(q, i + n) = End(t, i)
    BY JoinedEnds
  <1>4. Len(s) \in Nat /\ Len(t) \in Nat /\ n \in Nat
    OBVIOUS
  <1> HIDE DEF r, q, n
  <1>5. ASSUME NEW i \in 0 .. Len(r) - 1
        PROVE  End(r, i) = End(q, i)
    <2>1. CASE i < n
      <3>1. i \in 0 .. n - 1
        BY <1>2, <1>4, <2>1
      <3> QED
        BY <1>2, <1>3, <3>1
    <2>2. CASE ~(i < n)
      <3>1. i - n \in 0 .. Len(s) - 1 /\ i - n \in 0 .. Len(t) - 1 /\ i - n + n = i
        BY <1>1, <1>2, <1>4, <2>2
      <3> QED
        <4>1. End(r, i - n + n) = End(s, i - n) /\ End(q, i - n + n) = End(t, i - n)
          BY <1>2, <1>3, <3>1, Zenon
        <4>2. End(s, i - n) = End(t, i - n)
          BY <1>1, <3>1, Zenon
        <4> QED
          BY <3>1, <4>1, <4>2, Zenon
    <2> QED
      BY <2>1, <2>2
  <1>6. Len(r) <= Len(q)
    BY <1>1, <1>2, <1>3, <1>4
  <1> QED
    BY <1>2, <1>3, <1>5, <1>6, SuffixEnds DEF r, q

\* What the buffer keeps of a text is the end of it.
LEMMA Trimmed ==
    ASSUME NEW s \in Seq(Unit), NEW new \in Seq(Unit)
    PROVE  /\ Committed(s, new, MaxContext) \in Seq(Unit)
           /\ IsSuffix(Committed(s, new, MaxContext), s \o new)
           /\ Len(Committed(s, new, MaxContext)) <= Len(s) + Len(new)
  <1> DEFINE t == s \o new
             r == Committed(s, new, MaxContext)
  <1>1. t \in Seq(Unit) /\ Len(t) = Len(s) + Len(new) /\ Len(t) \in Nat
    OBVIOUS
  <1>2. CASE Len(t) > MaxContext
    <2> DEFINE k == Len(t) - MaxContext
    <2>1. k \in Nat /\ k + MaxContext = Len(t) /\ MaxContext \in Nat /\ k <= Len(t)
      BY <1>1, <1>2, MaxContextAssumption
    <2>2. r = SubSeq(t, k + 1, Len(t))
      BY <1>2 DEF Committed
    <2> HIDE DEF t, k
    <2>3. /\ r \in Seq(Unit) /\ Len(r) = MaxContext
          /\ \A i \in 1 .. MaxContext : r[i] = t[k + i]
      BY <1>1, <2>1, <2>2
    <2> HIDE DEF r
    <2>4. Len(t) - Len(r) = k /\ Len(r) <= Len(t)
      BY <1>1, <2>1, <2>3
    <2>5. IsSuffix(r, t)
      BY <1>1, <2>3, <2>4, Suffixed
    <2> QED
      BY <1>1, <2>3, <2>4, <2>5 DEF r, t
  <1>3. CASE ~(Len(t) > MaxContext)
    <2>1. r = t
      BY <1>3 DEF Committed
    <2> HIDE DEF t
    <2>2. IsSuffix(t, t)
      BY <1>1, SuffixEnds
    <2> HIDE DEF r
    <2>3. r \in Seq(Unit) /\ IsSuffix(r, t) /\ Len(r) <= Len(t)
      BY <1>1, <2>1, <2>2
    <2> QED
      BY <1>1, <2>3 DEF r, t
  <1> QED
    BY <1>2, <1>3

\* Where no unit of the last n is half of a pair, code points are units.
LEMMA BackByEnds ==
    ASSUME NEW t \in Seq(Unit), NEW n \in 0 .. Len(t), \A i \in 0 .. n - 1 : End(t, i) # Low
    PROVE  Back(t, n) = Len(t) - n
  <1>1. Len(t) \in Nat
    OBVIOUS
  <1>2. ASSUME NEW i \in Len(t) - n + 1 .. Len(t)
        PROVE  t[i] # Low
    <2>1. Len(t) - i \in 0 .. n - 1 /\ Len(t) - (Len(t) - i) = i
      BY <1>1
    <2> QED
      BY <2>1 DEF End
  <1> QED
    BY <1>2, BackByUnits

\* A text cut at its last code point has one less to go back.
LEMMA BackCutOne ==
    ASSUME NEW t \in Seq(Unit), NEW n \in Nat
    PROVE  Back(SubSeq(t, 1, Back(t, 1)), n) = Back(t, n + 1)
  <1> DEFINE m == Back(t, 1)
             r == SubSeq(t, 1, m)
             S == {i \in 0 .. n : Back(r, i) = Back(t, i + 1)}
  <1>1. m \in 0 .. Len(t) /\ Len(t) \in Nat
    BY BackByOne
  <1> HIDE DEF m
  <1>2. /\ r \in Seq(Unit) /\ Len(r) = m
        /\ \A i \in 1 .. m : r[i] = t[i]
    BY <1>1
  <1> HIDE DEF r
  <1>3. 0 \in S
    <2>1. Back(r, 0) = m /\ 0 + 1 = 1 /\ 0 \in 0 .. n
      BY <1>2, BackByOne
    <2> QED
      BY <2>1 DEF m
  <1>4. ASSUME NEW i \in 1 .. n, i - 1 \in S
        PROVE  i \in S
    <2>1. i - 1 \in Nat /\ i - 1 + 1 = i /\ i \in Nat /\ i \in 0 .. n
      OBVIOUS
    <2>2. Back(r, i - 1 + 1) = Previous(r, Back(r, i - 1)) /\ Back(r, i - 1) \in 0 .. m
      BY <1>2, <2>1, BackByOne
    <2>3. Back(t, i + 1) = Previous(t, Back(t, i))
      BY <2>1, BackByOne
    <2>4. Back(r, i - 1) = Back(t, i)
      BY <1>4, <2>1
    <2>5. \A p \in 0 .. m : Previous(r, p) = Previous(t, p)
      BY <1>1, <1>2 DEF Previous, Begins
    <2> QED
      BY <2>1, <2>2, <2>3, <2>4, <2>5
  <1>5. n \in S
    <2> HIDE DEF S
    <2> QED
      BY <1>3, <1>4, CountingUp
  <1> QED
    BY <1>5 DEF r, m

-----------------------------------------------------------------------------
(* A buffer that holds b, its cursor at e, and a text L before the editor's. *)

\* The last j units of b, but for the very last, are of one word.
WordBehind(b, j) == \A i \in 1 .. j - 1 : IsWordChar(End(b, i))

\* No deletion of a word brings a cursor beyond e to where the buffer would
\* take it for its own.
Safe(b, e, L) ==
    e < Len(L) => \A j \in 0 .. Len(b) : WordBehind(b, j) => Back(L, j) + j # e

\* A buffer is as safe as any that ends as it does.
LEMMA SafeOfSuffix ==
    ASSUME NEW b \in Seq(Unit), NEW r \in Seq(Unit), IsSuffix(r, b),
           NEW e \in Nat, NEW L \in Seq(Unit), Safe(b, e, L)
    PROVE  Safe(r, e, L)
  <1>1. Len(r) <= Len(b) /\ \A i \in 0 .. Len(r) - 1 : End(r, i) = End(b, i)
    BY SuffixEnds
  <1>2. Len(r) \in Nat /\ Len(b) \in Nat
    OBVIOUS
  <1>3. ASSUME NEW j \in 0 .. Len(r), WordBehind(r, j)
        PROVE  j \in 0 .. Len(b) /\ WordBehind(b, j)
    <2>1. \A i \in 1 .. j - 1 : i \in 0 .. Len(r) - 1
      BY <1>2
    <2> QED
      BY <1>1, <1>2, <1>3, <2>1 DEF WordBehind
  <1> QED
    BY <1>3 DEF Safe

\* Behind plain units at the end, of which a word is no longer, all is safe.
LEMMA SafeBehind ==
    ASSUME NEW L \in Seq(Unit), NEW w \in Seq(Unit), \A i \in 0 .. Len(w) - 1 : End(w, i) # Low,
           NEW b \in Seq(Unit), NEW e \in Nat,
           \A j \in 0 .. Len(b) : WordBehind(b, j) => j <= Len(w)
    PROVE  Safe(b, e, L \o w)
  <1> DEFINE r == L \o w
  <1>1. /\ r \in Seq(Unit) /\ Len(r) = Len(L) + Len(w)
        /\ \A i \in 0 .. Len(w) - 1 : End(r, i) = End(w, i)
    BY JoinedEnds
  <1>2. Len(L) \in Nat /\ Len(w) \in Nat /\ Len(b) \in Nat
    OBVIOUS
  <1> HIDE DEF r
  <1>3. ASSUME e < Len(r), NEW j \in 0 .. Len(b), WordBehind(b, j)
        PROVE  Back(r, j) + j # e
    <2>1. j <= Len(w) /\ j \in Nat
      BY <1>3
    <2>2. j \in 0 .. Len(r) /\ \A i \in 0 .. j - 1 : i \in 0 .. Len(w) - 1
      BY <1>1, <1>2, <2>1
    <2>3. Back(r, j) = Len(r) - j
      BY <1>1, <2>2, BackByEnds
    <2> QED
      BY <1>1, <1>2, <1>3, <2>1, <2>3
  <1> QED
    BY <1>3 DEF Safe, r

\* A cursor moved to the right over text the buffer does not hold.
LEMMA MovedAway ==
    ASSUME NEW t \in Seq(Unit), WellFormed(t), NEW e \in Positions(t), NEW q \in Positions(t),
           NEW b \in Seq(Unit), IsSuffix(b, SubSeq(t, 1, e))
    PROVE  Safe(b, e, SubSeq(t, 1, q))
  <1> DEFINE R == SubSeq(t, 1, q)
             B == SubSeq(t, 1, e)
  <1>1. /\ R \in Seq(Unit) /\ Len(R) = q /\ \A i \in 1 .. q : R[i] = t[i]
        /\ B \in Seq(Unit) /\ Len(B) = e /\ \A i \in 1 .. e : B[i] = t[i]
    BY CutBefore
  <1>2. e \in 0 .. Len(t) /\ q \in 0 .. Len(t) /\ Len(t) \in Nat /\ Len(b) \in Nat
    BY DEF Positions
  <1>3. Len(b) <= e /\ \A i \in 0 .. Len(b) - 1 : End(b, i) = End(B, i)
    BY <1>1, SuffixEnds
  <1> HIDE DEF R, B
  <1>4. ASSUME e < q, NEW j \in 0 .. Len(b), WordBehind(b, j)
        PROVE  Back(R, j) + j > e
    <2> DEFINE S == {i \in 0 .. j : Back(R, i) + i > e}
    <2>1. 0 \in S
      <3>1. Back(R, 0) = q /\ 0 \in 0 .. j
        BY <1>1, BackByOne
      <3> QED
        BY <1>2, <1>4, <3>1
    <2>2. ASSUME NEW i \in 1 .. j, i - 1 \in S
          PROVE  i \in S
      <3> DEFINE P == Back(R, i - 1)
      <3>1. i - 1 \in Nat /\ i - 1 + 1 = i /\ i \in 0 .. j
        OBVIOUS
      <3>2. Back(R, i) = Previous(R, P) /\ P \in 0 .. q
        BY <1>1, <3>1, BackByOne
      <3>3. P + (i - 1) > e
        BY <2>2
      <3> HIDE DEF P
      <3>4. P > 0
        BY <1>2, <1>3, <3>2, <3>3
      <3>5. ASSUME P > 1, ~Begins(R, P), P + (i - 1) = e + 1
            PROVE  FALSE
        <4>1. R[P] = Low /\ R[P - 1] = High /\ P \in 1 .. q /\ P - 1 \in 1 .. q
          BY <1>2, <3>2, <3>5 DEF Begins
        <4>2. t[P] = Low /\ t[P - 1] = High
          BY <1>1, <4>1
        <4>3. CASE i = 1
          <5>1. P = e + 1 /\ e # Len(t)
            BY <1>2, <1>4, <3>2, <3>5, <4>3
          <5>2. t[e + 1] # Low
            BY <1>2, <5>1, PositionsPlain
          <5> QED
            BY <4>2, <5>1, <5>2
        <4>4. CASE i # 1
          <5>1. i - 1 \in 1 .. j - 1 /\ i - 1 \in 0 .. Len(b) - 1
            BY <1>2, <4>4
          <5>2. P - 1 = e - (i - 1) /\ P - 1 \in 1 .. e
            BY <1>2, <3>2, <3>5, <4>4
          <5>3. End(b, i - 1) = t[P - 1]
            BY <1>1, <1>3, <5>1, <5>2 DEF End
          <5>4. IsWordChar(End(b, i - 1))
            BY <1>4, <5>1 DEF WordBehind
          <5> QED
            BY <4>2, <5>3, <5>4, UnitKinds
        <4> QED
          BY <4>3, <4>4
      <3>6. Previous(R, P) + i > e
        <4>1. CASE P > 1 /\ ~Begins(R, P)
          <5>1. Previous(R, P) = P - 2
            BY <3>2, <3>4, <4>1 DEF Previous
          <5>2. P + (i - 1) # e + 1
            BY <3>5, <4>1
          <5> QED
            BY <1>2, <3>2, <3>3, <5>1, <5>2
        <4>2. CASE ~(P > 1 /\ ~Begins(R, P))
          <5>1. Previous(R, P) = P - 1
            BY <3>2, <3>4, <4>2 DEF Previous
          <5> QED
            BY <1>2, <3>2, <3>3, <5>1
        <4> QED
          BY <4>1, <4>2
      <3> QED
        BY <3>1, <3>2, <3>6
    <2>3. j \in S
      <3> HIDE DEF S
      <3> QED
        BY <2>1, <2>2, CountingUp
    <2> QED
      BY <2>3
  <1>5. ASSUME NEW j \in 0 .. Len(b), e < q, WordBehind(b, j)
        PROVE  Back(R, j) + j # e
    <2>1. Back(R, j) + j > e
      BY <1>4, <1>5
    <2>2. Back(R, j) \in Nat
      BY <1>1, <1>2, BackByOne
    <2> QED
      BY <1>2, <2>1, <2>2
  <1> QED
    BY <1>1, <1>5 DEF Safe, R

-----------------------------------------------------------------------------
(* What the keyboard believes a key does, and what it does.                  *)

\* onCharsDeleted(k), then onTextCommitted(new).
Believed(b, e, k, new, b2, e2) ==
    /\ b2 = Committed(Deleted(b, k), new, MaxContext)
    /\ e2 = (IF k < e THEN e - k ELSE 0) + Len(new)

\* onCharsDeleted keeps the start of the buffer.
LEMMA Shortened ==
    ASSUME NEW b \in Seq(Unit), NEW k \in Nat
    PROVE  /\ Deleted(b, k) \in Seq(Unit)
           /\ k <= Len(b) => Deleted(b, k) = SubSeq(b, 1, Len(b) - k)
           /\ Len(Deleted(b, k)) = IF k < Len(b) THEN Len(b) - k ELSE 0
           /\ k >= Len(b) => Deleted(b, k) = <<>>
  <1>1. Len(b) \in Nat
    OBVIOUS
  <1>2. CASE k < Len(b)
    <2>1. Deleted(b, k) = SubSeq(b, 1, Len(b) - k)
      BY <1>2 DEF Deleted
    <2>2. k \in 0 .. Len(b) /\ ~(k >= Len(b))
      BY <1>1, <1>2
    <2> QED
      BY <1>1, <1>2, <2>1, <2>2, CutEnds
  <1>3. CASE ~(k < Len(b))
    <2>1. Deleted(b, k) = SubSeq(b, 1, 0)
      BY <1>3 DEF Deleted
    <2>2. SubSeq(b, 1, 0) = <<>>
      BY SubSeqEmpty
    <2>3. k <= Len(b) => Len(b) - k = 0
      BY <1>1, <1>3
    <2> QED
      BY <1>3, <2>1, <2>2, <2>3, EmptySeq
  <1> QED
    BY <1>2, <1>3

\* The buffer stays a text no longer than its cursor.
LEMMA BelievedTypes ==
    ASSUME NEW b \in Seq(Unit), NEW e \in Nat, Len(b) <= e, NEW k \in Nat,
           NEW new \in Seq(Unit), NEW b2, NEW e2, Believed(b, e, k, new, b2, e2)
    PROVE  b2 \in Seq(Unit) /\ e2 \in Nat /\ Len(b2) <= e2
  <1> DEFINE D == Deleted(b, k)
  <1>1. D \in Seq(Unit) /\ Len(D) = IF k < Len(b) THEN Len(b) - k ELSE 0
    BY Shortened
  <1>2. Len(b) \in Nat /\ Len(new) \in Nat
    OBVIOUS
  <1> HIDE DEF D
  <1>3. b2 \in Seq(Unit) /\ Len(b2) <= Len(D) + Len(new)
    BY <1>1, Trimmed DEF Believed, D
  <1>4. e2 = (IF k < e THEN e - k ELSE 0) + Len(new)
    BY DEF Believed
  <1>5. Len(D) <= IF k < e THEN e - k ELSE 0
    BY <1>1, <1>2
  <1>6. Len(D) \in Nat /\ Len(b2) \in Nat
    BY <1>1, <1>3
  <1> QED
    BY <1>2, <1>3, <1>4, <1>5, <1>6

\* A buffer that ends the text still does when both lose k units and gain new.
LEMMA StillSuffix ==
    ASSUME NEW b \in Seq(Unit), NEW L \in Seq(Unit), IsSuffix(b, L),
           NEW k \in 0 .. Len(L), NEW new \in Seq(Unit)
    PROVE  IsSuffix(Committed(Deleted(b, k), new, MaxContext), SubSeq(L, 1, Len(L) - k) \o new)
  <1> DEFINE D == Deleted(b, k)
             M == SubSeq(L, 1, Len(L) - k)
             r == Committed(D, new, MaxContext)
  <1>1. M \in Seq(Unit)
    BY CutEnds
  <1>2. D \in Seq(Unit)
    BY Shortened
  <1>3. IsSuffix(D, M)
    <2>1. Len(b) \in Nat /\ Len(L) \in Nat
      OBVIOUS
    <2>2. CASE k <= Len(b)
      <3>1. k \in 0 .. Len(b)
        BY <2>1, <2>2
      <3>2. D = SubSeq(b, 1, Len(b) - k)
        BY <2>2, Shortened
      <3> QED
        BY <3>1, <3>2, SuffixCut
    <2>3. CASE k > Len(b)
      <3>1. D = <<>>
        BY <2>1, <2>3, Shortened
      <3> QED
        BY <1>1, <3>1, EmptySuffix
    <2> QED
      BY <2>1, <2>2, <2>3
  <1> HIDE DEF D, M
  <1>4. IsSuffix(D \o new, M \o new)
    BY <1>1, <1>2, <1>3, SuffixJoined
  <1>5. D \o new \in Seq(Unit) /\ M \o new \in Seq(Unit)
    BY <1>1, <1>2
  <1>6. r \in Seq(Unit) /\ IsSuffix(r, D \o new)
    BY <1>2, Trimmed
  <1> HIDE DEF r
  <1>7. IsSuffix(r, M \o new)
    BY <1>4, <1>5, <1>6, SuffixOfSuffix
  <1> QED
    BY <1>7 DEF r, D, M

\* A buffer that loses all it holds holds the end of any text that gains new.
LEMMA BareSuffix ==
    ASSUME NEW b \in Seq(Unit), NEW k \in Nat, k >= Len(b),
           NEW M \in Seq(Unit), NEW new \in Seq(Unit)
    PROVE  IsSuffix(Committed(Deleted(b, k), new, MaxContext), M \o new)
  <1>1. Deleted(b, k) = <<>> /\ <<>> \in Seq(Unit)
    BY Shortened
  <1>2. IsSuffix(<<>> \o new, M \o new)
    BY <1>1, EmptySuffix, SuffixJoined
  <1>3. <<>> \o new \in Seq(Unit) /\ M \o new \in Seq(Unit)
    BY <1>1
  <1>4. /\ Committed(<<>>, new, MaxContext) \in Seq(Unit)
        /\ IsSuffix(Committed(<<>>, new, MaxContext), <<>> \o new)
    BY <1>1, Trimmed
  <1> QED
    BY <1>1, <1>2, <1>3, <1>4, SuffixOfSuffix


-----------------------------------------------------------------------------
(* The word the cursor is in.                                                *)

\* The current word is the last whole run of word characters.
LEMMA CurrentWordEnds ==
    ASSUME NEW s \in Seq(Unit)
    PROVE  /\ CurrentWord(s) \in Seq(Unit)
           /\ Len(CurrentWord(s)) \in 0 .. Len(s)
           /\ \A i \in 1 .. Len(CurrentWord(s)) : IsWordChar(CurrentWord(s)[i])
           /\ \A i \in 0 .. Len(CurrentWord(s)) - 1 : IsWordChar(End(s, i))
           /\ Len(CurrentWord(s)) < Len(s) => ~IsWordChar(End(s, Len(CurrentWord(s))))
  <1> DEFINE n == Len(s)
             S == {v \in 0 .. n : \A j \in v + 1 .. n : IsWordChar(s[j])}
             W == {i \in 1 .. n : \E j \in i .. n : ~IsWordChar(s[j])}
  <1>1. n \in Nat /\ \A i \in 1 .. n : s[i] \in Unit
    OBVIOUS
  <1> HIDE DEF n
  <1>2. PICK v \in S : \A i \in S : v <= i
    <2>1. n \in S /\ S \in SUBSET Nat
      BY <1>1
    <2> HIDE DEF S
    <2> QED
      BY <2>1, Least
  <1>3. v \in 0 .. n /\ \A j \in v + 1 .. n : IsWordChar(s[j])
    OBVIOUS
  <1>4. v > 0 => ~IsWordChar(s[v])
    <2>1. ASSUME v > 0, IsWordChar(s[v]) PROVE FALSE
      <3>1. v - 1 \in 0 .. n /\ \A j \in v - 1 + 1 .. n : j = v \/ j \in v + 1 .. n
        BY <1>1, <1>3, <2>1
      <3>2. v - 1 \in S
        BY <1>3, <2>1, <3>1
      <3> QED
        BY <1>2, <1>3, <2>1, <3>2
    <2> QED
      BY <2>1
  <1> HIDE DEF S
  <1>5. W = 1 .. v
    <2>1. ASSUME NEW i \in W PROVE i \in 1 .. v
      <3>1. PICK j \in i .. n : ~IsWordChar(s[j])
        BY <2>1
      <3>2. i \in 1 .. n /\ ~(j \in v + 1 .. n)
        BY <1>3, <3>1
      <3> QED
        BY <1>1, <1>3, <3>1, <3>2
    <2>2. ASSUME NEW i \in 1 .. v PROVE i \in W
      <3>1. i \in 1 .. n /\ v \in i .. n /\ v > 0
        BY <1>1, <1>3
      <3> QED
        BY <1>4, <3>1
    <2> QED
      BY <2>1, <2>2
  <1>6. Cardinality(W) = v
    <2> HIDE DEF W
    <2>1. v \in Nat /\ 1 \in Int /\ v \in Int
      BY <1>1, <1>3
    <2>2. Cardinality(1 .. v) = IF 1 > v THEN 0 ELSE v - 1 + 1
      BY <2>1, FS_Interval
    <2> QED
      BY <1>5, <2>1, <2>2
  <1>7. WordStart(s) = v
    BY <1>6 DEF WordStart, n
  <1> DEFINE c == CurrentWord(s)
             k == Len(c)
  <1>8. c \in Seq(Unit) /\ k = n - v /\ \A i \in 1 .. n - v : c[i] = s[i + v]
    <2>1. c = SubSeq(s, v + 1, n)
      BY <1>7 DEF CurrentWord, n
    <2>2. \A i \in v + 1 .. n : s[i] \in Unit
      BY <1>1, <1>3
    <2>3. c \in Seq(Unit) /\ k = n - v /\ \A i \in 1 .. n - v : c[i] = s[v + 1 + i - 1]
      <3>1. v + 1 \in Int /\ n \in Int /\ n - (v + 1) + 1 = n - v
            /\ (IF v + 1 <= n THEN n - (v + 1) + 1 ELSE 0) = n - v
        BY <1>1, <1>3
      <3> QED
        BY <2>1, <2>2, <3>1, SubSeqProperties
    <2>4. \A i \in 1 .. n - v : v + 1 + i - 1 = i + v
      BY <1>1, <1>3
    <2> QED
      BY <2>3, <2>4
  <1> HIDE DEF c
  <1>9. k \in 0 .. n
    BY <1>1, <1>3, <1>8
  <1>10. \A i \in 1 .. k : IsWordChar(c[i])
    <2>1. \A i \in 1 .. n - v : i + v \in v + 1 .. n
      BY <1>1, <1>3
    <2> QED
      BY <1>3, <1>8, <2>1
  <1>11. \A i \in 0 .. k - 1 : IsWordChar(End(s, i))
    <2>1. \A i \in 0 .. k - 1 : n - i \in v + 1 .. n
      BY <1>1, <1>3, <1>8
    <2> QED
      BY <1>3, <2>1 DEF End, n
  <1>12. k < n => ~IsWordChar(End(s, k))
    <2>1. k < n => v > 0 /\ n - k = v
      BY <1>1, <1>3, <1>8
    <2> QED
      BY <1>4, <2>1 DEF End, n
  <1> QED
    BY <1>8, <1>9, <1>10, <1>11, <1>12 DEF c, n

\* A word has no halves of pairs: its code points are its units.
LEMMA WordCodePoints ==
    ASSUME NEW s \in Seq(Unit), \A i \in 1 .. Len(s) : IsWordChar(s[i])
    PROVE  CodePoints(s) = Len(s)
  <1> DEFINE W == {i \in DOMAIN s : Begins(s, i)}
  <1>1. W = 1 .. Len(s)
    <2>1. DOMAIN s = 1 .. Len(s)
      OBVIOUS
    <2>2. \A i \in 1 .. Len(s) : Begins(s, i)
      BY UnitKinds DEF Begins
    <2> QED
      BY <2>1, <2>2
  <1>2. Cardinality(1 .. Len(s)) = Len(s)
    <2>1. Len(s) \in Nat
      OBVIOUS
    <2> QED
      BY <2>1, FS_Interval
  <1> QED
    BY <1>1, <1>2 DEF CodePoints

\* A text has so many code points.
LEMMA CodePointsCount ==
    ASSUME NEW s \in Seq(Unit)
    PROVE  CodePoints(s) \in Nat
  <1> DEFINE W == {i \in DOMAIN s : Begins(s, i)}
  <1>1. IsFiniteSet(1 .. Len(s)) /\ Len(s) \in Nat /\ DOMAIN s = 1 .. Len(s)
    BY FS_Interval
  <1>2. W \subseteq 1 .. Len(s)
    BY <1>1
  <1> HIDE DEF W
  <1>3. Cardinality(W) \in Nat
    BY <1>1, <1>2, FS_Subset, FS_CardinalityType
  <1> QED
    BY <1>3 DEF W, CodePoints

\* The last cluster is so many code points.
LEMMA ClusterWidthCounts ==
    ASSUME NEW s \in Seq(Unit)
    PROVE  ClusterWidth(s) \in Nat
  <1> DEFINE ends == {p \in Positions(s) :
                    /\ \A i \in p + 2 .. Len(s) : s[i].cls = "mark" \/ ~Begins(s, i)
                    /\ p + 1 < Len(s) => s[p + 1] # Pin}
             start == CHOOSE p \in ends : \A q \in ends : p <= q
  <1>1. Len(s) \in Nat
    OBVIOUS
  <1>2. Len(s) \in ends
    BY <1>1 DEF Positions
  <1>3. ends \in SUBSET Nat /\ \A p \in ends : p \in 0 .. Len(s)
    BY <1>1 DEF Positions
  <1> HIDE DEF ends
  <1>4. start \in 0 .. Len(s)
    <2>1. \E p \in ends : \A q \in ends : p <= q
      BY <1>2, <1>3, Least
    <2> QED
      BY <1>3, <2>1
  <1> HIDE DEF start
  <1>5. SubSeq(s, start + 1, Len(s)) \in Seq(Unit)
    BY <1>1, <1>4
  <1>6. ClusterWidth(s) = CodePoints(SubSeq(s, start + 1, Len(s)))
    BY DEF ClusterWidth, start, ends
  <1> QED
    BY <1>5, <1>6, CodePointsCount


-----------------------------------------------------------------------------
(* One key, from the buffer b at e and the text L before the cursor to the   *)
(* buffer b2 at e2 and the text L2.                                          *)

\* In step, the buffer is never short of the text, and in step again where the
\* cursors meet, as they do if the text keeps its length.  Safe stays safe, or
\* becomes in step; and a key that cannot be told from none does no harm.
Carries(b, e, L, b2, e2, L2) ==
    /\ e = Len(L) /\ IsSuffix(b, L) =>
          /\ e2 >= Len(L2)
          /\ e2 = Len(L2) => IsSuffix(b2, L2)
          /\ Len(L2) = Len(L) => e2 = Len(L)
    /\ Len(L2) = Len(L) /\ Safe(b, e, L) =>
          /\ Safe(b2, e2, L2)
          /\ e # Len(L) /\ e2 = Len(L) => IsSuffix(b2, L2)
    /\ Safe(b, e, L) /\ e # Len(L) /\ e2 = Len(L) => Safe(b2, e2, L2)
    /\ Len(L2) = Len(L) /\ e2 # e => Safe(b2, e2, L2)

\* A buffer at the cursor of the document is safe.
LEMMA NothingBeyond ==
    ASSUME NEW b, NEW L \in Seq(Unit), NEW e \in Nat, e >= Len(L)
    PROVE  Safe(b, e, L)
  <1>1. ~(e < Len(L))
    <2>1. Len(L) \in Nat
      OBVIOUS
    <2> QED
      BY <2>1
  <1> QED
    BY <1>1 DEF Safe

\* Backspace, whatever it deletes.
LEMMA BackspaceCarries ==
    ASSUME NEW b \in Seq(Unit), NEW e \in Nat, Len(b) <= e, NEW L \in Seq(Unit),
           NEW w \in Nat, NEW b2, NEW e2, Believed(b, e, w, <<>>, b2, e2)
    PROVE  Carries(b, e, L, b2, e2, SubSeq(L, 1, Back(L, w)))
  <1> DEFINE m == Back(L, w)
             M == SubSeq(L, 1, m)
  <1>1. /\ m \in 0 .. Len(L) /\ Len(L) \in Nat /\ Len(b) \in Nat
        /\ m + w <= Len(L) \/ m = 0
    <2>1. m \in 0 .. Len(L)
      BY BackByOne
    <2>2. m + w <= Len(L) \/ m = 0
      BY BackBounds
    <2> HIDE DEF m
    <2> QED
      BY <2>1, <2>2
  <1>2. w = 0 => m = Len(L)
    BY BackByOne
  <1> HIDE DEF m
  <1>3. M \in Seq(Unit) /\ Len(M) = m
    BY <1>1
  <1>4. /\ b2 \in Seq(Unit) /\ e2 \in Nat /\ Len(b2) <= e2
        /\ b2 = Committed(Deleted(b, w), <<>>, MaxContext)
        /\ e2 = IF w < e THEN e - w ELSE 0
    <2>1. <<>> \in Seq(Unit) /\ Len(<<>>) = 0
      OBVIOUS
    <2>2. b2 \in Seq(Unit) /\ e2 \in Nat /\ Len(b2) <= e2
      BY <2>1, BelievedTypes
    <2>3. e2 = (IF w < e THEN e - w ELSE 0) + 0 /\ b2 = Committed(Deleted(b, w), <<>>, MaxContext)
      BY <2>1 DEF Believed
    <2>4. e2 = IF w < e THEN e - w ELSE 0
      BY <2>3
    <2> QED
      BY <2>2, <2>3, <2>4
  <1>5. e2 = 0 => b2 = <<>>
    <2>1. e2 = 0 => Len(b2) = 0
      <3>1. Len(b2) \in Nat
        BY <1>4
      <3> QED
        BY <1>4, <3>1
    <2> QED
      BY <1>4, <2>1
  <1>6. e2 = 0 => IsSuffix(b2, M)
    BY <1>3, <1>5, EmptySuffix
  <1>7. w <= Len(L) /\ m = Len(L) - w /\ IsSuffix(b, L) => IsSuffix(b2, M)
    <2>1. ASSUME w <= Len(L), m = Len(L) - w, IsSuffix(b, L)
          PROVE  IsSuffix(b2, M)
      <3>1. w \in 0 .. Len(L) /\ <<>> \in Seq(Unit)
        BY <1>1, <2>1
      <3>2. IsSuffix(b2, M \o <<>>)
        BY <1>4, <2>1, <3>1, StillSuffix
      <3> QED
        BY <1>3, <3>2, ConcatEmptySeq
    <2> QED
      BY <2>1
  <1>8. ASSUME w = 0, Safe(b, e, L)
        PROVE  Safe(b2, e2, M)
    <2>1. M = L
      BY <1>2, <1>8, SubSeqFull
    <2>2. Deleted(b, 0) = b
      <3>1. 0 \in Nat /\ 0 <= Len(b) /\ Len(b) - 0 = Len(b)
        BY <1>1
      <3>2. Deleted(b, 0) = SubSeq(b, 1, Len(b) - 0)
        BY <3>1, Shortened
      <3> QED
        BY <3>1, <3>2, SubSeqFull
    <2>3. IsSuffix(b2, b)
      <3>1. b \o <<>> = b /\ <<>> \in Seq(Unit)
        BY ConcatEmptySeq
      <3> QED
        BY <1>4, <1>8, <2>2, <3>1, Trimmed
    <2>4. e2 = e
      BY <1>4, <1>8
    <2>5. Safe(b2, e, L)
      BY <1>4, <1>8, <2>3, SafeOfSuffix
    <2> QED
      BY <2>1, <2>4, <2>5
  <1> HIDE DEF M
  <1>9. e2 >= m => Safe(b2, e2, M)
    BY <1>3, <1>4, NothingBeyond
  <1>10. ASSUME e = Len(L), IsSuffix(b, L)
         PROVE  /\ e2 >= m
                /\ e2 = m => IsSuffix(b2, M)
                /\ m = Len(L) => e2 = Len(L)
    <2>1. e2 >= m /\ (m = Len(L) => e2 = Len(L))
      BY <1>1, <1>4, <1>10
    <2>2. e2 = m => e2 = 0 \/ (w <= Len(L) /\ m = Len(L) - w)
      BY <1>1, <1>4, <1>10
    <2> QED
      BY <1>6, <1>7, <1>10, <2>1, <2>2
  <1>11. m = Len(L) => w = 0 \/ Len(L) = 0
    BY <1>1
  <1>12. Len(L) = 0 => e2 >= m
    BY <1>1, <1>4
  <1>13. m = Len(L) /\ e # Len(L) /\ e2 = Len(L) => e2 = 0
    BY <1>1, <1>4, <1>11
  <1>14. e2 = Len(L) => e2 >= m
    BY <1>1
  <1>15. m = Len(L) /\ e2 # e => Len(L) = 0
    BY <1>1, <1>4, <1>11
  <1> QED
    BY <1>3, <1>6, <1>8, <1>9, <1>10, <1>11, <1>12, <1>13, <1>14, <1>15 DEF Carries, M, m

\* A character that is typed.
LEMMA TypeCarries ==
    ASSUME NEW b \in Seq(Unit), NEW e \in Nat, Len(b) <= e, NEW L \in Seq(Unit),
           NEW u \in Unit, u # Low, NEW b2, NEW e2, Believed(b, e, 0, <<u>>, b2, e2)
    PROVE  Carries(b, e, L, b2, e2, L \o <<u>>)
  <1> DEFINE M == L \o <<u>>
  <1>1. /\ <<u>> \in Seq(Unit) /\ Len(<<u>>) = 1 /\ M \in Seq(Unit) /\ Len(M) = Len(L) + 1
        /\ Len(L) \in Nat /\ Len(b) \in Nat
    OBVIOUS
  <1>2. /\ b2 \in Seq(Unit) /\ e2 \in Nat /\ Len(b2) <= e2
        /\ b2 = Committed(Deleted(b, 0), <<u>>, MaxContext)
        /\ e2 = e + 1
    <2>1. (IF 0 < e THEN e - 0 ELSE 0) + 1 = e + 1 /\ 0 \in Nat
      OBVIOUS
    <2>2. b2 \in Seq(Unit) /\ e2 \in Nat /\ Len(b2) <= e2
      BY <1>1, <2>1, BelievedTypes
    <2> QED
      BY <1>1, <2>1, <2>2 DEF Believed
  <1>3. ASSUME IsSuffix(b, L)
        PROVE  IsSuffix(b2, M)
    <2>1. SubSeq(L, 1, Len(L) - 0) = L /\ 0 \in 0 .. Len(L)
      BY <1>1, SubSeqFull
    <2> QED
      BY <1>1, <1>2, <1>3, <2>1, StillSuffix
  <1>4. Deleted(b, 0) = b
    <2>1. 0 \in Nat /\ 0 <= Len(b) /\ Len(b) - 0 = Len(b)
      BY <1>1
    <2>2. Deleted(b, 0) = SubSeq(b, 1, Len(b) - 0)
      BY <2>1, Shortened
    <2> QED
      BY <2>1, <2>2, SubSeqFull
  <1>5. ASSUME Safe(b, e, L), e2 = Len(L)
        PROVE  Safe(b2, e2, M)
    <2>1. /\ b \o <<u>> \in Seq(Unit) /\ Len(b \o <<u>>) = Len(b) + 1
          /\ \A i \in 0 .. Len(b) - 1 : End(b \o <<u>>, i + 1) = End(b, i)
      BY <1>1, JoinedEnds
    <2>2. /\ Len(b2) <= Len(b) + 1
          /\ \A i \in 0 .. Len(b2) - 1 : End(b2, i) = End(b \o <<u>>, i)
      BY <1>1, <1>2, <1>4, <2>1, Trimmed, SuffixEnds
    <2>3. Len(b2) \in Nat
      BY <1>2
    <2>4. ASSUME NEW j \in 0 .. Len(b2), WordBehind(b2, j)
          PROVE  Back(M, j) + j # e2
      <3>1. CASE j = 0
        <4>1. Back(M, 0) = Len(M)
          BY <1>1, BackByOne
        <4> QED
          BY <1>1, <1>2, <1>5, <3>1, <4>1
      <3>2. CASE j # 0
        <4> DEFINE n == j - 1
        <4>1. n \in Nat /\ n + 1 = j /\ n \in 0 .. Len(b)
          BY <1>1, <2>2, <2>3, <3>2
        <4>2. Back(M, j) = Back(L, n)
          BY <4>1, BackPastOne
        <4>3. WordBehind(b, n)
          <5>1. ASSUME NEW i \in 1 .. n - 1
                PROVE  IsWordChar(End(b, i))
            <6>1. i + 1 \in 1 .. j - 1 /\ i + 1 \in 0 .. Len(b2) - 1 /\ i \in 0 .. Len(b) - 1
              BY <1>1, <2>2, <2>3, <4>1
            <6>2. IsWordChar(End(b2, i + 1))
              BY <2>4, <6>1 DEF WordBehind
            <6> QED
              BY <2>1, <2>2, <6>1, <6>2
          <5> QED
            BY <5>1 DEF WordBehind
        <4>4. Back(L, n) + n # e
          <5>1. e < Len(L)
            BY <1>1, <1>2, <1>5
          <5> QED
            BY <1>5, <4>1, <4>3, <5>1 DEF Safe
        <4>5. Back(L, n) \in Nat /\ j \in Nat
          <5> HIDE DEF n
          <5>1. Back(L, n) \in 0 .. Len(L)
            BY <4>1, BackByOne
          <5> QED
            BY <1>1, <4>1, <5>1
        <4>6. Back(L, n) + j = Back(L, n) + n + 1
          BY <4>1, <4>5
        <4> QED
          BY <1>2, <4>1, <4>2, <4>4, <4>5, <4>6
      <3> QED
        BY <3>1, <3>2
    <2> QED
      BY <2>4 DEF Safe
  <1> HIDE DEF M
  <1>6. Len(M) # Len(L) /\ (e = Len(L) => e2 >= Len(M))
    BY <1>1, <1>2
  <1> QED
    BY <1>3, <1>5, <1>6 DEF Carries, M

\* The first letter, between two marks of direction.
LEMMA PinCarries ==
    ASSUME NEW e \in Nat, NEW L \in Seq(Unit),
           NEW u \in Unit, u # Low, NEW b2, NEW e2, Believed(<<>>, e, 0, <<Pin, u>>, b2, e2)
    PROVE  Carries(<<>>, e, L, b2, e2, L \o <<Pin, u>>)
  <1> DEFINE new == <<Pin, u>>
             M == L \o new
  <1>1. /\ new \in Seq(Unit) /\ Len(new) = 2 /\ M \in Seq(Unit) /\ Len(M) = Len(L) + 2
        /\ Len(L) \in Nat /\ <<>> \in Seq(Unit) /\ Len(<<>>) = 0
    BY UnitKinds
  <1>2. \A i \in 0 .. Len(new) - 1 : End(new, i) # Low
    <2>1. ASSUME NEW i \in 0 .. 1 PROVE new[2 - i] # Low
      <3>1. i = 0 \/ i = 1
        OBVIOUS
      <3> QED
        BY <3>1, UnitKinds
    <2> QED
      BY <1>1, <2>1 DEF End
  <1>3. new[1] = Pin
    OBVIOUS
  <1> HIDE DEF new
  <1>4. /\ b2 \in Seq(Unit) /\ e2 \in Nat /\ Len(b2) <= e2
        /\ b2 = Committed(Deleted(<<>>, 0), new, MaxContext)
        /\ e2 = e + 2
    <2>1. (IF 0 < e THEN e - 0 ELSE 0) + 2 = e + 2 /\ 0 \in Nat /\ 0 <= e
      OBVIOUS
    <2>2. Believed(<<>>, e, 0, new, b2, e2)
      BY DEF new
    <2>3. b2 \in Seq(Unit) /\ e2 \in Nat /\ Len(b2) <= e2
      BY <1>1, <2>1, <2>2, BelievedTypes
    <2> QED
      BY <1>1, <2>1, <2>2, <2>3 DEF Believed
  <1>5. IsSuffix(b2, M)
    <2>1. 0 \in Nat /\ 0 >= Len(<<>>)
      BY <1>1
    <2> QED
      BY <1>1, <1>4, <2>1, BareSuffix
  <1>6. Len(b2) <= 2
    <2>1. 0 \in Nat /\ 0 >= Len(<<>>)
      BY <1>1
    <2>2. Deleted(<<>>, 0) = <<>>
      BY <1>1, <2>1, Shortened
    <2>3. Len(b2) <= Len(<<>>) + Len(new)
      BY <1>1, <1>4, <2>2, Trimmed
    <2> QED
      BY <1>1, <2>3
  <1>7. Safe(b2, e2, M)
    <2>1. \A j \in 0 .. Len(b2) : WordBehind(b2, j) => j <= Len(new)
      BY <1>1, <1>4, <1>6
    <2> QED
      BY <1>1, <1>2, <1>4, <2>1, SafeBehind
  <1> HIDE DEF M
  <1>8. Len(M) # Len(L) /\ (e = Len(L) => e2 >= Len(M))
    BY <1>1, <1>4
  <1> QED
    BY <1>5, <1>7, <1>8 DEF Carries, M, new


\* A long press: one character gives way to a mark.
LEMMA LongPressCarries ==
    ASSUME NEW b \in Seq(Unit), NEW e \in Nat, Len(b) <= e, NEW L \in Seq(Unit),
           NEW u \in Unit, u # Low, NEW b2, NEW e2, Believed(b, e, 1, <<u>>, b2, e2)
    PROVE  Carries(b, e, L, b2, e2, SubSeq(L, 1, Back(L, 1)) \o <<u>>)
  <1> DEFINE m == Back(L, 1)
             K == SubSeq(L, 1, m)
             new == <<u>>
             M == K \o new
             D == Deleted(b, 1)
  <1>1. /\ m \in 0 .. Len(L) /\ Len(L) \in Nat /\ Len(b) \in Nat
        /\ m + 1 <= Len(L) \/ m = 0
    <2>1. m \in 0 .. Len(L)
      BY BackByOne
    <2>2. m + 1 <= Len(L) \/ m = 0
      BY BackBounds
    <2> HIDE DEF m
    <2> QED
      BY <2>1, <2>2
  <1> HIDE DEF m
  <1>2. K \in Seq(Unit) /\ Len(K) = m
    BY <1>1
  <1>3. new \in Seq(Unit) /\ Len(new) = 1 /\ new[1] = u
    OBVIOUS
  <1>4. \A i \in 0 .. Len(new) - 1 : End(new, i) # Low
    <2>1. \A i \in 0 .. 1 - 1 : 1 - i = 1
      OBVIOUS
    <2> QED
      BY <1>3, <2>1 DEF End
  <1>5. Believed(b, e, 1, new, b2, e2)
    OBVIOUS
  <1> HIDE DEF new, K
  <1>6. M \in Seq(Unit) /\ Len(M) = m + 1
    <2>1. K \in Seq(Unit) /\ new \in Seq(Unit)
      BY <1>2, <1>3
    <2>2. M \in Seq(Unit) /\ Len(M) = Len(K) + Len(new)
      BY <2>1, ConcatProperties
    <2> QED
      BY <1>2, <1>3, <2>2
  <1>7. /\ b2 \in Seq(Unit) /\ e2 \in Nat /\ Len(b2) <= e2
        /\ b2 = Committed(D, new, MaxContext)
        /\ e2 = IF e = 0 THEN 1 ELSE e
    <2>1. b2 \in Seq(Unit) /\ e2 \in Nat /\ Len(b2) <= e2
      BY <1>3, <1>5, BelievedTypes
    <2>2. b2 = Committed(D, new, MaxContext) /\ e2 = (IF 1 < e THEN e - 1 ELSE 0) + 1
      BY <1>3, <1>5 DEF Believed
    <2>3. e2 = IF e = 0 THEN 1 ELSE e
      BY <2>2
    <2> QED
      BY <2>1, <2>2, <2>3
  <1>8. D \in Seq(Unit) /\ Len(D) = IF 1 < Len(b) THEN Len(b) - 1 ELSE 0
    BY Shortened
  <1> HIDE DEF D
  <1>9. /\ Len(b2) <= Len(D) + 1 /\ Len(b2) \in Nat
        /\ \A i \in 0 .. Len(b2) - 1 : End(b2, i) = End(D \o new, i)
    <2>1. D \o new \in Seq(Unit)
      BY <1>3, <1>8, ConcatProperties
    <2>2. IsSuffix(b2, D \o new) /\ Len(b2) <= Len(D) + Len(new)
      BY <1>3, <1>7, <1>8, Trimmed
    <2>3. \A i \in 0 .. Len(b2) - 1 : End(b2, i) = End(D \o new, i)
      BY <1>7, <2>1, <2>2, SuffixEnds
    <2>4. Len(b2) \in Nat
      BY <1>7
    <2> QED
      BY <1>3, <2>2, <2>3, <2>4
  \* A buffer with nothing in it.
  <1>10. ASSUME Len(b) = 0
         PROVE  Safe(b2, e2, M) /\ IsSuffix(b2, M)
    <2>1. \A j \in 0 .. Len(b2) : WordBehind(b2, j) => j <= Len(new)
      BY <1>3, <1>8, <1>9, <1>10
    <2>2. Safe(b2, e2, M)
      BY <1>2, <1>3, <1>4, <1>7, <2>1, SafeBehind
    <2>3. IsSuffix(b2, M)
      <3>1. 1 \in Nat /\ 1 >= Len(b)
        BY <1>10
      <3> QED
        BY <1>2, <1>3, <1>7, <3>1, BareSuffix DEF D
    <2> QED
      BY <2>2, <2>3
  \* One that has the character the key takes.
  <1>11. ASSUME Len(b) # 0, m + 1 = Len(L), Safe(b, e, L)
         PROVE  Safe(b2, e2, M)
    <2>1. e2 = e
      BY <1>1, <1>7, <1>11
    <2>2. /\ Len(D \o new) = Len(D) + 1
          /\ \A i \in 0 .. Len(D) - 1 : End(D \o new, i + 1) = End(D, i)
      <3>1. /\ Len(D \o new) = Len(D) + Len(new)
            /\ \A i \in 0 .. Len(D) - 1 : End(D \o new, i + Len(new)) = End(D, i)
        BY <1>3, <1>8, JoinedEnds
      <3> QED
        BY <1>3, <3>1
    <2>3. \A i \in 0 .. Len(b) - 1 - 1 : End(D, i) = End(b, i + 1)
      <3>1. 1 \in 0 .. Len(b) /\ 1 <= Len(b) /\ 1 \in Nat
        BY <1>1, <1>11
      <3>2. D = SubSeq(b, 1, Len(b) - 1)
        BY <3>1, Shortened DEF D
      <3> QED
        BY <3>1, <3>2, CutEnds
    <2>4. ASSUME e < Len(M), NEW j \in 0 .. Len(b2), WordBehind(b2, j)
          PROVE  Back(M, j) + j # e
      <3>1. CASE j = 0
        <4>1. Back(M, 0) = Len(M)
          BY <1>6, BackByOne
        <4> QED
          BY <1>6, <2>4, <3>1, <4>1
      <3>2. CASE j # 0
        <4> DEFINE n == j - 1
        <4>1. n \in Nat /\ n + 1 = j /\ j \in Nat
          BY <1>9, <3>2
        <4>2. Back(M, j) = Back(K, n)
          BY <1>2, <4>1, BackPastOne DEF new
        <4>3. Back(K, n) = Back(L, j)
          BY <4>1, BackCutOne DEF K, m
        <4>4. j \in 0 .. Len(b)
          BY <1>1, <1>8, <1>9, <1>11
        <4>5. WordBehind(b, j)
          <5>1. ASSUME NEW i \in 1 .. j - 1
                PROVE  IsWordChar(End(b, i))
            <6>1. /\ i \in 0 .. Len(b2) - 1 /\ i - 1 \in 0 .. Len(D) - 1
                  /\ i - 1 \in 0 .. Len(b) - 1 - 1 /\ i - 1 + 1 = i
              BY <1>1, <1>8, <1>9, <1>11, <4>4
            <6>2. IsWordChar(End(b2, i))
              BY <2>4 DEF WordBehind
            <6> QED
              BY <1>9, <2>2, <2>3, <6>1, <6>2
          <5> QED
            BY <5>1 DEF WordBehind
        <4>6. e < Len(L)
          BY <1>6, <1>11, <2>4
        <4> QED
          BY <1>11, <4>2, <4>3, <4>4, <4>5, <4>6 DEF Safe
      <3> QED
        BY <3>1, <3>2
    <2> QED
      BY <2>1, <2>4 DEF Safe
  <1>12. ASSUME Len(L) # 0, m = Len(L) - 1, IsSuffix(b, L)
         PROVE  IsSuffix(b2, M)
    <2>1. 1 \in 0 .. Len(L)
      BY <1>1, <1>12
    <2> QED
      BY <1>3, <1>7, <1>12, <2>1, StillSuffix DEF D, K
  <1> HIDE DEF M
  <1>13. e2 >= m + 1 => Safe(b2, e2, M)
    BY <1>6, <1>7, NothingBeyond
  <1>14. ASSUME e = Len(L), IsSuffix(b, L)
         PROVE  /\ e2 >= m + 1
                /\ e2 = m + 1 => IsSuffix(b2, M)
                /\ m + 1 = Len(L) => e2 = Len(L)
    <2>1. e2 >= m + 1 /\ (m + 1 = Len(L) => e2 = Len(L))
      BY <1>1, <1>7, <1>14
    <2>2. e2 = m + 1 => Len(b) = 0 \/ (Len(L) # 0 /\ m = Len(L) - 1)
      BY <1>1, <1>7, <1>14
    <2> QED
      BY <1>10, <1>12, <1>14, <2>1, <2>2
  <1>15. e = 0 => Len(b) = 0
    BY <1>1
  <1>16. m + 1 = Len(L) /\ e # Len(L) /\ e2 = Len(L) => e = 0
    BY <1>7
  <1>17. e # Len(L) /\ e2 = Len(L) => e = 0 /\ e2 >= m + 1
    BY <1>1, <1>7
  <1>18. e2 # e => e = 0
    BY <1>7
  <1> QED
    BY <1>6, <1>10, <1>11, <1>13, <1>14, <1>15, <1>16, <1>17, <1>18 DEF Carries, M, K, m, new

\* A candidate that is tapped: the current word gives way to another.
LEMMA TapCarries ==
    ASSUME NEW b \in Seq(Unit), NEW e \in Nat, Len(b) <= e, NEW L \in Seq(Unit),
           NEW n \in Nat \ {0}, NEW new \in Seq(Unit), Len(new) = n,
           \A i \in 1 .. n : new[i] # Low,
           NEW b2, NEW e2, Believed(b, e, Len(CurrentWord(b)), new, b2, e2)
    PROVE  Carries(b, e, L, b2, e2, SubSeq(L, 1, Back(L, Len(CurrentWord(b)))) \o new)
  <1> DEFINE k == Len(CurrentWord(b))
             m == Back(L, k)
             K == SubSeq(L, 1, m)
             M == K \o new
             D == Deleted(b, k)
  <1>1. /\ k \in 0 .. Len(b) /\ Len(b) \in Nat /\ Len(L) \in Nat /\ k \in Nat
        /\ \A i \in 0 .. k - 1 : IsWordChar(End(b, i))
        /\ k < Len(b) => ~IsWordChar(End(b, k))
    BY CurrentWordEnds
  <1>2. Believed(b, e, k, new, b2, e2)
    OBVIOUS
  <1> HIDE DEF k
  <1>3. /\ m \in 0 .. Len(L)
        /\ m + k <= Len(L) \/ m = 0
    <2>1. m \in 0 .. Len(L)
      BY <1>1, BackByOne
    <2>2. m + k <= Len(L) \/ m = 0
      BY <1>1, BackBounds
    <2> HIDE DEF m
    <2> QED
      BY <2>1, <2>2
  <1> HIDE DEF m
  <1>4. K \in Seq(Unit) /\ Len(K) = m
    BY <1>1, <1>3
  <1>5. \A i \in 0 .. Len(new) - 1 : End(new, i) # Low
    <2>1. \A i \in 0 .. n - 1 : n - i \in 1 .. n
      OBVIOUS
    <2> QED
      BY <2>1 DEF End
  <1> HIDE DEF K
  <1>6. M \in Seq(Unit) /\ Len(M) = m + n
    BY <1>4, ConcatProperties
  <1>7. /\ b2 \in Seq(Unit) /\ e2 \in Nat /\ Len(b2) <= e2
        /\ b2 = Committed(D, new, MaxContext)
        /\ e2 = e - k + n
    <2>1. b2 \in Seq(Unit) /\ e2 \in Nat /\ Len(b2) <= e2
      BY <1>1, <1>2, BelievedTypes
    <2>2. b2 = Committed(D, new, MaxContext) /\ e2 = (IF k < e THEN e - k ELSE 0) + n
      BY <1>2 DEF Believed
    <2>3. e2 = e - k + n
      BY <1>1, <2>2
    <2> QED
      BY <2>1, <2>2, <2>3
  <1>8. D \in Seq(Unit) /\ Len(D) = Len(b) - k
    <2>1. D \in Seq(Unit) /\ Len(D) = IF k < Len(b) THEN Len(b) - k ELSE 0
      BY <1>1, Shortened
    <2> QED
      BY <1>1, <2>1
  <1>9. k < Len(b) => End(D, 0) = End(b, k)
    <2>1. ASSUME k < Len(b) PROVE End(D, 0) = End(b, k)
      <3>1. D = SubSeq(b, 1, Len(b) - k)
        BY <1>1, Shortened
      <3>2. 0 \in 0 .. Len(b) - k - 1 /\ 0 + k = k
        BY <1>1, <2>1
      <3> QED
        BY <1>1, <3>1, <3>2, CutEnds
    <2> QED
      BY <2>1
  <1> HIDE DEF D
  <1>10. /\ Len(b2) <= Len(D) + n /\ Len(b2) \in Nat
         /\ \A i \in 0 .. Len(b2) - 1 : End(b2, i) = End(D \o new, i)
    <2>1. D \o new \in Seq(Unit)
      BY <1>8, ConcatProperties
    <2>2. IsSuffix(b2, D \o new) /\ Len(b2) <= Len(D) + Len(new)
      BY <1>7, <1>8, Trimmed
    <2>3. \A i \in 0 .. Len(b2) - 1 : End(b2, i) = End(D \o new, i)
      BY <1>7, <2>1, <2>2, SuffixEnds
    <2>4. Len(b2) \in Nat
      BY <1>7
    <2> QED
      BY <2>2, <2>3, <2>4
  <1>11. Safe(b2, e2, M)
    <2>1. ASSUME NEW j \in 0 .. Len(b2), WordBehind(b2, j), j > n
          PROVE  FALSE
      <3>1. k < Len(b) /\ n \in 1 .. j - 1 /\ n \in 0 .. Len(b2) - 1 /\ 0 \in 0 .. Len(D) - 1
        BY <1>1, <1>8, <1>10, <2>1
      <3>2. IsWordChar(End(b2, n))
        BY <2>1, <3>1 DEF WordBehind
      <3>3. End(D \o new, 0 + n) = End(D, 0)
        BY <1>8, <3>1, JoinedEnds
      <3>4. 0 + n = n
        OBVIOUS
      <3> QED
        BY <1>1, <1>9, <1>10, <3>1, <3>2, <3>3, <3>4
    <2>2. \A j \in 0 .. Len(b2) : WordBehind(b2, j) => j <= Len(new)
      BY <1>10, <2>1
    <2> QED
      BY <1>4, <1>5, <1>7, <2>2, SafeBehind
  <1>12. ASSUME e = Len(L), IsSuffix(b, L)
         PROVE  m = Len(L) - k /\ IsSuffix(b2, M)
    <2>1. Len(b) <= Len(L) /\ \A i \in 0 .. Len(b) - 1 : End(b, i) = End(L, i)
      BY <1>12, SuffixEnds
    <2>2. k \in 0 .. Len(L) /\ \A i \in 0 .. k - 1 : i \in 0 .. Len(b) - 1
      BY <1>1, <2>1
    <2>3. \A i \in 0 .. k - 1 : End(L, i) # Low
      BY <1>1, <2>1, <2>2, UnitKinds
    <2>4. m = Len(L) - k
      BY <2>2, <2>3, BackByEnds DEF m
    <2> QED
      BY <1>7, <1>12, <2>2, <2>4, StillSuffix DEF D, K
  <1>13. ASSUME m + n = Len(L), Safe(b, e, L), e # Len(L), e2 = Len(L)
         PROVE  IsSuffix(b2, M)
    <2>1. m + k = e
      BY <1>1, <1>3, <1>7, <1>13
    <2>2. WordBehind(b, k)
      <3>1. \A i \in 1 .. k - 1 : i \in 0 .. k - 1
        BY <1>1
      <3> QED
        BY <1>1, <3>1 DEF WordBehind
    <2>3. ~(e < Len(L))
      BY <1>1, <1>13, <2>1, <2>2 DEF Safe, m
    <2>4. k >= Len(b)
      BY <1>1, <1>3, <1>13, <2>1, <2>3
    <2> QED
      BY <1>1, <1>4, <1>7, <2>4, BareSuffix DEF D
  <1> HIDE DEF M
  <1>14. e = Len(L) /\ m = Len(L) - k => e2 = m + n
    BY <1>1, <1>7
  <1>15. e2 = m + n => e2 >= m + n
    BY <1>7
  <1> QED
    BY <1>6, <1>11, <1>12, <1>13, <1>14, <1>15 DEF Carries, M, K, m, k


-----------------------------------------------------------------------------
(* Every key sends a batch that carries the buffer along.                    *)

Keys == {Whole(cls) : cls \in CharClasses}
Letters(n) == [i \in 1 .. n |-> Whole("letter")]

\* The batch a key sends on a buffer b at e, and the buffer it leaves.
KeySends(b, e, b2, e2, batch) ==
    \/ \E u \in Keys : /\ batch = <<CommitText(<<u>>, 1)>>
                       /\ Believed(b, e, 0, <<u>>, b2, e2)
    \/ \E u \in Keys : /\ b = <<>>
                       /\ batch = <<CommitText(<<Pin, u>>, 1), CommitText(<<Pin>>, 0)>>
                       /\ Believed(b, e, 0, <<Pin, u>>, b2, e2)
    \/ \E w \in Nat : /\ batch = <<DeleteBefore(w)>>
                      /\ Believed(b, e, w, <<>>, b2, e2)
    \/ /\ batch = <<DeleteBefore(1), CommitText(<<Whole("mark")>>, 1)>>
       /\ Believed(b, e, 1, <<Whole("mark")>>, b2, e2)
    \/ \E n \in Nat \ {0} :
          /\ batch = IF CurrentWord(b) = <<>> THEN <<CommitText(Letters(n), 1)>>
                     ELSE <<DeleteBefore(Len(CurrentWord(b))), CommitText(Letters(n), 1)>>
          /\ Believed(b, e, Len(CurrentWord(b)), Letters(n), b2, e2)

\* What keys send are batches of whole characters.
LEMMA Plainly ==
    /\ \A u \in Keys : u \in Unit /\ u # Low /\ <<u>> \in Plain /\ <<Pin, u>> \in Plain
    /\ <<>> \in Plain /\ <<Pin>> \in Plain
    /\ Whole("mark") \in Keys
    /\ \A n \in Nat : Letters(n) \in Plain /\ Len(Letters(n)) = n
  <1>1. \A u \in Keys : u \in Unit /\ u # Low /\ u # High
    BY UnitKinds DEF Keys
  <1>2. Pin \in Unit /\ Pin # Low /\ Pin # High
    BY UnitKinds
  <1>3. ASSUME NEW u \in Keys
        PROVE  <<u>> \in Plain /\ <<Pin, u>> \in Plain
    <2>1. <<u>> \in Seq(Unit) /\ Len(<<u>>) = 1 /\ <<u>>[1] = u
      BY <1>1
    <2>2. \A i \in 1 .. 1 : i = 1
      OBVIOUS
    <2>3. <<u>> \in Plain
      BY <1>1, <2>1, <2>2 DEF Plain
    <2>4. <<Pin, u>> \in Seq(Unit) /\ Len(<<Pin, u>>) = 2 /\ <<Pin, u>>[1] = Pin /\ <<Pin, u>>[2] = u
      BY <1>1, <1>2
    <2>5. \A i \in 1 .. 2 : i = 1 \/ i = 2
      OBVIOUS
    <2>6. <<Pin, u>> \in Plain
      BY <1>1, <1>2, <2>4, <2>5 DEF Plain
    <2> QED
      BY <2>3, <2>6
  <1>4. <<>> \in Plain
    BY DEF Plain
  <1>5. <<Pin>> \in Plain
    <2>1. <<Pin>> \in Seq(Unit) /\ Len(<<Pin>>) = 1 /\ <<Pin>>[1] = Pin
      BY <1>2
    <2>2. \A i \in 1 .. 1 : i = 1
      OBVIOUS
    <2> QED
      BY <1>2, <2>1, <2>2 DEF Plain
  <1>6. Whole("mark") \in Keys /\ Whole("letter") \in Keys
    BY UnitKinds DEF Keys
  <1>7. ASSUME NEW n \in Nat
        PROVE  Letters(n) \in Plain /\ Len(Letters(n)) = n
    <2>1. /\ Letters(n) \in Seq(Unit) /\ Len(Letters(n)) = n
          /\ \A i \in 1 .. n : Letters(n)[i] = Whole("letter")
      BY <1>1, <1>6 DEF Letters
    <2> QED
      BY <1>1, <1>6, <2>1 DEF Plain
  <1> QED
    BY <1>1, <1>3, <1>4, <1>5, <1>6, <1>7

\* The text before the cursor after a batch of each kind.
LEMMA LeftAfter ==
    ASSUME NEW doc, Sound(doc), NEW new \in Plain, NEW k \in Nat
    PROVE  /\ Left(Applied(doc, <<CommitText(new, 1)>>)) = Left(doc) \o new
           /\ Left(Applied(doc, <<CommitText(new, 1), CommitText(<<Pin>>, 0)>>)) = Left(doc) \o new
           /\ Left(Applied(doc, <<DeleteBefore(k)>>)) = SubSeq(Left(doc), 1, Back(Left(doc), k))
           /\ Left(Applied(doc, <<DeleteBefore(k), CommitText(new, 1)>>))
                 = SubSeq(Left(doc), 1, Back(Left(doc), k)) \o new
  <1> DEFINE inserted == Inserted(doc, new, 1)
             erased == Erased(doc, k)
  <1>1. Sound(inserted) /\ Left(inserted) = Left(doc) \o new
    <2>1. 1 \in {0, 1}
      OBVIOUS
    <2> QED
      BY <2>1, Inserting
  <1>2. Sound(erased) /\ Left(erased) = SubSeq(Left(doc), 1, Back(Left(doc), k))
    BY Erasing
  <1>3. \A d : Edited(d, CommitText(new, 1)) = Inserted(d, new, 1)
    BY DEF Edited, CommitText
  <1>4. \A d : Edited(d, CommitText(<<Pin>>, 0)) = Inserted(d, <<Pin>>, 0)
    BY DEF Edited, CommitText
  <1>5. \A d : Edited(d, DeleteBefore(k)) = Erased(d, k)
    BY DEF Edited, DeleteBefore
  <1>6. Applied(doc, <<CommitText(new, 1)>>) = inserted
    BY <1>3 DEF Applied
  <1>7. Applied(doc, <<CommitText(new, 1), CommitText(<<Pin>>, 0)>>) = Inserted(inserted, <<Pin>>, 0)
    BY <1>3, <1>4 DEF Applied
  <1>8. Applied(doc, <<DeleteBefore(k)>>) = erased
    BY <1>5 DEF Applied
  <1>9. Applied(doc, <<DeleteBefore(k), CommitText(new, 1)>>) = Inserted(erased, new, 1)
    BY <1>3, <1>5 DEF Applied
  <1> HIDE DEF inserted, erased
  <1>10. Left(Inserted(inserted, <<Pin>>, 0)) = Left(inserted)
    <2>1. 0 \in {0, 1} /\ 0 # 1 /\ <<Pin>> \in Plain
      BY Plainly
    <2> QED
      BY <1>1, <2>1, Inserting
  <1>11. Left(Inserted(erased, new, 1)) = Left(erased) \o new
    <2>1. 1 \in {0, 1}
      OBVIOUS
    <2> QED
      BY <1>2, <2>1, Inserting
  <1> QED
    BY <1>1, <1>2, <1>6, <1>7, <1>8, <1>9, <1>10, <1>11

\* Every key carries what the buffer knows of the text to its effect.
LEMMA KeysCarry ==
    ASSUME NEW b \in Seq(Unit), NEW e \in Nat, Len(b) <= e, NEW b2, NEW e2, NEW batch,
           KeySends(b, e, b2, e2, batch)
    PROVE  /\ batch \in Batches
           /\ b2 \in Seq(Unit) /\ e2 \in Nat /\ Len(b2) <= e2
           /\ \A doc : Sound(doc) =>
                 Carries(b, e, Left(doc), b2, e2, Left(Applied(doc, batch)))
  <1>1. CASE \E u \in Keys : /\ batch = <<CommitText(<<u>>, 1)>>
                             /\ Believed(b, e, 0, <<u>>, b2, e2)
    <2>1. PICK u \in Keys : /\ batch = <<CommitText(<<u>>, 1)>>
                            /\ Believed(b, e, 0, <<u>>, b2, e2)
      BY <1>1
    <2>2. u \in Unit /\ u # Low /\ <<u>> \in Plain /\ <<u>> \in Seq(Unit) /\ 0 \in Nat
      BY Plainly DEF Plain
    <2>3. batch \in Batches
      BY <2>1, <2>2 DEF Batches, Edit
    <2>4. b2 \in Seq(Unit) /\ e2 \in Nat /\ Len(b2) <= e2
      BY <2>1, <2>2, BelievedTypes
    <2>5. ASSUME NEW doc, Sound(doc)
          PROVE  Carries(b, e, Left(doc), b2, e2, Left(Applied(doc, batch)))
      <3>1. Left(Applied(doc, batch)) = Left(doc) \o <<u>>
        BY <2>1, <2>2, <2>5, LeftAfter
      <3> QED
        BY <2>1, <2>2, <2>5, <3>1, LeftOf, TypeCarries
    <2> QED
      BY <2>3, <2>4, <2>5
  <1>2. CASE \E u \in Keys : /\ b = <<>>
                             /\ batch = <<CommitText(<<Pin, u>>, 1), CommitText(<<Pin>>, 0)>>
                             /\ Believed(b, e, 0, <<Pin, u>>, b2, e2)
    <2>1. PICK u \in Keys : /\ b = <<>>
                            /\ batch = <<CommitText(<<Pin, u>>, 1), CommitText(<<Pin>>, 0)>>
                            /\ Believed(b, e, 0, <<Pin, u>>, b2, e2)
      BY <1>2
    <2>2. /\ u \in Unit /\ u # Low /\ <<Pin, u>> \in Plain /\ <<Pin>> \in Plain
          /\ <<Pin, u>> \in Seq(Unit) /\ 0 \in Nat
      BY Plainly DEF Plain
    <2>3. batch \in Batches
      <3>1. CommitText(<<Pin, u>>, 1) \in Edit /\ CommitText(<<Pin>>, 0) \in Edit
        BY <2>2 DEF Edit
      <3> QED
        BY <2>1, <3>1 DEF Batches
    <2>4. b2 \in Seq(Unit) /\ e2 \in Nat /\ Len(b2) <= e2
      BY <2>1, <2>2, BelievedTypes
    <2>5. ASSUME NEW doc, Sound(doc)
          PROVE  Carries(b, e, Left(doc), b2, e2, Left(Applied(doc, batch)))
      <3>1. Left(Applied(doc, batch)) = Left(doc) \o <<Pin, u>>
        BY <2>1, <2>2, <2>5, LeftAfter
      <3> QED
        BY <2>1, <2>2, <2>5, <3>1, LeftOf, PinCarries
    <2> QED
      BY <2>3, <2>4, <2>5
  <1>3. CASE \E w \in Nat : /\ batch = <<DeleteBefore(w)>>
                            /\ Believed(b, e, w, <<>>, b2, e2)
    <2>1. PICK w \in Nat : /\ batch = <<DeleteBefore(w)>>
                           /\ Believed(b, e, w, <<>>, b2, e2)
      BY <1>3
    <2>2. <<>> \in Plain /\ <<>> \in Seq(Unit)
      BY Plainly
    <2>3. batch \in Batches
      BY <2>1 DEF Batches, Edit
    <2>4. b2 \in Seq(Unit) /\ e2 \in Nat /\ Len(b2) <= e2
      BY <2>1, <2>2, BelievedTypes
    <2>5. ASSUME NEW doc, Sound(doc)
          PROVE  Carries(b, e, Left(doc), b2, e2, Left(Applied(doc, batch)))
      <3>1. Left(Applied(doc, batch)) = SubSeq(Left(doc), 1, Back(Left(doc), w))
        BY <2>1, <2>2, <2>5, LeftAfter
      <3> QED
        BY <2>1, <2>5, <3>1, LeftOf, BackspaceCarries
    <2> QED
      BY <2>3, <2>4, <2>5
  <1>4. CASE /\ batch = <<DeleteBefore(1), CommitText(<<Whole("mark")>>, 1)>>
             /\ Believed(b, e, 1, <<Whole("mark")>>, b2, e2)
    <2> DEFINE u == Whole("mark")
    <2>1. u \in Unit /\ u # Low /\ <<u>> \in Plain /\ <<u>> \in Seq(Unit) /\ 1 \in Nat
      BY Plainly DEF Plain
    <2> HIDE DEF u
    <2>2. batch = <<DeleteBefore(1), CommitText(<<u>>, 1)>> /\ Believed(b, e, 1, <<u>>, b2, e2)
      BY <1>4 DEF u
    <2>3. batch \in Batches
      <3>1. DeleteBefore(1) \in Edit /\ CommitText(<<u>>, 1) \in Edit
        BY <2>1 DEF Edit
      <3> QED
        BY <2>2, <3>1 DEF Batches
    <2>4. b2 \in Seq(Unit) /\ e2 \in Nat /\ Len(b2) <= e2
      BY <2>1, <2>2, BelievedTypes
    <2>5. ASSUME NEW doc, Sound(doc)
          PROVE  Carries(b, e, Left(doc), b2, e2, Left(Applied(doc, batch)))
      <3>1. Left(Applied(doc, batch)) = SubSeq(Left(doc), 1, Back(Left(doc), 1)) \o <<u>>
        BY <2>1, <2>2, <2>5, LeftAfter
      <3> QED
        BY <2>1, <2>2, <2>5, <3>1, LeftOf, LongPressCarries
    <2> QED
      BY <2>3, <2>4, <2>5
  <1>5. CASE \E n \in Nat \ {0} :
          /\ batch = IF CurrentWord(b) = <<>> THEN <<CommitText(Letters(n), 1)>>
                     ELSE <<DeleteBefore(Len(CurrentWord(b))), CommitText(Letters(n), 1)>>
          /\ Believed(b, e, Len(CurrentWord(b)), Letters(n), b2, e2)
    <2> DEFINE k == Len(CurrentWord(b))
    <2>1. PICK n \in Nat \ {0} :
          /\ batch = IF CurrentWord(b) = <<>> THEN <<CommitText(Letters(n), 1)>>
                     ELSE <<DeleteBefore(Len(CurrentWord(b))), CommitText(Letters(n), 1)>>
          /\ Believed(b, e, k, Letters(n), b2, e2)
      BY <1>5
    <2> DEFINE new == Letters(n)
    <2>2. /\ new \in Plain /\ Len(new) = n /\ new \in Seq(Unit)
          /\ \A i \in 1 .. n : new[i] # Low
      BY Plainly DEF Plain
    <2>3. k \in Nat /\ (CurrentWord(b) = <<>> => k = 0)
      BY CurrentWordEnds
    <2> HIDE DEF new
    <2>4. batch \in Batches
      <3>1. DeleteBefore(k) \in Edit /\ CommitText(new, 1) \in Edit
        BY <2>2, <2>3 DEF Edit
      <3>2. batch = <<CommitText(new, 1)>> \/ batch = <<DeleteBefore(k), CommitText(new, 1)>>
        BY <2>1 DEF new
      <3> QED
        BY <3>1, <3>2 DEF Batches
    <2>5. b2 \in Seq(Unit) /\ e2 \in Nat /\ Len(b2) <= e2
      BY <2>1, <2>2, <2>3, BelievedTypes DEF new
    <2>6. ASSUME NEW doc, Sound(doc)
          PROVE  Carries(b, e, Left(doc), b2, e2, Left(Applied(doc, batch)))
      <3> DEFINE L == Left(doc)
      <3>1. L \in Seq(Unit)
        BY <2>6, LeftOf
      <3>2. Left(Applied(doc, batch)) = SubSeq(L, 1, Back(L, k)) \o new
        <4>1. CASE CurrentWord(b) = <<>>
          <5>1. Left(Applied(doc, batch)) = L \o new
            BY <2>1, <2>2, <2>6, <4>1, LeftAfter DEF new
          <5>2. SubSeq(L, 1, Back(L, k)) = L
            BY <2>3, <3>1, <4>1, BackByOne, SubSeqFull
          <5> QED
            BY <5>1, <5>2
        <4>2. CASE CurrentWord(b) # <<>>
          <5>1. batch = <<DeleteBefore(k), CommitText(new, 1)>>
            BY <2>1, <4>2 DEF new
          <5> QED
            BY <2>2, <2>3, <2>6, <5>1, LeftAfter
        <4> QED
          BY <4>1, <4>2
      <3>3. Believed(b, e, k, new, b2, e2)
        BY <2>1 DEF new
      <3> HIDE DEF L
      <3>4. Carries(b, e, L, b2, e2, SubSeq(L, 1, Back(L, k)) \o new)
        BY <2>2, <3>1, <3>3, TapCarries
      <3> QED
        BY <3>2, <3>4 DEF L
    <2> QED
      BY <2>4, <2>5, <2>6
  <1> QED
    BY <1>1, <1>2, <1>3, <1>4, <1>5 DEF KeySends


-----------------------------------------------------------------------------
(* A stage of a trail: the buffer b at e as it was when h reports had been    *)
(* received, the document the commands sent so far make of the editor's, and *)
(* the reports it will have made by then.                                    *)

Document == [text : Seq(Unit), sel : Selection]
Stage == [b : Seq(Unit), e : Nat, h : Nat, doc : Document, said : Seq(Selection)]

\* A selection is reported when it is another.
Said(said, sel0, sel1) == IF sel1 = sel0 THEN said ELSE Append(said, sel1)

\* What a stage believes, by how much of what is said it has not received: with
\* nothing to come it is in step; with one report that it will accept, it holds
\* the text; with one that it will reject, no word of its own can make it accept.
Tuned(b, e, h, doc, said) ==
    /\ Len(said) = h => e = doc.sel.from /\ IsSuffix(b, Left(doc))
    /\ Len(said) = h + 1 /\ said[h + 1] = At(e) => IsSuffix(b, Left(doc))
    /\ Len(said) = h + 1 /\ said[h + 1] # At(e) => Safe(b, e, Left(doc))
    /\ Len(said) = h + 2 /\ said[h + 1] = At(e) => Safe(b, e, Left(doc))

\* The reports of a document: each differs from the one before, the last is true.
Reported(doc, said) ==
    /\ \A i, j \in 1 .. Len(said) : j = i + 1 => said[i] # said[j]
    /\ Len(said) > 0 => said[Len(said)] = doc.sel

Good(x) ==
    /\ Len(x.b) <= x.e /\ x.h <= Len(x.said)
    /\ Sound(x.doc) /\ Reported(x.doc, x.said)
    /\ Tuned(x.b, x.e, x.h, x.doc, x.said)

\* A selection is reported after those before it, when it is another.
LEMMA Saying ==
    ASSUME NEW said \in Seq(Selection), NEW sel0 \in Selection, NEW sel1 \in Selection
    PROVE  /\ Said(said, sel0, sel1) \in Seq(Selection)
           /\ Len(Said(said, sel0, sel1)) >= Len(said)
           /\ \A i \in 1 .. Len(said) : Said(said, sel0, sel1)[i] = said[i]
           /\ sel1 = sel0 => Said(said, sel0, sel1) = said
           /\ sel1 # sel0 => /\ Len(Said(said, sel0, sel1)) = Len(said) + 1
                             /\ Said(said, sel0, sel1)[Len(said) + 1] = sel1
  <1>1. Len(said) \in Nat
    OBVIOUS
  <1>2. CASE sel1 = sel0
    BY <1>1, <1>2 DEF Said
  <1>3. CASE sel1 # sel0
    <2>1. Said(said, sel0, sel1) = Append(said, sel1)
      BY <1>3 DEF Said
    <2> QED
      BY <1>1, <1>3, <2>1, AppendProperties
  <1> QED
    BY <1>2, <1>3

\* A change reported leaves reports that differ and end in the truth.
LEMMA StillReported ==
    ASSUME NEW doc, Sound(doc), NEW d, Sound(d), NEW said \in Seq(Selection), Reported(doc, said)
    PROVE  /\ Reported(d, Said(said, doc.sel, d.sel))
           /\ Said(said, doc.sel, d.sel) \in Seq(Selection)
  <1> DEFINE r == Said(said, doc.sel, d.sel)
             n == Len(said)
  <1>1. doc.sel \in Selection /\ d.sel \in Selection
    BY LeftOf
  <1>2. /\ r \in Seq(Selection) /\ \A i \in 1 .. n : r[i] = said[i]
        /\ d.sel = doc.sel => r = said
        /\ d.sel # doc.sel => Len(r) = n + 1 /\ r[n + 1] = d.sel
        /\ n \in Nat
    <2>1. n \in Nat
      OBVIOUS
    <2>2. r \in Seq(Selection) /\ \A i \in 1 .. n : r[i] = said[i]
      BY <1>1, Saying
    <2>3. d.sel = doc.sel => r = said
      BY <1>1, Saying
    <2>4. d.sel # doc.sel => Len(r) = n + 1 /\ r[n + 1] = d.sel
      BY <1>1, Saying
    <2> QED
      BY <2>1, <2>2, <2>3, <2>4
  <1> HIDE DEF r
  <1>3. CASE d.sel = doc.sel
    BY <1>2, <1>3 DEF Reported, r
  <1>4. CASE d.sel # doc.sel
    <2>1. \A i \in 1 .. n + 1 : i \in 1 .. n \/ i = n + 1
      BY <1>2
    <2>2. ASSUME NEW i \in 1 .. n + 1, NEW j \in 1 .. n + 1, j = i + 1
          PROVE  r[i] # r[j]
      <3>1. i \in 1 .. n
        BY <1>2, <2>2
      <3>2. CASE j \in 1 .. n
        BY <1>2, <2>2, <3>1, <3>2 DEF Reported
      <3>3. CASE j = n + 1
        <4>1. i = n /\ n > 0
          BY <1>2, <2>2, <3>1, <3>3
        <4> QED
          BY <1>2, <1>4, <3>1, <3>3, <4>1 DEF Reported
      <3> QED
        BY <2>1, <3>2, <3>3
    <2> QED
      BY <1>2, <1>4, <2>2 DEF Reported, r
  <1> QED
    BY <1>2, <1>3, <1>4 DEF r

\* A cursor where it is expected.
LEMMA AtSelects ==
    ASSUME NEW e \in Nat, NEW doc, Sound(doc), doc.sel = At(e)
    PROVE  e = Len(Left(doc)) /\ e = doc.sel.from
  BY LeftOf DEF At

\* The last report received is true: in step again.
LEMMA GoodAccept ==
    ASSUME NEW x \in Stage, Good(x), x.h < Len(x.said), x.said[x.h + 1] = At(x.e)
    PROVE  [x EXCEPT !.h = x.h + 1] \in Stage /\ Good([x EXCEPT !.h = x.h + 1])
  <1> DEFINE y == [x EXCEPT !.h = x.h + 1]
             h == x.h
             s == x.said
             n == Len(s)
             L == Left(x.doc)
  <1>1. /\ x.b \in Seq(Unit) /\ x.e \in Nat /\ h \in Nat /\ x.doc \in Document
        /\ s \in Seq(Selection) /\ n \in Nat
    BY DEF Stage
  <1>2. y = [b |-> x.b, e |-> x.e, h |-> h + 1, doc |-> x.doc, said |-> s]
    BY DEF Stage
  <1>3. y \in Stage
    BY <1>1, <1>2 DEF Stage
  <1>4. Sound(x.doc) /\ Reported(x.doc, s) /\ Tuned(x.b, x.e, h, x.doc, s) /\ Len(x.b) <= x.e
    BY DEF Good
  <1>5. h < n /\ s[h + 1] = At(x.e)
    OBVIOUS
  <1> HIDE DEF y, h, s, n
  <1>6. ASSUME n = h + 1
        PROVE  x.e = x.doc.sel.from /\ IsSuffix(x.b, L)
    <2>1. s[n] = x.doc.sel
      BY <1>1, <1>4, <1>5 DEF Reported, n
    <2>2. x.doc.sel = At(x.e)
      BY <1>5, <1>6, <2>1
    <2> QED
      BY <1>1, <1>4, <1>5, <1>6, <2>2, AtSelects DEF Tuned, n
  <1>7. ASSUME n = h + 2
        PROVE  s[h + 2] # At(x.e) /\ Safe(x.b, x.e, L)
    <2>1. h + 1 \in 1 .. n /\ h + 2 \in 1 .. n /\ h + 2 = h + 1 + 1
      BY <1>1, <1>7
    <2>2. s[h + 1] # s[h + 2]
      BY <1>4, <2>1 DEF Reported, n
    <2> QED
      BY <1>4, <1>5, <1>7, <2>2 DEF Tuned, n
  <1>8. ASSUME n = h + 3
        PROVE  s[h + 2] # At(x.e)
    <2>1. h + 1 \in 1 .. n /\ h + 2 \in 1 .. n /\ h + 2 = h + 1 + 1
      BY <1>1, <1>8
    <2>2. s[h + 1] # s[h + 2]
      BY <1>4, <2>1 DEF Reported, n
    <2> QED
      BY <1>5, <2>2
  <1>9. h + 1 + 1 = h + 2 /\ h + 1 + 2 = h + 3 /\ h + 1 <= n
    BY <1>1, <1>5
  <1>10. Tuned(x.b, x.e, h + 1, x.doc, s)
    BY <1>6, <1>7, <1>8, <1>9 DEF Tuned, n
  <1> QED
    BY <1>2, <1>3, <1>4, <1>9, <1>10 DEF Good, y, n

\* A key leaves a good stage good.
LEMMA GoodKey ==
    ASSUME NEW x \in Stage, Good(x), NEW d, Sound(d),
           NEW b2 \in Seq(Unit), NEW e2 \in Nat, Len(b2) <= e2,
           Carries(x.b, x.e, Left(x.doc), b2, e2, Left(d))
    PROVE  Tuned(b2, e2, x.h, d, Said(x.said, x.doc.sel, d.sel))
  <1> DEFINE b == x.b
             e == x.e
             h == x.h
             s == x.said
             n == Len(s)
             L == Left(x.doc)
             M == Left(d)
             q == x.doc.sel
             r == Said(s, q, d.sel)
  <1>1. b \in Seq(Unit) /\ e \in Nat /\ h \in Nat /\ s \in Seq(Selection) /\ n \in Nat
    BY DEF Stage
  <1>2. /\ Sound(x.doc) /\ Reported(x.doc, s) /\ Tuned(b, e, h, x.doc, s) /\ Len(b) <= e
        /\ h <= n
    BY DEF Good
  <1>3. /\ L \in Seq(Unit) /\ Len(L) = q.from /\ q \in Selection
        /\ M \in Seq(Unit) /\ Len(M) = d.sel.from /\ d.sel \in Selection
    BY <1>2, LeftOf
  <1>4. /\ d.sel = q => r = s
        /\ d.sel # q => /\ Len(r) = n + 1 /\ r[n + 1] = d.sel
        /\ \A i \in 1 .. n : r[i] = s[i]
    <2> DEFINE p == d.sel
    <2> HIDE DEF s, p, q
    <2>1. /\ p = q => Said(s, q, p) = s
          /\ p # q => /\ Len(Said(s, q, p)) = Len(s) + 1 /\ Said(s, q, p)[Len(s) + 1] = p
          /\ \A i \in 1 .. Len(s) : Said(s, q, p)[i] = s[i]
      BY <1>1, <1>3, Saying DEF p
    <2> QED
      BY <2>1, Zenon DEF p
  <1>5. n > 0 => s[n] = q
    BY <1>2 DEF Reported
  <1>6. /\ e = Len(L) /\ IsSuffix(b, L) =>
              /\ e2 >= Len(M)
              /\ e2 = Len(M) => IsSuffix(b2, M)
              /\ Len(M) = Len(L) => e2 = Len(L)
        /\ Len(M) = Len(L) /\ Safe(b, e, L) =>
              /\ Safe(b2, e2, M)
              /\ e # Len(L) /\ e2 = Len(L) => IsSuffix(b2, M)
        /\ Safe(b, e, L) /\ e # Len(L) /\ e2 = Len(L) => Safe(b2, e2, M)
        /\ Len(M) = Len(L) /\ e2 # e => Safe(b2, e2, M)
    BY DEF Carries
  <1>7. e2 >= Len(M) => Safe(b2, e2, M)
    BY <1>3, NothingBeyond
  <1>8. /\ q = At(e) => e = Len(L)
        /\ q = At(e2) => e2 = Len(L)
        /\ d.sel = At(e2) => e2 = Len(M)
    BY <1>1, <1>2, AtSelects
  <1>9. /\ n = h => e = Len(L) /\ IsSuffix(b, L)
        /\ n = h + 1 /\ s[h + 1] = At(e) => IsSuffix(b, L)
        /\ n = h + 1 /\ s[h + 1] # At(e) => Safe(b, e, L)
        /\ n = h + 2 /\ s[h + 1] = At(e) => Safe(b, e, L)
    BY <1>2, <1>3 DEF Tuned
  <1>10. n = h + 1 => s[h + 1] = q
    BY <1>1, <1>5
  <1> HIDE DEF b, e, h, s, n, L, M, q, r
  <1>11. CASE d.sel = q
    <2>1. r = s /\ Len(M) = Len(L) /\ Len(r) = n
      BY <1>3, <1>4, <1>11 DEF n
    <2>2. n = h => e2 = d.sel.from /\ IsSuffix(b2, M)
      BY <1>3, <1>6, <1>9, <2>1
    <2>3. ASSUME n = h + 1, s[h + 1] = At(e2)
          PROVE  IsSuffix(b2, M)
      <3>1. q = At(e2) /\ e2 = Len(L)
        BY <1>8, <1>10, <2>3
      <3>2. CASE e = Len(L)
        <4>1. IsSuffix(b, L)
          BY <1>9, <1>10, <2>3, <3>1, <3>2
        <4> QED
          BY <1>6, <2>1, <3>1, <3>2, <4>1
      <3>3. CASE e # Len(L)
        <4>1. Safe(b, e, L)
          BY <1>8, <1>9, <1>10, <2>3, <3>3
        <4> QED
          BY <1>6, <2>1, <3>1, <3>3, <4>1
      <3> QED
        BY <3>2, <3>3
    <2>4. ASSUME n = h + 1, s[h + 1] # At(e2)
          PROVE  Safe(b2, e2, M)
      <3>1. CASE q = At(e)
        <4>1. e = Len(L) /\ IsSuffix(b, L)
          BY <1>8, <1>9, <1>10, <2>4, <3>1
        <4> QED
          BY <1>6, <1>7, <4>1
      <3>2. CASE q # At(e)
        BY <1>6, <1>9, <1>10, <2>1, <2>4, <3>2
      <3> QED
        BY <3>1, <3>2
    <2>5. ASSUME n = h + 2, s[h + 1] = At(e2)
          PROVE  Safe(b2, e2, M)
      <3>1. CASE e2 = e
        BY <1>6, <1>9, <2>1, <2>5, <3>1
      <3>2. CASE e2 # e
        BY <1>6, <2>1, <3>2
      <3> QED
        BY <3>1, <3>2
    <2> QED
      BY <2>1, <2>2, <2>3, <2>4, <2>5 DEF Tuned, M, h, s, q, r
  <1>12. CASE d.sel # q
    <2>1. Len(r) = n + 1 /\ r[n + 1] = d.sel /\ \A i \in 1 .. n : r[i] = s[i]
      BY <1>4, <1>12
    <2>2. Len(r) # h
      BY <1>1, <1>2, <2>1
    <2>3. Len(r) = h + 1 => n = h
      BY <1>1, <2>1
    <2>4. Len(r) = h + 2 => n = h + 1 /\ r[h + 1] = s[h + 1]
      <3>1. Len(r) = h + 2 => n = h + 1 /\ h + 1 \in 1 .. n
        BY <1>1, <2>1
      <3> QED
        BY <2>1, <3>1
    <2>5. ASSUME n = h, r[h + 1] = At(e2)
          PROVE  IsSuffix(b2, M)
      BY <1>6, <1>8, <1>9, <2>1, <2>5
    <2>6. ASSUME n = h
          PROVE  Safe(b2, e2, M)
      BY <1>6, <1>7, <1>9, <2>6
    <2>7. ASSUME n = h + 1, s[h + 1] = At(e2)
          PROVE  Safe(b2, e2, M)
      <3>1. q = At(e2) /\ e2 = Len(L)
        BY <1>8, <1>10, <2>7
      <3>2. CASE e = Len(L)
        <4>1. IsSuffix(b, L)
          BY <1>9, <1>10, <2>7, <3>1, <3>2
        <4> QED
          BY <1>6, <1>7, <3>2, <4>1
      <3>3. CASE e # Len(L)
        <4>1. Safe(b, e, L)
          BY <1>8, <1>9, <1>10, <2>7, <3>3
        <4> QED
          BY <1>6, <3>1, <3>3, <4>1
      <3> QED
        BY <3>2, <3>3
    <2> QED
      BY <2>2, <2>3, <2>4, <2>5, <2>6, <2>7 DEF Tuned, M, h, s, q, r
  <1> QED
    BY <1>11, <1>12

\* A stage that holds nothing is good after any command.
LEMMA GoodForeign ==
    ASSUME NEW x \in Stage, Good(x), x.b = <<>>, NEW d, Sound(d)
    PROVE  Tuned(<<>>, x.e, x.h, d, Said(x.said, x.doc.sel, d.sel))
  <1> DEFINE e == x.e
             h == x.h
             s == x.said
             q == x.doc.sel
             r == Said(s, q, d.sel)
             M == Left(d)
  <1>1. e \in Nat /\ h \in Nat /\ s \in Seq(Selection) /\ Len(s) \in Nat
    BY DEF Stage
  <1>2. Sound(x.doc) /\ Tuned(<<>>, e, h, x.doc, s) /\ h <= Len(s)
    BY DEF Good
  <1>3. q \in Selection /\ d.sel \in Selection /\ M \in Seq(Unit)
    BY <1>2, LeftOf
  <1>4. d.sel = q => r = s
    BY <1>1, <1>3, Saying
  <1>5. d.sel # q => Len(r) = Len(s) + 1
    <2> DEFINE p == d.sel
    <2> HIDE DEF s, p, q
    <2>1. p # q => Len(Said(s, q, p)) = Len(s) + 1
      BY <1>1, <1>3, Saying DEF p
    <2> QED
      BY <2>1, Zenon DEF p
  <1>6. Len(s) = h => e = q.from
    BY <1>2 DEF Tuned
  <1>7. IsSuffix(<<>>, M)
    BY <1>3, EmptySuffix
  <1>8. Safe(<<>>, e, M)
    <2>1. ASSUME e < Len(M), NEW j \in 0 .. 0
          PROVE  Back(M, j) + j # e
      <3>1. j = 0 /\ Back(M, 0) = Len(M) /\ Len(M) \in Nat
        BY <1>3, BackByOne
      <3> QED
        BY <1>1, <2>1, <3>1
    <2>2. Len(<<>>) = 0
      OBVIOUS
    <2> QED
      BY <2>1, <2>2 DEF Safe
  <1> HIDE DEF e, h, s, q, r, M
  <1>9. Len(r) = h => e = d.sel.from
    <2>1. CASE d.sel = q
      BY <1>4, <1>6, <2>1
    <2>2. CASE d.sel # q
      BY <1>1, <1>2, <1>5, <2>2
    <2> QED
      BY <2>1, <2>2
  <1> QED
    BY <1>7, <1>8, <1>9 DEF Tuned, M, e, h, s, q, r


\* A stage, written out.
LEMMA Restaged ==
    ASSUME NEW x \in Stage, NEW d, NEW r, NEW h
    PROVE  /\ [x EXCEPT !.doc = d, !.said = r] = [b |-> x.b, e |-> x.e, h |-> x.h, doc |-> d, said |-> r]
           /\ [x EXCEPT !.h = h] = [b |-> x.b, e |-> x.e, h |-> h, doc |-> x.doc, said |-> x.said]
  <1>1. [x EXCEPT !.h = h] = [b |-> x.b, e |-> x.e, h |-> h, doc |-> x.doc, said |-> x.said]
    BY DEF Stage
  <1> DEFINE y == [x EXCEPT !.doc = d]
  <1>2. y = [b |-> x.b, e |-> x.e, h |-> x.h, doc |-> d, said |-> x.said]
    BY DEF Stage
  <1>3. [x EXCEPT !.doc = d, !.said = r] = [y EXCEPT !.said = r]
    OBVIOUS
  <1> HIDE DEF y
  <1>4. [y EXCEPT !.said = r] = [b |-> x.b, e |-> x.e, h |-> x.h, doc |-> d, said |-> r]
    BY <1>2
  <1> QED
    BY <1>1, <1>3, <1>4

\* The user moves the cursor.
LEMMA GoodMove ==
    ASSUME NEW x \in Stage, Good(x), NEW q \in Selection,
           q.from \in Positions(x.doc.text), q.to \in Positions(x.doc.text), q.from <= q.to,
           q # x.doc.sel
    PROVE  LET d == Doc(x.doc.text, q)
               y == [x EXCEPT !.doc = d, !.said = Said(x.said, x.doc.sel, q)]
           IN  y \in Stage /\ Good(y)
  <1> DEFINE b == x.b
             e == x.e
             h == x.h
             s == x.said
             n == Len(s)
             t == x.doc.text
             p == x.doc.sel
             L == Left(x.doc)
             d == Doc(t, q)
             M == Left(d)
             r == Said(s, p, q)
             y == [x EXCEPT !.doc = d, !.said = r]
  <1>1. /\ b \in Seq(Unit) /\ e \in Nat /\ h \in Nat /\ s \in Seq(Selection) /\ n \in Nat
        /\ x.doc \in Document
    BY DEF Stage
  <1>2. /\ Sound(x.doc) /\ Reported(x.doc, s) /\ Tuned(b, e, h, x.doc, s) /\ Len(b) <= e
        /\ h <= n
    BY DEF Good
  <1>3. t \in Seq(Unit) /\ WellFormed(t) /\ p \in Selection /\ p.from \in Positions(t)
    BY <1>2, LeftOf DEF Sound
  <1>4. d \in Document /\ Sound(d) /\ d.sel = q /\ d.text = t
    BY <1>3 DEF Sound, Doc, Document
  <1>5. Reported(d, r) /\ r \in Seq(Selection)
    BY <1>1, <1>2, <1>4, StillReported
  <1>6. y = [b |-> b, e |-> e, h |-> h, doc |-> d, said |-> r]
    <2> HIDE DEF d, r
    <2> QED
      BY Restaged
  <1>7. y \in Stage
    BY <1>1, <1>4, <1>5, <1>6 DEF Stage
  <1>8. Len(r) = n + 1 /\ r[n + 1] = q /\ \A i \in 1 .. n : r[i] = s[i]
    <2>1. p # q
      OBVIOUS
    <2> HIDE DEF s, p
    <2> QED
      BY <1>1, <1>3, <2>1, Saying
  <1>9. L = SubSeq(t, 1, p.from) /\ M = SubSeq(t, 1, q.from)
    BY <1>4 DEF Left
  <1>10. ASSUME e = p.from, IsSuffix(b, L)
         PROVE  Safe(b, e, M)
    BY <1>1, <1>3, <1>9, <1>10, MovedAway
  <1>11. ASSUME n = h
         PROVE  Safe(b, e, M) /\ (q = At(e) => IsSuffix(b, M))
    <2>1. e = p.from /\ IsSuffix(b, L)
      BY <1>2, <1>11 DEF Tuned
    <2>2. q = At(e) => q.from = e
      BY DEF At
    <2> QED
      BY <1>9, <1>10, <2>1, <2>2
  <1>12. ASSUME n = h + 1, s[h + 1] = At(e)
         PROVE  Safe(b, e, M)
    <2>1. p = At(e)
      BY <1>1, <1>2, <1>12 DEF Reported
    <2>2. e = p.from
      BY <1>1, <1>2, <2>1, AtSelects
    <2>3. IsSuffix(b, L)
      BY <1>2, <1>12 DEF Tuned
    <2> QED
      BY <1>10, <2>2, <2>3
  <1> HIDE DEF b, e, h, s, n, t, p, L, d, M, r, y
  <1>13. Len(r) # h
    BY <1>1, <1>2, <1>8
  <1>14. Len(r) = h + 1 => n = h /\ r[h + 1] = q
    BY <1>1, <1>8
  <1>15. Len(r) = h + 2 => n = h + 1 /\ r[h + 1] = s[h + 1] /\ h <= Len(r)
    <2>1. Len(r) = h + 2 => n = h + 1 /\ h + 1 \in 1 .. n
      BY <1>1, <1>8
    <2> QED
      BY <1>1, <1>8, <2>1
  <1>16. Tuned(b, e, h, d, r)
    BY <1>11, <1>12, <1>13, <1>14, <1>15 DEF Tuned, M
  <1>17. h <= Len(r)
    BY <1>1, <1>2, <1>8
  <1> QED
    BY <1>2, <1>4, <1>5, <1>6, <1>7, <1>16, <1>17 DEF Good, b, e, h, s, n, t, p, d, r, y

\* The application takes the text away.
LEMMA GoodTake ==
    ASSUME NEW x \in Stage, Good(x)
    PROVE  LET d == Doc(<<>>, At(0))
               y == [x EXCEPT !.doc = d, !.said = Said(x.said, x.doc.sel, At(0))]
           IN  y \in Stage /\ Good(y)
  <1> DEFINE b == x.b
             e == x.e
             h == x.h
             s == x.said
             n == Len(s)
             p == x.doc.sel
             q == At(0)
             d == Doc(<<>>, q)
             M == Left(d)
             r == Said(s, p, q)
             y == [x EXCEPT !.doc = d, !.said = r]
  <1>1. /\ b \in Seq(Unit) /\ e \in Nat /\ h \in Nat /\ s \in Seq(Selection) /\ n \in Nat
        /\ x.doc \in Document
    BY DEF Stage
  <1>2. /\ Sound(x.doc) /\ Reported(x.doc, s) /\ Tuned(b, e, h, x.doc, s) /\ Len(b) <= e
        /\ h <= n
    BY DEF Good
  <1>3. p \in Selection /\ q \in Selection /\ q.from = 0
    BY <1>2, LeftOf DEF Selection, At
  <1>4. d \in Document /\ Sound(d) /\ d.sel = q
    <2>1. <<>> \in Seq(Unit) /\ WellFormed(<<>>) /\ 0 \in Positions(<<>>)
      BY DEF WellFormed, Positions
    <2> QED
      BY <1>3, <2>1 DEF Sound, Doc, Document, At
  <1>5. Reported(d, r) /\ r \in Seq(Selection)
    BY <1>1, <1>2, <1>4, StillReported
  <1>6. y = [b |-> b, e |-> e, h |-> h, doc |-> d, said |-> r]
    <2> HIDE DEF d, r
    <2> QED
      BY Restaged
  <1>7. y \in Stage
    BY <1>1, <1>4, <1>5, <1>6 DEF Stage
  <1>8. /\ p = q => r = s
        /\ p # q => Len(r) = n + 1 /\ r[n + 1] = q
    <2>1. p = q => r = s
      BY <1>1, <1>3, Saying
    <2> HIDE DEF q
    <2>2. p # q => Len(r) = n + 1 /\ r[n + 1] = q
      BY <1>1, <1>3, Saying
    <2> QED
      BY <2>1, <2>2
  <1>9. M \in Seq(Unit) /\ Len(M) = 0
    BY <1>3, <1>4, LeftOf
  <1>10. Safe(b, e, M)
    BY <1>1, <1>9, NothingBeyond
  <1>11. e = 0 => IsSuffix(b, M)
    <2>1. e = 0 => b = <<>>
      BY <1>1, <1>2
    <2> QED
      BY <1>9, <2>1, EmptySuffix
  <1>12. q = At(e) => e = 0
    BY DEF At
  <1>13. n = h => e = p.from
    BY <1>2 DEF Tuned
  <1>14. n = h + 1 => s[h + 1] = p
    BY <1>1, <1>2 DEF Reported
  <1> HIDE DEF b, e, h, s, n, p, q, d, M, r, y
  <1>15. CASE p = q
    <2>1. r = s /\ Len(r) = n
      BY <1>8, <1>15 DEF n
    <2>2. Len(r) = h => e = d.sel.from /\ IsSuffix(b, M)
      BY <1>3, <1>4, <1>11, <1>13, <1>15, <2>1
    <2>3. Len(r) = h + 1 /\ r[h + 1] = At(e) => IsSuffix(b, M)
      BY <1>11, <1>12, <1>14, <1>15, <2>1
    <2>4. Tuned(b, e, h, d, r)
      BY <1>10, <2>2, <2>3 DEF Tuned, M
    <2>5. h <= Len(r)
      BY <1>2, <2>1
    <2> QED
      BY <1>2, <1>4, <1>5, <1>6, <1>7, <2>4, <2>5 DEF Good, b, e, h, s, n, p, q, d, r, y
  <1>16. CASE p # q
    <2>1. Len(r) = n + 1 /\ r[n + 1] = q
      BY <1>8, <1>16
    <2>2. Len(r) # h /\ h <= Len(r)
      BY <1>1, <1>2, <2>1
    <2>3. Len(r) = h + 1 => n = h
      BY <1>1, <2>1
    <2>4. Len(r) = h + 1 /\ r[h + 1] = At(e) => IsSuffix(b, M)
      BY <1>11, <1>12, <2>1, <2>3
    <2>5. Tuned(b, e, h, d, r)
      BY <1>10, <2>2, <2>4 DEF Tuned, M
    <2> QED
      BY <1>2, <1>4, <1>5, <1>6, <1>7, <2>2, <2>5 DEF Good, b, e, h, s, n, p, q, d, r, y
  <1> QED
    BY <1>15, <1>16

-----------------------------------------------------------------------------
(* A trail: a stage for now, and one for each command that is on its way.    *)

\* y is x after one more command: a key pressed on x, or one from before the
\* buffer was emptied; and at most one report was received since, which y accepts.
Follows(x, y, batch) ==
    /\ y.doc = Applied(x.doc, batch)
    /\ y.said = Said(x.said, x.doc.sel, y.doc.sel)
    /\ \/ y.h = x.h
       \/ y.h = x.h + 1 /\ y.h <= Len(y.said) /\ y.said[y.h] = At(y.e)
    /\ \/ KeySends(x.b, x.e, y.b, y.e, batch)
       \/ x.b = <<>> /\ y.b = <<>> /\ y.e = x.e

\* What follows a good stage is good.
LEMMA GoodNext ==
    ASSUME NEW x \in Stage, Good(x), NEW y \in Stage, NEW batch \in Batches, Follows(x, y, batch)
    PROVE  Good(y)
  <1> DEFINE z == [y EXCEPT !.h = x.h]
  <1>1. /\ x.b \in Seq(Unit) /\ x.e \in Nat /\ x.h \in Nat /\ x.said \in Seq(Selection)
        /\ y.b \in Seq(Unit) /\ y.e \in Nat /\ y.h \in Nat /\ y.said \in Seq(Selection)
        /\ y.doc \in Document /\ Len(x.said) \in Nat /\ Len(y.said) \in Nat
    BY DEF Stage
  <1>2. /\ Sound(x.doc) /\ Reported(x.doc, x.said) /\ Len(x.b) <= x.e /\ x.h <= Len(x.said)
        /\ Tuned(x.b, x.e, x.h, x.doc, x.said)
    BY DEF Good
  <1>3. Sound(y.doc)
    BY <1>2, Applying DEF Follows
  <1>4. y.said = Said(x.said, x.doc.sel, y.doc.sel)
    BY DEF Follows
  <1>5. Reported(y.doc, y.said)
    BY <1>1, <1>2, <1>3, <1>4, StillReported
  <1>6. Len(x.said) <= Len(y.said)
    <2>1. x.doc.sel \in Selection /\ y.doc.sel \in Selection
      BY <1>2, <1>3, LeftOf
    <2>2. Len(Said(x.said, x.doc.sel, y.doc.sel)) >= Len(x.said)
      BY <1>1, <2>1, Saying
    <2> QED
      BY <1>1, <1>4, <2>2
  <1>7. Len(y.b) <= y.e /\ Tuned(y.b, y.e, x.h, y.doc, y.said)
    <2>1. CASE KeySends(x.b, x.e, y.b, y.e, batch)
      <3>1. /\ Len(y.b) <= y.e
            /\ Carries(x.b, x.e, Left(x.doc), y.b, y.e, Left(Applied(x.doc, batch)))
        BY <1>1, <1>2, <2>1, KeysCarry
      <3>2. Left(Applied(x.doc, batch)) = Left(y.doc)
        BY DEF Follows
      <3> QED
        BY <1>1, <1>3, <1>4, <3>1, <3>2, GoodKey
    <2>2. CASE x.b = <<>> /\ y.b = <<>> /\ y.e = x.e
      <3>1. Tuned(<<>>, x.e, x.h, y.doc, y.said)
        BY <1>3, <1>4, <2>2, GoodForeign
      <3>2. Len(<<>>) = 0 /\ 0 <= x.e
        BY <1>1
      <3> QED
        BY <2>2, <3>1, <3>2
    <2> QED
      BY <2>1, <2>2 DEF Follows
  <1>8. z = [b |-> y.b, e |-> y.e, h |-> x.h, doc |-> y.doc, said |-> y.said]
    BY Restaged
  <1> HIDE DEF z
  <1>9. z \in Stage
    BY <1>1, <1>8 DEF Stage
  <1>10. x.h <= Len(y.said)
    BY <1>1, <1>2, <1>6
  <1>11. Good(z)
    BY <1>3, <1>5, <1>7, <1>8, <1>10 DEF Good
  <1>12. CASE y.h = x.h
    BY <1>3, <1>5, <1>7, <1>10, <1>12 DEF Good
  <1>13. CASE y.h = x.h + 1 /\ y.h <= Len(y.said) /\ y.said[y.h] = At(y.e)
    <2>1. z.h < Len(z.said) /\ z.said[z.h + 1] = At(z.e) /\ z.h + 1 = y.h
      BY <1>1, <1>8, <1>13
    <2>2. Good([z EXCEPT !.h = z.h + 1])
      BY <1>9, <1>11, <2>1, GoodAccept
    <2>3. [z EXCEPT !.h = z.h + 1]
              = [b |-> y.b, e |-> y.e, h |-> y.h, doc |-> y.doc, said |-> y.said]
      BY <1>8, <2>1
    <2> QED
      BY <2>2, <2>3 DEF Good
  <1> QED
    BY <1>12, <1>13 DEF Follows


\* What was said by an earlier stage was said by a later one.
Extends(s, t) == Len(s) <= Len(t) /\ \A i \in 1 .. Len(s) : t[i] = s[i]

\* An extension of an extension is one.
LEMMA ExtendsOn ==
    ASSUME NEW r \in Seq(Selection), NEW s \in Seq(Selection), NEW t \in Seq(Selection),
           Extends(r, s), Extends(s, t)
    PROVE  Extends(r, t)
  <1>1. Len(r) \in Nat /\ Len(s) \in Nat /\ Len(t) \in Nat
    OBVIOUS
  <1>2. \A i \in 1 .. Len(r) : i \in 1 .. Len(s)
    BY <1>1 DEF Extends
  <1> QED
    BY <1>1, <1>2 DEF Extends

\* A report extends the reports before it.
LEMMA SayingExtends ==
    ASSUME NEW said \in Seq(Selection), NEW sel0 \in Selection, NEW sel1 \in Selection
    PROVE  Extends(said, Said(said, sel0, sel1))
  <1>1. /\ Said(said, sel0, sel1) \in Seq(Selection)
        /\ Len(Said(said, sel0, sel1)) >= Len(said)
        /\ \A i \in 1 .. Len(said) : Said(said, sel0, sel1)[i] = said[i]
    BY Saying
  <1> HIDE DEF Said
  <1>2. Len(Said(said, sel0, sel1)) \in Nat /\ Len(said) \in Nat
    BY <1>1
  <1> QED
    BY <1>1, <1>2 DEF Extends

Trail(tr, n, cmds) ==
    /\ tr \in [1 .. n + 1 -> Stage]
    /\ \A k \in 1 .. n + 1 : Good(tr[k]) /\ tr[k].h <= tr[n + 1].h
    /\ \A k \in 1 .. n : Follows(tr[k], tr[k + 1], cmds[k])
    /\ \A j, k \in 1 .. n + 1 : j <= k => Extends(tr[j].said, tr[k].said)

\* A key adds a stage.
LEMMA TrailLonger ==
    ASSUME NEW n \in Nat, NEW cmds \in Seq(Batches), Len(cmds) = n, NEW tr, Trail(tr, n, cmds),
           NEW batch \in Batches, NEW y \in Stage, Follows(tr[n + 1], y, batch),
           y.h = tr[n + 1].h
    PROVE  Trail([k \in 1 .. n + 2 |-> IF k = n + 2 THEN y ELSE tr[k]], n + 1, Append(cmds, batch))
  <1> DEFINE r == [k \in 1 .. n + 2 |-> IF k = n + 2 THEN y ELSE tr[k]]
             all == Append(cmds, batch)
  <1>1. /\ \A k \in 1 .. n + 1 : tr[k] \in Stage /\ Good(tr[k]) /\ tr[k].h <= y.h
        /\ \A k \in 1 .. n : Follows(tr[k], tr[k + 1], cmds[k])
        /\ \A j, k \in 1 .. n + 1 : j <= k => Extends(tr[j].said, tr[k].said)
    BY DEF Trail
  <1>2. n + 1 \in 1 .. n + 1 /\ n + 1 + 1 = n + 2 /\ n + 2 \in 1 .. n + 2
    OBVIOUS
  <1>3. Good(y)
    BY <1>1, <1>2, GoodNext
  <1>4. /\ \A k \in 1 .. n : all[k] = cmds[k]
        /\ all[n + 1] = batch
    BY AppendProperties
  <1>5. \A k \in 1 .. n + 2 : k = n + 2 \/ (k \in 1 .. n + 1 /\ k # n + 2)
    OBVIOUS
  <1>6. r[n + 2] = y /\ \A k \in 1 .. n + 1 : r[k] = tr[k]
    OBVIOUS
  <1>7. r \in [1 .. n + 2 -> Stage]
    BY <1>1, <1>5
  <1>8. Extends(tr[n + 1].said, y.said)
    <2>1. tr[n + 1].doc.sel \in Selection /\ y.doc.sel \in Selection
      BY <1>1, <1>2, <1>3, LeftOf DEF Good
    <2>2. tr[n + 1].said \in Seq(Selection)
      BY <1>1, <1>2 DEF Stage
    <2> QED
      BY <2>1, <2>2, SayingExtends DEF Follows
  <1>9. ASSUME NEW k \in 1 .. n + 1
        PROVE  Extends(tr[k].said, y.said)
    <2>1. /\ tr[k].said \in Seq(Selection) /\ tr[n + 1].said \in Seq(Selection)
          /\ y.said \in Seq(Selection)
      BY <1>1, <1>2 DEF Stage
    <2>2. Extends(tr[k].said, tr[n + 1].said)
      BY <1>1, <1>2
    <2> QED
      BY <1>8, <2>1, <2>2, ExtendsOn
  <1>10. Extends(y.said, y.said)
    <2>1. y.said \in Seq(Selection) /\ Len(y.said) \in Nat
      BY DEF Stage
    <2> QED
      BY <2>1 DEF Extends
  <1>11. y.h <= y.h
    BY DEF Stage
  <1> HIDE DEF r, all
  <1>12. \A k \in 1 .. n + 2 : Good(r[k]) /\ r[k].h <= r[n + 2].h
    BY <1>1, <1>3, <1>5, <1>6, <1>11
  <1>13. ASSUME NEW k \in 1 .. n + 1
         PROVE  Follows(r[k], r[k + 1], all[k])
    <2>1. CASE k = n + 1
      BY <1>2, <1>4, <1>6, <2>1
    <2>2. CASE k # n + 1
      <3>1. k \in 1 .. n /\ k + 1 \in 1 .. n + 1
        BY <2>2
      <3> QED
        BY <1>1, <1>4, <1>6, <3>1
    <2> QED
      BY <2>1, <2>2
  <1>14. ASSUME NEW j \in 1 .. n + 2, NEW k \in 1 .. n + 2, j <= k
         PROVE  Extends(r[j].said, r[k].said)
    <2>1. CASE k = n + 2
      BY <1>5, <1>6, <1>9, <1>10, <2>1
    <2>2. CASE k # n + 2
      <3>1. j \in 1 .. n + 1 /\ k \in 1 .. n + 1
        BY <1>14, <2>2
      <3> QED
        BY <1>1, <1>6, <1>14, <3>1
    <2> QED
      BY <2>1, <2>2
  <1> QED
    BY <1>2, <1>7, <1>12, <1>13, <1>14 DEF Trail, r, all

\* Applying the first command takes the first stage away.
LEMMA TrailShorter ==
    ASSUME NEW n \in Nat \ {0}, NEW cmds \in Seq(Batches), Len(cmds) = n, NEW tr, Trail(tr, n, cmds)
    PROVE  /\ Trail([k \in 1 .. n |-> tr[k + 1]], n - 1, Tail(cmds))
           /\ Tail(cmds) \in Seq(Batches) /\ Len(Tail(cmds)) = n - 1 /\ Head(cmds) = cmds[1]
  <1> DEFINE r == [k \in 1 .. n |-> tr[k + 1]]
             rest == Tail(cmds)
  <1>1. /\ tr \in [1 .. n + 1 -> Stage]
        /\ \A k \in 1 .. n + 1 : Good(tr[k]) /\ tr[k].h <= tr[n + 1].h
        /\ \A k \in 1 .. n : Follows(tr[k], tr[k + 1], cmds[k])
        /\ \A j, k \in 1 .. n + 1 : j <= k => Extends(tr[j].said, tr[k].said)
    BY DEF Trail
  <1>2. /\ rest \in Seq(Batches) /\ Len(rest) = n - 1 /\ Head(cmds) = cmds[1]
        /\ \A k \in 1 .. n - 1 : rest[k] = cmds[k + 1]
    <2>1. cmds # <<>>
      OBVIOUS
    <2> QED
      BY <2>1, HeadTailProperties
  <1>3. \A k \in 1 .. n : k + 1 \in 1 .. n + 1 /\ r[k] = tr[k + 1]
    OBVIOUS
  <1>4. n - 1 + 1 = n /\ n \in 1 .. n
    OBVIOUS
  <1>5. r \in [1 .. n -> Stage]
    BY <1>1, <1>3
  <1> HIDE DEF r, rest
  <1>6. \A k \in 1 .. n : Good(r[k]) /\ r[k].h <= r[n].h
    BY <1>1, <1>3, <1>4
  <1>7. ASSUME NEW k \in 1 .. n - 1
        PROVE  Follows(r[k], r[k + 1], rest[k])
    <2>1. k \in 1 .. n /\ k + 1 \in 1 .. n
      OBVIOUS
    <2> QED
      BY <1>1, <1>2, <1>3, <2>1
  <1>8. ASSUME NEW j \in 1 .. n, NEW k \in 1 .. n, j <= k
        PROVE  Extends(r[j].said, r[k].said)
    <2>1. j + 1 <= k + 1
      BY <1>8
    <2> QED
      BY <1>1, <1>3, <2>1
  <1> QED
    BY <1>2, <1>4, <1>5, <1>6, <1>7, <1>8 DEF Trail, r, rest


\* The last stage accepts a report that the first has made.
LEMMA TrailAccepts ==
    ASSUME NEW n \in Nat, NEW cmds \in Seq(Batches), Len(cmds) = n, NEW tr, Trail(tr, n, cmds),
           tr[n + 1].h < Len(tr[1].said), tr[1].said[tr[n + 1].h + 1] = At(tr[n + 1].e)
    PROVE  Trail([tr EXCEPT ![n + 1] = [@ EXCEPT !.h = tr[n + 1].h + 1]], n, cmds)
  <1> DEFINE x == tr[n + 1]
             h == x.h + 1
             y == [x EXCEPT !.h = h]
             r == [tr EXCEPT ![n + 1] = y]
  <1>1. /\ tr \in [1 .. n + 1 -> Stage]
        /\ \A k \in 1 .. n + 1 : Good(tr[k]) /\ tr[k].h <= x.h
        /\ \A k \in 1 .. n : Follows(tr[k], tr[k + 1], cmds[k])
        /\ \A j, k \in 1 .. n + 1 : j <= k => Extends(tr[j].said, tr[k].said)
    BY DEF Trail
  <1>2. n + 1 \in 1 .. n + 1 /\ 1 \in 1 .. n + 1 /\ 1 <= n + 1
    OBVIOUS
  <1>3. x \in Stage /\ Good(x) /\ tr[1] \in Stage
    BY <1>1, <1>2
  <1>4. /\ x.h \in Nat /\ x.said \in Seq(Selection) /\ Len(x.said) \in Nat /\ x.e \in Nat
        /\ tr[1].said \in Seq(Selection) /\ Len(tr[1].said) \in Nat
    BY <1>3 DEF Stage
  <1>5. x.h < Len(x.said) /\ x.said[h] = At(x.e) /\ h <= Len(x.said)
    <2>1. Extends(tr[1].said, x.said)
      BY <1>1, <1>2
    <2>2. x.h < Len(tr[1].said) /\ tr[1].said[h] = At(x.e)
      OBVIOUS
    <2> HIDE DEF x
    <2>3. h \in 1 .. Len(tr[1].said) /\ h = x.h + 1
      BY <1>4, <2>2
    <2> HIDE DEF h
    <2>4. x.said[h] = tr[1].said[h] /\ Len(tr[1].said) <= Len(x.said)
      BY <2>1, <2>3 DEF Extends
    <2> QED
      BY <1>4, <2>2, <2>3, <2>4, SMTT(30)
  <1>6. y \in Stage /\ Good(y)
    BY <1>3, <1>5, GoodAccept
  <1>7. y = [b |-> x.b, e |-> x.e, h |-> h, doc |-> x.doc, said |-> x.said]
    BY <1>3, Restaged
  <1> HIDE DEF y
  <1>8. y.b = x.b /\ y.e = x.e /\ y.h = h /\ y.doc = x.doc /\ y.said = x.said
    BY <1>7
  <1>9. /\ r \in [1 .. n + 1 -> Stage] /\ r[n + 1] = y
        /\ \A k \in 1 .. n + 1 : k # n + 1 => r[k] = tr[k]
        /\ \A k \in 1 .. n + 1 : r[k].said = tr[k].said
    <2>1. r \in [1 .. n + 1 -> Stage] /\ r[n + 1] = y
      BY <1>1, <1>2, <1>6
    <2>2. \A k \in 1 .. n + 1 : k # n + 1 => r[k] = tr[k]
      BY <1>1
    <2> HIDE DEF r
    <2>3. \A k \in 1 .. n + 1 : r[k].said = tr[k].said
      BY <1>8, <2>1, <2>2
    <2> QED
      BY <2>1, <2>2, <2>3
  <1>10. r = [tr EXCEPT ![n + 1] = [@ EXCEPT !.h = tr[n + 1].h + 1]]
    BY DEF y
  <1> HIDE DEF r, x
  <1>11. ASSUME NEW k \in 1 .. n + 1
         PROVE  Good(r[k]) /\ r[k].h <= r[n + 1].h
    <2>1. CASE k = n + 1
      BY <1>4, <1>6, <1>8, <1>9, <2>1
    <2>2. CASE k # n + 1
      <3>1. r[k] = tr[k] /\ Good(tr[k]) /\ tr[k].h <= x.h
        BY <1>1, <1>9, <2>2
      <3>2. tr[k].h \in Nat
        BY <1>1 DEF Stage
      <3> QED
        BY <1>4, <1>8, <1>9, <3>1, <3>2
    <2> QED
      BY <2>1, <2>2
  <1>12. ASSUME NEW k \in 1 .. n
         PROVE  Follows(r[k], r[k + 1], cmds[k])
    <2>1. k \in 1 .. n + 1 /\ k + 1 \in 1 .. n + 1 /\ k # n + 1
      OBVIOUS
    <2>2. r[k] = tr[k] /\ Follows(tr[k], tr[k + 1], cmds[k])
      BY <1>1, <1>9, <2>1
    <2>3. CASE k + 1 # n + 1
      BY <1>9, <2>1, <2>2, <2>3
    <2>4. CASE k + 1 = n + 1
      <3>1. Follows(tr[k], x, cmds[k]) /\ r[k + 1] = y
        BY <1>9, <2>2, <2>4 DEF x
      <3>2. ASSUME x.h = tr[k].h + 1, x.h <= Len(x.said), x.said[x.h] = At(x.e)
            PROVE  FALSE
        <4>1. x.h \in 1 .. Len(x.said) /\ h \in 1 .. Len(x.said) /\ tr[k].h \in Nat
          <5>1. tr[k].h \in Nat
            BY <1>1, <2>1 DEF Stage
          <5> QED
            BY <1>4, <1>5, <3>2, <5>1, SMTT(30)
        <4>2. x.said[x.h] # x.said[h]
          BY <1>3, <4>1 DEF Good, Reported
        <4> QED
          BY <1>5, <3>2, <4>2
      <3>3. x.h = tr[k].h
        BY <3>1, <3>2 DEF Follows
      <3> QED
        BY <1>5, <1>8, <2>2, <3>1, <3>3 DEF Follows
    <2> QED
      BY <2>3, <2>4
  <1>13. \A j, k \in 1 .. n + 1 : j <= k => Extends(r[j].said, r[k].said)
    BY <1>1, <1>9
  <1>14. Trail(r, n, cmds)
    BY <1>9, <1>11, <1>12, <1>13 DEF Trail
  <1> QED
    BY <1>10, <1>14

\* A report that is rejected empties every stage.
LEMMA TrailRejects ==
    ASSUME NEW n \in Nat, NEW cmds \in Seq(Batches), Len(cmds) = n, NEW tr, Trail(tr, n, cmds),
           NEW h \in Nat, h < Len(tr[1].said)
    PROVE  Trail([k \in 1 .. n + 1 |->
                    [b |-> <<>>, e |-> tr[1].said[h + 1].from, h |-> h + 1,
                     doc |-> tr[k].doc, said |-> tr[k].said]], n, cmds)
  <1> DEFINE e == tr[1].said[h + 1].from
             r == [k \in 1 .. n + 1 |->
                    [b |-> <<>>, e |-> e, h |-> h + 1, doc |-> tr[k].doc, said |-> tr[k].said]]
  <1>1. /\ tr \in [1 .. n + 1 -> Stage]
        /\ \A k \in 1 .. n + 1 : Good(tr[k]) /\ tr[k].h <= tr[n + 1].h
        /\ \A k \in 1 .. n : Follows(tr[k], tr[k + 1], cmds[k])
        /\ \A j, k \in 1 .. n + 1 : j <= k => Extends(tr[j].said, tr[k].said)
    BY DEF Trail
  <1>2. n + 1 \in 1 .. n + 1 /\ 1 \in 1 .. n + 1
    OBVIOUS
  <1>3. /\ tr[1].said \in Seq(Selection) /\ Len(tr[1].said) \in Nat
        /\ h + 1 \in 1 .. Len(tr[1].said)
    BY <1>1, <1>2 DEF Stage
  <1>4. tr[1].said[h + 1] \in Selection /\ e \in Nat
    <2>1. tr[1].said[h + 1] \in Selection
      BY <1>3, ElementOfSeq
    <2> QED
      BY <2>1 DEF Selection
  <1>5. <<>> \in Seq(Unit) /\ Len(<<>>) = 0 /\ h + 1 \in Nat
    OBVIOUS
  <1>6. ASSUME NEW k \in 1 .. n + 1
        PROVE  /\ tr[k].doc \in Document /\ tr[k].said \in Seq(Selection) /\ Len(tr[k].said) \in Nat
               /\ h + 1 <= Len(tr[k].said) /\ tr[k].said[h + 1] = tr[1].said[h + 1]
    <2>1. tr[k].doc \in Document /\ tr[k].said \in Seq(Selection) /\ Len(tr[k].said) \in Nat
      BY <1>1 DEF Stage
    <2>2. 1 <= k
      OBVIOUS
    <2>3. Extends(tr[1].said, tr[k].said)
      BY <1>1, <1>2, <2>2
    <2> QED
      BY <1>3, <2>1, <2>3 DEF Extends
  <1> HIDE DEF e
  <1>7. r \in [1 .. n + 1 -> Stage]
    <2>1. \A k \in 1 .. n + 1 :
            [b |-> <<>>, e |-> e, h |-> h + 1, doc |-> tr[k].doc, said |-> tr[k].said] \in Stage
      BY <1>4, <1>5, <1>6 DEF Stage
    <2> QED
      BY <2>1
  <1>8. \A k \in 1 .. n + 1 : /\ r[k].b = <<>> /\ r[k].e = e /\ r[k].h = h + 1
                              /\ r[k].doc = tr[k].doc /\ r[k].said = tr[k].said
    OBVIOUS
  <1>9. r = [k \in 1 .. n + 1 |->
                    [b |-> <<>>, e |-> tr[1].said[h + 1].from, h |-> h + 1,
                     doc |-> tr[k].doc, said |-> tr[k].said]]
    BY DEF e
  <1> HIDE DEF r
  <1>10. ASSUME NEW k \in 1 .. n + 1
         PROVE  Good(r[k])
    <2>1. Sound(tr[k].doc) /\ Reported(tr[k].doc, tr[k].said)
      BY <1>1 DEF Good
    <2> DEFINE M == Left(tr[k].doc)
    <2>2. M \in Seq(Unit)
      BY <2>1, LeftOf
    <2>3. IsSuffix(<<>>, M)
      BY <2>2, EmptySuffix
    <2>4. Safe(<<>>, e, M)
      <3>1. ASSUME e < Len(M), NEW j \in 0 .. 0
            PROVE  Back(M, j) + j # e
        <4>1. j = 0 /\ Back(M, 0) = Len(M) /\ Len(M) \in Nat
          BY <2>2, BackByOne
        <4> QED
          BY <1>4, <3>1, <4>1
      <3> QED
        BY <1>5, <3>1 DEF Safe
    <2>5. Len(tr[k].said) = h + 1 => e = tr[k].doc.sel.from
      <3>1. ASSUME Len(tr[k].said) = h + 1
            PROVE  tr[k].said[h + 1] = tr[k].doc.sel
        BY <2>1, <3>1 DEF Reported
      <3> QED
        BY <1>6, <3>1 DEF e
    <2>6. Tuned(<<>>, e, h + 1, tr[k].doc, tr[k].said)
      BY <2>3, <2>4, <2>5 DEF Tuned
    <2>7. Len(<<>>) <= e
      BY <1>4, <1>5
    <2> QED
      BY <1>6, <1>8, <2>1, <2>6, <2>7 DEF Good
  <1>11. ASSUME NEW k \in 1 .. n
         PROVE  Follows(r[k], r[k + 1], cmds[k])
    <2>1. k \in 1 .. n + 1 /\ k + 1 \in 1 .. n + 1
      OBVIOUS
    <2> QED
      BY <1>1, <1>8, <2>1 DEF Follows
  <1>12. \A j, k \in 1 .. n + 1 : j <= k => Extends(r[j].said, r[k].said)
    BY <1>1, <1>8
  <1>13. \A k \in 1 .. n + 1 : r[k].h <= r[n + 1].h
    BY <1>2, <1>5, <1>8
  <1>14. Trail(r, n, cmds)
    BY <1>7, <1>10, <1>11, <1>12, <1>13 DEF Trail
  <1> QED
    BY <1>9, <1>14

\* Another first stage, for a document that someone else has changed, with the
\* same commands still to come: every later stage is made anew.
LEMMA TrailRemade ==
    ASSUME NEW n \in Nat, NEW cmds \in Seq(Batches), Len(cmds) = n, NEW tr, Trail(tr, n, cmds),
           tr[n + 1].h <= Len(tr[1].said),
           NEW x \in Stage, Good(x), x.b = tr[1].b, x.e = tr[1].e, x.h = tr[1].h,
           Extends(tr[1].said, x.said)
    PROVE  \E r : /\ Trail(r, n, cmds) /\ r[1] = x
                  /\ r[n + 1].b = tr[n + 1].b /\ r[n + 1].e = tr[n + 1].e
                  /\ r[n + 1].h = tr[n + 1].h
  <1> DEFINE Remade(r, m) ==
               /\ r \in [1 .. m + 1 -> Stage] /\ r[1] = x
               /\ \A k \in 1 .. m + 1 :
                     Good(r[k]) /\ r[k].b = tr[k].b /\ r[k].e = tr[k].e /\ r[k].h = tr[k].h
               /\ \A k \in 1 .. m : Follows(r[k], r[k + 1], cmds[k])
               /\ \A j, k \in 1 .. m + 1 : j <= k => Extends(r[j].said, r[k].said)
             S == {m \in 0 .. n : \E r : Remade(r, m)}
  <1>1. /\ tr \in [1 .. n + 1 -> Stage]
        /\ \A k \in 1 .. n + 1 : Good(tr[k]) /\ tr[k].h <= tr[n + 1].h
        /\ \A k \in 1 .. n : Follows(tr[k], tr[k + 1], cmds[k])
        /\ \A j, k \in 1 .. n + 1 : j <= k => Extends(tr[j].said, tr[k].said)
    BY DEF Trail
  <1>2. 0 \in S
    <2> DEFINE r == [k \in 1 .. 0 + 1 |-> x]
    <2>1. 1 .. 0 + 1 = {1} /\ 1 .. 0 = {} /\ 0 \in 0 .. n
      OBVIOUS
    <2>2. r \in [1 .. 0 + 1 -> Stage] /\ r[1] = x
      BY <2>1
    <2> HIDE DEF r
    <2>3. Extends(x.said, x.said)
      <3>1. x.said \in Seq(Selection) /\ Len(x.said) \in Nat
        BY DEF Stage
      <3> QED
        BY <3>1 DEF Extends
    <2>4. Remade(r, 0)
      BY <2>1, <2>2, <2>3
    <2> HIDE DEF Remade
    <2> QED
      BY <2>1, <2>4
  <1>3. ASSUME NEW m \in 1 .. n, m - 1 \in S
        PROVE  m \in S
    <2> HIDE DEF Remade
    <2>1. PICK f : Remade(f, m - 1)
      BY <1>3
    <2>2. m - 1 + 1 = m /\ m \in 1 .. n + 1 /\ m + 1 \in 1 .. n + 1 /\ m \in 1 .. m /\ 1 \in 1 .. m
          /\ m \in 0 .. n /\ 1 <= m /\ m + 1 \in 1 .. m + 1 /\ 1 \in 1 .. n + 1
      OBVIOUS
    <2>3. /\ f \in [1 .. m -> Stage] /\ f[1] = x
          /\ \A k \in 1 .. m :
                Good(f[k]) /\ f[k].b = tr[k].b /\ f[k].e = tr[k].e /\ f[k].h = tr[k].h
          /\ \A k \in 1 .. m - 1 : Follows(f[k], f[k + 1], cmds[k])
          /\ \A j, k \in 1 .. m : j <= k => Extends(f[j].said, f[k].said)
      BY <2>1, <2>2 DEF Remade
    <2> DEFINE w == f[m]
               d == Applied(w.doc, cmds[m])
               said == Said(w.said, w.doc.sel, d.sel)
               z == tr[m + 1]
               y == [b |-> z.b, e |-> z.e, h |-> z.h, doc |-> d, said |-> said]
               r == [k \in 1 .. m + 1 |-> IF k = m + 1 THEN y ELSE f[k]]
    <2>4. /\ w \in Stage /\ Good(w) /\ w.b = tr[m].b /\ w.e = tr[m].e /\ w.h = tr[m].h
          /\ cmds[m] \in Batches /\ z \in Stage /\ Follows(tr[m], z, cmds[m])
      <3>1. cmds[m] \in Batches
        BY ElementOfSeq
      <3> QED
        BY <1>1, <2>2, <2>3, <3>1
    <2>5. Sound(w.doc) /\ Sound(d)
      BY <2>4, Applying DEF Good
    <2>6. w.doc.sel \in Selection /\ d.sel \in Selection /\ d \in Document
      BY <2>5, LeftOf DEF Sound, Document
    <2>7. w.said \in Seq(Selection)
      BY <2>4 DEF Stage
    <2> HIDE DEF d, w, z
    <2>8. said \in Seq(Selection) /\ Extends(w.said, said)
      <3>1. said \in Seq(Selection)
        BY <2>6, <2>7, Saying
      <3> QED
        BY <2>6, <2>7, <3>1, SayingExtends
    <2>9. y \in Stage
      BY <2>4, <2>6, <2>8 DEF Stage
    <2> HIDE DEF said
    <2>10. y.b = z.b /\ y.e = z.e /\ y.h = z.h /\ y.doc = d /\ y.said = said
      OBVIOUS
    <2> HIDE DEF y
    <2>11. ASSUME NEW i \in 1 .. Len(tr[1].said)
           PROVE  i <= Len(said) /\ said[i] = tr[1].said[i] /\ z.said[i] = tr[1].said[i]
      <3>1. Extends(x.said, w.said)
        BY <2>2, <2>3 DEF w
      <3>2. Extends(tr[1].said, z.said)
        <4>1. 1 <= m + 1
          BY <2>2
        <4> QED
          BY <1>1, <2>2, <4>1 DEF z
      <3>3. x.said \in Seq(Selection) /\ tr[1].said \in Seq(Selection)
        BY <1>1, <2>2 DEF Stage
      <3>4. Extends(tr[1].said, said)
        BY <2>7, <2>8, <3>1, <3>3, ExtendsOn
      <3>5. Len(tr[1].said) \in Nat /\ Len(said) \in Nat
        BY <2>8, <3>3
      <3> QED
        BY <3>2, <3>4, <3>5 DEF Extends
    <2>12. Follows(w, y, cmds[m])
      <3>1. y.doc = Applied(w.doc, cmds[m]) /\ y.said = Said(w.said, w.doc.sel, y.doc.sel)
        BY <2>10 DEF d, said
      <3>2. KeySends(w.b, w.e, y.b, y.e, cmds[m]) \/ (w.b = <<>> /\ y.b = <<>> /\ y.e = w.e)
        BY <2>4, <2>10 DEF Follows
      <3>3. ASSUME z.h = tr[m].h + 1, z.h <= Len(z.said), z.said[z.h] = At(z.e)
            PROVE  y.h = w.h + 1 /\ y.h <= Len(y.said) /\ y.said[y.h] = At(y.e)
        <4>1. z.h \in 1 .. Len(tr[1].said)
          <5>1. z.h <= tr[n + 1].h /\ tr[n + 1].h \in Nat /\ z.h \in Nat /\ tr[m].h \in Nat
            <6>1. tr[m] \in Stage /\ tr[n + 1] \in Stage /\ z \in Stage /\ z.h <= tr[n + 1].h
              <7>1. n + 1 \in 1 .. n + 1
                OBVIOUS
              <7> QED
                BY <1>1, <2>2, <2>4, <7>1 DEF z
            <6> QED
              BY <6>1 DEF Stage
          <5>2. Len(tr[1].said) \in Nat
            BY <1>1, <2>2 DEF Stage
          <5> QED
            BY <3>3, <5>1, <5>2
        <4> QED
          BY <2>4, <2>10, <2>11, <3>3, <4>1
      <3>4. z.h = tr[m].h => y.h = w.h
        BY <2>4, <2>10
      <3> QED
        BY <2>4, <3>1, <3>2, <3>3, <3>4 DEF Follows
    <2>13. Good(y)
      BY <2>4, <2>9, <2>12, GoodNext
    <2>14. r[m + 1] = y /\ \A k \in 1 .. m : r[k] = f[k]
      BY <2>2
    <2>15. \A k \in 1 .. m + 1 : k = m + 1 \/ k \in 1 .. m
      OBVIOUS
    <2>16. r \in [1 .. m + 1 -> Stage]
      BY <2>3, <2>9, <2>15
    <2> HIDE DEF r
    <2>17. r[1] = x
      BY <2>2, <2>3, <2>14
    <2>18. \A k \in 1 .. m + 1 :
              Good(r[k]) /\ r[k].b = tr[k].b /\ r[k].e = tr[k].e /\ r[k].h = tr[k].h
      BY <2>3, <2>10, <2>13, <2>14, <2>15 DEF z
    <2>19. ASSUME NEW k \in 1 .. m
           PROVE  Follows(r[k], r[k + 1], cmds[k])
      <3>1. CASE k = m
        BY <2>2, <2>12, <2>14, <3>1 DEF w
      <3>2. CASE k # m
        <4>1. k \in 1 .. m - 1 /\ k + 1 \in 1 .. m
          BY <3>2
        <4> QED
          BY <2>3, <2>14, <4>1
      <3> QED
        BY <3>1, <3>2
    <2>20. ASSUME NEW j \in 1 .. m + 1, NEW k \in 1 .. m + 1, j <= k
           PROVE  Extends(r[j].said, r[k].said)
      <3>1. CASE k # m + 1
        <4>1. j \in 1 .. m /\ k \in 1 .. m
          BY <2>20, <3>1
        <4> QED
          BY <2>3, <2>14, <2>20, <4>1
      <3>2. CASE k = m + 1 /\ j = m + 1
        <4>1. Len(said) \in Nat
          BY <2>8
        <4>2. Extends(said, said)
          BY <4>1 DEF Extends
        <4> QED
          BY <2>10, <2>14, <3>2, <4>2
      <3>3. CASE k = m + 1 /\ j # m + 1
        <4>1. j \in 1 .. m /\ j <= m
          BY <2>15, <3>3
        <4>2. Extends(f[j].said, w.said) /\ f[j].said \in Seq(Selection)
          BY <2>2, <2>3, <4>1 DEF w, Stage
        <4>3. Extends(f[j].said, said)
          BY <2>7, <2>8, <4>2, ExtendsOn
        <4> QED
          BY <2>10, <2>14, <3>3, <4>1, <4>3
      <3> QED
        BY <3>1, <3>2, <3>3
    <2>21. Remade(r, m)
      BY <2>16, <2>17, <2>18, <2>19, <2>20 DEF Remade
    <2> QED
      BY <2>2, <2>21
  <1>4. n \in S
    <2> HIDE DEF S
    <2> QED
      BY <1>2, <1>3, CountingUp
  <1>5. PICK r : Remade(r, n)
    BY <1>4
  <1>6. n + 1 \in 1 .. n + 1
    OBVIOUS
  <1>7. \A k \in 1 .. n + 1 : r[k].h <= r[n + 1].h
    BY <1>1, <1>5, <1>6
  <1>8. Trail(r, n, cmds)
    BY <1>5, <1>7 DEF Trail
  <1> QED
    BY <1>5, <1>6, <1>8

-----------------------------------------------------------------------------
(* The inductive invariant: unless a command was dropped, some trail leads   *)
(* from what the editor holds to what the keyboard believes.                 *)

Leads(tr, doc, cmds, b, e, ups) ==
    LET last == tr[Len(cmds) + 1]
    IN  /\ cmds \in Seq(Batches)
        /\ Trail(tr, Len(cmds), cmds)
        /\ tr[1].doc = doc
        /\ b = last.b /\ e = last.e
        /\ last.h <= Len(tr[1].said)
        /\ ups = SubSeq(tr[1].said, last.h + 1, Len(tr[1].said))

SyncInv ==
    dropped \/ \E tr : Leads(tr, Doc(text, sel), commands, before, expected, updates)

\* The reports not yet received, after one is received.
LEMMA RestReceived ==
    ASSUME NEW said \in Seq(Selection), NEW h \in 0 .. Len(said)
    PROVE  LET rest == SubSeq(said, h + 1, Len(said))
           IN  /\ rest = <<>> <=> h = Len(said)
               /\ h < Len(said) => /\ Head(rest) = said[h + 1]
                                   /\ Tail(rest) = SubSeq(said, h + 1 + 1, Len(said))
  <1>1. Len(said) \in Nat
    OBVIOUS
  <1>2. ASSUME h < Len(said)
        PROVE  /\ SubSeq(said, h + 1, Len(said)) # <<>>
               /\ Head(SubSeq(said, h + 1, Len(said))) = said[h + 1]
               /\ Tail(SubSeq(said, h + 1, Len(said))) = SubSeq(said, h + 1 + 1, Len(said))
    <2>1. h + 1 \in 1 .. Len(said) /\ Len(said) \in h + 1 .. Len(said)
      BY <1>1, <1>2
    <2>2. Len(SubSeq(said, h + 1, Len(said))) = Len(said) - (h + 1) + 1
      BY <2>1
    <2>3. Len(SubSeq(said, h + 1, Len(said))) # 0
      BY <1>1, <1>2, <2>2
    <2>5. Len(<<>>) = 0
      OBVIOUS
    <2>4. SubSeq(said, h + 1, Len(said)) # <<>>
      BY <2>3, <2>5, Zenon
    <2> QED
      BY <2>1, <2>4, HeadTailOfSubSeq
  <1>3. h = Len(said) => SubSeq(said, h + 1, Len(said)) = <<>>
    BY <1>1, SubSeqEmpty
  <1> QED
    BY <1>1, <1>2, <1>3

\* The reports not yet received, after one more is made.
LEMMA RestSaid ==
    ASSUME NEW said \in Seq(Selection), NEW h \in 0 .. Len(said),
           NEW sel0 \in Selection, NEW sel1 \in Selection
    PROVE  LET r == Said(said, sel0, sel1)
               rest == SubSeq(said, h + 1, Len(said))
           IN  /\ h <= Len(r)
               /\ SubSeq(r, h + 1, Len(r)) = IF sel1 = sel0 THEN rest ELSE Append(rest, sel1)
  <1> DEFINE r == Said(said, sel0, sel1)
             n == Len(said)
             rest == SubSeq(said, h + 1, n)
  <1>1. n \in Nat /\ h \in Nat /\ h <= n
    OBVIOUS
  <1>2. CASE sel1 = sel0
    <2>1. r = said
      BY <1>2, Saying
    <2> QED
      BY <1>1, <1>2, <2>1
  <1>3. CASE sel1 # sel0
    <2>1. r \in Seq(Selection) /\ Len(r) = n + 1 /\ r[n + 1] = sel1
          /\ \A i \in 1 .. n : r[i] = said[i]
      BY <1>3, Saying
    <2> HIDE DEF r
    <2>2. rest \in Seq(Selection) /\ Len(rest) = n - h /\ \A i \in 1 .. n - h : rest[i] = said[h + i]
      BY <1>1
    <2> HIDE DEF rest, n
    <2>3. /\ Append(rest, sel1) \in Seq(Selection) /\ Len(Append(rest, sel1)) = n - h + 1
          /\ \A i \in 1 .. n - h : Append(rest, sel1)[i] = rest[i]
          /\ Append(rest, sel1)[n - h + 1] = sel1
      BY <2>2, AppendProperties
    <2>4. /\ SubSeq(r, h + 1, n + 1) \in Seq(Selection) /\ Len(SubSeq(r, h + 1, n + 1)) = n - h + 1
          /\ \A i \in 1 .. n - h + 1 : SubSeq(r, h + 1, n + 1)[i] = r[h + i]
      <3>1. h + 1 \in Int /\ n + 1 \in Int /\ h + 1 <= n + 1
            /\ n + 1 - (h + 1) + 1 = n - h + 1
        BY <1>1
      <3>2. \A i \in h + 1 .. n + 1 : r[i] \in Selection
        <4>1. \A i \in h + 1 .. n + 1 : i \in 1 .. n + 1
          BY <1>1
        <4> QED
          BY <2>1, <4>1
      <3> DEFINE lo == h + 1
                 hi == n + 1
      <3> HIDE DEF lo, hi
      <3>5. /\ SubSeq(r, lo, hi) \in Seq(Selection)
            /\ Len(SubSeq(r, lo, hi)) = IF lo <= hi THEN hi - lo + 1 ELSE 0
            /\ \A i \in 1 .. hi - lo + 1 : SubSeq(r, lo, hi)[i] = r[lo + i - 1]
        BY <3>1, <3>2, SubSeqProperties DEF lo, hi
      <3>6. lo = h + 1 /\ hi = n + 1
        BY DEF lo, hi
      <3>7. lo <= hi /\ hi - lo + 1 = n - h + 1 /\ \A i \in 1 .. n - h + 1 : lo + i - 1 = h + i
        BY <1>1, <3>6
      <3>8. /\ SubSeq(r, lo, hi) \in Seq(Selection) /\ Len(SubSeq(r, lo, hi)) = n - h + 1
            /\ \A i \in 1 .. n - h + 1 : SubSeq(r, lo, hi)[i] = r[h + i]
        BY <3>5, <3>7
      <3> QED
        BY <3>6, <3>8
    <2>5. ASSUME NEW i \in 1 .. n - h + 1
          PROVE  SubSeq(r, h + 1, n + 1)[i] = Append(rest, sel1)[i]
      <3>1. CASE i = n - h + 1
        <4>1. h + i = n + 1
          BY <1>1, <3>1
        <4> QED
          BY <2>1, <2>3, <2>4, <3>1, <4>1
      <3>2. CASE i # n - h + 1
        <4>1. i \in 1 .. n - h /\ h + i \in 1 .. n
          BY <1>1, <3>2
        <4> QED
          BY <2>1, <2>2, <2>3, <2>4, <4>1
      <3> QED
        BY <3>1, <3>2
    <2>6. SubSeq(r, h + 1, n + 1) = Append(rest, sel1)
      BY <2>3, <2>4, <2>5, SeqEqual
    <2>7. h <= n + 1
      BY <1>1
    <2> QED
      BY <1>3, <2>1, <2>6, <2>7 DEF r, rest, n
  <1> QED
    BY <1>2, <1>3

\* What a trail says of the state.
LEMMA LeadsFacts ==
    ASSUME NEW tr, NEW doc, NEW cmds, NEW b, NEW e, NEW ups, Leads(tr, doc, cmds, b, e, ups)
    PROVE  LET n == Len(cmds)
               x == tr[1]
               z == tr[n + 1]
           IN  /\ n \in Nat /\ cmds \in Seq(Batches)
               /\ Trail(tr, n, cmds)
               /\ x \in Stage /\ Good(x) /\ z \in Stage /\ Good(z)
               /\ Extends(x.said, z.said)
               /\ x.doc = doc /\ Sound(doc) /\ doc.sel \in Selection
               /\ b = z.b /\ e = z.e
               /\ b \in Seq(Unit) /\ e \in Nat /\ Len(b) <= e
               /\ x.said \in Seq(Selection) /\ Len(x.said) \in Nat
               /\ z.h \in 0 .. Len(x.said) /\ z.h \in Nat /\ z.h <= Len(x.said)
               /\ ups = SubSeq(x.said, z.h + 1, Len(x.said))
  <1> DEFINE n == Len(cmds)
             x == tr[1]
             z == tr[n + 1]
  <1>1. /\ cmds \in Seq(Batches) /\ Trail(tr, n, cmds)
        /\ x.doc = doc /\ b = z.b /\ e = z.e
        /\ z.h <= Len(x.said)
        /\ ups = SubSeq(x.said, z.h + 1, Len(x.said))
    BY DEF Leads
  <1>2. n \in Nat
    BY <1>1
  <1> HIDE DEF n
  <1>3. n + 1 \in 1 .. n + 1 /\ 1 \in 1 .. n + 1 /\ 1 <= n + 1
    BY <1>2
  <1>4. x \in Stage /\ Good(x) /\ z \in Stage /\ Good(z) /\ Extends(x.said, z.said)
    BY <1>1, <1>3 DEF Trail
  <1> HIDE DEF x, z
  <1>5. /\ z.b \in Seq(Unit) /\ z.e \in Nat /\ z.h \in Nat
        /\ x.said \in Seq(Selection) /\ Len(x.said) \in Nat
    BY <1>4 DEF Stage
  <1>6. Len(z.b) <= z.e /\ Sound(doc)
    BY <1>1, <1>4 DEF Good
  <1>7. z.h \in 0 .. Len(x.said)
    BY <1>1, <1>5
  <1>8. doc.sel \in Selection
    BY <1>6, LeftOf
  <1> QED
    BY <1>1, <1>2, <1>4, <1>5, <1>6, <1>7, <1>8 DEF n, x, z

\* What the editor will report when it comes to hold d.
Reports(doc, d, ups) == IF d.sel = doc.sel THEN ups ELSE Append(ups, d.sel)

\* The editor applies the first command: the first stage is over.
LEMMA Applies ==
    ASSUME NEW tr, NEW doc, NEW cmds, NEW b, NEW e, NEW ups, Leads(tr, doc, cmds, b, e, ups),
           cmds # <<>>
    PROVE  LET d == Applied(doc, Head(cmds))
           IN  \E r : Leads(r, d, Tail(cmds), b, e, Reports(doc, d, ups))
  <1> DEFINE n == Len(cmds)
             d == Applied(doc, Head(cmds))
             x == tr[1]
             z == tr[n + 1]
             y == tr[2]
             r == [k \in 1 .. n |-> tr[k + 1]]
  <1>1. /\ n \in Nat /\ cmds \in Seq(Batches) /\ Trail(tr, n, cmds)
        /\ x \in Stage /\ x.doc = doc /\ doc.sel \in Selection
        /\ b = z.b /\ e = z.e
        /\ x.said \in Seq(Selection) /\ z.h \in 0 .. Len(x.said)
        /\ ups = SubSeq(x.said, z.h + 1, Len(x.said))
    BY LeadsFacts
  <1>2. n \in Nat \ {0}
    BY <1>1
  <1> HIDE DEF n
  <1>3. /\ Trail(r, n - 1, Tail(cmds)) /\ Tail(cmds) \in Seq(Batches) /\ Len(Tail(cmds)) = n - 1
        /\ Head(cmds) = cmds[1]
    BY <1>1, <1>2, TrailShorter DEF n
  <1>4. Follows(x, y, cmds[1]) /\ y \in Stage /\ Good(y)
    <2>1. 1 \in 1 .. n /\ 1 + 1 = 2 /\ 2 \in 1 .. n + 1
      BY <1>2
    <2> QED
      BY <1>1, <2>1 DEF Trail
  <1>5. n - 1 + 1 = n /\ 1 \in 1 .. n /\ n \in 1 .. n /\ 1 + 1 = 2
    BY <1>2
  <1>6. r[1] = y /\ r[n] = z
    BY <1>5
  <1> HIDE DEF x, y, z, r
  <1>7. y.doc = d /\ y.said = Said(x.said, doc.sel, d.sel)
    BY <1>1, <1>3, <1>4 DEF Follows
  <1>8. d.sel \in Selection
    BY <1>4, <1>7, LeftOf DEF Good
  <1> HIDE DEF d
  <1>9. z.h <= Len(y.said) /\ Reports(doc, d, ups) = SubSeq(y.said, z.h + 1, Len(y.said))
    <2> DEFINE s == x.said
               h == z.h
               p == doc.sel
               q == d.sel
    <2>2. s \in Seq(Selection) /\ h \in 0 .. Len(s) /\ p \in Selection /\ q \in Selection
      BY <1>1, <1>8
    <2> HIDE DEF s, h, p, q
    <2>3. /\ h <= Len(Said(s, p, q))
          /\ SubSeq(Said(s, p, q), h + 1, Len(Said(s, p, q)))
                = IF q = p THEN SubSeq(s, h + 1, Len(s)) ELSE Append(SubSeq(s, h + 1, Len(s)), q)
      BY <2>2, RestSaid
    <2>1. /\ z.h <= Len(Said(x.said, doc.sel, d.sel))
          /\ SubSeq(Said(x.said, doc.sel, d.sel), z.h + 1, Len(Said(x.said, doc.sel, d.sel)))
                = IF d.sel = doc.sel THEN SubSeq(x.said, z.h + 1, Len(x.said))
                  ELSE Append(SubSeq(x.said, z.h + 1, Len(x.said)), d.sel)
      BY <2>3, Zenon DEF s, h, p, q
    <2> QED
      BY <1>1, <1>7, <2>1, Zenon DEF Reports
  <1>10. Leads(r, d, Tail(cmds), b, e, Reports(doc, d, ups))
    BY <1>1, <1>3, <1>5, <1>6, <1>7, <1>9 DEF Leads
  <1> QED
    BY <1>10 DEF d

\* A key adds a stage.
LEMMA Sends ==
    ASSUME NEW tr, NEW doc, NEW cmds, NEW b, NEW e, NEW ups, Leads(tr, doc, cmds, b, e, ups),
           NEW b2, NEW e2, NEW batch, KeySends(b, e, b2, e2, batch)
    PROVE  \E r : Leads(r, doc, Append(cmds, batch), b2, e2, ups)
  <1> DEFINE n == Len(cmds)
             all == Append(cmds, batch)
             x == tr[1]
             z == tr[n + 1]
             d == Applied(z.doc, batch)
             said == Said(z.said, z.doc.sel, d.sel)
             y == [b |-> b2, e |-> e2, h |-> z.h, doc |-> d, said |-> said]
             r == [k \in 1 .. n + 2 |-> IF k = n + 2 THEN y ELSE tr[k]]
  <1>1. /\ n \in Nat /\ cmds \in Seq(Batches) /\ Trail(tr, n, cmds)
        /\ z \in Stage /\ Good(z) /\ x.doc = doc
        /\ b = z.b /\ e = z.e
        /\ b \in Seq(Unit) /\ e \in Nat /\ Len(b) <= e
        /\ z.h <= Len(x.said)
        /\ ups = SubSeq(x.said, z.h + 1, Len(x.said))
    BY LeadsFacts
  <1>2. batch \in Batches /\ b2 \in Seq(Unit) /\ e2 \in Nat
    BY <1>1, KeysCarry
  <1>3. all \in Seq(Batches) /\ Len(all) = n + 1 /\ n + 1 + 1 = n + 2
    BY <1>1, <1>2, AppendProperties
  <1> HIDE DEF n, all
  <1> HIDE DEF x, z
  <1>4. Sound(z.doc) /\ Sound(d) /\ z.said \in Seq(Selection) /\ z.h \in Nat
    BY <1>1, <1>2, Applying DEF Good, Stage
  <1> HIDE DEF d
  <1>5. z.doc.sel \in Selection /\ d.sel \in Selection /\ d \in Document
    BY <1>4, LeftOf DEF Sound, Document
  <1>6. said \in Seq(Selection)
    BY <1>4, <1>5, Saying
  <1> HIDE DEF said
  <1>7. y \in Stage
    BY <1>2, <1>4, <1>5, <1>6 DEF Stage
  <1>8. y.b = b2 /\ y.e = e2 /\ y.h = z.h /\ y.doc = d /\ y.said = said
    OBVIOUS
  <1> HIDE DEF y
  <1>9. Follows(z, y, batch)
    BY <1>1, <1>8 DEF Follows, d, said
  <1>10. Trail(r, n + 1, all)
    <2>1. Len(cmds) = n
      BY DEF n
    <2> HIDE DEF r
    <2>2. Follows(tr[n + 1], y, batch) /\ y.h = tr[n + 1].h
      BY <1>8, <1>9 DEF z
    <2> QED
      BY <1>1, <1>2, <1>7, <2>1, <2>2, TrailLonger DEF r, all
  <1>11. r[1] = x /\ r[n + 2] = y
    BY <1>1 DEF x
  <1> HIDE DEF r
  <1>12. Leads(r, doc, all, b2, e2, ups)
    BY <1>1, <1>3, <1>8, <1>10, <1>11 DEF Leads
  <1> QED
    BY <1>12 DEF all

\* Someone else makes d of the document: the first stage, and so each, is another.
LEMMA Moves ==
    ASSUME NEW tr, NEW doc, NEW cmds, NEW b, NEW e, NEW ups, Leads(tr, doc, cmds, b, e, ups),
           NEW d, Sound(d),
           LET y == [tr[1] EXCEPT !.doc = d, !.said = Said(tr[1].said, doc.sel, d.sel)]
           IN  y \in Stage /\ Good(y)
    PROVE  \E r : Leads(r, d, cmds, b, e, Reports(doc, d, ups))
  <1> DEFINE n == Len(cmds)
             x == tr[1]
             z == tr[n + 1]
             y == [x EXCEPT !.doc = d, !.said = Said(x.said, doc.sel, d.sel)]
  <1>1. /\ n \in Nat /\ cmds \in Seq(Batches) /\ Trail(tr, n, cmds)
        /\ x \in Stage /\ x.doc = doc /\ doc.sel \in Selection
        /\ b = z.b /\ e = z.e
        /\ x.said \in Seq(Selection) /\ z.h \in 0 .. Len(x.said) /\ z.h <= Len(x.said)
        /\ ups = SubSeq(x.said, z.h + 1, Len(x.said))
    BY LeadsFacts
  <1>2. Len(cmds) = n
    OBVIOUS
  <1>3. d.sel \in Selection
    BY LeftOf
  <1>4. y \in Stage /\ Good(y)
    OBVIOUS
  <1>5. y = [b |-> x.b, e |-> x.e, h |-> x.h, doc |-> d, said |-> Said(x.said, doc.sel, d.sel)]
    BY <1>1, Restaged
  <1> HIDE DEF n, x, y, z
  <1>6. /\ y.b = x.b /\ y.e = x.e /\ y.h = x.h /\ y.doc = d
        /\ y.said = Said(x.said, doc.sel, d.sel)
    BY <1>5
  <1>7. Extends(x.said, y.said)
    BY <1>1, <1>3, <1>6, SayingExtends
  <1>8. PICK r : /\ Trail(r, n, cmds) /\ r[1] = y
                 /\ r[n + 1].b = z.b /\ r[n + 1].e = z.e /\ r[n + 1].h = z.h
    BY <1>1, <1>2, <1>4, <1>6, <1>7, TrailRemade DEF x, z
  <1>9. z.h <= Len(y.said) /\ Reports(doc, d, ups) = SubSeq(y.said, z.h + 1, Len(y.said))
    <2> DEFINE s == x.said
               h == z.h
               p == doc.sel
               q == d.sel
    <2>2. s \in Seq(Selection) /\ h \in 0 .. Len(s) /\ p \in Selection /\ q \in Selection
      BY <1>1, <1>3
    <2> HIDE DEF s, h, p, q
    <2>3. /\ h <= Len(Said(s, p, q))
          /\ SubSeq(Said(s, p, q), h + 1, Len(Said(s, p, q)))
                = IF q = p THEN SubSeq(s, h + 1, Len(s)) ELSE Append(SubSeq(s, h + 1, Len(s)), q)
      BY <2>2, RestSaid
    <2>1. /\ z.h <= Len(Said(x.said, doc.sel, d.sel))
          /\ SubSeq(Said(x.said, doc.sel, d.sel), z.h + 1, Len(Said(x.said, doc.sel, d.sel)))
                = IF d.sel = doc.sel THEN SubSeq(x.said, z.h + 1, Len(x.said))
                  ELSE Append(SubSeq(x.said, z.h + 1, Len(x.said)), d.sel)
      BY <2>3, Zenon DEF s, h, p, q
    <2> QED
      BY <1>1, <1>6, <2>1, Zenon DEF Reports
  <1>10. Leads(r, d, cmds, b, e, Reports(doc, d, ups))
    BY <1>1, <1>2, <1>6, <1>8, <1>9 DEF Leads
  <1> QED
    BY <1>10

\* The keyboard receives the first report, and accepts it.
LEMMA Accepts ==
    ASSUME NEW tr, NEW doc, NEW cmds, NEW b, NEW e, NEW ups, Leads(tr, doc, cmds, b, e, ups),
           ups # <<>>, Head(ups) = At(e)
    PROVE  \E r : Leads(r, doc, cmds, b, e, Tail(ups))
  <1> DEFINE n == Len(cmds)
             x == tr[1]
             z == tr[n + 1]
             h == z.h + 1
             y == [z EXCEPT !.h = h]
             r == [tr EXCEPT ![n + 1] = y]
  <1>1. /\ n \in Nat /\ cmds \in Seq(Batches) /\ Trail(tr, n, cmds)
        /\ x \in Stage /\ x.doc = doc /\ z \in Stage
        /\ b = z.b /\ e = z.e
        /\ x.said \in Seq(Selection) /\ Len(x.said) \in Nat
        /\ z.h \in 0 .. Len(x.said) /\ z.h \in Nat
        /\ ups = SubSeq(x.said, z.h + 1, Len(x.said))
    BY LeadsFacts
  <1>2. Len(cmds) = n
    OBVIOUS
  <1> HIDE DEF n, x
  <1>3. z.h < Len(x.said) /\ x.said[z.h + 1] = At(z.e)
        /\ Tail(ups) = SubSeq(x.said, h + 1, Len(x.said))
    <2> HIDE DEF z
    <2>1. /\ z.h # Len(x.said)
          /\ z.h < Len(x.said) => /\ Head(ups) = x.said[z.h + 1]
                                  /\ Tail(ups) = SubSeq(x.said, z.h + 1 + 1, Len(x.said))
      BY <1>1, RestReceived
    <2>2. z.h < Len(x.said)
      <3>1. \A m \in Nat, l \in Nat : m \in 0 .. l /\ m # l => m < l
        OBVIOUS
      <3> QED
        BY <1>1, <2>1, <3>1, Zenon
    <2>3. x.said[z.h + 1] = At(z.e)
      BY <1>1, <2>1, <2>2
    <2> QED
      BY <2>1, <2>2, <2>3
  <1>4. Trail(r, n, cmds)
    BY <1>1, <1>2, <1>3, TrailAccepts DEF x
  <1>5. y = [b |-> z.b, e |-> z.e, h |-> h, doc |-> z.doc, said |-> z.said]
    BY <1>1, Restaged
  <1>6. y.b = b /\ y.e = e /\ y.h = h
    BY <1>1, <1>5
  <1>7. r[n + 1] = y /\ r[1].doc = doc /\ r[1].said = x.said
    <2>1. tr \in [1 .. n + 1 -> Stage] /\ 1 \in 1 .. n + 1 /\ n + 1 \in 1 .. n + 1
      BY <1>1 DEF Trail
    <2>2. y.doc = z.doc /\ y.said = z.said
      BY <1>5
    <2> HIDE DEF y
    <2>3. r[n + 1] = y
      BY <2>1
    <2>4. n + 1 = 1 => r[1] = y /\ z = x
      BY <2>3 DEF x
    <2>5. n + 1 # 1 => r[1] = x
      BY <2>1 DEF x
    <2> HIDE DEF r, z
    <2> QED
      BY <1>1, <2>2, <2>3, <2>4, <2>5
  <1>8. h <= Len(x.said)
    <2> HIDE DEF z
    <2> QED
      BY <1>1, <1>3
  <1> HIDE DEF r, y, h, z
  <1> QED
    BY <1>1, <1>2, <1>3, <1>4, <1>6, <1>7, <1>8 DEF Leads

\* The keyboard receives the first report, and rejects it.
LEMMA Rejects ==
    ASSUME NEW tr, NEW doc, NEW cmds, NEW b, NEW e, NEW ups, Leads(tr, doc, cmds, b, e, ups),
           ups # <<>>
    PROVE  \E r : Leads(r, doc, cmds, <<>>, Head(ups).from, Tail(ups))
  <1> DEFINE n == Len(cmds)
             x == tr[1]
             h == tr[n + 1].h
             stage(k) == [b |-> <<>>, e |-> x.said[h + 1].from, h |-> h + 1,
                          doc |-> tr[k].doc, said |-> tr[k].said]
             r == [k \in 1 .. n + 1 |-> stage(k)]
  <1>1. /\ n \in Nat /\ cmds \in Seq(Batches) /\ Trail(tr, n, cmds)
        /\ x.doc = doc
        /\ x.said \in Seq(Selection) /\ Len(x.said) \in Nat
        /\ h \in 0 .. Len(x.said) /\ h \in Nat
        /\ ups = SubSeq(x.said, h + 1, Len(x.said))
    BY LeadsFacts
  <1>2. Len(cmds) = n
    OBVIOUS
  <1> HIDE DEF n, h
  <1>3. h < Len(x.said) /\ Head(ups) = x.said[h + 1]
        /\ Tail(ups) = SubSeq(x.said, h + 1 + 1, Len(x.said))
    <2> HIDE DEF x
    <2>1. /\ h # Len(x.said)
          /\ h < Len(x.said) => /\ Head(ups) = x.said[h + 1]
                                /\ Tail(ups) = SubSeq(x.said, h + 1 + 1, Len(x.said))
      BY <1>1, RestReceived
    <2>2. h < Len(x.said)
      <3>1. \A m \in Nat, l \in Nat : m \in 0 .. l /\ m # l => m < l
        OBVIOUS
      <3> QED
        BY <1>1, <2>1, <3>1, Zenon
    <2> QED
      BY <2>1, <2>2
  <1>4. Trail(r, n, cmds)
    BY <1>1, <1>2, <1>3, TrailRejects
  <1>5. 1 \in 1 .. n + 1 /\ n + 1 \in 1 .. n + 1 /\ h + 1 <= Len(x.said)
    <2> HIDE DEF x
    <2> QED
      BY <1>1, <1>3
  <1>6. r[n + 1] = stage(n + 1) /\ r[1] = stage(1)
    BY <1>5
  <1>7. /\ stage(n + 1).b = <<>> /\ stage(n + 1).e = Head(ups).from /\ stage(n + 1).h = h + 1
        /\ stage(1).doc = doc /\ stage(1).said = x.said
    BY <1>1, <1>3
  <1> HIDE DEF r, stage, x
  <1> QED
    BY <1>1, <1>2, <1>3, <1>4, <1>5, <1>6, <1>7 DEF Leads

-----------------------------------------------------------------------------
(* Each key sends one of the batches a trail grows by.                       *)

KeySent ==
    \E batch : /\ KeySends(before, expected, before', expected', batch)
               /\ commands' = Append(commands, batch)

\* One commit, or the two that leave the letter between its marks.
LEMMA TypeSent ==
    ASSUME NEW cls \in KeyClasses, TypeKey(cls)
    PROVE  KeySent
  <1> DEFINE u == Whole(cls)
  <1>1. u \in Keys
    BY KeyClassesAssumption DEF Keys
  <1> HIDE DEF u
  <1>2. CASE Pins(cls)
    <2>1. before = <<>>
      BY <1>2 DEF Pins
    <2>2. /\ commands' = Append(commands, <<CommitText(<<Pin, u>>, 1), CommitText(<<Pin>>, 0)>>)
          /\ Believed(before, expected, 0, <<Pin, u>>, before', expected')
      BY <1>2 DEF TypeKey, Send, Believe, Believed, u
    <2> QED
      BY <1>1, <2>1, <2>2 DEF KeySent, KeySends
  <1>3. CASE ~Pins(cls)
    <2>1. /\ commands' = Append(commands, <<CommitText(<<u>>, 1)>>)
          /\ Believed(before, expected, 0, <<u>>, before', expected')
      BY <1>3 DEF TypeKey, Send, Believe, Believed, u
    <2> QED
      BY <1>1, <2>1 DEF KeySent, KeySends
  <1> QED
    BY <1>2, <1>3

\* A deletion of some number of code points.
LEMMA BackspaceSent ==
    ASSUME before \in Seq(Unit), Backspace
    PROVE  KeySent
  <1> DEFINE visible == IF known THEN before ELSE CurrentWord(before)
             width == IF visible = <<>> THEN 1 ELSE ClusterWidth(visible)
  <1>1. visible \in Seq(Unit)
    BY CurrentWordEnds
  <1>2. width \in Nat
    BY <1>1, ClusterWidthCounts
  <1>3. /\ commands' = Append(commands, <<DeleteBefore(width)>>)
        /\ Believed(before, expected, width, <<>>, before', expected')
    BY DEF Backspace, Send, Believe, Believed
  <1> HIDE DEF width
  <1> QED
    BY <1>2, <1>3 DEF KeySent, KeySends

\* A deletion and a commit of one character.
LEMMA LongPressSent ==
    ASSUME LongPress
    PROVE  KeySent
  <1>1. /\ commands' = Append(commands, <<DeleteBefore(1), CommitText(<<Whole("mark")>>, 1)>>)
        /\ Believed(before, expected, 1, <<Whole("mark")>>, before', expected')
    BY DEF LongPress, Send, Believe, Believed
  <1> QED
    BY <1>1 DEF KeySent, KeySends

\* As many code points deleted as the word has units: its characters are whole.
LEMMA TapSent ==
    ASSUME before \in Seq(Unit), Tap
    PROVE  KeySent
  <1> DEFINE current == CurrentWord(before)
  <1>1. PICK n \in 1 .. MaxPrediction :
            /\ commands' = Append(commands,
                              IF current = <<>> THEN <<CommitText(Letters(n), 1)>>
                              ELSE <<DeleteBefore(CodePoints(current)), CommitText(Letters(n), 1)>>)
            /\ Believed(before, expected, Len(current), Letters(n), before', expected')
    BY DEF Tap, Send, Believe, Believed, Letters
  <1>2. n \in Nat \ {0}
    BY MaxPredictionAssumption
  <1>3. CodePoints(current) = Len(current)
    BY CurrentWordEnds, WordCodePoints
  <1> QED
    BY <1>1, <1>2, <1>3 DEF KeySent, KeySends

\* A key that sends such a batch keeps the invariant.
LEMMA KeyKeeps ==
    ASSUME SyncInv, ~dropped, KeySent, UNCHANGED <<text, sel, updates>>
    PROVE  SyncInv'
  <1>1. PICK tr : Leads(tr, Doc(text, sel), commands, before, expected, updates)
    BY DEF SyncInv
  <1>2. PICK batch : /\ KeySends(before, expected, before', expected', batch)
                     /\ commands' = Append(commands, batch)
    BY DEF KeySent
  <1>3. \E r : Leads(r, Doc(text, sel), Append(commands, batch), before', expected', updates)
    BY <1>1, <1>2, Sends
  <1> QED
    BY <1>2, <1>3 DEF SyncInv

-----------------------------------------------------------------------------
(* The editor's own steps, and a report received.                            *)

\* A command applied.
LEMMA ApplyKeeps ==
    ASSUME SyncInv, ~dropped, Apply
    PROVE  SyncInv'
  <1> DEFINE doc == Doc(text, sel)
             d == Applied(doc, Head(commands))
  <1>1. PICK tr : Leads(tr, doc, commands, before, expected, updates)
    BY DEF SyncInv
  <1>2. /\ commands # <<>> /\ commands' = Tail(commands)
        /\ before' = before /\ expected' = expected
        /\ text' = d.text /\ sel' = d.sel
        /\ updates' = IF d.sel = sel THEN updates ELSE Append(updates, d.sel)
    BY DEF Apply, Becomes, belief
  <1>3. Sound(d) /\ doc.sel = sel
    <2>1. PICK batches \in Seq(Batches) : batches = commands
      BY <1>1, LeadsFacts
    <2>2. Head(commands) \in Batches
      BY <1>2, <2>1, HeadTailProperties
    <2>3. Sound(doc)
      BY <1>1, LeadsFacts
    <2> HIDE DEF doc
    <2>4. Sound(d)
      BY <2>2, <2>3, Applying
    <2> QED
      BY <2>4 DEF doc, Doc
  <1>4. \E r : Leads(r, d, Tail(commands), before, expected, Reports(doc, d, updates))
    <2> HIDE DEF doc
    <2> QED
      BY <1>1, <1>2, Applies
  <1> HIDE DEF d
  <1>5. d = Doc(text', sel')
    BY <1>2, <1>3 DEF Sound, Doc
  <1>6. updates' = Reports(doc, d, updates)
    BY <1>2, <1>3 DEF Reports
  <1> QED
    BY <1>2, <1>4, <1>5, <1>6 DEF SyncInv

\* Someone else's change of the document, which the first stage stands.
LEMMA ChangeKeeps ==
    ASSUME NEW tr, Leads(tr, Doc(text, sel), commands, before, expected, updates),
           NEW d, Sound(d), Becomes(d), UNCHANGED <<commands, before, expected>>,
           LET y == [tr[1] EXCEPT !.doc = d, !.said = Said(tr[1].said, sel, d.sel)]
           IN  y \in Stage /\ Good(y)
    PROVE  SyncInv'
  <1> DEFINE doc == Doc(text, sel)
  <1>1. doc.sel = sel
    BY DEF Doc
  <1> HIDE DEF doc
  <1>2. \E r : Leads(r, d, commands, before, expected, Reports(doc, d, updates))
    <2>1. Leads(tr, doc, commands, before, expected, updates)
      BY DEF doc
    <2>2. LET y == [tr[1] EXCEPT !.doc = d, !.said = Said(tr[1].said, doc.sel, d.sel)]
          IN  y \in Stage /\ Good(y)
      BY <1>1
    <2> QED
      BY <2>1, <2>2, Moves
  <1>3. d = Doc(text', sel')
    BY DEF Becomes, Sound, Doc
  <1>4. updates' = Reports(doc, d, updates)
    BY <1>1 DEF Becomes, Reports
  <1> QED
    BY <1>2, <1>3, <1>4 DEF SyncInv

\* The cursor moved by someone else.
LEMMA MoveKeeps ==
    ASSUME SyncInv, ~dropped, MoveCursor
    PROVE  SyncInv'
  <1> DEFINE doc == Doc(text, sel)
  <1>1. PICK tr : Leads(tr, doc, commands, before, expected, updates)
    BY DEF SyncInv
  <1>2. PICK from \in Positions(text), to \in Positions(text) :
            /\ from <= to /\ [from |-> from, to |-> to] # sel
            /\ Becomes(Doc(text, [from |-> from, to |-> to]))
            /\ UNCHANGED <<belief, commands>>
    BY DEF MoveCursor
  <1> DEFINE q == [from |-> from, to |-> to]
             d == Doc(text, q)
             x == tr[1]
  <1>3. x \in Stage /\ Good(x) /\ x.doc = doc /\ Sound(doc)
    BY <1>1, LeadsFacts
  <1>4. doc.text = text /\ doc.sel = sel
    BY DEF Doc
  <1>5. /\ q \in Selection /\ q.from = from /\ q.to = to
        /\ d.text = text /\ d.sel = q
    <2>1. \A p \in Positions(text) : p \in Nat
      BY DEF Positions
    <2> QED
      BY <2>1 DEF Selection, Doc
  <1>6. Sound(d)
    <2>1. text \in Seq(Unit) /\ WellFormed(text)
      BY <1>3, <1>4 DEF Sound
    <2>2. d \in [text : Seq(Unit), sel : Selection]
      BY <1>5, <2>1 DEF Doc
    <2> HIDE DEF d, q
    <2> QED
      BY <1>2, <1>5, <2>1, <2>2 DEF Sound
  <1>7. LET y == [x EXCEPT !.doc = d, !.said = Said(x.said, sel, d.sel)]
        IN  y \in Stage /\ Good(y)
    <2> HIDE DEF q, x, doc
    <2>1. /\ q.from \in Positions(x.doc.text) /\ q.to \in Positions(x.doc.text)
          /\ q.from <= q.to /\ q # x.doc.sel
      BY <1>2, <1>3, <1>4, <1>5 DEF q
    <2>2. LET e == Doc(x.doc.text, q)
              y == [x EXCEPT !.doc = e, !.said = Said(x.said, x.doc.sel, q)]
          IN  y \in Stage /\ Good(y)
      BY <1>3, <1>5, <2>1, GoodMove
    <2>3. x.doc.text = text /\ x.doc.sel = sel /\ d.sel = q
      BY <1>3, <1>4, <1>5
    <2> QED
      BY <2>2, <2>3
  <1>8. UNCHANGED <<commands, before, expected>> /\ Becomes(d)
    BY <1>2 DEF belief
  <1> HIDE DEF d, x
  <1> QED
    BY <1>1, <1>6, <1>7, <1>8, ChangeKeeps DEF x, doc

\* The text taken away.
LEMMA TakeKeeps ==
    ASSUME SyncInv, ~dropped, TakeText
    PROVE  SyncInv'
  <1> DEFINE doc == Doc(text, sel)
             d == Doc(<<>>, At(0))
  <1>1. PICK tr : Leads(tr, doc, commands, before, expected, updates)
    BY DEF SyncInv
  <1>2. Becomes(d) /\ UNCHANGED <<commands, before, expected>>
    BY DEF TakeText, belief
  <1> DEFINE x == tr[1]
  <1>3. x \in Stage /\ Good(x) /\ x.doc = doc
    BY <1>1, LeadsFacts
  <1>4. doc.sel = sel /\ d.sel = At(0)
    BY DEF Doc
  <1>5. LET y == [x EXCEPT !.doc = d, !.said = Said(x.said, x.doc.sel, At(0))]
        IN  y \in Stage /\ Good(y)
    BY <1>3, GoodTake
  <1> HIDE DEF x, doc
  <1>6. Sound(d)
    <2>1. 0 \in Positions(<<>>) /\ WellFormed(<<>>) /\ <<>> \in Seq(Unit)
      BY DEF Positions, WellFormed
    <2>2. At(0) \in Selection /\ At(0).from = 0 /\ At(0).to = 0
      BY DEF At, Selection
    <2> QED
      BY <2>1, <2>2 DEF Sound, Doc
  <1> HIDE DEF d
  <1>7. LET y == [x EXCEPT !.doc = d, !.said = Said(x.said, sel, d.sel)]
        IN  y \in Stage /\ Good(y)
    BY <1>3, <1>4, <1>5
  <1> QED
    BY <1>1, <1>2, <1>6, <1>7, ChangeKeeps DEF x, doc

\* A report received: accepted, or a desync.
LEMMA ReceiveKeeps ==
    ASSUME SyncInv, ~dropped, Receive
    PROVE  SyncInv'
  <1> DEFINE doc == Doc(text, sel)
  <1>1. PICK tr : Leads(tr, doc, commands, before, expected, updates)
    BY DEF SyncInv
  <1>2. /\ updates # <<>> /\ updates' = Tail(updates)
        /\ text' = text /\ sel' = sel /\ commands' = commands
    BY DEF Receive, editor
  <1>3. \E r : Leads(r, doc, commands, before', expected', Tail(updates))
    <2> HIDE DEF doc
    <2>1. CASE Head(updates) = At(expected) /\ UNCHANGED <<before, known, expected>>
      <3>1. \E r : Leads(r, doc, commands, before, expected, Tail(updates))
        BY <1>1, <1>2, <2>1, Accepts
      <3> QED
        BY <2>1, <3>1
    <2>2. CASE before' = <<>> /\ expected' = Head(updates).from
      <3>1. \E r : Leads(r, doc, commands, <<>>, Head(updates).from, Tail(updates))
        BY <1>1, <1>2, Rejects
      <3> QED
        BY <2>2, <3>1
    <2> QED
      BY <2>1, <2>2 DEF Receive
  <1> QED
    BY <1>2, <1>3 DEF SyncInv

\* At first the trail is one stage, which has nothing to hear.
LEMMA SyncStarts == SyncInit => SyncInv
  <1> SUFFICES ASSUME SyncInit PROVE SyncInv
    OBVIOUS
  <1>1. PICK f \in Fields :
        /\ text = f.text /\ sel = f.sel
        /\ before = IF f.given
                    THEN Committed(<<>>, SubSeq(f.text, 1, f.sel.from), MaxContext)
                    ELSE <<>>
        /\ expected = f.sel.from
        /\ commands = <<>> /\ updates = <<>>
    BY DEF SyncInit
  <1>2. /\ f.text \in Seq(Unit) /\ WellFormed(f.text)
        /\ f.sel \in [from : Positions(f.text), to : Positions(f.text)]
        /\ f.sel.from <= f.sel.to
    BY FieldsAssumption
  <1> DEFINE d == Doc(text, sel)
             L == Left(d)
             x == [b |-> before, e |-> expected, h |-> 0, doc |-> d, said |-> <<>>]
             tr == [k \in 1 .. 0 + 1 |-> x]
  <1>3. sel \in Selection /\ sel.from \in Positions(text) /\ sel.to \in Positions(text)
    <2>1. \A p \in Positions(f.text) : p \in Nat
      BY DEF Positions
    <2> QED
      BY <1>1, <1>2, <2>1 DEF Selection
  <1>4. d \in Document /\ Sound(d) /\ d.sel = sel
    BY <1>1, <1>2, <1>3 DEF Doc, Document, Sound
  <1>5. /\ L \in Seq(Unit) /\ Len(L) = sel.from /\ L = SubSeq(f.text, 1, f.sel.from)
    BY <1>1, <1>4, LeftOf DEF Left, Doc
  <1> HIDE DEF d, L
  <1>6. before \in Seq(Unit) /\ IsSuffix(before, L)
    <2>1. <<>> \in Seq(Unit) /\ <<>> \o L = L
      BY <1>5, ConcatEmptySeq
    <2>2. /\ Committed(<<>>, L, MaxContext) \in Seq(Unit)
          /\ IsSuffix(Committed(<<>>, L, MaxContext), L)
      BY <1>5, <2>1, Trimmed
    <2> QED
      BY <1>1, <1>5, <2>1, <2>2, EmptySuffix
  <1>7. expected = sel.from /\ expected \in Nat /\ Len(before) <= expected
    <2>1. Len(before) <= Len(L)
      BY <1>5, <1>6, SuffixEnds
    <2> QED
      BY <1>1, <1>3, <1>5, <2>1 DEF Selection
  <1>8. x \in Stage
    BY <1>4, <1>6, <1>7 DEF Stage
  <1>9. Len(<<>>) = 0 /\ 0 <= 0 /\ 0 # 0 + 1 /\ 0 # 0 + 2 /\ ~(0 > 0) /\ 1 .. 0 = {}
    OBVIOUS
  <1>10. Good(x)
    <2>1. Tuned(before, expected, 0, d, <<>>)
      BY <1>4, <1>6, <1>7, <1>9 DEF Tuned, L
    <2>2. Reported(d, <<>>)
      BY <1>9 DEF Reported
    <2> QED
      BY <1>4, <1>7, <1>9, <2>1, <2>2 DEF Good
  <1>11. Extends(<<>>, <<>>)
    BY <1>9 DEF Extends
  <1>12. 1 .. 0 + 1 = {1} /\ tr \in [1 .. 0 + 1 -> Stage] /\ tr[1] = x /\ tr[0 + 1] = x
    <2>1. 1 .. 0 + 1 = {1} /\ 0 + 1 = 1
      OBVIOUS
    <2> HIDE DEF x
    <2> QED
      BY <1>8, <2>1
  <1> HIDE DEF tr
  <1>13. Trail(tr, 0, <<>>)
    <2>1. x.h <= x.h /\ x.said = <<>>
      OBVIOUS
    <2> HIDE DEF x
    <2> QED
      BY <1>9, <1>10, <1>11, <1>12, <2>1 DEF Trail
  <1>14. Leads(tr, d, commands, before, expected, updates)
    <2>1. SubSeq(<<>>, 0 + 1, 0) = <<>>
      BY SubSeqEmpty
    <2>2. commands \in Seq(Batches) /\ Len(commands) = 0
      BY <1>1, <1>9
    <2> QED
      BY <1>1, <1>9, <1>12, <1>13, <2>1, <2>2 DEF Leads
  <1> QED
    BY <1>14 DEF SyncInv, d

\* The invariant is inductive.
LEMMA SyncKeeps == SyncInv /\ [SyncNext]_syncVars => SyncInv'
  <1> SUFFICES ASSUME SyncInv, [SyncNext]_syncVars PROVE SyncInv'
    OBVIOUS
  <1>1. dropped => dropped'
    BY DEF SyncNext, Apply, Drop, MoveCursor, TakeText, TypeKey, Backspace, LongPress, Tap,
           Receive, editor, syncVars
  <1>2. CASE dropped
    BY <1>1, <1>2 DEF SyncInv
  <1>3. ASSUME ~dropped
        PROVE  SyncInv'
    <2>1. before \in Seq(Unit)
      BY <1>3, LeadsFacts DEF SyncInv
    <2>2. CASE Apply
      BY <1>3, <2>2, ApplyKeeps
    <2>3. CASE Drop
      BY <2>3 DEF Drop, SyncInv
    <2>4. CASE MoveCursor
      BY <1>3, <2>4, MoveKeeps
    <2>5. CASE TakeText
      BY <1>3, <2>5, TakeKeeps
    <2>6. ASSUME NEW cls \in KeyClasses, TypeKey(cls)
          PROVE  SyncInv'
      <3>1. UNCHANGED <<text, sel, updates>>
        BY <2>6 DEF TypeKey, editor
      <3> QED
        BY <1>3, <2>6, <3>1, TypeSent, KeyKeeps
    <2>7. CASE Backspace
      <3>1. UNCHANGED <<text, sel, updates>>
        BY <2>7 DEF Backspace, editor
      <3> QED
        BY <1>3, <2>1, <2>7, <3>1, BackspaceSent, KeyKeeps
    <2>8. CASE LongPress
      <3>1. UNCHANGED <<text, sel, updates>>
        BY <2>8 DEF LongPress, editor
      <3> QED
        BY <1>3, <2>8, <3>1, LongPressSent, KeyKeeps
    <2>9. CASE Tap
      <3>1. UNCHANGED <<text, sel, updates>>
        BY <2>9 DEF Tap, editor
      <3> QED
        BY <1>3, <2>1, <2>9, <3>1, TapSent, KeyKeeps
    <2>10. CASE Receive
      BY <1>3, <2>10, ReceiveKeeps
    <2>11. CASE UNCHANGED syncVars
      BY <2>11 DEF SyncInv, syncVars, editor, belief
    <2> QED
      BY <2>2, <2>3, <2>4, <2>5, <2>6, <2>7, <2>8, <2>9, <2>10, <2>11 DEF SyncNext
  <1> QED
    BY <1>2, <1>3

\* With nothing on its way the trail is one stage, which has heard all that is
\* said, and so is in step.
LEMMA SyncTells == SyncInv => InStep
  <1> SUFFICES ASSUME SyncInv, commands = <<>>, updates = <<>>, ~dropped
               PROVE  expected = sel.from /\ IsSuffix(before, SubSeq(text, 1, sel.from))
    BY DEF InStep, Settled
  <1> DEFINE doc == Doc(text, sel)
  <1>1. PICK tr : Leads(tr, doc, commands, before, expected, updates)
    BY DEF SyncInv
  <1>2. Len(commands) = 0 /\ 0 + 1 = 1
    OBVIOUS
  <1> DEFINE x == tr[1]
  <1>3. /\ Good(x) /\ x.doc = doc /\ before = x.b /\ expected = x.e
        /\ x.said \in Seq(Selection) /\ x.h \in 0 .. Len(x.said)
        /\ updates = SubSeq(x.said, x.h + 1, Len(x.said))
    BY <1>1, <1>2, LeadsFacts
  <1> HIDE DEF x, doc
  <1>4. x.h = Len(x.said)
    BY <1>3, RestReceived
  <1>5. expected = doc.sel.from /\ IsSuffix(before, Left(doc))
    BY <1>3, <1>4 DEF Good, Tuned
  <1>6. doc.sel = sel /\ Left(doc) = SubSeq(text, 1, sel.from)
    BY DEF doc, Doc, Left
  <1> QED
    BY <1>5, <1>6

\* InputContextBuffer.kt:19-27, for every field, key and length of context:
\* whatever the order in which commands are applied, reports received, keys
\* pressed and the cursor moved, once all has arrived and nothing was dropped
\* the buffer is at the cursor and holds the text before it.
THEOREM BufferInStep == SyncSpec => []InStep
  <1>1. SyncSpec => []SyncInv
    BY SyncStarts, SyncKeeps, PTL DEF SyncSpec
  <1> QED
    BY <1>1, SyncTells, PTL
=============================================================================
