----------------------------- MODULE UserNgram -----------------------------
(***************************************************************************)
(* What the keyboard has learned about this user's word pairs and words:   *)
(* core/learning/UserNgramModel.kt with its codec, UserNgramCodec.kt.      *)
(*                                                                         *)
(* The class is "not thread-safe": this module is its sequential contract, *)
(* one action per call; the coroutines that make the calls are those of     *)
(* LearningLifecycle.                                                      *)
(*                                                                         *)
(* A HashMap from ids to Int is a total function, 0 standing for "no       *)
(* entry": record never leaves a count of 0 and restore refuses one.       *)
(***************************************************************************)
EXTENDS Integers, FiniteSets

CONSTANTS Word,             \* the ids words are learned under, OOV included
          MinimumSessions,  \* sessions a pair needs before it may be offered
          Capacity          \* hard cap on distinct pairs

ASSUME WordFinite == IsFiniteSet(Word)
ASSUME MinimumSessionsAssumption == MinimumSessions \in Nat \ {0}
ASSUME CapacityAssumption == Capacity \in Nat \ {0}

Pair == Word \X Word

VARIABLES
    count,          \* occurrences of each pair
    sessions,       \* separate sessions each pair was credited with
    credited,       \* creditedThisSession
    pairCount,      \* the cached number of stored pairs
    wordCount, wordSessions, wordCredited,      \* the same, for single words
    stored,         \* the encoded model on disk
    \* History: what really happened, whatever the model recorded of it.
    seen, seenHere,         \* sessions each pair occurred in; pairs of this session
    wordSeen, wordSeenHere  \* the same, for single words

pairVars == <<count, sessions, credited, pairCount>>
wordVars == <<wordCount, wordSessions, wordCredited>>
history  == <<seen, seenHere, wordSeen, wordSeenHere>>
vars     == <<pairVars, wordVars, stored, history>>

-----------------------------------------------------------------------------
Increment(f, x) == [f EXCEPT ![x] = @ + 1]

\* The slip TLC must catch: crediting on every sighting.
CreditEverySighting(f, x, already) == Increment(f, x)

\* One more session for x, unless this session has credited it already.
Credit(f, x, already) == IF x \in already THEN f ELSE Increment(f, x)

\* History: one more session in which x occurred, unless it already had here.
Observed(h, x, here) == IF x \in here THEN h ELSE Increment(h, x)

StoredPairs(c) == {p \in Pair : c[p] > 0}

\* The number of pairs an eviction keeps: RETAIN_ON_EVICT of the capacity.
RetainTarget == (9 * Capacity) \div 10

\* Slip: the most typed pair wins, however few sessions it came back in.
MoreTyped(p, q, c, s) == c[p] <= c[q]

\* The eviction order: fewest sessions, then fewest occurrences.
NoMoreValuable(p, q, c, s) ==
    \/ s[p] < s[q]
    \/ s[p] = s[q] /\ c[p] <= c[q]

\* Slip: the cap is noticed one pair late.
VictimsPastTheCap(c, s, n) ==
    IF n <= Capacity + 1 THEN {{}}
    ELSE {V \in SUBSET StoredPairs(c) : Cardinality(V) = n - RetainTarget}

\* The sets evictIfNeeded may drop from a table c with sessions s and n pairs.
\* The order of ties is that of a HashMap, so any choice among them.
Victims(c, s, n) ==
    IF n <= Capacity THEN {{}}
    ELSE {V \in SUBSET StoredPairs(c) :
             /\ Cardinality(V) = n - RetainTarget
             /\ \A v \in V, k \in StoredPairs(c) \ V : NoMoreValuable(v, k, c, s)}

Without(f, V) == [p \in Pair |-> IF p \in V THEN 0 ELSE f[p]]

-----------------------------------------------------------------------------
NoPairs == [p \in Pair |-> 0]
NoWords == [w \in Word |-> 0]
EmptyFile == [count |-> NoPairs, sessions |-> NoPairs,
              wordCount |-> NoWords, wordSessions |-> NoWords]

Init ==
    /\ count = NoPairs /\ sessions = NoPairs /\ credited = {} /\ pairCount = 0
    /\ wordCount = NoWords /\ wordSessions = NoWords /\ wordCredited = {}
    /\ stored = EmptyFile
    /\ seen = NoPairs /\ seenHere = {}
    /\ wordSeen = NoWords /\ wordSeenHere = {}

\* record(first, second): count, credit, then evict.
Record(p) ==
    LET c == Increment(count, p)
        s == Credit(sessions, p, credited)
        n == IF count[p] = 0 THEN pairCount + 1 ELSE pairCount
    IN  /\ \E V \in Victims(c, s, n) :
              /\ count' = Without(c, V)
              /\ sessions' = Without(s, V)
              /\ pairCount' = n - Cardinality(V)
        /\ credited' = credited \cup {p}
        /\ seen' = Observed(seen, p, seenHere)
        /\ seenHere' = seenHere \cup {p}
        /\ UNCHANGED <<wordVars, stored, wordSeen, wordSeenHere>>

\* Slip: the word's credit is forgotten as soon as it is given.
RecordWordUncredited(w) ==
    /\ wordCount' = Increment(wordCount, w)
    /\ wordSessions' = Credit(wordSessions, w, wordCredited)
    /\ wordSeen' = Observed(wordSeen, w, wordSeenHere)
    /\ wordSeenHere' = wordSeenHere \cup {w}
    /\ UNCHANGED <<pairVars, wordCredited, stored, seen, seenHere>>

\* recordWord(word): the same discipline for a single word, without a cap.
RecordWord(w) ==
    /\ wordCount' = Increment(wordCount, w)
    /\ wordSessions' = Credit(wordSessions, w, wordCredited)
    /\ wordCredited' = wordCredited \cup {w}
    /\ wordSeen' = Observed(wordSeen, w, wordSeenHere)
    /\ wordSeenHere' = wordSeenHere \cup {w}
    /\ UNCHANGED <<pairVars, stored, seen, seenHere>>

\* endSession(): the field was left, so the next sighting is a separate one.
EndSession ==
    /\ credited' = {} /\ wordCredited' = {}
    /\ seenHere' = {} /\ wordSeenHere' = {}
    /\ UNCHANGED <<count, sessions, pairCount, wordCount, wordSessions,
                   stored, seen, wordSeen>>

\* clear(): everything in memory; the file is the caller's business.
Clear ==
    /\ count' = NoPairs /\ sessions' = NoPairs /\ credited' = {} /\ pairCount' = 0
    /\ wordCount' = NoWords /\ wordSessions' = NoWords /\ wordCredited' = {}
    /\ UNCHANGED <<stored, history>>

\* encode(): entries() and unigramEntries(); no credit is ever written.
Save ==
    /\ stored' = [count |-> count, sessions |-> sessions,
                  wordCount |-> wordCount, wordSessions |-> wordSessions]
    /\ UNCHANGED <<pairVars, wordVars, history>>

\* decode() into a fresh model at the start of a session: restore and
\* restoreWord for every entry, with nothing credited.
Load ==
    /\ count' = stored.count /\ sessions' = stored.sessions /\ credited' = {}
    /\ pairCount' = Cardinality(StoredPairs(stored.count))
    /\ wordCount' = stored.wordCount /\ wordSessions' = stored.wordSessions
    /\ wordCredited' = {}
    /\ seenHere' = {} /\ wordSeenHere' = {}
    /\ UNCHANGED <<stored, seen, wordSeen>>

Next ==
    \/ \E p \in Pair : Record(p)
    \/ \E w \in Word : RecordWord(w)
    \/ EndSession
    \/ Clear
    \/ Save
    \/ Load

Spec == Init /\ [][Next]_vars

-----------------------------------------------------------------------------
\* logCountOf and unigramLogCountOf answer 0 unless these hold.
Eligible(p) == sessions[p] >= MinimumSessions /\ count[p] > 0
WordEligible(w) == wordSessions[w] >= MinimumSessions /\ wordCount[w] > 0

File == [count : [Pair -> Nat], sessions : [Pair -> Nat],
         wordCount : [Word -> Nat], wordSessions : [Word -> Nat]]

\* The types of the model, of the file and of the history.
TypeOK ==
    /\ count \in [Pair -> Nat] /\ sessions \in [Pair -> Nat]
    /\ credited \in SUBSET Pair /\ pairCount \in Nat
    /\ wordCount \in [Word -> Nat] /\ wordSessions \in [Word -> Nat]
    /\ wordCredited \in SUBSET Word
    /\ stored \in File
    /\ seen \in [Pair -> Nat] /\ seenHere \in SUBSET Pair
    /\ wordSeen \in [Word -> Nat] /\ wordSeenHere \in SUBSET Word

\* The inductive strengthening behind the two properties that follow: for the
\* counters s credited with sessions and the history h, no x has more credit
\* than history, less one while this session is in the history but uncredited
\* (as after a clear), in memory and on disk.
CreditIsReal(S, s, now, onDisk, h, here) ==
    /\ now \subseteq here
    /\ \A x \in S : /\ s[x] <= h[x]
                    /\ x \in here \ now => s[x] < h[x]
                    /\ x \in here => h[x] > 0
                    /\ onDisk[x] <= h[x]

SessionsAreReal ==
    /\ CreditIsReal(Pair, sessions, credited, stored.sessions, seen, seenHere)
    /\ CreditIsReal(Word, wordSessions, wordCredited, stored.wordSessions,
                    wordSeen, wordSeenHere)

\* UserNgramModel.kt:46-52: a pair that may be offered has really occurred in
\* MinimumSessions separate sessions, through evictions, clears, saves and
\* restarts: a burst in one field never makes it eligible.
OfferedPairsCameBack == \A p \in Pair : Eligible(p) => seen[p] >= MinimumSessions

\* The same for the personal word frequency that ranks completions.
OfferedWordsCameBack == \A w \in Word : WordEligible(w) => wordSeen[w] >= MinimumSessions

\* UserNgramModel.kt:66-72: the cached pairCount is the size of the table, and
\* the table never outgrows the cap, in memory or on disk.
TableBounded ==
    /\ pairCount = Cardinality(StoredPairs(count))
    /\ pairCount <= Capacity
    /\ Cardinality(StoredPairs(stored.count)) <= Capacity

\* UserNgramModel.kt:232-234: when recording evicts a pair, no pair that is
\* kept had fewer sessions, so a pair repeated in one burst never displaces one
\* that came back.  (The new pair's own session counts as recorded.)
EvictionKeepsWhatCameBack ==
    [][\A p \in Pair : Record(p) =>
          \A v, k \in Pair :
              (count[v] > 0 /\ count'[v] = 0 /\ count'[k] > 0)
                  => sessions[v] <= sessions'[k]]_vars
=============================================================================
