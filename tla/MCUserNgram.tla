---------------------------- MODULE MCUserNgram ----------------------------
(***************************************************************************)
(* UserNgram on a small instance: Typed is the set of pairs the user types, *)
(* one more than the cap of two; MaxCount bounds every counter that only    *)
(* grows and MaxSightings the sightings counted over the whole history.     *)
(***************************************************************************)
EXTENDS UserNgram, FiniteSetsExt

CONSTANTS oov, w1, MaxCount, MaxSightings

MCWord == {oov, w1}
Typed == {<<w1, w1>>, <<w1, oov>>, <<oov, w1>>}

Sightings == MapThenSumSet(LAMBDA p : seen[p], Typed) + wordSeen[w1]
Bounded == Sightings < MaxSightings

BoundedRecord ==
    /\ Bounded
    /\ \E p \in Typed : count[p] < MaxCount /\ seen[p] < MaxCount /\ Record(p)
BoundedRecordWord ==
    /\ Bounded
    /\ wordCount[w1] < MaxCount /\ wordSeen[w1] < MaxCount /\ RecordWord(w1)

MCNext == BoundedRecord \/ BoundedRecordWord \/ EndSession \/ Clear \/ Save \/ Load
MCSpec == Init /\ [][MCNext]_vars
=============================================================================
