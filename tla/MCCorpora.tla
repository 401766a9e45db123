------------------------------- MODULE MCCorpora -------------------------------
(***************************************************************************)
(* A dump of 24 bytes in blocks of one to three, three plans to read it,   *)
(* a subtitle stream of eight lines of which one comes twice, two lexicons *)
(* and two typed comments, one of which is also a subtitle line.           *)
(***************************************************************************)
EXTENDS Corpora, TLC

CONSTANTS s1, s2, s3, new, l1, l2

MCOffsets == {0, 1, 3, 4, 6, 8, 9, 12, 13, 15, 16, 18, 20, 21, 23}
MCPlans == {[chunks |-> 2, size |-> 3], [chunks |-> 3, size |-> 3], [chunks |-> 2, size |-> 6]}
MCStream == <<s1, s2, s1, s3, s1, s3, s3, s2>>
MCClean == (l1 :> {s1, s2, s3}) @@ (l2 :> {s1, s3})
MCComments == {s2, new}
MCClasses == {"digit", "emoji"}
MCClassesOf == (s2 :> {}) @@ (new :> {"digit"})
=============================================================================
