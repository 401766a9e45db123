---------------------------- MODULE MCDictionary ----------------------------
(***************************************************************************)
(* Two words, two edits or wipes, two fields, two visits to the screen and *)
(* a death, and a bound on how many of them one behaviour holds.           *)
(***************************************************************************)
EXTENDS DictionaryStore, TLC

CONSTANTS w1, w2, MaxEvents

MCWord == {w1, w2}
Perms == Permutations(MCWord)

Events == edits + fields + visits + deaths
MCNext == Next /\ Events' <= MaxEvents
MCSpec == Init /\ [][MCNext]_vars
=============================================================================
