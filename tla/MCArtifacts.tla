----------------------------- MODULE MCArtifacts -----------------------------
(***************************************************************************)
(* Two recipes; of the moved upstream one recipe derives a lexicon in the  *)
(* band and the other does not, and of a truncated download likewise.  One *)
(* background descriptor and the planted one; two budgets, a tight one and *)
(* a roomy one; a few crashes, edits and packagings.  The lexicon builder's *)
(* outputs go where they belong, all elsewhere, or the word list alone     *)
(* elsewhere.                                                              *)
(***************************************************************************)
EXTENDS Artifacts, TLC

CONSTANTS r1, r2, url

MCRecipes == {r1, r2}
MCInBand == [source : {Pinned}, recipe : {r1, r2}]
              \cup {[source |-> Moved, recipe |-> r1], [source |-> Torn, recipe |-> r2]}
MCFlaws == {"none", "freq", "network", "dex", "other font"}
MCRedirects == {{}, {"lexicon"}, {"lexicon", "freq", "manifest"}}
MCLimits == [assets |-> 9, dex |-> 2, total |-> 10]
MCRoomyLimits == [assets |-> 12, dex |-> 4, total |-> 20]

\* A bound: no gate looks at what a builder sent elsewhere, or at a comparison
\* table, so a package and such a file are not explored together.
Unseen == {Aside(x) : x \in Outputs} \cup {"comparison", "besideIt"}
PackageAlone == packages = 0 \/ \A f \in Unseen : disk[f] = Absent

MCNext == Next /\ PackageAlone'
MCSpec == Init /\ [][MCNext]_vars
=============================================================================
