------------------------------ MODULE MCDoneDocs ------------------------------
(***************************************************************************)
(* Two device checks, two gates, one waiver and one criterion in each of   *)
(* two tiers, the third empty, starting from documents that agree, and a   *)
(* few edits.                                                              *)
(***************************************************************************)
EXTENDS DoneDocs, TLC

CONSTANTS lat, layout, g1, g2, f1, w1, c1, r1, ghost

MCChecks == {lat, layout}
MCGateIds == {g1, g2}
MCSources == {f1}
MCCriteria == {c1, r1}
MCTierOf == (c1 :> "C") @@ (r1 :> "R")
MCCitations == {{g1}, {lat}, {f1}, {w1}, {w1, lat}}

MCInit ==
    /\ claimed = {lat} /\ hasList = TRUE /\ blocked = {lat} /\ pending = {}
    /\ observed = {layout} /\ recorded = {g1}
    /\ gates = {g1} /\ sources = {f1}
    /\ counts = [p \in Places |-> 1]
    /\ criteria = (c1 :> CriterionRow("MET", {g1})) @@ (r1 :> CriterionRow("NOT RUN", {lat}))
    /\ tabled = {} /\ signed = {}
    /\ verdicts = [t \in Tiers |-> Derived(t)]
    /\ edits = 0

MCSpec == MCInit /\ [][DocsNext]_documents
=============================================================================
