------------------------------- MODULE DoneDocs -------------------------------
(***************************************************************************)
(* The documents that say how ready the app is -- RELEASE_READINESS.md,    *)
(* QA_MATRIX.md, README.md and DEFINITION_OF_DONE.md -- the edits people   *)
(* make to them and to the tree they describe, the two gate scripts that   *)
(* compare them (check_docs.py, check_dod.py) with the defects their       *)
(* controls plant, and the two tools that rewrite derived numbers.  An     *)
(* edit touches one place; nothing makes the others follow.                *)
(***************************************************************************)
EXTENDS GateLib, Integers, FiniteSets

CONSTANTS
    Checks,        \* device checks, the rows of the QA matrix
    PlantedCheck,  \* M9-LAYOUT, which two controls plant as still blocked
    UnrunCheck,    \* M7-LAT, which a control plants as evidence of a MET row
    GateIds,       \* gate ids the runner may define
    Sources,       \* Kotlin source files the denominators count
    Waivers,       \* waiver ids
    Criteria,      \* ids of done-criteria
    TierOf,        \* criterion -> "C", "R" or "P"
    Nowhere,       \* a name no gate, row, file or waiver carries
    Citations,     \* the evidence a criterion may be given
    MaxEdits       \* bound: how many edits are made

\* A name says by its shape what it is the name of.
ASSUME DocsAssumption ==
    /\ {PlantedCheck, UnrunCheck} \subseteq Checks
    /\ IsFiniteSet(Checks) /\ IsFiniteSet(GateIds) /\ IsFiniteSet(Sources)
    /\ Waivers \cap (GateIds \cup Checks \cup Sources) = {}
    /\ Nowhere \notin GateIds \cup Checks \cup Sources \cup Waivers
    /\ IsFiniteSet(Waivers) /\ IsFiniteSet(Criteria)
    /\ Citations \subseteq SUBSET (GateIds \cup Checks \cup Sources \cup Waivers)
    /\ TierOf \in [Criteria -> {"C", "R", "P"}]
    /\ MaxEdits \in Nat

VARIABLES
    claimed,    \* checks RELEASE_READINESS.md calls device-blocked
    hasList,    \* whether it still carries its DEVICE-BLOCKED markers
    blocked,    \* rows of the matrix's device-blocked table
    pending,    \* rows of the other tables of its NOT RUN section
    observed,   \* rows of the matrix marked OBSERVED, in whatever table
    recorded,   \* rows of its other sections, PASSED and MEASURED, gates' included
    gates,      \* gates run_gates.py defines
    sources,    \* source files on disk
    counts,     \* the numbers the documents publish, by place, where one is found
    criteria,   \* criterion -> [state, cites], for the rows in the tiers
    tabled,     \* waivers in the waiver table
    signed,     \* those of them with a date, an owner and a reason
    verdicts,   \* tier -> the row the verdict table publishes
    edits       \* edits made so far

docVars == <<claimed, hasList, blocked, pending, observed, recorded>>
treeVars == <<gates, sources>>
dodVars == <<criteria, tabled, signed, verdicts>>
documents == <<docVars, treeVars, counts, dodVars, edits>>

Tiers == {"C", "R", "P"}
States == {"MET", "NOT MET", "NOT RUN", "WAIVED"}
DenominatorRows == {"api", "learn"}
CountFiles == {"matrix", "readme"}
OwnRow == "own"
Places == DenominatorRows \cup CountFiles \cup {OwnRow}

Plus(inject) == IF inject THEN 1 ELSE 0

-----------------------------------------------------------------------------
(* check_docs.py *)

\* The readiness list against the matrix, and the matrix against itself.
CheckBlocked(defect) ==
    LET said   == claimed \cup (IF defect = "stale" THEN {PlantedCheck} ELSE {})
        itself == blocked \cup
                    (IF defect = "selfcontradiction" THEN {PlantedCheck} ELSE {})
    IN  IF ~hasList THEN Det(0, 0)
        ELSE Det(Cardinality(blocked \ said) + Cardinality(said \ blocked)
                   + Cardinality(said \cap observed)
                   + Cardinality(itself \cap observed),
                 Cardinality(said \cup blocked))

\* What a gate counts on this tree, which its row of the matrix should publish.
Live(place) ==
    CASE place \in DenominatorRows -> Cardinality(sources)
      [] place \in CountFiles      -> Cardinality(gates)
      [] place = OwnRow            -> Cardinality(blocked)

\* A place where no number is found is noted and not counted.
CheckPublished(places, inject) ==
    LET found == places \cap DOMAIN counts
    IN  Det(Cardinality({p \in found : counts[p] + Plus(inject) # Live(p)}),
            Cardinality(found))

CheckDenominators(inject) ==
    CheckPublished(DenominatorRows \cup {OwnRow}, inject)

\* The README's copy of the total is forgotten.
CheckGateCountMatrix(inject) == CheckPublished({"matrix"}, inject)

CheckGateCount(inject) == CheckPublished(CountFiles, inject)

Docs(defect) ==
    [blocked      |-> CheckBlocked(defect),
     denominators |-> CheckDenominators(defect = "denominator"),
     gateCount    |-> CheckGateCount(defect = "gatecount")]

DocDefects == {"stale", "selfcontradiction", "denominator", "gatecount"}

-----------------------------------------------------------------------------
(* check_dod.py *)

MatrixRows == blocked \cup pending \cup observed \cup recorded

NotRun == (blocked \cup pending) \ observed

\* The runner's gates, and every gate the matrix has a row for.
KnownGates == gates \cup (MatrixRows \cap GateIds)

\* A citation resolves to a known gate, a row of the matrix, a file, or a waiver
\* that is in the table, signed or not.
Resolvable == KnownGates \cup MatrixRows \cup sources \cup tabled

WaiverShaped == Waivers \cup {Nowhere}

CriterionRow(state, cites) == [state |-> state, cites |-> cites]

Planted(defect) ==
    CASE defect = "unfalsifiable" ->
            {CriterionRow("MOSTLY", {}), CriterionRow("WAIVED", {Nowhere})}
      [] defect = "phantom"       -> {CriterionRow("MET", {Nowhere})}
      [] defect = "metoverunrun"  -> {CriterionRow("MET", {UnrunCheck})}
      [] OTHER                    -> {}

\* The findings one criterion row earns.
RowFindings(r) ==
    Plus(r.state \notin States)
    + Plus(r.cites = {})
    + Plus(r.state = "WAIVED" /\ r.cites \cap WaiverShaped = {})
    + Plus(r.state = "WAIVED" /\ ~(r.cites \cap WaiverShaped \subseteq signed))
    + Cardinality(r.cites \ Resolvable)
    + (IF r.state = "MET" THEN Cardinality(r.cites \cap NotRun) ELSE 0)

Rows == {criteria[c] : c \in DOMAIN criteria}

CheckCriteria(defect) ==
    LET all == Rows \cup Planted(defect)
    IN  IF Rows = {} THEN Det(0, 0)
        ELSE Det(Cardinality({r \in all : RowFindings(r) > 0}), Cardinality(all))

InTier(t) == {c \in DOMAIN criteria : TierOf[c] = t}

InState(t, s) == Cardinality({c \in InTier(t) : criteria[c].state = s})

\* A tier is met when nothing in it is unmet.
DerivedUnrun(t) ==
    [total |-> Cardinality(InTier(t)),
     n |-> [s \in States |-> InState(t, s)],
     verdict |-> IF InState(t, "NOT MET") = 0 THEN "MET" ELSE "NOT MET"]

Derived(t) ==
    [total |-> Cardinality(InTier(t)),
     n |-> [s \in States |-> InState(t, s)],
     verdict |-> IF InState(t, "NOT MET") = 0 /\ InState(t, "NOT RUN") = 0
                 THEN "MET" ELSE "NOT MET"]

\* check_counts: the control adds one to the MET count tier C publishes.
CheckCounts(inject) ==
    LET Said(t) == IF inject /\ t = "C"
                   THEN [verdicts[t] EXCEPT !.n["MET"] = @ + 1] ELSE verdicts[t]
    IN  Det(Cardinality({t \in Tiers : Said(t) # Derived(t)}), 6 * Cardinality(Tiers))

Dod(defect) ==
    [criteria |-> CheckCriteria(defect), counts |-> CheckCounts(defect = "count")]

DodDefects == {"unfalsifiable", "phantom", "metoverunrun", "count"}

-----------------------------------------------------------------------------
(* The gates as the runner judges them. *)

Red(defect) ==
    IF defect \in DocDefects THEN ExitCode(Docs(defect), FALSE) # ExitPass
                             ELSE ExitCode(Dod(defect), FALSE) # ExitPass

RunnerOK ==
    /\ \A d \in DocDefects \cup DodDefects : Red(d)
    /\ ExitCode(Docs("none"), TRUE) = ExitPass
    /\ ExitCode(Dod("none"), TRUE) = ExitPass

-----------------------------------------------------------------------------
(* The edits. *)

Edit == edits < MaxEdits /\ edits' = edits + 1

\* A check is run on a phone: an OBSERVED row is written; the blocked table and
\* the readiness list are other places.
MarkObserved(k) ==
    /\ Edit
    /\ k \notin observed
    /\ observed' = observed \cup {k}
    /\ UNCHANGED <<claimed, hasList, blocked, pending, recorded, treeVars, counts,
                   dodVars>>

EditBlockedTable(k) ==
    /\ Edit
    /\ blocked' = IF k \in blocked THEN blocked \ {k} ELSE blocked \cup {k}
    /\ UNCHANGED <<claimed, hasList, pending, observed, recorded, treeVars, counts,
                   dodVars>>

\* A row of the other NOT RUN tables is written or deleted.
EditPending(k) ==
    /\ Edit
    /\ pending' = IF k \in pending THEN pending \ {k} ELSE pending \cup {k}
    /\ UNCHANGED <<claimed, hasList, blocked, observed, recorded, treeVars, counts,
                   dodVars>>

\* A row of the PASSED or MEASURED tables is written or deleted.
EditRecorded(x) ==
    /\ Edit
    /\ recorded' = IF x \in recorded THEN recorded \ {x} ELSE recorded \cup {x}
    /\ UNCHANGED <<claimed, hasList, blocked, pending, observed, treeVars, counts,
                   dodVars>>

EditReadiness(k) ==
    /\ Edit
    /\ hasList
    /\ claimed' = IF k \in claimed THEN claimed \ {k} ELSE claimed \cup {k}
    /\ UNCHANGED <<hasList, blocked, pending, observed, recorded, treeVars, counts,
                   dodVars>>

DropReadinessList ==
    /\ Edit
    /\ hasList
    /\ hasList' = FALSE
    /\ claimed' = {}
    /\ UNCHANGED <<blocked, pending, observed, recorded, treeVars, counts, dodVars>>

EditRunner(g) ==
    /\ Edit
    /\ gates' = IF g \in gates THEN gates \ {g} ELSE gates \cup {g}
    /\ UNCHANGED <<docVars, sources, counts, dodVars>>

EditSources(f) ==
    /\ Edit
    /\ sources' = IF f \in sources THEN sources \ {f} ELSE sources \cup {f}
    /\ UNCHANGED <<docVars, gates, counts, dodVars>>

CopyCount(p) ==
    /\ Edit
    /\ p \in DOMAIN counts
    /\ counts[p] # Live(p)
    /\ counts' = [counts EXCEPT ![p] = Live(p)]
    /\ UNCHANGED <<docVars, treeVars, dodVars>>

\* The sentence or row that carries a number is reworded past recognition.
RewordCount(p) ==
    /\ Edit
    /\ p \in DOMAIN counts
    /\ counts' = [q \in DOMAIN counts \ {p} |-> counts[q]]
    /\ UNCHANGED <<docVars, treeVars, dodVars>>

EditCriterion(c, s, cites) ==
    /\ Edit
    /\ c \in DOMAIN criteria
    /\ criteria' = [criteria EXCEPT ![c] = CriterionRow(s, cites)]
    /\ UNCHANGED <<docVars, treeVars, counts, tabled, signed, verdicts>>

\* A tier's markers, or its rows, are removed.
DropTier(t) ==
    /\ Edit
    /\ InTier(t) # {}
    /\ criteria' = [c \in DOMAIN criteria \ InTier(t) |-> criteria[c]]
    /\ UNCHANGED <<docVars, treeVars, counts, tabled, signed, verdicts>>

\* A row of the waiver table is written, complete or not, completed, or deleted.
EditWaiver(w, here, complete) ==
    /\ Edit
    /\ complete => here
    /\ tabled' = IF here THEN tabled \cup {w} ELSE tabled \ {w}
    /\ signed' = IF complete THEN signed \cup {w} ELSE signed \ {w}
    /\ UNCHANGED <<docVars, treeVars, counts, criteria, verdicts>>

Rewritten ==
    [p \in DOMAIN counts |-> IF p \in CountFiles THEN counts[p] ELSE Live(p)]

\* The rewrite also drops the rows that contradict the observed ones.
FixDenominatorsAndTable ==
    /\ counts' = Rewritten
    /\ blocked' = blocked \ observed
    /\ UNCHANGED <<claimed, hasList, pending, observed, recorded, treeVars, dodVars,
                   edits>>

\* --fix-denominators rewrites the matrix's derived numbers, and no other.
FixDenominators ==
    /\ counts' = Rewritten
    /\ UNCHANGED <<docVars, treeVars, dodVars, edits>>

\* --fix-counts rewrites the verdict table from the tiers.
FixCounts ==
    /\ verdicts' = [t \in Tiers |-> Derived(t)]
    /\ UNCHANGED <<docVars, treeVars, counts, criteria, tabled, signed, edits>>

Citable == GateIds \cup Checks \cup Sources \cup Waivers

DocsNext ==
    \/ \E k \in Checks : \/ MarkObserved(k) \/ EditBlockedTable(k)
                         \/ EditReadiness(k) \/ EditPending(k)
    \/ \E x \in Checks \cup GateIds : EditRecorded(x)
    \/ DropReadinessList
    \/ \E g \in GateIds : EditRunner(g)
    \/ \E f \in Sources : EditSources(f)
    \/ \E p \in Places : CopyCount(p) \/ RewordCount(p)
    \/ \E c \in Criteria, s \in States, cites \in Citations : EditCriterion(c, s, cites)
    \/ \E t \in Tiers : DropTier(t)
    \/ \E w \in Waivers, here, complete \in BOOLEAN : EditWaiver(w, here, complete)
    \/ FixDenominators \/ FixCounts

-----------------------------------------------------------------------------
(* Whatever the documents say to begin with.                                 *)

WellFormed ==
    /\ claimed \subseteq Checks /\ blocked \subseteq Checks /\ observed \subseteq Checks
    /\ pending \subseteq Checks /\ recorded \subseteq Checks \cup GateIds
    /\ hasList \in BOOLEAN
    /\ gates \subseteq GateIds /\ sources \subseteq Sources
    /\ DOMAIN counts \subseteq Places /\ counts \in [DOMAIN counts -> Nat]
    /\ DOMAIN criteria \subseteq Criteria
    /\ criteria \in [DOMAIN criteria -> [state : States, cites : SUBSET Citable]]
    /\ tabled \subseteq Waivers /\ signed \subseteq tabled
    /\ DOMAIN verdicts = Tiers
    /\ edits \in Nat

DocsSpec == WellFormed /\ [][DocsNext]_documents

-----------------------------------------------------------------------------
\* What a run of the gates that ends OK is worth (check_dod.py, check_docs.py): in
\* a tier the table calls MET every criterion is either met, on evidence that is
\* still in the tree or in a document and of which no part is waiting for a phone
\* in either document; or waived, by waivers every one of which is signed.
GreenVerdictsAreEarned ==
    RunnerOK =>
        \A t \in Tiers : verdicts[t].verdict = "MET" =>
            \A c \in InTier(t) : LET cites == criteria[c].cites IN
                /\ cites # {}
                /\ \/ /\ criteria[c].state = "MET"
                      /\ cites \cap (claimed \cup blocked \cup (pending \ observed)) = {}
                      /\ cites \subseteq
                            gates \cup sources \cup tabled \cup observed \cup recorded
                   \/ /\ criteria[c].state = "WAIVED"
                      /\ cites \cap Waivers # {} /\ cites \cap Waivers \subseteq signed

\* However the edits fall, a run that ends OK publishes no stale number among
\* those it still finds, and no check that is both waiting for a phone and
\* recorded as done on one (check_docs.py, its three detectors together).
GreenDocumentsAgree ==
    RunnerOK =>
        /\ claimed = blocked /\ blocked \cap observed = {}
        /\ \A p \in DOMAIN counts :
              counts[p] = CASE p \in CountFiles      -> Cardinality(gates)
                            [] p = OwnRow            -> Cardinality(claimed)
                            [] p \in DenominatorRows -> Cardinality(sources)

\* The rewriting tools make the counts right and settle nothing else: they never
\* turn a disagreement between the tables themselves into agreement
\* (check_docs.py:318, check_dod.py:340, "not a way to make the gate pass").
FixesHideNothing ==
    [][edits' = edits =>
          /\ CheckBlocked("none")' = CheckBlocked("none")
          /\ CheckCriteria("none")' = CheckCriteria("none")
          /\ \/ CheckDenominators(FALSE).findings' = 0
             \/ CheckCounts(FALSE).findings' = 0]_documents
=============================================================================
