------------------------------ MODULE GateRunner ------------------------------
(***************************************************************************)
(* scripts/run_gates.py: run every gate, positive control first, and print *)
(* one verdict.  A gate is a control command and a real command; some      *)
(* gates measure a built artifact.  What a script finds is the             *)
(* environment's choice: any result of its detectors, or a run that dies   *)
(* without one; a script that prints no JSON says all it has to say by its *)
(* exit code.  A build running beside the gates may add or remove an       *)
(* artifact between any two steps.                                         *)
(***************************************************************************)
EXTENDS GateLib, Sequences, FiniteSets

CONSTANTS
    Order,        \* the gate table, in the order it is run
    Meta,         \* gates that are a control and nothing else: a script run
                  \* --strict over an empty directory, which must not pass
    Silent,       \* gates whose commands print no JSON (GATE-STORE-1)
    Reads,        \* gate -> the artifacts its commands measure
    Files,        \* every file a build may leave or take away
    Signed, Unsigned,  \* the two names of a release apk that are expected
    Stray,        \* a release apk under any other name
    Release,      \* stands in Reads for the release apk, whatever its name
    MayBeAbsent,  \* gates allowed to go dark, each with a written reason
    Detectors,    \* the detectors of a script
    MaxBuilds     \* bound: how often a build changes an artifact during a run

Gates == {Order[i] : i \in DOMAIN Order}

ASSUME OrderAssumption ==
    /\ Order \in Seq(Gates)
    /\ \A i, j \in DOMAIN Order : Order[i] = Order[j] => i = j
ASSUME TableAssumption ==
    /\ Meta \subseteq Gates /\ Silent \subseteq Gates \ Meta
    /\ MayBeAbsent \subseteq Gates
    /\ Reads \in [Gates -> SUBSET (Files \cup {Release})]
    /\ Release \notin Files /\ {Signed, Unsigned, Stray} \subseteq Files
ASSUME BoundAssumption == MaxBuilds \in Nat

VARIABLES
    strict,   \* the --strict flag
    built,    \* the artifacts on disk
    release,  \* the release apk resolve_release_apk settled on
    builds,   \* how often a build changed them during the run
    at,       \* the position in Order of the gate being judged
    phase,    \* "resolve", "requires", "control", "real", "end"
    control,  \* the status the current gate's control reported
    rows,     \* gate -> its printed row
    died,     \* history: the gates whose control died instead of finding anything
    ok,       \* the run's verdict so far
    exit      \* Running, then the process's exit code

vars == <<strict, built, release, builds, at, phase, control, rows, died, ok, exit>>

NoRow == [status |-> "none", control |-> "none", code |-> ExitPass, lit |-> {}]

\* The status of a run that printed no JSON is its exit code and nothing else.
Crashed == "exit=1"    \* it died, or it is silent and found something
Quiet == "exit=0"      \* it is silent and found nothing
Running == 2   \* no exit code yet

Needs(g) == {IF a = Release THEN release ELSE a : a \in Reads[g]}

Present(g) == Needs(g) \subseteq built

\* One run of a script over the disk as it is now.  An artifact that is not
\* there leaves every detector with denominator 0; otherwise it finds anything.
Results(g) ==
    IF Present(g) /\ g \notin Meta
    THEN [Detectors -> [findings : 0 .. 1, denominator : 0 .. 1]]
    ELSE {[d \in Detectors |-> Det(0, 0)]}

Lit(dets) == {d \in DOMAIN dets : dets[d].denominator > 0}

Gate == Order[at]

Advance ==
    /\ at' = at + 1
    /\ phase' = IF at = Len(Order) THEN "end" ELSE "requires"
    /\ control' = "none"

Init ==
    /\ strict \in BOOLEAN
    /\ built \in SUBSET Files
    /\ release = Unsigned
    /\ builds = 0
    /\ at = 1
    /\ phase = "resolve"
    /\ control = "none"
    /\ rows = [g \in Gates |-> NoRow]
    /\ died = {}
    /\ ok = TRUE
    /\ exit = Running

\* resolve_release_apk: the signed name first, then the unsigned one.  A
\* release apk under any other name ends the run before the first gate; with no
\* release apk at all the unsigned name stands, and its gates find it absent.
Resolve ==
    /\ phase = "resolve"
    /\ {Signed, Unsigned} \cap built # {} \/ Stray \notin built
    /\ release' = IF Signed \in built THEN Signed ELSE Unsigned
    /\ phase' = IF Order = <<>> THEN "end" ELSE "requires"
    /\ UNCHANGED <<strict, built, builds, at, control, rows, died, ok, exit>>

StrayRelease ==
    /\ phase = "resolve"
    /\ {Signed, Unsigned} \cap built = {} /\ Stray \in built
    /\ phase' = "end"
    /\ ok' = FALSE
    /\ exit' = ExitFail
    /\ UNCHANGED <<strict, built, release, builds, at, control, rows, died>>

InputAbsent ==
    /\ phase = "requires"
    /\ ~Present(Gate)
    /\ rows' = [rows EXCEPT ![Gate] =
                  [NoRow EXCEPT !.status = NotMeasured]]
    /\ ok' = (ok /\ ~strict /\ Gate \in MayBeAbsent)
    /\ Advance
    /\ UNCHANGED <<strict, built, release, builds, died, exit>>

InputPresent ==
    /\ phase = "requires"
    /\ Present(Gate)
    /\ phase' = "control"
    /\ UNCHANGED <<strict, built, release, builds, at, control, rows, died, ok, exit>>

\* Only the meta-gate's control command carries --strict.
ControlExit(dets) == ExitCode(dets, Gate \in Meta)

\* Any non-zero exit counts as red, a control that died included.
ControlRed ==
    /\ phase = "control"
    /\ \/ /\ Gate \notin Silent
          /\ \E dets \in Results(Gate) :
                /\ ControlExit(dets) # ExitPass
                /\ control' = GateStatus(dets)
          /\ UNCHANGED died
       \/ Gate \in Silent /\ control' = Crashed /\ UNCHANGED died
       \/ control' = Crashed /\ died' = died \cup {Gate}
    /\ phase' = "real"
    /\ UNCHANGED <<strict, built, release, builds, at, rows, ok, exit>>

MayStayGreen ==
    Gate \in Silent \/ \E dets \in Results(Gate) : ControlExit(dets) = ExitPass

\* A control that stayed green is noted, and the gate is run all the same.
ControlGreenNoted ==
    /\ phase = "control"
    /\ MayStayGreen
    /\ control' = "none"
    /\ phase' = "real"
    /\ UNCHANGED <<strict, built, release, builds, at, rows, died, ok, exit>>

ControlGreen ==
    /\ phase = "control"
    /\ MayStayGreen
    /\ rows' = [rows EXCEPT ![Gate] = [NoRow EXCEPT !.status = "NOT-A-GATE"]]
    /\ ok' = FALSE
    /\ Advance
    /\ UNCHANGED <<strict, built, release, builds, died, exit>>

Proven ==
    /\ phase = "real"
    /\ Gate \in Meta
    /\ rows' = [rows EXCEPT ![Gate] =
                  [NoRow EXCEPT !.status = "PROVEN", !.control = control]]
    /\ Advance
    /\ UNCHANGED <<strict, built, release, builds, died, ok, exit>>

\* The gate's result decides ok instead of adding to it.
RealRunForgets ==
    /\ phase = "real"
    /\ Gate \notin Meta \cup Silent
    /\ \E dets \in Results(Gate) :
          /\ rows' = [rows EXCEPT ![Gate] =
                        [status |-> GateStatus(dets), control |-> control,
                         code |-> ExitCode(dets, strict), lit |-> Lit(dets)]]
          /\ ok' = (ExitCode(dets, strict) = ExitPass)
    /\ Advance
    /\ UNCHANGED <<strict, built, release, builds, died, exit>>

RealRun ==
    /\ phase = "real"
    /\ Gate \notin Meta \cup Silent
    /\ \E dets \in Results(Gate) :
          /\ rows' = [rows EXCEPT ![Gate] =
                        [status |-> GateStatus(dets), control |-> control,
                         code |-> ExitCode(dets, strict), lit |-> Lit(dets)]]
          /\ ok' = (ok /\ ExitCode(dets, strict) = ExitPass)
    /\ Advance
    /\ UNCHANGED <<strict, built, release, builds, died, exit>>

\* A silent script that found nothing: the row has a status no detector gave,
\* and ok is left as it was.
SilentRun ==
    /\ phase = "real"
    /\ Gate \in Silent
    /\ rows' = [rows EXCEPT ![Gate] =
                  [NoRow EXCEPT !.status = Quiet, !.control = control]]
    /\ Advance
    /\ UNCHANGED <<strict, built, release, builds, died, ok, exit>>

\* A script that dies is run again.
RealCrashRetried ==
    /\ phase = "real"
    /\ Gate \notin Meta
    /\ phase' = "requires"
    /\ UNCHANGED <<strict, built, release, builds, at, control, rows, died, ok, exit>>

\* A non-zero exit without JSON: the script died, or it is silent and found
\* something.
RealCrash ==
    /\ phase = "real"
    /\ Gate \notin Meta
    /\ rows' = [rows EXCEPT ![Gate] =
                  [status |-> Crashed, control |-> control,
                   code |-> ExitFail, lit |-> {}]]
    /\ ok' = FALSE
    /\ Advance
    /\ UNCHANGED <<strict, built, release, builds, died, exit>>

Report ==
    /\ phase = "end"
    /\ exit = Running
    /\ exit' = IF ok THEN ExitPass ELSE ExitFail
    /\ UNCHANGED <<strict, built, release, builds, at, phase, control, rows, died, ok>>

Step ==
    \/ Resolve \/ StrayRelease \/ InputAbsent \/ InputPresent
    \/ ControlRed \/ ControlGreen \/ Proven \/ RealRun \/ SilentRun \/ RealCrash
    \/ Report

\* A build beside the run writes or deletes one artifact.
Build ==
    /\ exit = Running
    /\ builds < MaxBuilds
    /\ builds' = builds + 1
    /\ \E a \in Files :
          built' = IF a \in built THEN built \ {a} ELSE built \cup {a}
    /\ UNCHANGED <<strict, release, at, phase, control, rows, died, ok, exit>>

Next == Step \/ Build

\* Every script the runner starts is waited for, so the runner keeps moving.
Spec == Init /\ [][Next]_vars /\ WF_vars(Step)

-----------------------------------------------------------------------------
Statuses == {Pass, PassPartial, Fail, NotMeasured, Crashed, Quiet,
             "NOT-A-GATE", "PROVEN", "none"}

Row == [status : Statuses, control : Statuses,
        code : {ExitPass, ExitFail}, lit : SUBSET Detectors]

\* The type invariant of the runner (run_gates.py main): every variable stays in its range.
TypeOK ==
    /\ strict \in BOOLEAN
    /\ built \in SUBSET Files
    /\ release \in {Signed, Unsigned}
    /\ builds \in 0 .. MaxBuilds
    /\ at \in 1 .. Len(Order) + 1
    /\ phase \in {"resolve", "requires", "control", "real", "end"}
    /\ control \in {Fail, PassPartial, Crashed, "none"}
    /\ rows \in [Gates -> Row]
    /\ died \subseteq Gates
    /\ ok \in BOOLEAN
    /\ exit \in {Running, ExitPass, ExitFail}

Judged(g) == rows[g].status # "none"

\* What a control may have reported for the runner to take it for red: a
\* finding, or a bare non-zero exit.  Over an empty directory --strict makes
\* PASS-PARTIAL a failure, which is what the meta-gate's control is for.
RedOf(g) ==
    (IF g \in Silent THEN {} ELSE {Fail})
        \cup (IF g \in Silent \cup died THEN {Crashed} ELSE {})
        \cup (IF g \in Meta THEN {PassPartial} ELSE {})

CleanOf(g) ==
    CASE g \in Meta   -> {"PROVEN"}
      [] g \in Silent -> {Quiet}
      [] OTHER        -> {Pass, PassPartial}

\* What the runner's "overall: OK" is worth (run_gates.py main): the control of
\* every gate ended red in this run, by a finding unless it died or has no
\* other way to say so, and the gate was then clean; or the gate is on the
\* short list of those that may go dark and the run was not strict.  One row
\* added late, or one early exit, is enough to break it.
GreenWasSeenRed ==
    exit = ExitPass =>
        \A g \in Gates :
            \/ rows[g].status \in CleanOf(g) /\ rows[g].control \in RedOf(g)
            \/ rows[g].status = NotMeasured /\ g \in MayBeAbsent /\ ~strict

\* Release readiness runs strict (gatelib.report): a strict run that ends OK
\* examined something with every detector of every gate that reports detectors.
\* A silent gate reports none, and --strict asks nothing of it.
StrictMeansMeasured ==
    exit = ExitPass /\ strict =>
        \A g \in Gates \ (Meta \cup Silent) :
            rows[g].status = Pass /\ rows[g].lit = Detectors

\* "A control that cannot run proves nothing" (docs/DEFINITION_OF_DONE.md, and
\* the runner's own message about absent inputs): no run ends OK on a control
\* that died.  Refuted: the runner looks at the exit code alone.
ControlsReallyRan == exit = ExitPass => died = {}

\* Every run of the gates ends with an exit code (run_gates.py main).
RunEnds == <>(exit # Running)

-----------------------------------------------------------------------------
\* The runner implements the abstract run of the gates.
VerdictOf(g) ==
    IF ~Judged(g) THEN "pending"
    ELSE IF rows[g].status = NotMeasured THEN "dark"
    ELSE IF rows[g].status = "NOT-A-GATE" \/ rows[g].code = ExitFail
         THEN "refused" ELSE "held"

Abstract ==
    INSTANCE GateVerdict WITH
        verdict <- [g \in Gates |-> VerdictOf(g)],
        leave   <- IF strict THEN {} ELSE MayBeAbsent,
        overall <- IF exit = Running THEN "running"
                   ELSE IF exit = ExitPass THEN "OK" ELSE "FAILED"

\* The printed rows and the exit code are a run as GateVerdict promises it:
\* one judgement per gate, and OK only when every gate held or had leave
\* (run_gates.py main implements its own docstring).
ImplementsVerdict == Abstract!Spec
=============================================================================
