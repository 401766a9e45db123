------------------------------ MODULE GateProofs ------------------------------
(***************************************************************************)
(* The gates of the repository itself.  First GateRunner, for every gate    *)
(* table, every choice of gates that may go dark and every artifact, and    *)
(* that the runner implements GateVerdict; that the run ends at all is left *)
(* to TLC (MCGateRunner).  Then DoneDocs, for every set of checks, gates,   *)
(* criteria and waivers, from any documents and through any edits.          *)
(***************************************************************************)
EXTENDS GateRunner, DoneDocs, FiniteSetTheorems, TLAPS

-----------------------------------------------------------------------------
(* The table and the library.                                                *)

LEMMA TableFacts ==
  /\ Len(Order) \in Nat
  /\ \A i \in 1 .. Len(Order) : Order[i] \in Gates
  /\ \A g \in Gates : \E i \in 1 .. Len(Order) : g = Order[i]
  /\ \A i, j \in 1 .. Len(Order) : Order[i] = Order[j] => i = j
<1>1. Len(Order) \in Nat /\ DOMAIN Order = 1 .. Len(Order)
  BY OrderAssumption
<1>2. \A g \in Gates : \E i \in DOMAIN Order : g = Order[i]
  BY DEF Gates
<1>3. \A i \in DOMAIN Order : Order[i] \in Gates
  BY DEF Gates
<1>4. QED
  BY <1>1, <1>2, <1>3, OrderAssumption

\* What a script over a tree, built or not, can report.
LEMMA ResultShape ==
  ASSUME NEW g, NEW dets \in Results(g)
  PROVE  /\ DOMAIN dets = Detectors
         /\ \A d \in Detectors : dets[d].findings \in 0 .. 1 /\ dets[d].denominator \in 0 .. 1
  BY DEF Results, Det

LEMMA StatusShape ==
  ASSUME NEW dets
  PROVE  GateStatus(dets) \in {Pass, PassPartial, Fail}
  BY DEF GateStatus

LEMMA ExitShape ==
  ASSUME NEW dets, NEW flag \in BOOLEAN
  PROVE  /\ ExitCode(dets, flag) \in {ExitPass, ExitFail}
         /\ ExitCode(dets, flag) = ExitPass => GateStatus(dets) \in {Pass, PassPartial}
         /\ ExitCode(dets, flag) = ExitPass /\ flag => GateStatus(dets) = Pass
         /\ ExitCode(dets, flag) # ExitPass =>
              GateStatus(dets) = Fail \/ (GateStatus(dets) = PassPartial /\ flag)
  BY StatusShape DEF ExitCode, ExitPass, ExitFail, Pass, PassPartial, Fail

\* Only a script whose every detector looked at something passes outright.
LEMMA PassIsLit ==
  ASSUME NEW g, NEW dets \in Results(g), GateStatus(dets) = Pass
  PROVE  Lit(dets) = Detectors
<1>1. \A d \in Detectors : DetectorStatus(dets[d]) \notin {Fail, NotMeasured}
  BY ResultShape DEF GateStatus, Pass, PassPartial, Fail, NotMeasured
<1>2. \A d \in Detectors : dets[d].denominator # 0
  BY <1>1 DEF DetectorStatus, Fail, NotMeasured, Pass
<1>3. QED
  BY <1>2, ResultShape DEF Lit

-----------------------------------------------------------------------------
(***************************************************************************)
(* The inductive invariant.  A verdict on the whole run needs to know, in    *)
(* the middle of it, that the rows so far are those of the gates before the  *)
(* present one, that each accepted row was earned, and that ok counts them.  *)
(***************************************************************************)
Leave == IF strict THEN {} ELSE MayBeAbsent

\* Whether a row of gate g lets the run go on being OK, and what it stands for.
Acceptable(g, row) ==
    \/ row.status = NotMeasured /\ g \in Leave
    \/ row.status \notin {"none", NotMeasured, "NOT-A-GATE"} /\ row.code = ExitPass

Earned(g, row) ==
    \/ row.status = NotMeasured /\ g \in Leave
    \/ /\ row.status \in CleanOf(g)
       /\ row.control \in RedOf(g)
       /\ strict /\ g \notin Meta \cup Silent => row.status = Pass /\ row.lit = Detectors

Progress ==
    /\ phase \in {"requires", "control", "real"} => at \in 1 .. Len(Order) /\ exit = Running
    /\ phase = "resolve" => at = 1 /\ exit = Running
    /\ phase = "end" /\ exit = Running => at = Len(Order) + 1

RowsSoFar == \A i \in 1 .. Len(Order) : Judged(Order[i]) <=> i < at

ControlWasRed == phase = "real" => control \in RedOf(Gate)

AcceptedIsEarned == \A g \in Gates : Acceptable(g, rows[g]) => Earned(g, rows[g])

OkCounts ==
    /\ exit = Running => (ok <=> \A g \in Gates : Judged(g) => Acceptable(g, rows[g]))
    /\ exit = ExitPass => \A g \in Gates : Acceptable(g, rows[g])

IInv ==
    TypeOK /\ Progress /\ RowsSoFar /\ ControlWasRed /\ AcceptedIsEarned /\ OkCounts

LEMMA IInvInit == Init => IInv
<1> SUFFICES ASSUME Init
             PROVE  IInv
  OBVIOUS
<1>1. TypeOK
  BY TableFacts, BoundAssumption
  DEF Init, TypeOK, Row, NoRow, Statuses, ExitPass, ExitFail, Running
<1>2. \A g \in Gates : ~Judged(g) /\ ~Acceptable(g, rows[g])
  BY DEF Init, Judged, Acceptable, NoRow, NotMeasured
<1>3. Progress /\ ControlWasRed
  BY DEF Init, Progress, ControlWasRed
<1>4. RowsSoFar
  BY <1>2, TableFacts DEF Init, RowsSoFar
<1>5. AcceptedIsEarned /\ OkCounts
  BY <1>2 DEF Init, AcceptedIsEarned, OkCounts, Running, ExitPass
<1>6. QED
  BY <1>1, <1>3, <1>4, <1>5 DEF IInv

\* Judging a gate: every way of writing its row keeps the invariant, if an
\* accepted row was earned and ok takes note of one that is not accepted.
LEMMA JudgeStep ==
  ASSUME IInv, phase \in {"requires", "control", "real"},
         NEW row \in Row, row.status # "none",
         rows' = [rows EXCEPT ![Gate] = row],
         Advance, UNCHANGED <<strict, built, release, builds, died, exit>>,
         ok' \in BOOLEAN, ok' <=> (ok /\ Acceptable(Gate, row)),
         Acceptable(Gate, row) => Earned(Gate, row)
  PROVE  IInv'
<1> DEFINE n == at
           g == Gate
<1>1. n \in 1 .. Len(Order) /\ g \in Gates /\ g = Order[n] /\ exit = Running
  BY TableFacts DEF IInv, Progress, Gate
<1>2. /\ rows' \in [Gates -> Row] /\ rows'[g] = row
      /\ \A h \in Gates \ {g} : rows'[h] = rows[h]
  BY <1>1 DEF IInv, TypeOK
<1>3. at' = n + 1 /\ phase' \in {"requires", "end"} /\ control' = "none"
      /\ (phase' = "end" <=> n = Len(Order))
  BY DEF Advance
<1>4. TypeOK'
  BY <1>1, <1>2, <1>3, TableFacts DEF IInv, TypeOK
<1>5. Progress'
  BY <1>1, <1>3, TableFacts DEF Progress
<1>6. ~Judged(g)
  BY <1>1, TableFacts DEF IInv, RowsSoFar
<1>7. RowsSoFar'
  <2> SUFFICES ASSUME NEW i \in 1 .. Len(Order)
               PROVE  (rows'[Order[i]].status # "none") <=> i < n + 1
    BY <1>3 DEF RowsSoFar, Judged
  <2>1. CASE i = n
    BY <2>1, <1>1, <1>2
  <2>2. CASE i # n
    <3>1. Order[i] \in Gates \ {g}
      BY <2>2, <1>1, TableFacts
    <3>2. i < n + 1 <=> i < n
      BY <2>2, <1>1, TableFacts
    <3>3. QED
      BY <3>1, <3>2, <1>2 DEF IInv, RowsSoFar, Judged
  <2>3. QED
    BY <2>1, <2>2
<1>8. \A h, r : (Acceptable(h, r)' <=> Acceptable(h, r)) /\ (Earned(h, r)' <=> Earned(h, r))
  BY DEF Acceptable, Earned, Leave, RedOf, CleanOf
<1>9. AcceptedIsEarned'
  BY <1>2, <1>8 DEF IInv, AcceptedIsEarned, Acceptable, Earned, Leave, RedOf, CleanOf
<1>10. OkCounts'
  <2>1. ok <=> \A h \in Gates : rows[h].status # "none" => Acceptable(h, rows[h])
    BY <1>1 DEF IInv, OkCounts, Judged
  <2>2. ok' <=> \A h \in Gates : rows'[h].status # "none" => Acceptable(h, rows'[h])
    BY <2>1, <1>1, <1>2, <1>6 DEF Judged
  <2>3. QED
    BY <2>2, <1>1 DEF OkCounts, Judged, Acceptable, Leave, Running, ExitPass
<1>11. ControlWasRed'
  BY <1>3 DEF ControlWasRed
<1>12. QED
  BY <1>4, <1>5, <1>7, <1>9, <1>10, <1>11 DEF IInv

LEMMA InputAbsentStep == IInv /\ InputAbsent => IInv'
<1> SUFFICES ASSUME IInv, InputAbsent
             PROVE  IInv'
  OBVIOUS
<1> DEFINE row == [NoRow EXCEPT !.status = NotMeasured]
<1>1. row \in Row /\ row.status = NotMeasured /\ row.status # "none"
  BY DEF NoRow, Row, Statuses, NotMeasured, ExitPass
<1>2. /\ Acceptable(Gate, row) <=> Gate \in Leave
      /\ Acceptable(Gate, row) => Earned(Gate, row)
  BY <1>1 DEF Acceptable, Earned
<1>3. ok' \in BOOLEAN /\ (ok' <=> ok /\ Acceptable(Gate, row))
  BY <1>2 DEF InputAbsent, IInv, TypeOK, Leave
<1> HIDE DEF row
<1>4. QED
  BY <1>1, <1>2, <1>3, JudgeStep DEF InputAbsent, row

LEMMA ControlGreenStep == IInv /\ ControlGreen => IInv'
<1> SUFFICES ASSUME IInv, ControlGreen
             PROVE  IInv'
  OBVIOUS
<1> DEFINE row == [NoRow EXCEPT !.status = "NOT-A-GATE"]
<1>1. row \in Row /\ row.status = "NOT-A-GATE" /\ row.status # "none"
  BY DEF NoRow, Row, Statuses, ExitPass
<1>2. ~Acceptable(Gate, row)
  BY <1>1 DEF Acceptable, NotMeasured
<1>3. ok' \in BOOLEAN /\ (ok' <=> ok /\ Acceptable(Gate, row))
  BY <1>2 DEF ControlGreen
<1> HIDE DEF row
<1>4. QED
  BY <1>1, <1>2, <1>3, JudgeStep DEF ControlGreen, row

LEMMA ProvenStep == IInv /\ Proven => IInv'
<1> SUFFICES ASSUME IInv, Proven
             PROVE  IInv'
  OBVIOUS
<1> DEFINE row == [NoRow EXCEPT !.status = "PROVEN", !.control = control]
<1>1. /\ row \in Row /\ row.status = "PROVEN" /\ row.status # "none"
      /\ row.control = control /\ row.code = ExitPass
  BY DEF IInv, TypeOK, NoRow, Row, Statuses
<1>2. Acceptable(Gate, row)
  BY <1>1 DEF Acceptable, NotMeasured
<1>3. Gate \in Meta /\ Gate \notin Silent /\ control \in RedOf(Gate)
  BY TableAssumption DEF Proven, IInv, ControlWasRed
<1>4. Earned(Gate, row)
  BY <1>1, <1>3 DEF Earned, CleanOf
<1>5. ok' \in BOOLEAN /\ (ok' <=> ok /\ Acceptable(Gate, row))
  BY <1>2 DEF Proven, IInv, TypeOK
<1> HIDE DEF row
<1>6. QED
  BY <1>1, <1>2, <1>4, <1>5, JudgeStep DEF Proven, row

LEMMA RealRunStep == IInv /\ RealRun => IInv'
<1> SUFFICES ASSUME IInv, RealRun
             PROVE  IInv'
  OBVIOUS
<1>1. PICK dets \in Results(Gate) :
        /\ rows' = [rows EXCEPT ![Gate] =
                      [status |-> GateStatus(dets), control |-> control,
                       code |-> ExitCode(dets, strict), lit |-> Lit(dets)]]
        /\ ok' = (ok /\ ExitCode(dets, strict) = ExitPass)
  BY DEF RealRun
<1> DEFINE row == [status |-> GateStatus(dets), control |-> control,
                   code |-> ExitCode(dets, strict), lit |-> Lit(dets)]
<1>2. /\ row.status = GateStatus(dets) /\ row.control = control
      /\ row.code = ExitCode(dets, strict) /\ row.lit = Lit(dets)
  OBVIOUS
<1>3. strict \in BOOLEAN /\ control \in RedOf(Gate) /\ Gate \notin Meta \cup Silent
  BY DEF IInv, TypeOK, RealRun, ControlWasRed
<1>4. /\ row.status \in {Pass, PassPartial, Fail}
      /\ row.status \notin {"none", NotMeasured, "NOT-A-GATE"}
  BY <1>2, StatusShape DEF Pass, PassPartial, Fail, NotMeasured
<1>5. row \in Row
  <2>1. Lit(dets) \subseteq Detectors
    BY ResultShape DEF Lit
  <2>2. control \in Statuses
    BY DEF IInv, TypeOK, Statuses
  <2>3. QED
    BY <1>3, <2>1, <2>2, StatusShape, ExitShape DEF Row, Statuses
<1>6. Acceptable(Gate, row) <=> ExitCode(dets, strict) = ExitPass
  BY <1>2, <1>4 DEF Acceptable
<1>7. Acceptable(Gate, row) => Earned(Gate, row)
  <2> SUFFICES ASSUME ExitCode(dets, strict) = ExitPass
               PROVE  Earned(Gate, row)
    BY <1>6
  <2>1. row.status \in {Pass, PassPartial} /\ (strict => row.status = Pass)
    BY <1>2, <1>3, ExitShape
  <2>2. row.status = Pass => row.lit = Detectors
    BY <1>2, PassIsLit
  <2>3. QED
    BY <2>1, <2>2, <1>2, <1>3 DEF Earned, CleanOf
<1>8. ok' \in BOOLEAN /\ (ok' <=> ok /\ Acceptable(Gate, row))
  BY <1>1, <1>6 DEF IInv, TypeOK
<1>9. rows' = [rows EXCEPT ![Gate] = row]
  BY <1>1
<1> HIDE DEF row
<1>10. QED
  BY <1>4, <1>5, <1>7, <1>8, <1>9, JudgeStep DEF RealRun

LEMMA SilentRunStep == IInv /\ SilentRun => IInv'
<1> SUFFICES ASSUME IInv, SilentRun
             PROVE  IInv'
  OBVIOUS
<1> DEFINE row == [NoRow EXCEPT !.status = Quiet, !.control = control]
<1>1. /\ row \in Row /\ row.status = Quiet /\ row.status # "none"
      /\ row.control = control /\ row.code = ExitPass
  BY DEF IInv, TypeOK, NoRow, Row, Statuses, Quiet
<1>2. Gate \in Silent /\ Gate \notin Meta /\ control \in RedOf(Gate)
  BY TableAssumption DEF SilentRun, IInv, ControlWasRed
<1>3. Acceptable(Gate, row) /\ Earned(Gate, row)
  BY <1>1, <1>2 DEF Acceptable, Earned, CleanOf, Quiet, NotMeasured
<1>4. ok' \in BOOLEAN /\ (ok' <=> ok /\ Acceptable(Gate, row))
  BY <1>3 DEF SilentRun, IInv, TypeOK
<1> HIDE DEF row
<1>5. QED
  BY <1>1, <1>3, <1>4, JudgeStep DEF SilentRun, row

LEMMA RealCrashStep == IInv /\ RealCrash => IInv'
<1> SUFFICES ASSUME IInv, RealCrash
             PROVE  IInv'
  OBVIOUS
<1> DEFINE row == [status |-> Crashed, control |-> control, code |-> ExitFail, lit |-> {}]
<1>1. row \in Row /\ row.status = Crashed /\ row.status # "none" /\ row.code = ExitFail
  BY DEF IInv, TypeOK, Row, Statuses, Crashed
<1>2. ~Acceptable(Gate, row)
  BY <1>1 DEF Acceptable, Crashed, NotMeasured, ExitFail, ExitPass
<1>3. ok' \in BOOLEAN /\ (ok' <=> ok /\ Acceptable(Gate, row))
  BY <1>2 DEF RealCrash
<1> HIDE DEF row
<1>4. QED
  BY <1>1, <1>2, <1>3, JudgeStep DEF RealCrash, row

\* A step that writes no row keeps what is known of the rows.
LEMMA RowsKept ==
  ASSUME IInv, UNCHANGED <<strict, at, rows, ok, exit>>, died \subseteq died',
         TypeOK', Progress', ControlWasRed'
  PROVE  IInv'
<1>1. RowsSoFar'
  BY DEF IInv, RowsSoFar, Judged
<1>2. AcceptedIsEarned' /\ OkCounts'
  BY DEF IInv, AcceptedIsEarned, OkCounts, Acceptable, Earned, Leave, RedOf, CleanOf, Judged
<1>3. QED
  BY <1>1, <1>2 DEF IInv

LEMMA QuietStep ==
  IInv /\ (Resolve \/ InputPresent \/ ControlRed \/ Build \/ UNCHANGED vars) => IInv'
<1> SUFFICES ASSUME IInv, Resolve \/ InputPresent \/ ControlRed \/ Build \/ UNCHANGED vars
             PROVE  IInv'
  OBVIOUS
<1>1. CASE Resolve
  <2>1. Len(Order) \in Nat /\ (Order = <<>> <=> Len(Order) = 0)
    BY TableFacts, OrderAssumption
  <2>2. TypeOK'
    BY <1>1 DEF Resolve, IInv, TypeOK
  <2>3. at' = 1 /\ exit' = Running /\ phase' = IF Order = <<>> THEN "end" ELSE "requires"
    BY <1>1 DEF Resolve, IInv, Progress
  <2>4. Progress'
    BY <2>1, <2>3 DEF Progress
  <2>5. ControlWasRed'
    BY <2>3 DEF ControlWasRed
  <2>6. QED
    BY <1>1, <2>2, <2>4, <2>5, RowsKept DEF Resolve
<1>2. CASE InputPresent
  <2>1. TypeOK' /\ Progress' /\ ControlWasRed'
    BY <1>2 DEF InputPresent, IInv, TypeOK, Progress, ControlWasRed
  <2>2. QED
    BY <1>2, <2>1, RowsKept DEF InputPresent
<1>3. CASE ControlRed
  <2>0. Gate \in Gates /\ Gate' = Gate /\ died \subseteq died' /\ died' \subseteq Gates
    BY <1>3, TableFacts DEF ControlRed, IInv, TypeOK, Progress, Gate
  <2>1. control' \in RedOf(Gate)'
    <3>1. CASE Gate \in Silent /\ control' = Crashed
      BY <3>1, <2>0 DEF RedOf
    <3>2. CASE control' = Crashed /\ died' = died \cup {Gate}
      BY <3>2, <2>0 DEF RedOf
    <3>3. ASSUME Gate \notin Silent, NEW dets \in Results(Gate),
                 ControlExit(dets) # ExitPass, control' = GateStatus(dets)
          PROVE  control' \in RedOf(Gate)'
      <4>1. ExitCode(dets, Gate \in Meta) # ExitPass
        BY <3>3 DEF ControlExit
      <4>2. control' = Fail \/ (control' = PassPartial /\ Gate \in Meta)
        BY <3>3, <4>1, StatusShape, Zenon DEF ExitCode, ExitPass, ExitFail
      <4>3. QED
        BY <3>3, <4>2, <2>0 DEF RedOf
    <3>4. QED
      BY <1>3, <3>1, <3>2, <3>3 DEF ControlRed
  <2>2. TypeOK'
    BY <1>3, <2>0, <2>1 DEF ControlRed, IInv, TypeOK, RedOf
  <2>3. Progress'
    BY <1>3 DEF ControlRed, IInv, Progress
  <2>4. ControlWasRed'
    BY <2>1 DEF ControlWasRed
  <2>5. QED
    BY <1>3, <2>0, <2>2, <2>3, <2>4, RowsKept DEF ControlRed
<1>4. CASE Build
  <2>1. built' \in SUBSET Files
    BY <1>4 DEF Build, IInv, TypeOK
  <2>2. builds' \in 0 .. MaxBuilds
    BY <1>4, BoundAssumption DEF Build, IInv, TypeOK
  <2>3. TypeOK'
    BY <1>4, <2>1, <2>2 DEF Build, IInv, TypeOK
  <2>4. Progress' /\ ControlWasRed'
    BY <1>4 DEF Build, IInv, Progress, ControlWasRed, Gate, RedOf
  <2>5. QED
    BY <1>4, <2>3, <2>4, RowsKept DEF Build
<1>5. CASE UNCHANGED vars
  <2>1. TypeOK' /\ Progress' /\ ControlWasRed'
    BY <1>5 DEF vars, IInv, TypeOK, Progress, ControlWasRed, Gate, RedOf
  <2>2. QED
    BY <1>5, <2>1, RowsKept DEF vars
<1>6. QED
  BY <1>1, <1>2, <1>3, <1>4, <1>5

LEMMA StrayReleaseStep == IInv /\ StrayRelease => IInv'
<1> SUFFICES ASSUME IInv, StrayRelease
             PROVE  IInv'
  OBVIOUS
<1>0. exit' # Running /\ phase' = "end"
  BY DEF StrayRelease, Running, ExitFail
<1>1. TypeOK' /\ Progress' /\ ControlWasRed'
  BY <1>0 DEF StrayRelease, IInv, TypeOK, Progress, ControlWasRed, Running, ExitFail
<1>2. RowsSoFar' /\ AcceptedIsEarned'
  BY DEF StrayRelease, IInv, RowsSoFar, AcceptedIsEarned, Judged, Acceptable, Earned,
         Leave, RedOf, CleanOf
<1>3. OkCounts'
  BY DEF StrayRelease, OkCounts, Running, ExitFail, ExitPass
<1>4. QED
  BY <1>1, <1>2, <1>3 DEF IInv

\* At the end of the table every gate has its row.
LEMMA AllJudged ==
  ASSUME IInv, phase = "end", exit = Running
  PROVE  \A g \in Gates : Judged(g)
<1>1. at = Len(Order) + 1
  BY DEF IInv, Progress
<1>2. \A i \in 1 .. Len(Order) : Judged(Order[i])
  BY <1>1, TableFacts DEF IInv, RowsSoFar
<1>3. QED
  BY <1>2, TableFacts

LEMMA ReportStep == IInv /\ Report => IInv'
<1> SUFFICES ASSUME IInv, Report
             PROVE  IInv'
  OBVIOUS
<1>1. TypeOK' /\ Progress' /\ ControlWasRed'
  BY DEF Report, IInv, TypeOK, Progress, ControlWasRed, Running, ExitFail, ExitPass
<1>2. RowsSoFar' /\ AcceptedIsEarned'
  BY DEF Report, IInv, RowsSoFar, AcceptedIsEarned, Judged, Acceptable, Earned,
         Leave, RedOf, CleanOf
<1>3. ok => \A g \in Gates : Acceptable(g, rows[g])
  BY AllJudged DEF Report, IInv, OkCounts
<1>4. OkCounts'
  BY <1>3 DEF Report, OkCounts, Acceptable, Leave, Running, ExitFail, ExitPass
<1>5. QED
  BY <1>1, <1>2, <1>4 DEF IInv

LEMMA IInvStep == IInv /\ [Next]_vars => IInv'
  BY InputAbsentStep, ControlGreenStep, ProvenStep, RealRunStep, SilentRunStep, RealCrashStep,
     QuietStep, StrayReleaseStep, ReportStep DEF Next, Step

LEMMA Invariance == Spec => []IInv
  BY IInvInit, IInvStep, PTL DEF Spec

-----------------------------------------------------------------------------
\* The runner's state keeps its types, for every table and every set of files.
THEOREM RunnerTypeCorrect == Spec => []TypeOK
<1>1. IInv => TypeOK
  BY DEF IInv
<1>2. QED
  BY <1>1, Invariance, PTL

\* No run ends OK with a gate whose control was not red in that run (by a
\* finding, unless it died or has no other way to say so) and which was not then
\* clean, or dark with leave: for every table, every script and every build
\* beside the run.
THEOREM GreenIsSeenRed == Spec => []GreenWasSeenRed
<1>1. IInv => GreenWasSeenRed
  <2> SUFFICES ASSUME IInv, exit = ExitPass, NEW g \in Gates
               PROVE  \/ rows[g].status \in CleanOf(g) /\ rows[g].control \in RedOf(g)
                      \/ rows[g].status = NotMeasured /\ g \in MayBeAbsent /\ ~strict
    BY DEF GreenWasSeenRed
  <2>1. Earned(g, rows[g])
    BY DEF IInv, OkCounts, AcceptedIsEarned
  <2>2. QED
    BY <2>1 DEF Earned, Leave
<1>2. QED
  BY <1>1, Invariance, PTL

\* A strict run that ends OK looked at something with every detector of every
\* gate that reports detectors.
THEOREM StrictIsMeasured == Spec => []StrictMeansMeasured
<1>1. IInv => StrictMeansMeasured
  <2> SUFFICES ASSUME IInv, exit = ExitPass, strict, NEW g \in Gates \ (Meta \cup Silent)
               PROVE  rows[g].status = Pass /\ rows[g].lit = Detectors
    BY DEF StrictMeansMeasured
  <2>1. Earned(g, rows[g])
    BY DEF IInv, OkCounts, AcceptedIsEarned
  <2>2. QED
    BY <2>1 DEF Earned, Leave
<1>2. QED
  BY <1>1, Invariance, PTL

-----------------------------------------------------------------------------
(***************************************************************************)
(* The refinement: a row is a judgement, the exit code the conclusion, a    *)
(* stray release apk the refusal, and everything else stutters.             *)
(***************************************************************************)
AbstractVerdict == [g \in Gates |-> VerdictOf(g)]

\* A row lets the run be OK exactly when the judgement it stands for does.
LEMMA SameVerdict ==
  ASSUME IInv, NEW g \in Gates
  PROVE  /\ AbstractVerdict[g] = "pending" <=> ~Judged(g)
         /\ Acceptable(g, rows[g]) <=>
              \/ AbstractVerdict[g] = "held"
              \/ AbstractVerdict[g] = "dark" /\ g \in Leave
<1>1. rows[g].code \in {ExitPass, ExitFail}
  BY DEF IInv, TypeOK, Row
<1>2. AbstractVerdict[g] = VerdictOf(g)
  BY DEF AbstractVerdict
<1>3. QED
  BY <1>1, <1>2 DEF VerdictOf, Judged, Acceptable, NotMeasured, ExitPass, ExitFail

LEMMA RefinesInit == Init => Abstract!Init
<1> SUFFICES ASSUME Init
             PROVE  Abstract!Init
  OBVIOUS
<1>1. \A g \in Gates : VerdictOf(g) = "pending"
  BY DEF Init, VerdictOf, Judged, NoRow
<1>2. (IF strict THEN {} ELSE MayBeAbsent) \subseteq Gates
  BY TableAssumption
<1>3. exit = Running
  BY DEF Init
<1>4. QED
  BY <1>1, <1>2, <1>3 DEF Abstract!Init

\* Writing the present gate's row, and no other, judges that gate.
LEMMA RefinesJudge ==
  ASSUME IInv, IInv', phase \in {"requires", "control", "real"},
         NEW row \in Row, row.status # "none",
         rows' = [rows EXCEPT ![Gate] = row],
         UNCHANGED <<strict, exit>>
  PROVE  Abstract!Next
<1> DEFINE g == Gate
<1>1. g \in Gates /\ at \in 1 .. Len(Order) /\ g = Order[at] /\ exit = Running
  BY TableFacts DEF IInv, Progress, Gate
<1>2. ~Judged(g)
  BY <1>1 DEF IInv, RowsSoFar
<1>3. rows'[g] = row /\ \A h \in Gates \ {g} : rows'[h] = rows[h]
  BY <1>1 DEF IInv, TypeOK
<1>4. \A h \in Gates \ {g} : VerdictOf(h)' = VerdictOf(h)
  BY <1>3 DEF VerdictOf, Judged
<1>5. PICK v \in {"held", "refused", "dark"} : \A h \in Gates : h = g => VerdictOf(h)' = v
  BY <1>1, <1>3 DEF VerdictOf, Judged
<1>6. [h \in Gates |-> VerdictOf(h)]' = [[h \in Gates |-> VerdictOf(h)] EXCEPT ![g] = v]
  BY <1>1, <1>4, <1>5
<1>7. VerdictOf(g) = "pending"
  BY <1>2 DEF VerdictOf
<1>8. Abstract!Judge(g)
  BY <1>1, <1>6, <1>7 DEF Abstract!Judge
<1>9. QED
  BY <1>1, <1>8 DEF Abstract!Next

LEMMA RefinesReport == IInv /\ Report => Abstract!Conclude
<1> SUFFICES ASSUME IInv, Report
             PROVE  Abstract!Conclude
  OBVIOUS
<1>1. exit = Running /\ phase = "end" /\ UNCHANGED <<strict, rows>>
      /\ exit' = IF ok THEN ExitPass ELSE ExitFail
  BY DEF Report
<1>2. \A g \in Gates : Judged(g)
  BY <1>1, AllJudged
<1>3. \A g \in Gates : AbstractVerdict[g] # "pending"
  BY <1>2, SameVerdict
<1>4. ok <=> \A g \in Gates : \/ AbstractVerdict[g] = "held"
                              \/ AbstractVerdict[g] = "dark" /\ g \in Leave
  BY <1>1, <1>2, SameVerdict DEF IInv, OkCounts
<1>5. AbstractVerdict' = AbstractVerdict
  BY <1>1 DEF AbstractVerdict, VerdictOf, Judged
<1>6. QED
  BY <1>1, <1>3, <1>4, <1>5
  DEF Abstract!Conclude, Abstract!Acceptable, AbstractVerdict, Leave,
      Running, ExitPass, ExitFail

LEMMA RefinesRefuse == IInv /\ StrayRelease => Abstract!Refuse
<1> SUFFICES ASSUME IInv, StrayRelease
             PROVE  Abstract!Refuse
  OBVIOUS
<1>1. at = 1 /\ exit = Running /\ exit' = ExitFail /\ UNCHANGED <<strict, rows>>
  BY DEF StrayRelease, IInv, Progress
<1>2. \A g \in Gates : ~Judged(g)
  BY <1>1, TableFacts DEF IInv, RowsSoFar
<1>3. \A g \in Gates : AbstractVerdict[g] = "pending"
  BY <1>2, SameVerdict
<1>4. AbstractVerdict' = AbstractVerdict
  BY <1>1 DEF AbstractVerdict, VerdictOf, Judged
<1>5. QED
  BY <1>1, <1>3, <1>4 DEF Abstract!Refuse, AbstractVerdict, Running, ExitPass, ExitFail

LEMMA RefinesStutter == UNCHANGED <<strict, rows, exit>> => UNCHANGED Abstract!vars
  BY DEF Abstract!vars, VerdictOf, Judged

LEMMA RefinesStep == IInv /\ IInv' /\ [Next]_vars => [Abstract!Next]_(Abstract!vars)
<1> SUFFICES ASSUME IInv, IInv', [Next]_vars
             PROVE  Abstract!Next \/ UNCHANGED Abstract!vars
  OBVIOUS
<1>1. CASE InputAbsent
  <2> DEFINE row == [NoRow EXCEPT !.status = NotMeasured]
  <2>1. row \in Row /\ row.status # "none"
    BY DEF NoRow, Row, Statuses, NotMeasured, ExitPass
  <2> HIDE DEF row
  <2>2. QED
    BY <1>1, <2>1, RefinesJudge DEF InputAbsent, row
<1>2. CASE ControlGreen
  <2> DEFINE row == [NoRow EXCEPT !.status = "NOT-A-GATE"]
  <2>1. row \in Row /\ row.status # "none"
    BY DEF NoRow, Row, Statuses, ExitPass
  <2> HIDE DEF row
  <2>2. QED
    BY <1>2, <2>1, RefinesJudge DEF ControlGreen, row
<1>3. CASE Proven
  <2> DEFINE row == [NoRow EXCEPT !.status = "PROVEN", !.control = control]
  <2>1. row \in Row /\ row.status # "none"
    BY DEF IInv, TypeOK, NoRow, Row, Statuses
  <2> HIDE DEF row
  <2>2. QED
    BY <1>3, <2>1, RefinesJudge DEF Proven, row
<1>4. CASE RealRun
  <2>1. PICK dets \in Results(Gate) :
          rows' = [rows EXCEPT ![Gate] =
                     [status |-> GateStatus(dets), control |-> control,
                      code |-> ExitCode(dets, strict), lit |-> Lit(dets)]]
    BY <1>4 DEF RealRun
  <2> DEFINE row == [status |-> GateStatus(dets), control |-> control,
                     code |-> ExitCode(dets, strict), lit |-> Lit(dets)]
  <2>2. strict \in BOOLEAN /\ control \in Statuses /\ Lit(dets) \subseteq Detectors
    BY ResultShape DEF IInv, TypeOK, Statuses, Lit
  <2>3. row \in Row /\ row.status # "none"
    BY <2>2, StatusShape, ExitShape DEF Row, Statuses, Pass, PassPartial, Fail
  <2>4. rows' = [rows EXCEPT ![Gate] = row]
    BY <2>1
  <2> HIDE DEF row
  <2>5. QED
    BY <1>4, <2>3, <2>4, RefinesJudge DEF RealRun
<1>5. CASE RealCrash
  <2> DEFINE row == [status |-> Crashed, control |-> control, code |-> ExitFail, lit |-> {}]
  <2>1. row \in Row /\ row.status # "none"
    BY DEF IInv, TypeOK, Row, Statuses, Crashed
  <2> HIDE DEF row
  <2>2. QED
    BY <1>5, <2>1, RefinesJudge DEF RealCrash, row
<1>6. CASE Report
  BY <1>6, RefinesReport DEF Abstract!Next
<1>7. CASE StrayRelease
  BY <1>7, RefinesRefuse DEF Abstract!Next
<1>8. CASE Resolve \/ InputPresent \/ ControlRed \/ Build \/ UNCHANGED vars
  BY <1>8, RefinesStutter DEF Resolve, InputPresent, ControlRed, Build, vars
<1>9. CASE SilentRun
  <2> DEFINE row == [NoRow EXCEPT !.status = Quiet, !.control = control]
  <2>1. row \in Row /\ row.status # "none"
    BY DEF IInv, TypeOK, NoRow, Row, Statuses, Quiet
  <2> HIDE DEF row
  <2>2. QED
    BY <1>9, <2>1, RefinesJudge DEF SilentRun, row
<1>10. QED
  BY <1>1, <1>2, <1>3, <1>4, <1>5, <1>6, <1>7, <1>8, <1>9 DEF Next, Step

\* The runner implements GateVerdict: one judgement for each gate, and OK
\* exactly when every judgement allows it, for every table and every script.
THEOREM RunnerImplementsVerdict == Spec => ImplementsVerdict
  BY RefinesInit, RefinesStep, Invariance, PTL DEF Spec, ImplementsVerdict, Abstract!Spec

-----------------------------------------------------------------------------
(***************************************************************************)
(* The documents' gates.  What a green run is worth follows from the       *)
(* documents being documents at all (WellFormed), which every edit keeps:  *)
(* the counts the detectors add up are of finite sets, so no finding means *)
(* nothing to find.                                                        *)
(***************************************************************************)

\* Nothing is found only where there is nothing to find.
LEMMA NoneFound ==
    ASSUME NEW S, IsFiniteSet(S), ~(Cardinality(S) > 0)
    PROVE  S = {}
  <1>1. Cardinality(S) \in Nat
    BY FS_CardinalityType
  <1> QED
    BY <1>1, FS_EmptySet

\* A run that may not go dark is green only if each detector looked at something
\* and found nothing.
LEMMA StrictRun ==
    ASSUME NEW dets, ExitCode(dets, TRUE) = ExitPass, NEW d \in DOMAIN dets
    PROVE  ~(dets[d].findings > 0) /\ dets[d].denominator # 0
  <1>1. GateStatus(dets) # Fail /\ GateStatus(dets) # PassPartial
    BY DEF ExitCode, ExitPass, ExitFail
  <1>2. DetectorStatus(dets[d]) \in {DetectorStatus(dets[n]) : n \in DOMAIN dets}
    OBVIOUS
  <1>3. DetectorStatus(dets[d]) # Fail /\ DetectorStatus(dets[d]) # NotMeasured
    BY <1>1, <1>2 DEF GateStatus
  <1> QED
    BY <1>3 DEF DetectorStatus, Fail, NotMeasured, Pass

LEMMA DocumentsFinite ==
    ASSUME WellFormed
    PROVE  /\ IsFiniteSet(claimed) /\ IsFiniteSet(blocked) /\ IsFiniteSet(observed)
           /\ IsFiniteSet(gates) /\ IsFiniteSet(sources)
           /\ IsFiniteSet(DOMAIN criteria) /\ IsFiniteSet(Citable)
           /\ IsFiniteSet(pending) /\ IsFiniteSet(recorded) /\ IsFiniteSet(tabled)
  <1>1. /\ IsFiniteSet(claimed) /\ IsFiniteSet(blocked) /\ IsFiniteSet(observed)
        /\ IsFiniteSet(gates) /\ IsFiniteSet(sources) /\ IsFiniteSet(DOMAIN criteria)
        /\ IsFiniteSet(pending) /\ IsFiniteSet(tabled)
    BY DocsAssumption, FS_Subset DEF WellFormed
  <1>2. IsFiniteSet(Citable)
    BY DocsAssumption, FS_Union DEF Citable
  <1>3. IsFiniteSet(recorded)
    BY DocsAssumption, FS_Union, FS_Subset DEF WellFormed
  <1> QED
    BY <1>1, <1>2, <1>3

\* What a gate counts is a number.
LEMMA LiveType ==
    ASSUME WellFormed, NEW p \in Places
    PROVE  Live(p) \in Nat
  <1>1. /\ Cardinality(sources) \in Nat /\ Cardinality(gates) \in Nat
        /\ Cardinality(blocked) \in Nat
    BY DocumentsFinite, FS_CardinalityType
  <1> QED
    BY <1>1 DEF Live, Places

\* A place that publishes what its gate counts earns no finding, and only such.
LEMMA PublishedIsLive ==
    ASSUME WellFormed, NEW places \in SUBSET Places,
           ~(CheckPublished(places, FALSE).findings > 0)
    PROVE  \A p \in places \cap DOMAIN counts : counts[p] = Live(p)
  <1> DEFINE found == places \cap DOMAIN counts
             stale == {p \in found : counts[p] + Plus(FALSE) # Live(p)}
  <1>1. CheckPublished(places, FALSE).findings = Cardinality(stale)
    BY DEF CheckPublished, Det
  <1>2. IsFiniteSet(stale)
    <2>1. IsFiniteSet(Places)
      <3>1. Places = {"api", "learn", "matrix", "readme", "own"}
        BY DEF Places, DenominatorRows, CountFiles, OwnRow
      <3>2. IsFiniteSet({"api"}) /\ IsFiniteSet({"learn"}) /\ IsFiniteSet({"matrix"})
            /\ IsFiniteSet({"readme"}) /\ IsFiniteSet({"own"})
        BY FS_Singleton
      <3>3. IsFiniteSet({"api"} \cup {"learn"} \cup {"matrix"} \cup {"readme"} \cup {"own"})
        BY <3>2, FS_Union
      <3>4. Places = {"api"} \cup {"learn"} \cup {"matrix"} \cup {"readme"} \cup {"own"}
        BY <3>1
      <3> QED
        BY <3>3, <3>4
    <2> QED
      BY <2>1, FS_Subset
  <1>3. stale = {}
    <2> HIDE DEF stale
    <2> QED
      BY <1>1, <1>2, NoneFound
  <1>4. \A p \in found : counts[p] + 0 = Live(p)
    BY <1>3 DEF Plus
  <1>5. \A p \in found : counts[p] \in Nat
    BY DEF WellFormed
  <1> QED
    BY <1>4, <1>5

\* Every detector of a run that ends OK.
LEMMA GreenRun ==
    ASSUME RunnerOK
    PROVE  \A d \in {CheckBlocked("none"), CheckDenominators(FALSE), CheckGateCount(FALSE),
                     CheckCriteria("none"), CheckCounts(FALSE)} :
              ~(d.findings > 0) /\ d.denominator # 0
  <1> DEFINE docs == [blocked      |-> CheckBlocked("none"),
                      denominators |-> CheckDenominators(FALSE),
                      gateCount    |-> CheckGateCount(FALSE)]
             dod  == [criteria |-> CheckCriteria("none"), counts |-> CheckCounts(FALSE)]
  <1>1. /\ ("none" = "denominator") = FALSE /\ ("none" = "gatecount") = FALSE
        /\ ("none" = "count") = FALSE
    OBVIOUS
  <1>2. Docs("none") = docs /\ Dod("none") = dod
    BY <1>1 DEF Docs, Dod
  <1>3. ExitCode(docs, TRUE) = ExitPass /\ ExitCode(dod, TRUE) = ExitPass
    BY <1>2 DEF RunnerOK
  <1>4. DOMAIN docs = {"blocked", "denominators", "gateCount"}
        /\ DOMAIN dod = {"criteria", "counts"}
    OBVIOUS
  <1>5. \A n \in {"blocked", "denominators", "gateCount"} :
           ~(docs[n].findings > 0) /\ docs[n].denominator # 0
    <2> HIDE DEF docs
    <2> QED
      BY <1>3, <1>4, StrictRun
  <1>6. \A n \in {"criteria", "counts"} :
           ~(dod[n].findings > 0) /\ dod[n].denominator # 0
    <2> HIDE DEF dod
    <2> QED
      BY <1>3, <1>4, StrictRun
  <1>7. /\ docs["blocked"] = CheckBlocked("none")
        /\ docs["denominators"] = CheckDenominators(FALSE)
        /\ docs["gateCount"] = CheckGateCount(FALSE)
        /\ dod["criteria"] = CheckCriteria("none") /\ dod["counts"] = CheckCounts(FALSE)
    OBVIOUS
  <1> HIDE DEF docs, dod
  <1> QED
    BY <1>5, <1>6, <1>7

\* The three detectors of check_docs.py, together.
LEMMA TablesAgree ==
    ASSUME WellFormed, RunnerOK
    PROVE  /\ hasList /\ claimed = blocked /\ blocked \cap observed = {}
  <1>1. ~(CheckBlocked("none").findings > 0) /\ CheckBlocked("none").denominator # 0
    BY GreenRun
  <1>2. CheckBlocked("none") =
           IF ~hasList THEN Det(0, 0)
           ELSE Det(Cardinality(blocked \ claimed) + Cardinality(claimed \ blocked)
                      + Cardinality(claimed \cap observed)
                      + Cardinality(blocked \cap observed),
                    Cardinality(claimed \cup blocked))
    BY DEF CheckBlocked
  <1>3. hasList
    BY <1>1, <1>2 DEF Det, WellFormed
  <1>4. /\ IsFiniteSet(blocked \ claimed) /\ IsFiniteSet(claimed \ blocked)
        /\ IsFiniteSet(claimed \cap observed) /\ IsFiniteSet(blocked \cap observed)
    BY DocumentsFinite, FS_Subset
  <1>5. /\ Cardinality(blocked \ claimed) \in Nat
        /\ Cardinality(claimed \ blocked) \in Nat
        /\ Cardinality(claimed \cap observed) \in Nat
        /\ Cardinality(blocked \cap observed) \in Nat
    BY <1>4, FS_CardinalityType
  <1>6. ~(Cardinality(blocked \ claimed) + Cardinality(claimed \ blocked)
            + Cardinality(claimed \cap observed)
            + Cardinality(blocked \cap observed) > 0)
    BY <1>1, <1>2, <1>3 DEF Det
  <1>7. /\ ~(Cardinality(blocked \ claimed) > 0)
        /\ ~(Cardinality(claimed \ blocked) > 0)
        /\ ~(Cardinality(blocked \cap observed) > 0)
    BY <1>5, <1>6
  <1>8. blocked \ claimed = {} /\ claimed \ blocked = {} /\ blocked \cap observed = {}
    BY <1>4, <1>7, NoneFound
  <1> QED
    BY <1>3, <1>8

LEMMA NumbersAgree ==
    ASSUME WellFormed, RunnerOK
    PROVE  \A p \in DOMAIN counts : counts[p] = Live(p)
  <1>1. /\ CountFiles \in SUBSET Places /\ DOMAIN counts \subseteq Places
        /\ DenominatorRows \cup {OwnRow} \in SUBSET Places
        /\ Places = CountFiles \cup (DenominatorRows \cup {OwnRow})
    BY DEF Places, WellFormed
  <1>2. \A p \in CountFiles \cap DOMAIN counts : counts[p] = Live(p)
    <2>1. ~(CheckPublished(CountFiles, FALSE).findings > 0)
      BY GreenRun DEF CheckGateCount
    <2> QED
      BY <1>1, <2>1, PublishedIsLive
  <1>3. \A p \in (DenominatorRows \cup {OwnRow}) \cap DOMAIN counts : counts[p] = Live(p)
    <2>1. ~(CheckPublished(DenominatorRows \cup {OwnRow}, FALSE).findings > 0)
      BY GreenRun DEF CheckDenominators
    <2> QED
      BY <1>1, <2>1, PublishedIsLive
  <1> QED
    BY <1>1, <1>2, <1>3

LEMMA DocumentsAgree ==
    ASSUME WellFormed
    PROVE  GreenDocumentsAgree
  <1> SUFFICES ASSUME RunnerOK
               PROVE  /\ claimed = blocked /\ blocked \cap observed = {}
                      /\ \A p \in DOMAIN counts :
                           counts[p] = CASE p \in CountFiles      -> Cardinality(gates)
                                         [] p = OwnRow            -> Cardinality(claimed)
                                         [] p \in DenominatorRows -> Cardinality(sources)
    BY DEF GreenDocumentsAgree
  <1>1. claimed = blocked /\ blocked \cap observed = {}
    BY TablesAgree
  <1>2. \A p \in DOMAIN counts : counts[p] = Live(p) /\ p \in Places
    BY NumbersAgree DEF WellFormed
  <1>3. /\ \A p \in CountFiles : Live(p) = Cardinality(gates)
        /\ Live(OwnRow) = Cardinality(blocked)
        /\ \A p \in DenominatorRows : Live(p) = Cardinality(sources)
    BY DEF Live, DenominatorRows, CountFiles, OwnRow
  <1>4. /\ OwnRow \notin CountFiles \cup DenominatorRows
        /\ CountFiles \cap DenominatorRows = {}
        /\ Places = CountFiles \cup DenominatorRows \cup {OwnRow}
    BY DEF Places, CountFiles, DenominatorRows, OwnRow
  <1> QED
    BY <1>1, <1>2, <1>3, <1>4

\* The rows of the criteria earn no finding, one by one.
LEMMA NoRowFindings ==
    ASSUME WellFormed, RunnerOK, NEW c \in DOMAIN criteria
    PROVE  ~(RowFindings(criteria[c]) > 0)
  <1> DEFINE bad == {r \in Rows : RowFindings(r) > 0}
  <1>1. ~(CheckCriteria("none").findings > 0)
    BY GreenRun
  <1>2. Planted("none") = {}
    BY DEF Planted
  <1>3. Rows # {} /\ criteria[c] \in Rows
    BY DEF Rows
  <1>4. CheckCriteria("none").findings = Cardinality(bad)
    <2>1. Rows \cup Planted("none") = Rows
      BY <1>2
    <2>2. CheckCriteria("none") = Det(Cardinality(bad), Cardinality(Rows))
      BY <1>3, <2>1 DEF CheckCriteria
    <2> QED
      BY <2>2 DEF Det
  <1>5. IsFiniteSet(Rows)
    <2>1. IsFiniteSet(DOMAIN criteria)
      BY DocumentsFinite
    <2> DEFINE f == [x \in DOMAIN criteria |-> criteria[x]]
    <2>2. f \in Surjection(DOMAIN criteria, Rows)
      <3>1. f \in [DOMAIN criteria -> Rows]
        BY DEF Rows
      <3>2. \A r \in Rows : \E x \in DOMAIN criteria : f[x] = r
        BY DEF Rows
      <3> HIDE DEF f
      <3> QED
        BY <3>1, <3>2 DEF Surjection
    <2> HIDE DEF f
    <2> QED
      BY <2>1, <2>2, FS_Surjection
  <1>6. bad = {}
    <2>1. IsFiniteSet(bad)
      BY <1>5, FS_Subset
    <2> HIDE DEF bad
    <2> QED
      BY <1>1, <1>4, <2>1, NoneFound
  <1> QED
    BY <1>3, <1>6

\* What a row without a finding has earned.
LEMMA CleanRow ==
    ASSUME WellFormed, NEW r \in [state : States, cites : SUBSET Citable],
           ~(RowFindings(r) > 0)
    PROVE  /\ r.cites \subseteq Resolvable
           /\ r.cites # {}
           /\ r.state = "WAIVED" => /\ r.cites \cap WaiverShaped # {}
                                   /\ r.cites \cap WaiverShaped \subseteq signed
           /\ r.state = "MET" => r.cites \cap NotRun = {}
  <1> DEFINE a == IF r.state \notin States THEN 1 ELSE 0
             b == IF r.cites = {} THEN 1 ELSE 0
             w == IF r.state = "WAIVED" /\ r.cites \cap WaiverShaped = {} THEN 1 ELSE 0
             v == IF r.state = "WAIVED" /\ ~(r.cites \cap WaiverShaped \subseteq signed)
                  THEN 1 ELSE 0
             p == Cardinality(r.cites \ Resolvable)
             m == Cardinality(r.cites \cap NotRun)
             u == IF r.state = "MET" THEN m ELSE 0
  <1>1. RowFindings(r) = a + b + w + v + p + u
    BY DEF RowFindings, Plus
  <1>2. IsFiniteSet(r.cites \ Resolvable) /\ IsFiniteSet(r.cites \cap NotRun)
    <2>1. r.cites \in SUBSET Citable
      OBVIOUS
    <2> QED
      BY <2>1, DocumentsFinite, FS_Subset
  <1>3. p \in Nat /\ m \in Nat
    BY <1>2, FS_CardinalityType
  <1>4. a \in Nat /\ b \in Nat /\ w \in Nat /\ v \in Nat
    OBVIOUS
  <1> HIDE DEF a, p, m
  <1>5. u \in Nat
    BY <1>3
  <1> HIDE DEF b, w, v, u
  <1>6. ~(b > 0) /\ ~(w > 0) /\ ~(v > 0) /\ ~(p > 0) /\ ~(u > 0)
    BY <1>1, <1>3, <1>4, <1>5
  <1>7. r.cites \ Resolvable = {}
    BY <1>2, <1>6, NoneFound DEF p
  <1>8. /\ r.cites # {}
        /\ r.state = "WAIVED" => /\ r.cites \cap WaiverShaped # {}
                                /\ r.cites \cap WaiverShaped \subseteq signed
    BY <1>6 DEF b, w, v
  <1>9. r.state = "MET" => r.cites \cap NotRun = {}
    BY <1>2, <1>6, NoneFound DEF u, m
  <1> QED
    BY <1>7, <1>8, <1>9

\* A verdict table the gate accepts is the one the tiers derive.
LEMMA VerdictsDerived ==
    ASSUME WellFormed, RunnerOK, NEW t \in Tiers
    PROVE  verdicts[t] = Derived(t)
  <1> DEFINE wrong == {x \in Tiers : verdicts[x] # Derived(x)}
  <1>1. CheckCounts(FALSE).findings = Cardinality(wrong)
    BY DEF CheckCounts, Det
  <1>2. ~(CheckCounts(FALSE).findings > 0)
    BY GreenRun
  <1>3. IsFiniteSet(wrong)
    <2>1. IsFiniteSet({"C"}) /\ IsFiniteSet({"R"}) /\ IsFiniteSet({"P"})
      BY FS_Singleton
    <2>2. IsFiniteSet({"C"} \cup {"R"} \cup {"P"})
      BY <2>1, FS_Union
    <2>3. wrong \in SUBSET ({"C"} \cup {"R"} \cup {"P"})
      BY DEF Tiers
    <2> QED
      BY <2>2, <2>3, FS_Subset
  <1>4. wrong = {}
    <2> HIDE DEF wrong
    <2> QED
      BY <1>1, <1>2, <1>3, NoneFound
  <1> QED
    BY <1>4

LEMMA VerdictsAreEarned ==
    ASSUME WellFormed
    PROVE  GreenVerdictsAreEarned
  <1> SUFFICES ASSUME RunnerOK, NEW t \in Tiers, verdicts[t].verdict = "MET",
                      NEW c \in InTier(t)
               PROVE  LET cites == criteria[c].cites IN
                        /\ cites # {}
                        /\ \/ /\ criteria[c].state = "MET"
                              /\ cites \cap (claimed \cup blocked \cup (pending \ observed)) = {}
                              /\ cites \subseteq
                                    gates \cup sources \cup tabled \cup observed \cup recorded
                           \/ /\ criteria[c].state = "WAIVED"
                              /\ cites \cap Waivers # {} /\ cites \cap Waivers \subseteq signed
    BY DEF GreenVerdictsAreEarned
  <1> DEFINE r == criteria[c]
  <1>1. c \in DOMAIN criteria /\ r \in [state : States, cites : SUBSET Citable]
    BY DEF InTier, WellFormed
  <1>2. InState(t, "NOT MET") = 0 /\ InState(t, "NOT RUN") = 0
    <2>1. verdicts[t] = Derived(t)
      BY VerdictsDerived
    <2>2. Derived(t).verdict = "MET"
      BY <2>1
    <2>3. Derived(t).verdict = IF InState(t, "NOT MET") = 0 /\ InState(t, "NOT RUN") = 0
                               THEN "MET" ELSE "NOT MET"
      BY DEF Derived
    <2> QED
      BY <2>2, <2>3
  <1>3. \A s \in {"NOT MET", "NOT RUN"} : r.state # s
    <2> SUFFICES ASSUME NEW s \in {"NOT MET", "NOT RUN"} PROVE r.state # s
      OBVIOUS
    <2> DEFINE those == {x \in InTier(t) : criteria[x].state = s}
    <2>1. Cardinality(those) = 0
      BY <1>2 DEF InState
    <2>2. IsFiniteSet(those)
      BY DocumentsFinite, FS_Subset DEF InTier
    <2>3. those = {}
      <3> HIDE DEF those
      <3> QED
        BY <2>1, <2>2, FS_EmptySet
    <2> QED
      BY <2>3
  <1>4. r.state \in {"MET", "WAIVED"}
    BY <1>1, <1>3 DEF States
  <1>5. ~(RowFindings(r) > 0)
    BY <1>1, NoRowFindings
  <1> HIDE DEF r
  <1>6. /\ r.cites \subseteq Resolvable /\ r.cites # {}
        /\ r.state = "WAIVED" => /\ r.cites \cap WaiverShaped # {}
                                /\ r.cites \cap WaiverShaped \subseteq signed
        /\ r.state = "MET" => r.cites \cap NotRun = {}
    BY <1>1, <1>5, CleanRow
  <1>7. claimed = blocked /\ blocked \cap observed = {}
    BY TablesAgree
  <1>8. CASE r.state = "MET"
    <2>1. r.cites \cap (blocked \cup (pending \ observed)) = {}
      BY <1>6, <1>7, <1>8 DEF NotRun
    <2>2. r.cites \subseteq gates \cup sources \cup tabled \cup observed \cup recorded
      BY <1>6, <2>1 DEF Resolvable, KnownGates, MatrixRows
    <2> QED
      BY <1>6, <1>7, <1>8, <2>1, <2>2 DEF r
  <1>9. CASE r.state = "WAIVED"
    <2>1. r.cites \cap WaiverShaped # {} /\ r.cites \cap WaiverShaped \subseteq signed
      BY <1>6, <1>9
    <2>2. signed \subseteq Waivers
      BY DEF WellFormed
    <2>3. r.cites \cap Waivers # {} /\ r.cites \cap Waivers \subseteq signed
      BY <2>1, <2>2 DEF WaiverShaped
    <2> QED
      BY <1>6, <1>9, <2>3 DEF r
  <1> QED
    BY <1>4, <1>8, <1>9

\* Every edit and every rewrite leaves documents.
LEMMA EditsKeepForm ==
    ASSUME WellFormed, [DocsNext]_documents
    PROVE  WellFormed'
  <1> USE DEF WellFormed, Edit, docVars, treeVars, dodVars
  <1>1. ASSUME NEW k \in Checks, MarkObserved(k) \/ EditBlockedTable(k)
                                     \/ EditReadiness(k) \/ EditPending(k)
        PROVE  WellFormed'
    <2>1. CASE MarkObserved(k)
      BY <2>1 DEF MarkObserved
    <2>2. CASE EditBlockedTable(k)
      BY <2>2 DEF EditBlockedTable
    <2>3. CASE EditReadiness(k)
      BY <2>3 DEF EditReadiness
    <2>4. CASE EditPending(k)
      BY <2>4 DEF EditPending
    <2> QED
      BY <1>1, <2>1, <2>2, <2>3, <2>4
  <1>2. CASE DropReadinessList
    <2>1. claimed' \subseteq Checks /\ hasList' \in BOOLEAN
      BY <1>2 DEF DropReadinessList
    <2> QED
      BY <1>2, <2>1 DEF DropReadinessList
  <1>3. ASSUME NEW g \in GateIds, EditRunner(g)
        PROVE  WellFormed'
    BY <1>3 DEF EditRunner
  <1>4. ASSUME NEW f \in Sources, EditSources(f)
        PROVE  WellFormed'
    BY <1>4 DEF EditSources
  <1>5. ASSUME NEW p \in Places, CopyCount(p) \/ RewordCount(p)
        PROVE  WellFormed'
    <2>1. CASE CopyCount(p)
      <3>1. Live(p) \in Nat
        BY LiveType
      <3>2. DOMAIN counts' = DOMAIN counts /\ counts' \in [DOMAIN counts -> Nat]
        BY <2>1, <3>1 DEF CopyCount
      <3> QED
        BY <2>1, <3>2 DEF CopyCount
    <2>2. CASE RewordCount(p)
      <3>1. counts' = [q \in DOMAIN counts \ {p} |-> counts[q]]
        BY <2>2 DEF RewordCount
      <3>2. DOMAIN counts' \subseteq Places /\ counts' \in [DOMAIN counts' -> Nat]
        BY <3>1
      <3> QED
        BY <2>2, <3>2 DEF RewordCount
    <2> QED
      BY <1>5, <2>1, <2>2
  <1>6. ASSUME NEW c \in Criteria, NEW s \in States, NEW ev \in Citations,
               EditCriterion(c, s, ev)
        PROVE  WellFormed'
    <2>1. CriterionRow(s, ev) \in [state : States, cites : SUBSET Citable]
      BY DocsAssumption DEF CriterionRow, Citable
    <2>2. /\ DOMAIN criteria' = DOMAIN criteria
          /\ criteria' \in [DOMAIN criteria -> [state : States, cites : SUBSET Citable]]
      BY <1>6, <2>1 DEF EditCriterion
    <2>3. criteria' \in [DOMAIN criteria' -> [state : States, cites : SUBSET Citable]]
      BY <2>2
    <2>4. DOMAIN criteria' \subseteq Criteria
      BY <2>2
    <2>5. /\ edits' \in Nat
          /\ UNCHANGED <<claimed, hasList, blocked, pending, observed, recorded, gates,
                         sources, counts, tabled, signed, verdicts>>
      BY <1>6 DEF EditCriterion
    <2> HIDE DEF Edit, docVars, treeVars, dodVars
    <2> QED
      BY <2>3, <2>4, <2>5
  <1>7. ASSUME NEW t \in Tiers, DropTier(t)
        PROVE  WellFormed'
    <2> DEFINE kept == DOMAIN criteria \ InTier(t)
    <2>1. criteria' = [c \in kept |-> criteria[c]]
      BY <1>7 DEF DropTier
    <2>2. kept \subseteq DOMAIN criteria
      OBVIOUS
    <2> HIDE DEF kept
    <2>3. /\ DOMAIN criteria' = kept
          /\ criteria' \in [kept -> [state : States, cites : SUBSET Citable]]
      BY <2>1, <2>2
    <2> QED
      BY <1>7, <2>2, <2>3 DEF DropTier
  <1>8. ASSUME NEW w \in Waivers, NEW here \in BOOLEAN, NEW complete \in BOOLEAN,
               EditWaiver(w, here, complete)
        PROVE  WellFormed'
    <2>1. tabled' \subseteq Waivers /\ signed' \subseteq tabled'
      BY <1>8 DEF EditWaiver
    <2> QED
      BY <1>8, <2>1 DEF EditWaiver
  <1>9. CASE FixDenominators
    <2>1. \A p \in DOMAIN counts : Live(p) \in Nat
      BY LiveType
    <2>2. DOMAIN counts' = DOMAIN counts /\ counts' \in [DOMAIN counts -> Nat]
      BY <1>9, <2>1 DEF FixDenominators, Rewritten
    <2> QED
      BY <1>9, <2>2 DEF FixDenominators
  <1>10. CASE FixCounts
    BY <1>10 DEF FixCounts
  <1>11. CASE UNCHANGED documents
    BY <1>11 DEF documents
  <1>12. ASSUME NEW x \in Checks \cup GateIds, EditRecorded(x)
         PROVE  WellFormed'
    BY <1>12 DEF EditRecorded
  <1> QED
    BY <1>1, <1>2, <1>3, <1>4, <1>5, <1>6, <1>7, <1>8, <1>9, <1>10, <1>11, <1>12 DEF DocsNext

LEMMA AlwaysWellFormed == DocsSpec => []WellFormed
  <1>1. WellFormed /\ [DocsNext]_documents => WellFormed'
    BY EditsKeepForm
  <1> QED
    BY <1>1, PTL DEF DocsSpec

\* No edit is a rewrite: each is counted.
LEMMA EditsAreCounted ==
    ASSUME WellFormed, DocsNext, edits' = edits
    PROVE  FixDenominators \/ FixCounts
  <1>1. edits + 1 # edits
    BY DEF WellFormed
  <1>2. ~Edit
    BY <1>1 DEF Edit
  <1> QED
    BY <1>2 DEF DocsNext, MarkObserved, EditBlockedTable, EditReadiness, DropReadinessList,
                EditPending, EditRecorded, EditRunner, EditSources, CopyCount, RewordCount,
                EditCriterion, DropTier, EditWaiver

LEMMA FixDenominatorsSettlesNumbers ==
    ASSUME WellFormed, FixDenominators
    PROVE  CheckDenominators(FALSE).findings' = 0
  <1> DEFINE places == (DenominatorRows \cup {OwnRow}) \cap DOMAIN counts
             stale == {p \in places : counts[p] + Plus(FALSE) # Live(p)}
  <1>1. \A p \in places : counts'[p] = Live(p)
    BY DEF FixDenominators, Rewritten, DenominatorRows, CountFiles, OwnRow
  <1>2. \A p \in places : Live(p)' = Live(p) /\ Live(p) \in Nat
    <2>1. \A p \in places : Live(p) \in Nat
      BY LiveType DEF Places
    <2>2. \A p \in places : Live(p)' = Live(p)
      BY DEF FixDenominators, Live, docVars, treeVars
    <2> QED
      BY <2>1, <2>2
  <1>3. stale' = {}
    <2>1. \A p \in places : counts'[p] + 0 = Live(p)'
      BY <1>1, <1>2
    <2>2. DOMAIN counts' = DOMAIN counts
      BY DEF FixDenominators, Rewritten
    <2> QED
      BY <2>1, <2>2 DEF Plus
  <1>4. CheckDenominators(FALSE).findings' = Cardinality(stale')
    BY DEF CheckDenominators, CheckPublished, Det
  <1> QED
    BY <1>3, <1>4, FS_EmptySet

LEMMA FixCountsSettlesVerdicts ==
    ASSUME WellFormed, FixCounts
    PROVE  CheckCounts(FALSE).findings' = 0
  <1> DEFINE wrong == {t \in Tiers : verdicts[t] # Derived(t)}
  <1>1. \A t \in Tiers : verdicts'[t] = Derived(t)
    BY DEF FixCounts
  <1>2. \A t \in Tiers : Derived(t)' = Derived(t)
    BY DEF FixCounts, Derived, InState, InTier
  <1>3. wrong' = {}
    BY <1>1, <1>2
  <1>4. CheckCounts(FALSE).findings' = Cardinality(wrong')
    BY DEF CheckCounts, Det
  <1> QED
    BY <1>3, <1>4, FS_EmptySet

\* Neither rewrite touches what the tables disagree about.
LEMMA FixesLeaveTables ==
    ASSUME FixDenominators \/ FixCounts
    PROVE  /\ CheckBlocked("none")' = CheckBlocked("none")
           /\ CheckCriteria("none")' = CheckCriteria("none")
  <1>1. UNCHANGED <<claimed, hasList, blocked, pending, observed, recorded, gates, sources,
                    criteria, tabled, signed>>
    BY DEF FixDenominators, FixCounts, docVars, treeVars, dodVars
  <1>2. CheckBlocked("none")' = CheckBlocked("none")
    BY <1>1 DEF CheckBlocked
  <1>3. Rows' = Rows /\ Resolvable' = Resolvable /\ NotRun' = NotRun
    BY <1>1 DEF Rows, Resolvable, KnownGates, NotRun, MatrixRows
  <1>4. \A r : RowFindings(r)' = RowFindings(r)
    BY <1>1, <1>3 DEF RowFindings
  <1>5. CheckCriteria("none")' = CheckCriteria("none")
    BY <1>3, <1>4 DEF CheckCriteria, Planted
  <1> QED
    BY <1>2, <1>5

\* However the documents are edited, and whatever they said to begin with: when the
\* runner's verdict on both gates is OK, a tier the table calls MET has every
\* criterion met on evidence that resolves and of which nothing waits for a phone,
\* or waived by waivers that are all signed (check_dod.py, check_docs.py).
THEOREM GreenTiersAreEarned == DocsSpec => []GreenVerdictsAreEarned
  <1>1. WellFormed => GreenVerdictsAreEarned
    BY VerdictsAreEarned
  <1> QED
    BY <1>1, AlwaysWellFormed, PTL

\* And then no published number is stale, and no check is both waiting for a phone
\* and recorded as done on one (check_docs.py, its three detectors together).
THEOREM GreenPapersAgree == DocsSpec => []GreenDocumentsAgree
  <1>1. WellFormed => GreenDocumentsAgree
    BY DocumentsAgree
  <1> QED
    BY <1>1, AlwaysWellFormed, PTL

\* The two rewriting modes settle their own numbers and nothing between the tables,
\* whatever state the documents are in (check_docs.py --fix-denominators,
\* check_dod.py --fix-counts).
THEOREM RewritesHideNothing == DocsSpec => FixesHideNothing
  <1> DEFINE Hides == edits' = edits =>
                        /\ CheckBlocked("none")' = CheckBlocked("none")
                        /\ CheckCriteria("none")' = CheckCriteria("none")
                        /\ \/ CheckDenominators(FALSE).findings' = 0
                           \/ CheckCounts(FALSE).findings' = 0
  <1>1. WellFormed /\ [DocsNext]_documents => [Hides]_documents
    <2> SUFFICES ASSUME WellFormed, DocsNext, edits' = edits
                 PROVE  /\ CheckBlocked("none")' = CheckBlocked("none")
                        /\ CheckCriteria("none")' = CheckCriteria("none")
                        /\ \/ CheckDenominators(FALSE).findings' = 0
                           \/ CheckCounts(FALSE).findings' = 0
      OBVIOUS
    <2>1. FixDenominators \/ FixCounts
      BY EditsAreCounted
    <2>2. /\ CheckBlocked("none")' = CheckBlocked("none")
          /\ CheckCriteria("none")' = CheckCriteria("none")
      BY <2>1, FixesLeaveTables
    <2> QED
      BY <2>1, <2>2, FixDenominatorsSettlesNumbers, FixCountsSettlesVerdicts
  <1> QED
    BY <1>1, AlwaysWellFormed, PTL DEF DocsSpec, FixesHideNothing
=============================================================================
