------------------------------- MODULE GateLib -------------------------------
(***************************************************************************)
(* How every repository gate reports itself (scripts/gatelib.py).  A gate  *)
(* script runs a few detectors.  A detector carries the number of findings *)
(* it made and its denominator, the number of things it looked at; a       *)
(* script's result is a function from detector names to detectors.         *)
(***************************************************************************)
EXTENDS Naturals

Fail        == "FAIL"
Pass        == "PASS"
PassPartial == "PASS-PARTIAL"
NotMeasured == "NOT-MEASURED"

ExitPass == 0
ExitFail == 1

Det(findings, denominator) ==
    [findings |-> findings, denominator |-> denominator]

\* A detector that takes the absence of findings for a clean result.
DetectorStatusNoZero(d) == IF d.findings > 0 THEN Fail ELSE Pass

\* Zero examined is not clean, it is unmeasured.
DetectorStatus(d) ==
    IF d.findings > 0 THEN Fail
    ELSE IF d.denominator = 0 THEN NotMeasured ELSE Pass

GateStatus(dets) ==
    LET statuses == {DetectorStatus(dets[n]) : n \in DOMAIN dets}
    IN  IF Fail \in statuses THEN Fail
        ELSE IF NotMeasured \in statuses THEN PassPartial ELSE Pass

\* report(): strict turns PASS-PARTIAL into a failure.
ExitCode(dets, strict) ==
    IF \/ GateStatus(dets) = Fail
       \/ GateStatus(dets) = PassPartial /\ strict
    THEN ExitFail ELSE ExitPass
=============================================================================
