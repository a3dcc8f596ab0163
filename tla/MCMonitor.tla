----------------------------- MODULE MCMonitor -----------------------------
(***************************************************************************)
(* Small instances of Monitor: no delay, an ordinary interval and one above*)
(* the backoff cap; enough cycles for the second notice after failures.    *)
(***************************************************************************)
EXTENDS Monitor

Line(base, runs, continuous, skip) ==
    [base |-> base, maxRuns |-> runs, continuous |-> continuous, skip |-> skip]

\* Runs that fail, succeed and wake up late.
AnyRequests ==
    {Line(0, 3, FALSE, FALSE), Line(1, 0, FALSE, FALSE), Line(5, 3, FALSE, FALSE),
     Line(500, 3, FALSE, FALSE), Line(2, 0, TRUE, FALSE), Line(0, 2, FALSE, TRUE),
     Line(2, 0, TRUE, TRUE)}
=============================================================================
