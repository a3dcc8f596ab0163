--------------------------- MODULE ScanLifecycle ---------------------------
(***************************************************************************)
(* What run_scan_session promises the code that calls it: one request is   *)
(* either rejected before anything is probed, or accepted; an accepted     *)
(* session delivers probe results and then ends exactly once.  When its    *)
(* outcome is decided, it is "completed" only if nobody has asked it to    *)
(* stop, "cancelled" only if somebody has cancelled, "paused" only if      *)
(* somebody has paused and nobody cancelled, and it fails only while it    *)
(* has no results to lose.  A request made after that comes too late.      *)
(* ScanSession is shown to implement this module.                          *)
(***************************************************************************)
EXTENDS Naturals

VARIABLES
    cancel,     \* a caller has set ScanCancellation::requested
    pause,      \* a caller has set ScanCancellation::pause_requested
    status,     \* how the session stands, or how it ended
    delivered   \* how many probe results the session holds

avars == <<cancel, pause, status, delivered>>

Ended == {"completed", "cancelled", "paused", "failed", "rejected"}

Init ==
    /\ cancel = FALSE /\ pause = FALSE
    /\ status = "none"
    /\ delivered = 0

Ask ==
    /\ \/ cancel' = TRUE /\ pause' = pause
       \/ pause' = TRUE /\ cancel' = cancel
    /\ UNCHANGED <<status, delivered>>

Accept ==
    /\ status = "none"
    /\ ~cancel /\ ~pause
    /\ status' = "running"
    /\ UNCHANGED <<cancel, pause, delivered>>

Reject ==
    /\ status = "none"
    /\ status' = "rejected"
    /\ UNCHANGED <<cancel, pause, delivered>>

Deliver ==
    /\ status = "running"
    /\ delivered' \in Nat /\ delivered' > delivered
    /\ UNCHANGED <<cancel, pause, status>>

Halt ==
    /\ status = "running"
    /\ cancel \/ pause
    /\ status' = IF cancel THEN "cancelled" ELSE "paused"
    /\ UNCHANGED <<cancel, pause, delivered>>

Complete ==
    /\ status = "running"
    /\ ~cancel /\ ~pause
    /\ status' = "completed"
    /\ UNCHANGED <<cancel, pause, delivered>>

Fail ==
    /\ status = "running"
    /\ delivered = 0
    /\ status' = "failed"
    /\ UNCHANGED <<cancel, pause, delivered>>

End == Halt \/ Complete \/ Fail

Next == Ask \/ Accept \/ Reject \/ Deliver \/ End

SafetySpec == Init /\ [][Next]_avars

Spec == SafetySpec /\ WF_avars(Accept \/ Reject) /\ WF_avars(End)
=============================================================================
