-------------------------- MODULE MCScannerWindow --------------------------
(***************************************************************************)
(* Small instances of ScannerWindow: two devices, one port, a start by     *)
(* hand and one with all timers set.                                       *)
(***************************************************************************)
EXTENDS ScannerWindow

Both == {<<>>, <<"scan", "ports", "report", "exit">>}
=============================================================================
