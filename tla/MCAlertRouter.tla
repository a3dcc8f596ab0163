--------------------------- MODULE MCAlertRouter ---------------------------
(***************************************************************************)
(* Small instances of AlertRouter; the times are in the configurations.    *)
(***************************************************************************)
EXTENDS AlertRouter
=============================================================================
