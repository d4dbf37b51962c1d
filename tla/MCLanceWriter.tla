--------------------------- MODULE MCLanceWriter ----------------------------
(***************************************************************************)
(* Instances of LanceWriter for TLC.  The run that checks liveness uses no *)
(* symmetry, although tracks and workers are only names.                   *)
(***************************************************************************)
EXTENDS LanceWriter, TLC

=============================================================================
