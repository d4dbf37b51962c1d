----------------------------- MODULE MCEmbedJob -----------------------------
(***************************************************************************)
(* Instances of EmbedJob for TLC.  The run that checks liveness uses no    *)
(* symmetry, although tracks and workers are only names.                   *)
(***************************************************************************)
EXTENDS EmbedJob, TLC

=============================================================================
