---------------------------- MODULE MCSettings ----------------------------
(* Instances of Settings for TLC; the constants are in the .cfg files.     *)
EXTENDS Settings
=============================================================================
