--------------------------- MODULE MCLibraryScan ---------------------------
(***************************************************************************)
(* The instance of LibraryScan for TLC.                                    *)
(***************************************************************************)
EXTENDS LibraryScan, TLC

=============================================================================
